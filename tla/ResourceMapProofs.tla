------------------------- MODULE ResourceMapProofs -------------------------
(***************************************************************************)
(* Theorems about malloc and mfree for every size of the memory, every     *)
(* hole in it and every pattern of requests.                               *)
(***************************************************************************)
EXTENDS ResourceMap, SequenceTheorems, WellFoundedInduction, FiniteSetTheorems, TLAPS

Entries == [addr : 1 .. Units, size : 1 .. Units]

(* A set of naturals that is not empty has a least element.                *)
LEMMA Least ==
  ASSUME NEW T, T \subseteq Nat, T # {}
  PROVE  \E x \in T : \A y \in T : x <= y
<1>1. PICK x \in T : \A y \in T : ~ (<<y, x>> \in OpToRel(<, Nat))
  BY NatLessThanWellFounded, WFMin
<1>2. \A y \in T : ~ (y < x)
  BY <1>1 DEF OpToRel
<1>3. QED BY <1>2

(* The entries of a map as the prover needs them.                          *)
LEMMA MapFacts ==
  ASSUME NEW m, IsMap(m)
  PROVE  /\ m \in Seq(Entries) /\ Len(m) \in Nat /\ DOMAIN m = 1 .. Len(m)
         /\ \A i \in 1 .. Len(m) :
              /\ m[i] = Entry(m[i].addr, m[i].size)
              /\ m[i].addr \in Nat /\ m[i].size \in Nat
              /\ m[i].addr >= 1 /\ m[i].size >= 1
              /\ m[i].addr + m[i].size <= Units + 1
         /\ \A i, j \in 1 .. Len(m) : i < j => m[i].addr + m[i].size < m[j].addr
<1>1. m \in Seq(Entries) /\ Len(m) \in Nat /\ DOMAIN m = 1 .. Len(m)
  BY DEF IsMap, Entries
<1>2. \A i \in 1 .. Len(m) : m[i] \in Entries
  BY <1>1, ElementOfSeq
<1>3. \A i \in 1 .. Len(m) :
        /\ m[i] = Entry(m[i].addr, m[i].size)
        /\ m[i].addr \in Nat /\ m[i].size \in Nat
        /\ m[i].addr >= 1 /\ m[i].size >= 1
  BY <1>2, UnitsAssumption DEF Entries, Entry
<1>4. QED BY <1>1, <1>3 DEF IsMap

(* The units of an entry are counted.                                      *)
LEMMA EntryNat ==
  ASSUME NEW m, IsMap(m), NEW j \in 1 .. Len(m)
  PROVE  /\ m[j].addr \in Nat /\ m[j].size \in Nat
         /\ m[j].addr + m[j].size \in Nat
BY MapFacts

(* An entry ends before a later one does.                                  *)
LEMMA EntryOrder ==
  ASSUME NEW m, IsMap(m), NEW j \in 1 .. Len(m), NEW k \in 1 .. Len(m), j < k
  PROVE  m[j].addr + m[j].size <= m[k].addr + m[k].size
<1>1. m[j].addr + m[j].size < m[k].addr
  BY MapFacts
<1>2. m[k].addr \in Nat /\ m[k].size \in Nat /\ m[j].addr + m[j].size \in Nat
  BY EntryNat
<1>3. QED BY <1>1, <1>2

(* The extent of an entry, by its ends.                                    *)
LEMMA ExtentFacts ==
  ASSUME NEW e, e.addr \in Nat, e.size \in Nat, NEW u \in 1 .. Units
  PROVE  u \in Extent(e) <=> e.addr <= u /\ u < e.addr + e.size
BY UnitsAssumption DEF Extent

(* The entry e that mfree makes of two, x and y, when what is freed is all *)
(* that lies between them.                                                 *)
Joins(e, x, n, y) ==
  /\ x.addr \in Nat /\ x.size \in Nat /\ x.addr >= 1 /\ x.size >= 1
  /\ y.addr \in Nat /\ y.size \in Nat /\ y.addr + y.size <= Units + 1
  /\ e.addr = x.addr /\ e.size = x.size + n + y.size

(* e ends where y does, and is an entry of a map.                           *)
LEMMA JoinedSize ==
  ASSUME NEW e, NEW x, NEW y, NEW n \in Nat, Joins(e, x, n, y),
         (x.addr + x.size) + n = y.addr
  PROVE  /\ e.addr + e.size = y.addr + y.size
         /\ e.addr \in 1 .. Units /\ e.size \in 1 .. Units
<1>1. e.addr + e.size = y.addr + y.size
  BY DEF Joins
<1>2. e.addr \in Nat /\ e.size \in Nat /\ e.addr >= 1 /\ e.size >= 1
  BY DEF Joins
<1>3. e.addr + e.size <= Units + 1
  BY <1>1 DEF Joins
<1>4. QED BY <1>1, <1>2, <1>3, UnitsAssumption

(* What e covers is x, y and what lies between.                            *)
LEMMA JoinedExtent ==
  ASSUME NEW e, NEW x, NEW y, NEW n \in Nat, NEW a \in Nat, Joins(e, x, n, y),
         x.addr + x.size = a, a + n = y.addr, NEW u \in 1 .. Units
  PROVE  u \in Extent(e) <=> \/ u \in Extent(x) \/ u \in Extent(y)
                            \/ u \in a .. a + n - 1
<1>1. e.addr + e.size = y.addr + y.size /\ e.addr = x.addr
  BY DEF Joins
<1>2. /\ u \in Nat /\ e.addr \in Nat /\ e.size \in Nat
      /\ x.addr \in Nat /\ x.size \in Nat /\ y.addr \in Nat /\ y.size \in Nat
  BY UnitsAssumption DEF Joins
<1>3. /\ u \in Extent(e) <=> x.addr <= u /\ u < y.addr + y.size
      /\ u \in Extent(x) <=> x.addr <= u /\ u < a
      /\ u \in Extent(y) <=> a + n <= u /\ u < y.addr + y.size
  BY <1>1, <1>2, ExtentFacts
<1>4. QED BY <1>2, <1>3

(* malloc finds the first entry that is large enough, if there is one.     *)
LEMMA FirstFitFound ==
  ASSUME NEW m, IsMap(m), NEW n \in Nat, Fits(m, n)
  PROVE  /\ FirstFit(m, n) \in 1 .. Len(m)
         /\ m[FirstFit(m, n)].size >= n
<1> DEFINE T == {i \in 1 .. Len(m) : m[i].size >= n}
<1>1. T \subseteq Nat /\ T # {}
  BY DEF Fits
<1>2. PICK i \in T : \A j \in T : i <= j
  BY <1>1, Least
<1>3. \A j \in 1 .. Len(m) : m[j].size \in Nat
  BY MapFacts
<1>4. \A j \in 1 .. i - 1 : j \in 1 .. Len(m) /\ j \notin T
  BY <1>2
<1>5. \A j \in 1 .. i - 1 : m[j].size < n
  BY <1>3, <1>4
<1>6. QED BY <1>2, <1>5 DEF FirstFit

(* mfree finds where an address belongs.                                   *)
LEMMA PlaceFound ==
  ASSUME NEW m, IsMap(m), NEW a \in Nat
  PROVE  /\ Place(m, a) \in 1 .. Len(m) + 1
         /\ \A j \in 1 .. Place(m, a) - 1 : m[j].addr <= a
         /\ Place(m, a) <= Len(m) => m[Place(m, a)].addr > a
<1> DEFINE T == {i \in 1 .. Len(m) + 1 : i <= Len(m) => m[i].addr > a}
<1>0. m \in Seq(Entries) /\ Len(m) \in Nat
  BY DEF IsMap, Entries
<1>1. T \subseteq Nat /\ Len(m) + 1 \in T
  BY <1>0
<1>2. PICK i \in T : \A j \in T : i <= j
  BY <1>1, Least
<1>3. \A j \in 1 .. Len(m) : m[j].addr \in Nat
  BY MapFacts
<1>4. \A j \in 1 .. i - 1 : j \in 1 .. Len(m) /\ j \notin T
  BY <1>0, <1>1, <1>2
<1>5. \A j \in 1 .. i - 1 : m[j].addr <= a
  BY <1>3, <1>4
<1>6. QED BY <1>2, <1>5 DEF Place

(* What shifting the entries does.                                         *)
LEMMA CloseFacts ==
  ASSUME NEW m \in Seq(Entries), NEW i \in 1 .. Len(m)
  PROVE  /\ Close(m, i) \in Seq(Entries)
         /\ Len(Close(m, i)) = Len(m) - 1
         /\ \A j \in 1 .. Len(m) - 1 :
              Close(m, i)[j] = IF j < i THEN m[j] ELSE m[j + 1]
<1> DEFINE c == Close(m, i)
<1>1. /\ Len(m) - 1 \in Nat /\ DOMAIN c = 1 .. Len(m) - 1
      /\ \A j \in 1 .. Len(m) - 1 : c[j] = IF j < i THEN m[j] ELSE m[j + 1]
  BY DEF Close
<1>2. \A j \in 1 .. Len(m) - 1 : c[j] \in Entries
  BY <1>1, ElementOfSeq
<1>3. c \in Seq(Entries) /\ Len(c) = Len(m) - 1
  BY <1>1, <1>2, IsASeq DEF Close
<1>4. QED BY <1>1, <1>3

LEMMA InsertFacts ==
  ASSUME NEW m \in Seq(Entries), NEW i \in 1 .. Len(m) + 1, NEW e \in Entries
  PROVE  /\ Insert(m, i, e) \in Seq(Entries)
         /\ Len(Insert(m, i, e)) = Len(m) + 1
         /\ \A j \in 1 .. Len(m) + 1 :
              Insert(m, i, e)[j] =
                IF j < i THEN m[j] ELSE IF j = i THEN e ELSE m[j - 1]
<1> DEFINE c == Insert(m, i, e)
<1>1. /\ Len(m) + 1 \in Nat /\ DOMAIN c = 1 .. Len(m) + 1
      /\ \A j \in 1 .. Len(m) + 1 :
           c[j] = IF j < i THEN m[j] ELSE IF j = i THEN e ELSE m[j - 1]
  BY DEF Insert
<1>2. \A j \in 1 .. Len(m) + 1 : c[j] \in Entries
  BY <1>1, ElementOfSeq
<1>3. c \in Seq(Entries) /\ Len(c) = Len(m) + 1
  BY <1>1, <1>2, IsASeq DEF Insert
<1>4. QED BY <1>1, <1>3

(* malloc's remaining map is a map again; it and the space handed out are  *)
(* what was free, and do not overlap.                                      *)
LEMMA MallocSound ==
  ASSUME NEW m, IsMap(m), NEW n \in 1 .. Units, Fits(m, n)
  PROVE  LET a == MallocAddr(m, n)
             r == MallocRest(m, n)
         IN  /\ a \in 1 .. Units /\ a + n <= Units + 1
             /\ IsMap(r)
             /\ \A u \in 1 .. Units :
                  /\ InMap(m, u) <=> InMap(r, u) \/ u \in Extent(Entry(a, n))
                  /\ ~ (InMap(r, u) /\ u \in Extent(Entry(a, n)))
<1> DEFINE i == FirstFit(m, n)
           a == MallocAddr(m, n)
           r == MallocRest(m, n)
<1>1. i \in 1 .. Len(m) /\ m[i].size >= n /\ n \in Nat /\ n >= 1
  BY FirstFitFound, UnitsAssumption
<1>2. a = m[i].addr
  BY DEF MallocAddr
<1>m. /\ m \in Seq(Entries) /\ Len(m) \in Nat /\ DOMAIN m = 1 .. Len(m)
      /\ \A j \in 1 .. Len(m) :
           /\ m[j] = Entry(m[j].addr, m[j].size)
           /\ m[j].addr \in Nat /\ m[j].size \in Nat
           /\ m[j].addr >= 1 /\ m[j].size >= 1
           /\ m[j].addr + m[j].size <= Units + 1
      /\ \A j, k \in 1 .. Len(m) : j < k => m[j].addr + m[j].size < m[k].addr
  BY MapFacts
<1>3. a \in 1 .. Units /\ a + n <= Units + 1
  BY <1>1, <1>2, <1>m, UnitsAssumption
<1>r. r = IF m[i].size = n THEN Close(m, i)
          ELSE [m EXCEPT ![i] = Entry(m[i].addr + n, m[i].size - n)]
  BY DEF MallocRest
<1> HIDE DEF i, a, r
<1>4. CASE m[i].size = n
  <2>1. /\ r \in Seq(Entries) /\ Len(r) = Len(m) - 1
        /\ \A j \in 1 .. Len(m) - 1 : r[j] = IF j < i THEN m[j] ELSE m[j + 1]
    <3>1. r = Close(m, i) /\ i \in 1 .. Len(m) /\ m \in Seq(Entries)
      BY <1>1, <1>4, <1>m, <1>r
    <3>2. QED BY <3>1, CloseFacts
  <2> DEFINE from(j) == IF j < i THEN j ELSE j + 1
  <2>f. \A j \in 1 .. Len(r) : from(j) \in 1 .. Len(m) /\ from(j) # i /\ r[j] = m[from(j)]
    BY <2>1, <1>1, <1>m
  <2>o. \A j, k \in 1 .. Len(r) : j < k => from(j) < from(k)
    BY <2>1, <1>1, <1>m
  <2> HIDE DEF from
  <2>2. \A j, k \in 1 .. Len(r) : j < k => r[j].addr + r[j].size < r[k].addr
    BY <2>f, <2>o, <1>m
  <2>3. \A j \in 1 .. Len(r) : r[j].addr + r[j].size <= Units + 1
    BY <2>f, <1>m
  <2>4. IsMap(r)
    BY <2>1, <2>2, <2>3 DEF IsMap, Entries
  <2>5. ASSUME NEW u \in 1 .. Units, InMap(m, u)
        PROVE  InMap(r, u) \/ u \in Extent(Entry(a, n))
    <3>1. PICK k \in 1 .. Len(m) : u \in Extent(m[k])
      BY <2>5 DEF InMap
    <3>2. CASE k < i
      BY SMTT(40), <3>1, <3>2, <2>1, <1>1, <1>m DEF InMap
    <3>3. CASE k = i
      BY <3>1, <3>3, <1>1, <1>2, <1>4, <1>m DEF Extent, Entry
    <3>4. CASE k > i
      <4>1. k - 1 \in 1 .. Len(r) /\ r[k - 1] = m[k]
        BY <3>1, <3>4, <2>1, <1>1, <1>m
      <4>2. QED BY <4>1, <3>1 DEF InMap
    <3>5. QED BY <3>2, <3>3, <3>4, <1>1
  <2>6. ASSUME NEW u \in 1 .. Units, u \in Extent(Entry(a, n))
        PROVE  InMap(m, u) /\ ~ InMap(r, u)
    <3>1. m[i].addr <= u /\ u <= m[i].addr + m[i].size - 1
      BY <2>6, <1>1, <1>2, <1>4, <1>m DEF Extent, Entry
    <3>2. InMap(m, u)
      BY SMTT(40), <3>1, <1>1, <1>m DEF InMap, Extent
    <3>3. ASSUME NEW k \in 1 .. Len(r), u \in Extent(r[k]) PROVE FALSE
      <4>1. PICK j \in 1 .. Len(m) : j # i /\ u \in Extent(m[j])
        BY <3>3, <2>f
      <4>2. m[j].addr <= u /\ u < m[j].addr + m[j].size
        BY <4>1, <1>m DEF Extent
      <4>3. CASE j < i
        BY SMTT(40), <4>2, <4>3, <3>1, <1>1, <1>m
      <4>4. CASE i < j
        BY SMTT(40), <4>2, <4>4, <3>1, <1>1, <1>m
      <4>5. QED BY <4>1, <4>3, <4>4, <1>1
    <3>4. QED BY <3>2, <3>3 DEF InMap
  <2>7. ASSUME NEW u \in 1 .. Units, InMap(r, u) PROVE InMap(m, u)
    BY <2>7, <2>1, <1>1, <1>m DEF InMap
  <2>8. QED BY <1>3, <2>4, <2>5, <2>6, <2>7 DEF a, r
<1>5. CASE m[i].size # n
  <2> DEFINE e == Entry(m[i].addr + n, m[i].size - n)
  <2>0. e \in Entries /\ e.addr = m[i].addr + n /\ e.size = m[i].size - n
    <3>1. m[i].addr + n \in 1 .. Units /\ m[i].size - n \in 1 .. Units
      BY SMTT(40), <1>1, <1>5, <1>m, UnitsAssumption
    <3>2. QED BY <3>1 DEF Entry, Entries
  <2> HIDE DEF e
  <2>1. /\ r \in Seq(Entries) /\ Len(r) = Len(m)
        /\ \A j \in 1 .. Len(m) : r[j] = IF j = i THEN e ELSE m[j]
    BY <1>1, <1>5, <1>m, <1>r, <2>0, ExceptSeq DEF e
  <2>e. /\ r[i].addr = m[i].addr + n /\ r[i].addr + r[i].size = m[i].addr + m[i].size
        /\ r[i].addr \in Nat /\ r[i].size \in Nat
        /\ \A j \in 1 .. Len(m) : j # i => r[j] = m[j]
    <3>1. r[i] = e /\ \A j \in 1 .. Len(m) : j # i => r[j] = m[j]
      BY <2>1, <1>1
    <3>2. m[i].addr \in Nat /\ m[i].size \in Nat /\ n < m[i].size
      BY <1>1, <1>5, <1>m
    <3>3. QED BY SMTT(40), <3>1, <3>2, <2>0, <1>1
  <2>b. \A j \in 1 .. Len(m) : /\ r[j].addr >= m[j].addr
                              /\ r[j].addr + r[j].size = m[j].addr + m[j].size
                              /\ r[j].addr \in Nat /\ r[j].size \in Nat
    <3> TAKE j \in 1 .. Len(m)
    <3>1. CASE j = i
      BY <3>1, <2>e, <1>1, <1>m
    <3>2. CASE j # i
      BY <3>2, <2>e, <1>m
    <3>3. QED BY <3>1, <3>2
  <2>2. \A j, k \in 1 .. Len(r) : j < k => r[j].addr + r[j].size < r[k].addr
    <3> TAKE j, k \in 1 .. Len(r)
    <3>1. HAVE j < k
    <3>2. m[j].addr + m[j].size < m[k].addr /\ m[k].addr <= r[k].addr
      BY <3>1, <2>1, <2>b, <1>m
    <3>3. QED BY <3>2, <2>1, <2>b, <1>m
  <2>3. \A j \in 1 .. Len(r) : r[j].addr + r[j].size <= Units + 1
    BY <2>1, <2>b, <1>m
  <2>4. IsMap(r)
    BY <2>1, <2>2, <2>3 DEF IsMap, Entries
  <2>5. ASSUME NEW u \in 1 .. Units, InMap(m, u)
        PROVE  InMap(r, u) \/ u \in Extent(Entry(a, n))
    <3>1. PICK k \in 1 .. Len(m) : u \in Extent(m[k])
      BY <2>5 DEF InMap
    <3>2. CASE k # i
      BY <3>1, <3>2, <2>1 DEF InMap
    <3>3. CASE k = i
      <4>1. m[i].addr <= u /\ u <= m[i].addr + m[i].size - 1
        BY <3>1, <3>3 DEF Extent
      <4>2. CASE u < a + n
        BY <4>1, <4>2, <1>1, <1>2, <1>m DEF Extent, Entry
      <4>3. CASE u >= a + n
        <5>0. /\ m[i].addr \in Nat /\ m[i].size \in Nat
              /\ r[i].addr \in Nat /\ r[i].size \in Nat
          BY <1>1, <1>m, <2>e
        <5>1. u < m[i].addr + m[i].size
          BY <3>1, <3>3, <5>0, ExtentFacts
        <5>2. r[i].addr = a + n /\ r[i].addr + r[i].size = m[i].addr + m[i].size
          BY <2>e, <1>2
        <5>3. r[i].addr <= u /\ u < r[i].addr + r[i].size
          BY <5>1, <5>2, <4>3
        <5>4. u \in Extent(r[i])
          BY <5>0, <5>3, ExtentFacts
        <5>5. QED BY <5>4, <2>1, <1>1 DEF InMap
      <4>4. QED BY <4>2, <4>3, <1>3, <1>1
    <3>5. QED BY <3>2, <3>3
  <2>6. ASSUME NEW u \in 1 .. Units, u \in Extent(Entry(a, n))
        PROVE  InMap(m, u) /\ ~ InMap(r, u)
    <3>1. m[i].addr <= u /\ u <= m[i].addr + n - 1
      BY <2>6, <1>1, <1>2, <1>m DEF Extent, Entry
    <3>2. InMap(m, u)
      <4>1. u \in Extent(m[i])
        BY <3>1, <1>1, <1>5, <1>m DEF Extent
      <4>2. QED BY <4>1, <1>1 DEF InMap
    <3>3. ASSUME NEW k \in 1 .. Len(r), u \in Extent(r[k]) PROVE FALSE
      <4>1. r[k].addr <= u /\ u < r[k].addr + r[k].size
        BY <3>3, <2>1, <2>b DEF Extent
      <4>2. CASE k < i
        BY SMTT(40), <4>1, <4>2, <3>1, <2>1, <2>b, <1>1, <1>m
      <4>3. CASE i < k
        BY <4>1, <4>3, <3>1, <2>1, <2>b, <1>1, <1>m
      <4>4. CASE k = i
        BY SMTT(40), <4>1, <4>4, <3>1, <2>e, <1>1, <1>m
      <4>5. QED BY <4>2, <4>3, <4>4, <2>1, <1>1
    <3>4. QED BY <3>2, <3>3 DEF InMap
  <2>7. ASSUME NEW u \in 1 .. Units, InMap(r, u) PROVE InMap(m, u)
    BY SMTT(40), <2>7, <2>0, <2>1, <1>1, <1>m DEF InMap, Extent
  <2>8. QED BY <1>3, <2>4, <2>5, <2>6, <2>7 DEF a, r
<1>6. QED BY <1>4, <1>5

(* r has the entry e in the place of the entries p .. p + d of m (of none, *)
(* where d is -1), with a gap to both sides.                               *)
Replaces(m, r, e, p, d) ==
  /\ r \in Seq(Entries) /\ Len(r) = Len(m) - d
  /\ e \in Entries /\ e.addr + e.size <= Units + 1
  /\ p \in 1 .. Len(r) /\ r[p] = e
  /\ \A j \in 1 .. Len(r) : j < p => r[j] = m[j]
  /\ \A j \in 1 .. Len(r) : j > p => r[j] = m[j + d]
  /\ \A j \in 1 .. Len(m) : j < p => m[j].addr + m[j].size < e.addr
  /\ \A j \in 1 .. Len(m) : j > p + d => e.addr + e.size < m[j].addr

LEMMA Replaced ==
  ASSUME NEW m, IsMap(m), NEW r, NEW e, NEW p, NEW d \in {-1, 0, 1},
         Replaces(m, r, e, p, d)
  PROVE  /\ IsMap(r)
         /\ \A u \in 1 .. Units :
              InMap(r, u) <=> \/ \E j \in 1 .. Len(m) :
                                   (j < p \/ j > p + d) /\ u \in Extent(m[j])
                             \/ u \in Extent(e)
<1>h. /\ r \in Seq(Entries) /\ Len(r) = Len(m) - d
      /\ e \in Entries /\ e.addr + e.size <= Units + 1
      /\ p \in 1 .. Len(r) /\ r[p] = e
      /\ \A j \in 1 .. Len(r) : j < p => r[j] = m[j]
      /\ \A j \in 1 .. Len(r) : j > p => r[j] = m[j + d]
      /\ \A j \in 1 .. Len(m) : j < p => m[j].addr + m[j].size < e.addr
      /\ \A j \in 1 .. Len(m) : j > p + d => e.addr + e.size < m[j].addr
  BY DEF Replaces
<1>m. /\ m \in Seq(Entries) /\ Len(m) \in Nat
      /\ \A j \in 1 .. Len(m) :
           /\ m[j].addr \in Nat /\ m[j].size \in Nat
           /\ m[j].addr + m[j].size <= Units + 1
      /\ \A j, k \in 1 .. Len(m) : j < k => m[j].addr + m[j].size < m[k].addr
  BY MapFacts
<1>e. e.addr \in Nat /\ e.size \in Nat /\ e.size >= 1
  BY <1>h, UnitsAssumption DEF Entries
<1> DEFINE from(j) == IF j < p THEN j ELSE j + d
<1>f. \A j \in 1 .. Len(r) :
        j # p => /\ from(j) \in 1 .. Len(m) /\ r[j] = m[from(j)]
                 /\ j < p => from(j) < p
                 /\ j > p => from(j) > p + d
  BY <1>h, <1>m
<1>o. \A j, k \in 1 .. Len(r) : j # p /\ k # p /\ j < k => from(j) < from(k)
  BY <1>h, <1>m
<1>b. \A j \in 1 .. Len(m) :
        j < p \/ j > p + d => \E k \in 1 .. Len(r) : k # p /\ r[k] = m[j]
  <2>1. ASSUME NEW j \in 1 .. Len(m), j < p
        PROVE  j \in 1 .. Len(r) /\ j # p /\ r[j] = m[j]
    BY <2>1, <1>h, <1>m
  <2>2. ASSUME NEW j \in 1 .. Len(m), j > p + d, ~ (j < p)
        PROVE  j - d \in 1 .. Len(r) /\ j - d # p /\ r[j - d] = m[j]
    <3>1. j - d \in 1 .. Len(r) /\ j - d > p /\ (j - d) + d = j
      BY <2>2, <1>h, <1>m
    <3>2. r[j - d] = m[(j - d) + d]
      BY <3>1, <1>h
    <3>3. QED BY <3>1, <3>2
  <2>3. QED BY <2>1, <2>2
<1> HIDE DEF from
<1>1. \A j, k \in 1 .. Len(r) : j < k => r[j].addr + r[j].size < r[k].addr
  <2> TAKE j, k \in 1 .. Len(r)
  <2>0. HAVE j < k
  <2>1. CASE j = p
    BY <2>0, <2>1, <1>f, <1>h, <1>m, <1>e
  <2>2. CASE k = p
    BY SMTT(40), <2>0, <2>2, <1>f, <1>h, <1>m, <1>e
  <2>3. CASE j # p /\ k # p
    BY <2>0, <2>3, <1>f, <1>o, <1>m
  <2>4. QED BY <2>1, <2>2, <2>3
<1>2. \A j \in 1 .. Len(r) : r[j].addr + r[j].size <= Units + 1
  BY <1>f, <1>h, <1>m
<1>3. IsMap(r)
  BY <1>h, <1>1, <1>2 DEF IsMap, Entries
<1>4. ASSUME NEW u \in 1 .. Units, InMap(r, u)
      PROVE  \/ \E j \in 1 .. Len(m) :
                   (j < p \/ j > p + d) /\ u \in Extent(m[j])
             \/ u \in Extent(e)
  <2>1. PICK k \in 1 .. Len(r) : u \in Extent(r[k])
    BY <1>4 DEF InMap
  <2>2. k # p => k < p \/ k > p
    BY <1>h
  <2>3. QED BY <2>1, <2>2, <1>f, <1>h
<1>5. ASSUME NEW u \in 1 .. Units,
             \/ \E j \in 1 .. Len(m) :
                   (j < p \/ j > p + d) /\ u \in Extent(m[j])
             \/ u \in Extent(e)
      PROVE  InMap(r, u)
  BY <1>5, <1>b, <1>h DEF InMap
<1>6. QED BY <1>3, <1>4, <1>5

(* mfree's map is a map again; what is free afterwards is what was free    *)
(* before and the space that was freed.                                    *)
LEMMA MfreeSound ==
  ASSUME NEW m, IsMap(m), NEW n \in Nat, NEW a \in Nat,
         a >= 1, a + n <= Units + 1,
         \A u \in a .. a + n - 1 : ~ InMap(m, u)
  PROVE  /\ IsMap(Mfree(m, n, a))
         /\ \A u \in 1 .. Units :
              InMap(Mfree(m, n, a), u) <=> InMap(m, u) \/ u \in a .. a + n - 1
<1> DEFINE i == Place(m, a)
           r == Mfree(m, n, a)
           left == JoinsLeft(m, i, a)
           right == JoinsRight(m, i, a, n)
<1>m. /\ m \in Seq(Entries) /\ Len(m) \in Nat /\ DOMAIN m = 1 .. Len(m)
      /\ \A j \in 1 .. Len(m) :
           /\ m[j] = Entry(m[j].addr, m[j].size)
           /\ m[j].addr \in Nat /\ m[j].size \in Nat
           /\ m[j].addr >= 1 /\ m[j].size >= 1
           /\ m[j].addr + m[j].size <= Units + 1
      /\ \A j, k \in 1 .. Len(m) : j < k => m[j].addr + m[j].size < m[k].addr
  BY MapFacts
<1>1. /\ i \in 1 .. Len(m) + 1
      /\ \A j \in 1 .. Len(m) : j < i => m[j].addr <= a
      /\ \A j \in 1 .. Len(m) : j >= i => m[j].addr > a
  <2>1. /\ i \in 1 .. Len(m) + 1
        /\ \A j \in 1 .. i - 1 : m[j].addr <= a
        /\ i <= Len(m) => m[i].addr > a
    BY PlaceFound
  <2>2. \A j \in 1 .. Len(m) : j > i => m[j].addr > a
    BY SMTT(40), <2>1, <1>m
  <2>3. QED BY <2>1, <2>2, <1>m
<1> HIDE DEF i
(* Nothing that is free overlaps what is freed.                            *)
<1>2. ASSUME n > 0
      PROVE  /\ \A j \in 1 .. Len(m) : j < i => m[j].addr + m[j].size <= a
             /\ \A j \in 1 .. Len(m) : j >= i => a + n <= m[j].addr
  <2>1. ASSUME NEW j \in 1 .. Len(m), j < i, m[j].addr + m[j].size > a
        PROVE  FALSE
    <3>1. a \in Extent(m[j]) /\ a \in a .. a + n - 1
      BY <2>1, <1>2, <1>1, <1>m DEF Extent
    <3>2. QED BY <3>1 DEF InMap
  <2>2. ASSUME NEW j \in 1 .. Len(m), j >= i, a + n > m[j].addr
        PROVE  FALSE
    <3>1. m[j].addr \in Extent(m[j]) /\ m[j].addr \in a .. a + n - 1
      BY SMTT(40), <2>2, <1>2, <1>1, <1>m DEF Extent
    <3>2. QED BY <3>1 DEF InMap
  <2>3. QED BY <2>1, <2>2, <1>m
<1>r. r = IF left /\ right
            THEN Close([m EXCEPT ![i - 1] = Entry(@.addr, @.size + n + m[i].size)], i)
          ELSE IF left THEN [m EXCEPT ![i - 1] = Entry(@.addr, @.size + n)]
          ELSE IF right THEN [m EXCEPT ![i] = Entry(a, @.size + n)]
          ELSE IF n # 0 THEN Insert(m, i, Entry(a, n))
          ELSE m
  BY DEF Mfree, i
<1>l. left <=> i > 1 /\ m[i - 1].addr + m[i - 1].size = a
  BY DEF JoinsLeft
<1>g. right <=> i <= Len(m) /\ a + n = m[i].addr
  BY DEF JoinsRight
<1> HIDE DEF r, left, right
<1>3. CASE left /\ right
  <2>0. PICK p \in 1 .. Len(m) : p = i - 1
    BY <1>3, <1>l, <1>1, <1>m
  <2> DEFINE e == Entry(m[p].addr, m[p].size + n + m[i].size)
             h == [m EXCEPT ![p] = e]
  <2>1. /\ i \in 1 .. Len(m) /\ p + 1 = i
        /\ m[p].addr + m[p].size = a /\ a + n = m[i].addr
    BY <2>0, <1>3, <1>l, <1>g, <1>1, <1>m
  <2>2. /\ e.addr = m[p].addr
        /\ e.addr + e.size = m[i].addr + m[i].size
        /\ e.addr \in 1 .. Units /\ e.size \in 1 .. Units
    <3>1. e.addr = m[p].addr /\ e.size = m[p].size + n + m[i].size
      BY DEF Entry
    <3>2. /\ m[p].addr \in Nat /\ m[p].size \in Nat /\ m[p].addr >= 1 /\ m[p].size >= 1
          /\ m[i].addr \in Nat /\ m[i].size \in Nat
          /\ m[i].addr + m[i].size <= Units + 1
      BY <2>1, <1>m
    <3>3. Joins(e, m[p], n, m[i])
      BY <3>1, <3>2 DEF Joins
    <3>4. (m[p].addr + m[p].size) + n = m[i].addr
      BY <2>1
    <3>5. QED BY <3>1, <3>3, <3>4, JoinedSize
  <2>3. e \in Entries
    BY <2>2 DEF Entry, Entries
  <2>6. r = Close(h, i)
    BY <1>r, <1>3, <2>0
  <2> HIDE DEF e
  <2>5. /\ h \in Seq(Entries) /\ Len(h) = Len(m)
        /\ \A j \in 1 .. Len(m) : h[j] = IF j = p THEN e ELSE m[j]
    BY <2>3, <1>m, ExceptSeq
  <2> HIDE DEF h
  <2>7. /\ r \in Seq(Entries) /\ Len(r) = Len(m) - 1
        /\ \A j \in 1 .. Len(m) - 1 : r[j] = IF j < i THEN h[j] ELSE h[j + 1]
    <3>1. i \in 1 .. Len(h)
      BY <2>1, <2>5
    <3>2. /\ Close(h, i) \in Seq(Entries) /\ Len(Close(h, i)) = Len(h) - 1
          /\ \A j \in 1 .. Len(h) - 1 :
               Close(h, i)[j] = IF j < i THEN h[j] ELSE h[j + 1]
      BY <3>1, <2>5, CloseFacts
    <3>3. QED BY <3>2, <2>5, <2>6
  <2>8. /\ p \in 1 .. Len(r) /\ r[p] = e
        /\ \A j \in 1 .. Len(r) : j < p => r[j] = m[j]
        /\ \A j \in 1 .. Len(r) : j > p => r[j] = m[j + 1]
    <3>1. p \in 1 .. Len(r) /\ p < i
      BY <2>7, <2>1, <1>m
    <3>2. r[p] = e
      BY <3>1, <2>7, <2>5
    <3>3. ASSUME NEW j \in 1 .. Len(r), j < p PROVE r[j] = m[j]
      <4>1. j \in 1 .. Len(m) - 1 /\ j < i /\ j # p /\ j \in 1 .. Len(m)
        BY <3>3, <2>7, <2>1, <1>m
      <4>2. QED BY <4>1, <2>7, <2>5
    <3>4. ASSUME NEW j \in 1 .. Len(r), j > p PROVE r[j] = m[j + 1]
      <4>1. /\ j \in 1 .. Len(m) - 1 /\ ~ (j < i)
            /\ j + 1 # p /\ j + 1 \in 1 .. Len(m)
        BY <3>4, <2>7, <2>1, <1>m
      <4>2. QED BY <4>1, <2>7, <2>5
    <3>5. QED BY <3>1, <3>2, <3>3, <3>4
  <2>9. /\ \A j \in 1 .. Len(m) : j < p => m[j].addr + m[j].size < e.addr
        /\ \A j \in 1 .. Len(m) : j > p + 1 => e.addr + e.size < m[j].addr
        /\ e.addr + e.size <= Units + 1
    BY <2>1, <2>2, <1>m
  <2>10. /\ IsMap(r)
         /\ \A u \in 1 .. Units :
              InMap(r, u) <=> \/ \E j \in 1 .. Len(m) :
                                   (j < p \/ j > p + 1) /\ u \in Extent(m[j])
                             \/ u \in Extent(e)
    <3>1. 1 \in {-1, 0, 1}
      OBVIOUS
    <3>r. Replaces(m, r, e, p, 1)
      BY <2>3, <2>7, <2>8, <2>9 DEF Replaces
    <3>2. QED BY <3>1, <3>r, Replaced
  <2>11. \A u \in 1 .. Units :
           u \in Extent(e) <=> \/ u \in Extent(m[p]) \/ u \in Extent(m[i])
                             \/ u \in a .. a + n - 1
    <3>1. e.addr = m[p].addr /\ e.size = m[p].size + n + m[i].size
      BY DEF e, Entry
    <3>2. Joins(e, m[p], n, m[i])
      BY <3>1, <2>1, <1>m DEF Joins
    <3>3. QED BY <3>2, <2>1, JoinedExtent
  <2>12. \A j \in 1 .. Len(m) : j < p \/ j > p + 1 \/ j = p \/ j = i
    BY <2>1, <1>m
  <2>13. QED BY <2>1, <2>10, <2>11, <2>12 DEF InMap, r
<1>4. CASE left /\ ~ right
  <2>0. PICK p \in 1 .. Len(m) : p = i - 1
    BY <1>4, <1>l, <1>1, <1>m
  <2> DEFINE e == Entry(m[p].addr, m[p].size + n)
  <2>1. i = p + 1 /\ m[p].addr + m[p].size = a
    BY <2>0, <1>4, <1>l, <1>1, <1>m
  <2>2. /\ e.addr = m[p].addr
        /\ e.addr + e.size = a + n
        /\ e.addr \in 1 .. Units /\ e.size \in 1 .. Units
    <3>1. e.addr = m[p].addr /\ e.size = m[p].size + n
      BY DEF Entry
    <3>2. m[p].addr \in Nat /\ m[p].size \in Nat /\ m[p].addr >= 1 /\ m[p].size >= 1
      BY <1>m
    <3>3. QED BY SMTT(40), <3>1, <3>2, <2>1, UnitsAssumption
  <2>3. e \in Entries
    BY <2>2 DEF Entry, Entries
  <2>4. r = [m EXCEPT ![p] = e]
    BY <1>r, <1>4, <2>0
  <2> HIDE DEF e
  <2>5. /\ r \in Seq(Entries) /\ Len(r) = Len(m)
        /\ \A j \in 1 .. Len(m) : r[j] = IF j = p THEN e ELSE m[j]
    BY <2>3, <2>4, <1>m, ExceptSeq
  <2>8. /\ p \in 1 .. Len(r) /\ r[p] = e /\ Len(r) = Len(m) - 0
        /\ \A j \in 1 .. Len(r) : j < p => r[j] = m[j]
        /\ \A j \in 1 .. Len(r) : j > p => r[j] = m[j + 0]
    BY <2>5, <1>m
  <2>9. /\ \A j \in 1 .. Len(m) : j < p => m[j].addr + m[j].size < e.addr
        /\ \A j \in 1 .. Len(m) : j > p + 0 => e.addr + e.size < m[j].addr
    <3>1. \A j \in 1 .. Len(m) : j < p => m[j].addr + m[j].size < e.addr
      BY <2>1, <2>2, <1>m
    <3>2. ASSUME NEW j \in 1 .. Len(m), j > p + 0
          PROVE  e.addr + e.size < m[j].addr
      <4>1. j >= i /\ i \in 1 .. Len(m)
        BY <3>2, <2>1, <1>m
      <4>2. a + n # m[i].addr
        BY <1>4, <1>g, <4>1, <1>m
      <4>3. a + n <= m[i].addr
        <5>1. CASE n > 0
          BY <5>1, <1>2, <4>1
        <5>2. CASE n = 0
          BY <5>2, <1>1, <4>1, <1>m
        <5>3. QED BY <5>1, <5>2
      <4>4. m[i].addr <= m[j].addr /\ m[i].addr \in Nat /\ m[j].addr \in Nat
        BY <4>1, <1>m
      <4>5. e.addr + e.size < m[i].addr
        <5>1. a + n < m[i].addr
          BY SMTT(40), <4>2, <4>3, <4>4
        <5>2. QED BY <5>1, <2>2
      <4>6. e.addr + e.size \in Nat
        BY <2>2
      <4>7. QED BY <4>4, <4>5, <4>6
    <3>3. QED BY <3>1, <3>2
  <2>10. /\ IsMap(r)
         /\ \A u \in 1 .. Units :
              InMap(r, u) <=> \/ \E j \in 1 .. Len(m) :
                                   (j < p \/ j > p + 0) /\ u \in Extent(m[j])
                             \/ u \in Extent(e)
    <3>1. 0 \in {-1, 0, 1} /\ e.addr + e.size <= Units + 1
      BY <2>2, <2>9
    <3>r. Replaces(m, r, e, p, 0)
      BY <2>3, <3>1, <2>5, <2>8, <2>9 DEF Replaces
    <3>2. QED BY <3>1, <3>r, Replaced
  <2>11. \A u \in 1 .. Units :
           u \in Extent(e) <=> u \in Extent(m[p]) \/ u \in a .. a + n - 1
    <3>1. /\ m[p].addr \in Nat /\ m[p].size \in Nat
          /\ e.addr \in Nat /\ e.size \in Nat
      BY <2>1, <2>2, <1>m, UnitsAssumption
    <3>2. QED BY <3>1, <2>1, <2>2, ExtentFacts, UnitsAssumption, SMTT(40)
  <2>12. \A j \in 1 .. Len(m) : j < p \/ j > p + 0 \/ j = p
    BY <1>m
  <2>13. QED BY <2>1, <2>10, <2>11, <2>12 DEF InMap, r
<1>5. CASE ~ left /\ right
  <2>0. PICK p \in 1 .. Len(m) : p = i
    BY <1>5, <1>g, <1>1, <1>m
  <2> DEFINE e == Entry(a, m[p].size + n)
  <2>1. a + n = m[p].addr
    BY <2>0, <1>5, <1>g
  <2>2. /\ e.addr = a
        /\ e.addr + e.size = m[p].addr + m[p].size
        /\ e.addr \in 1 .. Units /\ e.size \in 1 .. Units
    <3>1. e.addr = a /\ e.size = m[p].size + n
      BY DEF Entry
    <3>2. /\ m[p].addr \in Nat /\ m[p].size \in Nat /\ m[p].size >= 1
          /\ m[p].addr + m[p].size <= Units + 1
      BY <1>m
    <3>3. QED BY SMTT(40), <3>1, <3>2, <2>1, UnitsAssumption
  <2>3. e \in Entries
    BY <2>2 DEF Entry, Entries
  <2>4. r = [m EXCEPT ![p] = e]
    BY <1>r, <1>5, <2>0
  <2> HIDE DEF e
  <2>5. /\ r \in Seq(Entries) /\ Len(r) = Len(m)
        /\ \A j \in 1 .. Len(m) : r[j] = IF j = p THEN e ELSE m[j]
    BY <2>3, <2>4, <1>m, ExceptSeq
  <2>8. /\ p \in 1 .. Len(r) /\ r[p] = e /\ Len(r) = Len(m) - 0
        /\ \A j \in 1 .. Len(r) : j < p => r[j] = m[j]
        /\ \A j \in 1 .. Len(r) : j > p => r[j] = m[j + 0]
    BY <2>5, <1>m
  <2>9. /\ \A j \in 1 .. Len(m) : j < p => m[j].addr + m[j].size < e.addr
        /\ \A j \in 1 .. Len(m) : j > p + 0 => e.addr + e.size < m[j].addr
        /\ e.addr + e.size <= Units + 1
    <3>1. \A j \in 1 .. Len(m) : j > p + 0 => e.addr + e.size < m[j].addr
      BY <2>2, <1>m
    <3>2. ASSUME NEW j \in 1 .. Len(m), j < p
          PROVE  m[j].addr + m[j].size < e.addr
      <4>1. p - 1 \in 1 .. Len(m) /\ j <= p - 1
        BY <3>2, <1>m
      <4>2. m[p - 1].addr + m[p - 1].size # a
        BY <1>5, <1>l, <4>1, <2>0
      <4>3. m[p - 1].addr + m[p - 1].size <= a
        <5>1. CASE n > 0
          BY <5>1, <1>2, <4>1, <2>0
        <5>2. CASE n = 0
          <6>1. m[p - 1].addr + m[p - 1].size < m[p].addr
            BY <4>1, <1>m
          <6>2. m[p - 1].addr + m[p - 1].size \in Nat
            BY <4>1, EntryNat
          <6>3. a = m[p].addr
            BY <5>2, <2>1
          <6>4. QED BY <6>1, <6>2, <6>3
        <5>3. QED BY <5>1, <5>2
      <4>5. m[j].addr + m[j].size \in Nat /\ m[p - 1].addr + m[p - 1].size \in Nat
        BY <4>1, EntryNat
      <4>4. m[j].addr + m[j].size <= m[p - 1].addr + m[p - 1].size
        <5>1. CASE j = p - 1
          BY <5>1, <4>5
        <5>2. CASE j < p - 1
          BY <5>2, <4>1, EntryOrder
        <5>3. QED BY <5>1, <5>2, <4>1
      <4>6. QED BY <4>2, <4>3, <4>4, <4>5, <2>2
    <3>3. QED BY <3>1, <3>2, <2>2, <1>m
  <2>10. /\ IsMap(r)
         /\ \A u \in 1 .. Units :
              InMap(r, u) <=> \/ \E j \in 1 .. Len(m) :
                                   (j < p \/ j > p + 0) /\ u \in Extent(m[j])
                             \/ u \in Extent(e)
    <3>1. 0 \in {-1, 0, 1} /\ e.addr + e.size <= Units + 1
      BY <2>2, <2>9
    <3>r. Replaces(m, r, e, p, 0)
      BY <2>3, <3>1, <2>5, <2>8, <2>9 DEF Replaces
    <3>2. QED BY <3>1, <3>r, Replaced
  <2>11. \A u \in 1 .. Units :
           u \in Extent(e) <=> u \in Extent(m[p]) \/ u \in a .. a + n - 1
    <3>1. /\ m[p].addr \in Nat /\ m[p].size \in Nat
          /\ e.addr \in Nat /\ e.size \in Nat
      BY <2>1, <2>2, <1>m, UnitsAssumption
    <3>2. QED BY <3>1, <2>1, <2>2, ExtentFacts, UnitsAssumption, SMTT(40)
  <2>12. \A j \in 1 .. Len(m) : j < p \/ j > p + 0 \/ j = p
    BY <1>m
  <2>13. QED BY <2>1, <2>10, <2>11, <2>12 DEF InMap, r
<1>6. CASE ~ left /\ ~ right /\ n # 0
  <2> DEFINE e == Entry(a, n)
  <2>0. n > 0
    BY <1>6
  <2>2. e.addr = a /\ e.size = n /\ e \in Entries
    BY <2>0, UnitsAssumption DEF Entry, Entries
  <2>4. r = Insert(m, i, e)
    BY <1>r, <1>6
  <2> HIDE DEF e
  <2>5. /\ r \in Seq(Entries) /\ Len(r) = Len(m) + 1
        /\ \A j \in 1 .. Len(m) + 1 :
             r[j] = IF j < i THEN m[j] ELSE IF j = i THEN e ELSE m[j - 1]
    <3>1. /\ Insert(m, i, e) \in Seq(Entries) /\ Len(Insert(m, i, e)) = Len(m) + 1
          /\ \A j \in 1 .. Len(m) + 1 :
               Insert(m, i, e)[j] =
                 IF j < i THEN m[j] ELSE IF j = i THEN e ELSE m[j - 1]
      BY SMTT(40), <2>2, <1>1, <1>m, InsertFacts
    <3>2. QED BY <3>1, <2>4
  <2>8. /\ i \in 1 .. Len(r) /\ r[i] = e /\ Len(r) = Len(m) - (-1)
        /\ \A j \in 1 .. Len(r) : j < i => r[j] = m[j]
        /\ \A j \in 1 .. Len(r) : j > i => r[j] = m[j + (-1)]
    BY <2>5, <1>1, <1>m
  <2>9. /\ \A j \in 1 .. Len(m) : j < i => m[j].addr + m[j].size < e.addr
        /\ \A j \in 1 .. Len(m) : j > i + (-1) => e.addr + e.size < m[j].addr
    <3>1. ASSUME NEW j \in 1 .. Len(m), j < i
          PROVE  m[j].addr + m[j].size < e.addr
      <4>1. i - 1 \in 1 .. Len(m) /\ j <= i - 1 /\ i - 1 < i /\ i > 1
        BY <3>1, <1>1, <1>m
      <4>2. m[i - 1].addr + m[i - 1].size # a
        BY <1>6, <1>l, <4>1
      <4>3. m[i - 1].addr + m[i - 1].size <= a
        BY <2>0, <1>2, <4>1
      <4>5. m[j].addr + m[j].size \in Nat /\ m[i - 1].addr + m[i - 1].size \in Nat
        BY <4>1, EntryNat
      <4>4. m[j].addr + m[j].size <= m[i - 1].addr + m[i - 1].size
        <5>1. CASE j = i - 1
          BY <5>1, <4>5
        <5>2. CASE j < i - 1
          BY <5>2, <4>1, EntryOrder
        <5>3. QED BY <5>1, <5>2, <4>1
      <4>6. QED BY <4>2, <4>3, <4>4, <4>5, <2>2
    <3>2. ASSUME NEW j \in 1 .. Len(m), j > i + (-1)
          PROVE  e.addr + e.size < m[j].addr
      <4>1. j >= i /\ i \in 1 .. Len(m)
        BY <3>2, <1>1, <1>m
      <4>2. a + n # m[i].addr
        BY <1>6, <1>g, <4>1, <1>m
      <4>3. a + n <= m[i].addr
        BY <2>0, <1>2, <4>1
      <4>4. m[i].addr <= m[j].addr /\ m[i].addr \in Nat /\ m[j].addr \in Nat
        BY <4>1, <1>m
      <4>5. QED BY <4>2, <4>3, <4>4, <2>2
    <3>3. QED BY <3>1, <3>2
  <2>10. /\ IsMap(r)
         /\ \A u \in 1 .. Units :
              InMap(r, u) <=> \/ \E j \in 1 .. Len(m) :
                                   (j < i \/ j > i + (-1)) /\ u \in Extent(m[j])
                             \/ u \in Extent(e)
    <3>1. e.addr + e.size <= Units + 1
      BY <2>2
    <3>2. PICK d \in {-1, 0, 1} : d = -1
      OBVIOUS
    <3>p. PICK p \in 1 .. Len(r) : p = i
      BY <2>8
    <3>3. Replaces(m, r, e, p, d)
      BY <2>2, <3>1, <3>2, <3>p, <2>5, <2>8, <2>9 DEF Replaces
    <3>4. /\ IsMap(r)
          /\ \A u \in 1 .. Units :
               InMap(r, u) <=> \/ \E j \in 1 .. Len(m) :
                                    (j < p \/ j > p + d) /\ u \in Extent(m[j])
                              \/ u \in Extent(e)
      BY <3>2, <3>3, Replaced
    <3>5. QED BY <3>2, <3>4, <3>p
  <2>11. \A u \in 1 .. Units : u \in Extent(e) <=> u \in a .. a + n - 1
    BY <2>2 DEF Extent
  <2>12. \A j \in 1 .. Len(m) : j < i \/ j > i + (-1)
    BY <1>1, <1>m
  <2>13. QED BY <2>10, <2>11, <2>12 DEF InMap, r
<1>7. CASE ~ left /\ ~ right /\ n = 0
  <2>1. r = m
    BY <1>r, <1>7
  <2>2. QED BY <2>1, <1>7 DEF r
<1>8. QED BY <1>3, <1>4, <1>5, <1>6, <1>7

(***************************************************************************)
(* The invariant: the list is well formed and every unit is accounted for. *)
(***************************************************************************)
Inv == MapOK /\ UnitsOnce /\ next \in 1 .. Units + 1

LEMMA InvInit == Init => Inv
<1> SUFFICES ASSUME Init PROVE Inv
  OBVIOUS
<1>1. map \in Seq(Entries) /\ Len(map) = 0 /\ held = {} /\ next = 1
  BY EmptySeq DEF Init
<1>2. MapOK
  BY <1>1 DEF MapOK, IsMap, Entries
<1>3. UnitsOnce
  BY <1>1 DEF UnitsOnce, InMap, InHeld
<1>4. QED BY <1>1, <1>2, <1>3, UnitsAssumption DEF Inv

LEMMA InvStartup ==
  ASSUME Inv, Startup
  PROVE  Inv'
<1>1. IsMap(map) /\ next \in 1 .. Units /\ next' = next + 1 /\ held' = held
  BY UnitsAssumption DEF Inv, MapOK, Startup
<1>2. \A a \in 1 .. Units : InHeld(a)' <=> InHeld(a)
  BY <1>1 DEF InHeld
<1>3. CASE next \in Hole
  <2>1. map' = map
    BY <1>3 DEF Startup
  <2>2. QED BY <1>1, <1>2, <1>3, <2>1, UnitsAssumption
               DEF Inv, MapOK, UnitsOnce, InMap, Startup
<1>4. CASE next \notin Hole
  <2>1. map' = Mfree(map, 1, next)
    BY <1>4 DEF Startup
  <2>2. next .. next + 1 - 1 = {next}
    BY <1>1
  <2>3. ~ InMap(map, next)
    BY <1>1 DEF Inv, UnitsOnce
  <2>4. /\ IsMap(map')
        /\ \A u \in 1 .. Units : InMap(map', u) <=> InMap(map, u) \/ u = next
    <3>1. \A u \in next .. next + 1 - 1 : ~ InMap(map, u)
      BY <2>2, <2>3
    <3>2. 1 \in Nat /\ next \in Nat /\ next >= 1 /\ next + 1 <= Units + 1
      BY <1>1, UnitsAssumption
    <3>3. /\ IsMap(Mfree(map, 1, next))
          /\ \A u \in 1 .. Units :
               InMap(Mfree(map, 1, next), u) <=>
                 InMap(map, u) \/ u \in next .. next + 1 - 1
      BY <1>1, <3>1, <3>2, MfreeSound
    <3>4. QED BY <3>3, <2>1, <2>2
  <2>5. \A u \in 1 .. Units : u < next' <=> u < next \/ u = next
    BY <1>1, UnitsAssumption
  <2>6. \A u \in 1 .. Units :
          /\ InMap(map', u) \/ InHeld(u)' <=> u < next' /\ u \notin Hole
          /\ ~ (InMap(map', u) /\ InHeld(u)')
    <3> TAKE u \in 1 .. Units
    <3>1. /\ InMap(map, u) \/ InHeld(u) <=> u < next /\ u \notin Hole
          /\ ~ (InMap(map, u) /\ InHeld(u))
      BY DEF Inv, UnitsOnce
    <3>2. ~ (next < next)
      BY <1>1
    <3>3. QED BY <3>1, <3>2, <2>4, <2>5, <1>2, <1>4
  <2>7. QED BY <1>1, <2>4, <2>6, UnitsAssumption DEF Inv, MapOK, UnitsOnce
<1>5. QED BY <1>3, <1>4

LEMMA InvMalloc ==
  ASSUME Inv, NEW n \in 1 .. Units, Malloc(n)
  PROVE  Inv'
<1> DEFINE a == MallocAddr(map, n)
           e == Entry(a, n)
<1>1. /\ IsMap(map) /\ Fits(map, n) /\ next' = next /\ held' = held \cup {e}
      /\ map' = MallocRest(map, n)
  BY DEF Inv, MapOK, Malloc
<1>2. /\ a \in 1 .. Units /\ a + n <= Units + 1
      /\ IsMap(map')
      /\ \A u \in 1 .. Units :
           /\ InMap(map, u) <=> InMap(map', u) \/ u \in Extent(e)
           /\ ~ (InMap(map', u) /\ u \in Extent(e))
  BY <1>1, MallocSound
<1> HIDE DEF a
<1>3. e.addr = a /\ e.size = n /\ e \in Entries
  BY <1>2 DEF Entry, Entries
<1> HIDE DEF e
<1>4. \A u \in 1 .. Units : InHeld(u)' <=> InHeld(u) \/ u \in Extent(e)
  BY <1>1 DEF InHeld
<1>5. \A f \in held : Extent(f) \cap Extent(e) = {}
  <2>1. ASSUME NEW f \in held, NEW u \in Extent(f), u \in Extent(e) PROVE FALSE
    <3>1. u \in 1 .. Units
      BY <2>1, <1>2, <1>3, UnitsAssumption DEF Extent
    <3>2. InHeld(u) /\ InMap(map, u)
      BY <2>1, <3>1, <1>2 DEF InHeld
    <3>3. QED BY <3>1, <3>2 DEF Inv, UnitsOnce
  <2>2. QED BY <2>1
<1>6. \A u \in 1 .. Units :
        /\ InMap(map', u) \/ InHeld(u)' <=> u < next' /\ u \notin Hole
        /\ ~ (InMap(map', u) /\ InHeld(u)')
  BY <1>1, <1>2, <1>4 DEF Inv, UnitsOnce
<1>7. /\ held' \subseteq Entries
      /\ \A f, g \in held' : f # g => Extent(f) \cap Extent(g) = {}
      /\ \A f \in held' : f.addr + f.size <= Units + 1
  BY <1>1, <1>2, <1>3, <1>5 DEF Inv, UnitsOnce, Entries
<1>8. QED BY <1>1, <1>2, <1>6, <1>7 DEF Inv, MapOK, UnitsOnce, Entries

(* Freeing the end of e, from unit k on; all of it when k is 0.            *)
LEMMA InvRelease ==
  ASSUME Inv, NEW e \in held, NEW k \in 0 .. e.size,
         map' = Mfree(map, e.size - k, e.addr + k),
         held' = (held \ {e}) \cup (IF k = 0 THEN {} ELSE {Entry(e.addr, k)}),
         next' = next
  PROVE  Inv'
<1> DEFINE n == e.size - k
           a == e.addr + k
           freed == a .. a + n - 1
           rest == Entry(e.addr, k)
<1>1. /\ IsMap(map)
      /\ e.addr \in 1 .. Units /\ e.size \in 1 .. Units
      /\ e.addr \in Nat /\ e.size \in Nat /\ e.addr >= 1 /\ e.size >= 1
      /\ e.addr + e.size <= Units + 1
      /\ k \in Nat /\ k <= e.size
  BY UnitsAssumption DEF Inv, MapOK, UnitsOnce
<1>2. n \in Nat /\ a \in Nat /\ a >= 1 /\ a + n <= Units + 1
  BY <1>1, UnitsAssumption
<1>3. \A u \in freed : u \in 1 .. Units /\ u \in Extent(e)
  BY <1>1, <1>2, UnitsAssumption DEF Extent
<1>4. \A u \in freed : ~ InMap(map, u)
  BY <1>3 DEF Inv, UnitsOnce, InHeld
<1>5. /\ IsMap(map')
      /\ \A u \in 1 .. Units : InMap(map', u) <=> InMap(map, u) \/ u \in freed
  BY <1>1, <1>2, <1>4, MfreeSound
<1>6. \A u \in 1 .. Units : u \in Extent(e) <=> u \in freed \/ (k # 0 /\ u \in Extent(rest))
  BY <1>1, UnitsAssumption DEF Extent, Entry
<1>7. \A u \in 1 .. Units : ~ (u \in freed /\ k # 0 /\ u \in Extent(rest))
  BY <1>1, UnitsAssumption DEF Extent, Entry
<1>8. k # 0 => /\ rest \in Entries /\ rest.addr + rest.size <= Units + 1
               /\ Extent(rest) \subseteq Extent(e)
               /\ Extent(rest) \subseteq 1 .. Units
  BY <1>1, UnitsAssumption DEF Entry, Entries, Extent
<1> HIDE DEF freed, rest, n, a
<1>9. \A f \in held \ {e} : Extent(f) \cap Extent(e) = {}
  BY DEF Inv, UnitsOnce
<1>10. \A u \in 1 .. Units : InHeld(u) <=> u \in Extent(e) \/ \E f \in held \ {e} : u \in Extent(f)
  BY DEF InHeld
<1>11. \A u \in 1 .. Units :
         InHeld(u)' <=> \/ k # 0 /\ u \in Extent(rest)
                       \/ \E f \in held \ {e} : u \in Extent(f)
  BY DEF InHeld, rest
<1>12. \A u \in 1 .. Units :
         /\ InMap(map', u) \/ InHeld(u)' <=> u < next' /\ u \notin Hole
         /\ ~ (InMap(map', u) /\ InHeld(u)')
  <2> TAKE u \in 1 .. Units
  <2>1. /\ InMap(map, u) \/ InHeld(u) <=> u < next /\ u \notin Hole
        /\ ~ (InMap(map, u) /\ InHeld(u))
    BY DEF Inv, UnitsOnce
  <2>2. ~ (u \in Extent(e) /\ \E f \in held \ {e} : u \in Extent(f))
    BY <1>9
  <2>3. QED BY <2>1, <2>2, <1>5, <1>6, <1>7, <1>10, <1>11
<1>13. /\ held' \subseteq Entries
       /\ \A f, g \in held' : f # g => Extent(f) \cap Extent(g) = {}
       /\ \A f \in held' : f.addr + f.size <= Units + 1
  <2>1. /\ held \subseteq Entries
        /\ \A f, g \in held : f # g => Extent(f) \cap Extent(g) = {}
        /\ \A f \in held : f.addr + f.size <= Units + 1
    BY DEF Inv, UnitsOnce, Entries
  <2>2. CASE k = 0
    BY <2>1, <2>2
  <2>3. CASE k # 0
    <3>1. held' = (held \ {e}) \cup {rest}
      BY <2>3 DEF rest
    <3>2. \A f \in held \ {e} : Extent(f) \cap Extent(rest) = {}
      BY <2>3, <1>8, <1>9
    <3>3. QED BY <3>1, <3>2, <2>1, <2>3, <1>8
  <2>4. QED BY <2>2, <2>3
<1>14. QED BY <1>5, <1>12, <1>13 DEF Inv, MapOK, UnitsOnce, Entries

LEMMA InvNext == Inv /\ [Next]_vars => Inv'
<1> SUFFICES ASSUME Inv, [Next]_vars PROVE Inv'
  OBVIOUS
<1>1. CASE Startup
  BY <1>1, InvStartup
<1>2. ASSUME NEW n \in 1 .. Units, Malloc(n) PROVE Inv'
  BY <1>2, InvMalloc
<1>3. ASSUME NEW e \in held, Free(e) PROVE Inv'
  <2>1. e.size \in Nat /\ e.addr \in Nat /\ 0 \in 0 .. e.size
    BY UnitsAssumption DEF Inv, UnitsOnce
  <2>2. /\ map' = Mfree(map, e.size - 0, e.addr + 0)
        /\ held' = (held \ {e}) \cup (IF 0 = 0 THEN {} ELSE {Entry(e.addr, 0)})
        /\ next' = next
    BY <1>3, <2>1 DEF Free
  <2>3. QED BY <2>1, <2>2, InvRelease
<1>4. ASSUME NEW e \in held, NEW n \in 1 .. e.size, Shrink(e, n) PROVE Inv'
  <2>1. n \in 0 .. e.size /\ n # 0
    BY UnitsAssumption DEF Inv, UnitsOnce
  <2>2. /\ map' = Mfree(map, e.size - n, e.addr + n)
        /\ held' = (held \ {e}) \cup (IF n = 0 THEN {} ELSE {Entry(e.addr, n)})
        /\ next' = next
    BY <1>4, <2>1 DEF Shrink
  <2>3. QED BY <2>1, <2>2, InvRelease
<1>5. CASE UNCHANGED vars
  BY <1>5 DEF vars, Inv, MapOK, UnitsOnce, InHeld
<1>6. QED BY <1>1, <1>2, <1>3, <1>4, <1>5 DEF Next

(* malloc and mfree keep the list sorted, without empty entries, and with  *)
(* everything joined that touches, whatever is asked of them.              *)
THEOREM WellFormed == Spec => []MapOK
<1>1. Inv => MapOK
  BY DEF Inv
<1>2. QED BY <1>1, InvInit, InvNext, PTL DEF Spec

(* malloc hands no unit out twice, mfree loses none, and neither makes one *)
(* up: every unit of free memory is in the map or with one holder.         *)
THEOREM Accounted == Spec => []UnitsOnce
<1>1. Inv => UnitsOnce
  BY DEF Inv
<1>2. QED BY <1>1, InvInit, InvNext, PTL DEF Spec

(***************************************************************************)
(* How long the list can get.  The unit below an entry that is not the     *)
(* first is not free: it is the last of a hole, or someone holds it.       *)
(***************************************************************************)

Below(i) == map[i + 1].addr - 1

(* Entry y with a gap between it and the entry x before it, and the unit   *)
(* below y.                                                                *)
LEMMA GapEntries ==
  ASSUME NEW x, NEW y, x.addr \in Nat, x.size \in Nat, x.addr >= 1,
         y.addr \in Nat, y.size \in Nat, y.size >= 1,
         y.addr + y.size <= Units + 1, x.addr + x.size < y.addr
  PROVE  /\ y.addr - 1 \in 1 .. Units /\ y.addr \in 1 .. Units
         /\ (y.addr - 1) + 1 = y.addr /\ y.addr - 1 < y.addr
         /\ x.addr + x.size <= y.addr - 1 /\ y.addr - 1 \in Nat
         /\ y.addr \in Extent(y)
<1>1. /\ y.addr - 1 \in 1 .. Units /\ y.addr \in 1 .. Units
      /\ (y.addr - 1) + 1 = y.addr /\ y.addr - 1 < y.addr
      /\ x.addr + x.size <= y.addr - 1 /\ y.addr - 1 \in Nat
  BY UnitsAssumption
<1>2. y.addr < y.addr + y.size /\ y.addr <= y.addr
  OBVIOUS
<1>3. QED BY <1>1, <1>2, ExtentFacts

(* What is behind y is behind the unit below y.                            *)
LEMMA BehindGap ==
  ASSUME NEW y, y.addr \in Nat, y.size \in Nat, NEW c \in Nat,
         y.addr + y.size < c
  PROVE  y.addr - 1 < c
OBVIOUS

(* What ends before x does, ends before the unit below y.                  *)
LEMMA BeforeGap ==
  ASSUME NEW c \in Nat, NEW d \in Nat, NEW u \in Nat, c <= d, d <= u
  PROVE  c <= u
OBVIOUS

LEMMA AfterGap ==
  ASSUME NEW b \in Nat, NEW k \in Nat, NEW c \in Nat, k >= 1, b + k < c
  PROVE  b - 1 < b /\ b <= c - 1
OBVIOUS

LEMMA Between ==
  ASSUME NEW a \in Nat, NEW n \in Nat, NEW u \in Nat, NEW b \in Nat,
         NEW v \in Nat, a <= u, u < b, b <= v, v < a + n
  PROVE  a <= b /\ b < a + n
OBVIOUS

(* Two entries with one behind the other, and the unit below the second.   *)
LEMMA GapFacts ==
  ASSUME IsMap(map), NEW i \in 1 .. Len(map) - 1
  PROVE  /\ Below(i) \in 1 .. Units /\ Below(i) + 1 = map[i + 1].addr
         /\ map[i + 1].addr \in 1 .. Units
         /\ InMap(map, map[i + 1].addr)
         /\ ~ InMap(map, Below(i))
<1>1. i \in 1 .. Len(map) /\ i + 1 \in 1 .. Len(map) /\ i < i + 1
  BY EntryNat DEF IsMap
<1>2. /\ map[i].addr \in Nat /\ map[i].size \in Nat /\ map[i].addr >= 1
      /\ map[i + 1].addr \in Nat /\ map[i + 1].size \in Nat
      /\ map[i + 1].size >= 1
      /\ map[i + 1].addr + map[i + 1].size <= Units + 1
      /\ map[i].addr + map[i].size < map[i + 1].addr
  BY <1>1, MapFacts
<1>3. /\ Below(i) \in 1 .. Units /\ Below(i) + 1 = map[i + 1].addr
      /\ map[i + 1].addr \in 1 .. Units
      /\ map[i].addr + map[i].size <= Below(i) /\ Below(i) < map[i + 1].addr
      /\ Below(i) \in Nat /\ map[i + 1].addr \in Extent(map[i + 1])
  <2> DEFINE x == map[i]
             y == map[i + 1]
  <2>1. /\ x.addr \in Nat /\ x.size \in Nat /\ x.addr >= 1
        /\ y.addr \in Nat /\ y.size \in Nat /\ y.size >= 1
        /\ y.addr + y.size <= Units + 1 /\ x.addr + x.size < y.addr
        /\ Below(i) = y.addr - 1
    BY <1>2 DEF Below
  <2> HIDE DEF x, y
  <2>2. /\ y.addr - 1 \in 1 .. Units /\ y.addr \in 1 .. Units
        /\ (y.addr - 1) + 1 = y.addr /\ y.addr - 1 < y.addr
        /\ x.addr + x.size <= y.addr - 1 /\ y.addr - 1 \in Nat
        /\ y.addr \in Extent(y)
    BY <2>1, GapEntries
  <2>3. QED BY <2>1, <2>2 DEF x, y
<1>4. InMap(map, map[i + 1].addr)
  BY <1>1, <1>3 DEF InMap
<1>5. ASSUME NEW j \in 1 .. Len(map) PROVE Below(i) \notin Extent(map[j])
  <2>1. /\ map[j].addr \in Nat /\ map[j].size \in Nat
        /\ map[j].addr + map[j].size \in Nat
    BY EntryNat
  <2>2. Below(i) \in Extent(map[j]) <=>
          map[j].addr <= Below(i) /\ Below(i) < map[j].addr + map[j].size
    BY <2>1, <1>3, ExtentFacts
  <2>3. CASE j <= i
    <3>1. j = i \/ j < i
      BY <2>3, <1>1
    <3>2. map[j].addr + map[j].size <= map[i].addr + map[i].size
      BY <3>1, <1>1, <1>2, <2>1, EntryOrder
    <3>3. map[j].addr + map[j].size <= Below(i)
      BY <3>2, <2>1, <1>1, <1>3, EntryNat, BeforeGap
    <3>4. QED BY <3>3, <2>1, <2>2, <1>3
  <2>4. CASE i + 1 <= j
    <3>1. j = i + 1 \/ i + 1 < j
      BY <2>4, <1>1
    <3>2. i + 1 < j => map[i + 1].addr + map[i + 1].size < map[j].addr
      BY <1>1, MapFacts
    <3>3. Below(i) < map[j].addr
      <4>1. CASE j = i + 1
        BY <4>1, <1>3
      <4>2. CASE i + 1 < j
        BY <4>2, <3>2, <1>2, <2>1, BehindGap DEF Below
      <4>3. QED BY <3>1, <4>1, <4>2
    <3>4. QED BY <3>3, <2>1, <2>2, <1>3
  <2>5. QED BY <2>3, <2>4, <1>1
<1>6. QED BY <1>3, <1>4, <1>5 DEF InMap

(* Entries with different numbers have different addresses.                *)
LEMMA AddrOrder ==
  ASSUME IsMap(map), NEW i \in 1 .. Len(map) - 1, NEW j \in 1 .. Len(map) - 1,
         i < j
  PROVE  Below(i) < map[i + 1].addr /\ map[i + 1].addr <= Below(j)
<1>1. i + 1 \in 1 .. Len(map) /\ j + 1 \in 1 .. Len(map) /\ i + 1 < j + 1
  BY EntryNat DEF IsMap
<1>2. map[i + 1].addr + map[i + 1].size < map[j + 1].addr
  BY <1>1, MapFacts
<1>3. /\ map[i + 1].addr \in Nat /\ map[i + 1].size \in Nat
      /\ map[i + 1].size >= 1 /\ map[j + 1].addr \in Nat
  BY <1>1, MapFacts
<1>4. QED BY <1>2, <1>3, AfterGap DEF Below

(* The holders are finitely many, for no two of them begin at one address. *)
LEMMA HeldFinite ==
  ASSUME Inv
  PROVE  IsFiniteSet(held)
<1> DEFINE f == [e \in held |-> e.addr]
<1>1. \A e \in held : /\ e.addr \in 1 .. Units /\ e.size \in 1 .. Units
  BY DEF Inv, UnitsOnce
<1>2. \A e \in held : e.addr \in Extent(e)
  BY <1>1, UnitsAssumption DEF Extent
<1>3. \A e, g \in held : f[e] = f[g] => e = g
  BY <1>2 DEF Inv, UnitsOnce
<1>4. f \in Injection(held, 1 .. Units)
  BY <1>1, <1>3 DEF Injection, IsInjective
<1>5. IsFiniteSet(1 .. Units)
  BY FS_Interval, UnitsAssumption
<1>6. QED BY <1>4, <1>5, FS_Injection

LEMMA InvFragments ==
  ASSUME Inv
  PROVE  Fragments
<1> DEFINE N == 1 .. Len(map) - 1
           Ends == {h \in Hole : h + 1 \notin Hole}
           A == {i \in N : Below(i) \in Hole}
           B == {i \in N : Below(i) \notin Hole}
           over(i) == CHOOSE e \in held : Below(i) \in Extent(e)
           fa == [i \in A |-> Below(i)]
           fb == [i \in B |-> over(i)]
<1>1. IsMap(map) /\ Len(map) \in Nat /\ next \in 1 .. Units + 1
  BY MapFacts DEF Inv, MapOK
<1>2. IsFiniteSet(held) /\ IsFiniteSet(Ends)
  <2>1. IsFiniteSet(1 .. Units)
    BY FS_Interval, UnitsAssumption
  <2>2. Ends \in SUBSET (1 .. Units)
    BY HoleAssumption
  <2>3. QED BY <2>1, <2>2, FS_Subset, HeldFinite
<1>3. ASSUME NEW i \in N
      PROVE  /\ Below(i) \in Hole => Below(i) \in Ends
             /\ Below(i) \notin Hole => InHeld(Below(i))
  <2>1. /\ Below(i) \in 1 .. Units /\ Below(i) + 1 = map[i + 1].addr
        /\ map[i + 1].addr \in 1 .. Units
        /\ InMap(map, map[i + 1].addr) /\ ~ InMap(map, Below(i))
    BY <1>1, GapFacts
  <2>2. map[i + 1].addr < next /\ map[i + 1].addr \notin Hole
    BY <2>1 DEF Inv, UnitsOnce
  <2>3. Below(i) < next
    BY <2>1, <2>2, <1>1, UnitsAssumption
  <2>4. QED BY <2>1, <2>2, <2>3 DEF Inv, UnitsOnce
<1>4. \A i, j \in N : i < j => /\ Below(i) # Below(j)
                               /\ Below(i) < map[i + 1].addr
                               /\ map[i + 1].addr <= Below(j)
  <2> SUFFICES ASSUME NEW i \in N, NEW j \in N, i < j
               PROVE  /\ Below(i) # Below(j)
                      /\ Below(i) < map[i + 1].addr
                      /\ map[i + 1].addr <= Below(j)
    OBVIOUS
  <2>1. Below(i) < map[i + 1].addr /\ map[i + 1].addr <= Below(j)
    BY <1>1, AddrOrder
  <2>2. Below(i) \in 1 .. Units /\ Below(j) \in 1 .. Units
        /\ map[i + 1].addr \in 1 .. Units
    BY <1>1, GapFacts
  <2>3. QED BY <2>1, <2>2, UnitsAssumption
<1>5. fa \in Injection(A, Ends)
  <2>1. fa \in [A -> Ends]
    BY <1>3
  <2>2. \A i, j \in A : fa[i] = fa[j] => i = j
    BY <1>1, <1>4
  <2>3. QED BY <2>1, <2>2 DEF Injection, IsInjective
<1>6. \A i \in B : over(i) \in held /\ Below(i) \in Extent(over(i))
  BY <1>3 DEF InHeld
<1>7. fb \in Injection(B, held)
  <2>1. fb \in [B -> held]
    BY <1>6
  <2>2. ASSUME NEW i \in B, NEW j \in B, i < j, over(i) = over(j)
        PROVE  FALSE
    <3>1. /\ Below(i) \in Extent(over(i)) /\ Below(j) \in Extent(over(i))
          /\ over(i) \in held
      BY <1>6, <2>2
    <3>2. /\ map[i + 1].addr \in 1 .. Units /\ InMap(map, map[i + 1].addr)
          /\ Below(i) \in 1 .. Units /\ Below(j) \in 1 .. Units
      BY <1>1, GapFacts
    <3>3. over(i).addr \in Nat /\ over(i).size \in Nat
      BY <3>1, UnitsAssumption DEF Inv, UnitsOnce
    <3>4. Below(i) < map[i + 1].addr /\ map[i + 1].addr <= Below(j)
      BY <1>4, <2>2
    <3>5. /\ over(i).addr <= Below(i)
          /\ Below(j) < over(i).addr + over(i).size
      BY <3>1, <3>2, <3>3, ExtentFacts
    <3>6. map[i + 1].addr \in Extent(over(i))
      <4> HIDE DEF over
      <4>0. Below(i) \in Nat /\ Below(j) \in Nat /\ map[i + 1].addr \in Nat
        BY <3>2, UnitsAssumption
      <4>1. /\ over(i).addr <= map[i + 1].addr
            /\ map[i + 1].addr < over(i).addr + over(i).size
        BY <3>3, <3>4, <3>5, <4>0, Between
      <4>2. QED BY <4>1, <3>2, <3>3, ExtentFacts
    <3>7. InHeld(map[i + 1].addr)
      BY <3>1, <3>6 DEF InHeld
    <3>8. QED BY <3>2, <3>7 DEF Inv, UnitsOnce
  <2>3. \A i, j \in B : fb[i] = fb[j] => i = j
    <3> SUFFICES ASSUME NEW i \in B, NEW j \in B, fb[i] = fb[j], i # j
                 PROVE  FALSE
      OBVIOUS
    <3>1. over(i) = over(j)
      OBVIOUS
    <3>2. i < j \/ j < i
      BY <1>1
    <3>3. QED BY <3>1, <3>2, <2>2
  <2>4. QED BY <2>1, <2>3 DEF Injection, IsInjective
<1> HIDE DEF fa, fb
<1>8. /\ IsFiniteSet(A) /\ Cardinality(A) <= Cardinality(Ends)
      /\ IsFiniteSet(B) /\ Cardinality(B) <= Cardinality(held)
  BY <1>2, <1>5, <1>7, FS_Injection
<1>9. Cardinality(N) = Cardinality(A) + Cardinality(B)
  <2>1. N = A \cup B /\ A \cap B = {}
    OBVIOUS
  <2>2. Cardinality(A \cup B) =
          Cardinality(A) + Cardinality(B) - Cardinality(A \cap B)
    BY <1>8, FS_Union
  <2>3. Cardinality(A \cap B) = 0
    BY <2>1, FS_EmptySet
  <2>4. Cardinality(A) \in Nat /\ Cardinality(B) \in Nat
    BY <1>8, FS_CardinalityType
  <2> HIDE DEF A, B, N
  <2>5. QED BY <2>1, <2>2, <2>3, <2>4
<1>10. Len(map) - 1 <= Cardinality(N)
  <2> DEFINE l == Len(map) - 1
  <2>1. l \in Int /\ 1 \in Int
    BY <1>1
  <2> HIDE DEF l
  <2>2. Cardinality(1 .. l) = IF 1 > l THEN 0 ELSE l - 1 + 1
    BY <2>1, FS_Interval
  <2>3. l <= Cardinality(1 .. l)
    BY <2>1, <2>2
  <2>4. QED BY <2>3 DEF l
<1>11. /\ Cardinality(A) \in Nat /\ Cardinality(B) \in Nat
       /\ Cardinality(held) \in Nat /\ Cardinality(Ends) \in Nat
  BY <1>2, <1>8, FS_CardinalityType
<1>12. Len(map) <= 1 + Cardinality(held) + Cardinality(Ends)
  <2> HIDE DEF A, B, N, Ends
  <2>1. QED BY <1>1, <1>8, <1>9, <1>10, <1>11
<1>13. QED BY <1>12 DEF Fragments

(* The list never has more entries than there are holders and holes, and   *)
(* one: the table that mfree fills without a test is long enough when      *)
(* those are bounded.                                                      *)
THEOREM FewFragments == Spec => []Fragments
<1>1. Inv => Fragments
  BY InvFragments
<1>2. QED BY <1>1, InvInit, InvNext, PTL DEF Spec
=============================================================================
