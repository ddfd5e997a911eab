----------------------------- MODULE ClockProofs -----------------------------
(***************************************************************************)
(* What the clock guarantees: the callout table and the interrupt levels   *)
(* it is worked off at.                                                    *)
(*                                                                         *)
(* The callout table holds one entry for each timer that was entered, at   *)
(* the right time, whatever the timers, the times asked for and the ticks  *)
(* that come while the clock calls them or closes the table up, PROVIDED   *)
(* that the table has room for all that can expire meanwhile (RoomEnough). *)
(*                                                                         *)
(* One clock at most is in the callouts, and a handler is not entered by   *)
(* those at its level, whatever the lines in use, PROVIDED that the masks  *)
(* respect the levels (MaskOrder).  MaskOrder is a fact about the numbers  *)
(* IPL0 ... IPL7 and the table ipltbl: it holds of every line but 15,      *)
(* whose level is 5 and which IPL5 and IPL6 let in.                        *)
(***************************************************************************)
EXTENDS Callout, Interrupt, WellFoundedInduction, FiniteSetTheorems, SequenceTheorems, TLAPS

-----------------------------------------------------------------------------
(* A set of entries that is not empty has a first one.                     *)
LEMMA Least ==
  ASSUME NEW T, T \subseteq Nat, T # {}
  PROVE  \E x \in T : \A y \in T : x <= y
<1>1. PICK x \in T : \A y \in T : ~ (<<y, x>> \in OpToRel(<, Nat))
  BY NatLessThanWellFounded, WFMin
<1>2. \A y \in T : ~ (y < x)
  BY <1>1 DEF OpToRel
<1>3. QED BY <1>2

(* The entries, one after another.                                         *)
LEMMA SlotFacts ==
  /\ Slot \subseteq Nat /\ 0 \in Slot /\ NCALL \in Slot /\ NCALL \in Nat
  /\ \A s \in Slot \ {0} : s - 1 \in Slot
  /\ \A s \in Slot : s # NCALL => s + 1 \in Slot
BY CalloutAssumption DEF Slot

(* Min is the first of a set of entries.                                   *)
LEMMA MinFacts ==
  ASSUME NEW S, S \subseteq Slot, S # {}
  PROVE  Min(S) \in S /\ \A y \in S : Min(S) <= y
<1>1. \E x \in S : \A y \in S : x <= y
  BY SlotFacts, Least
<1>2. QED BY <1>1 DEF Min

(* What an entry inherits from the one before it, every entry has.         *)
LEMMA SlotInduction ==
  ASSUME NEW G, 0 \in G, \A s \in Slot \ {0} : s - 1 \in G => s \in G
  PROVE  Slot \subseteq G
<1> SUFFICES ASSUME Slot \ G # {} PROVE FALSE
  OBVIOUS
<1>1. PICK x \in Slot \ G : \A y \in Slot \ G : x <= y
  BY SlotFacts, Least
<1>2. x \in Slot /\ x # 0 /\ x \in Nat
  BY SlotFacts
<1>3. x - 1 \in Slot /\ ~ (x <= x - 1)
  BY <1>2, SlotFacts
<1>4. x - 1 \in G
  BY <1>1, <1>3
<1>5. QED BY <1>2, <1>4

-----------------------------------------------------------------------------
(* f is the function of the sums of w.                                     *)
IsSums(w, f) ==
  /\ f \in [Slot -> Int]
  /\ f[0] = w[0]
  /\ \A s \in Slot \ {0} : f[s] = f[s - 1] + w[s]

(* Sums exist ...                                                          *)
LEMMA SumsExist ==
  ASSUME NEW w \in [Slot -> Int]
  PROVE  \E f : IsSums(w, f)
<1> DEFINE Upto(n, f) == /\ f \in [Slot -> Int] /\ f[0] = w[0]
                         /\ \A s \in Slot \ {0} : s <= n => f[s] = f[s - 1] + w[s]
           G == {n \in Slot : \E f : Upto(n, f)}
<1>1. 0 \in G
  <2>1. Upto(0, [s \in Slot |-> w[0]])
    BY SlotFacts
  <2>2. QED BY <2>1, SlotFacts
<1>2. ASSUME NEW n \in Slot \ {0}, n - 1 \in G PROVE n \in G
  <2>1. PICK f : Upto(n - 1, f)
    BY <1>2
  <2>2. f \in [Slot -> Int] /\ f[n - 1] + w[n] \in Int /\ n - 1 \in Slot
    BY <2>1, SlotFacts
  <2>3. Upto(n, [f EXCEPT ![n] = f[n - 1] + w[n]])
    BY <2>1, <2>2, SlotFacts
  <2>4. QED BY <2>3
<1>3. NCALL \in G
  <2> HIDE DEF G
  <2>1. QED BY <1>1, <1>2, SlotInduction, SlotFacts
<1>4. PICK f : Upto(NCALL, f)
  BY <1>3
<1>5. \A s \in Slot : s <= NCALL
  BY CalloutAssumption DEF Slot
<1>6. QED BY <1>4, <1>5 DEF IsSums

(* ... and are determined by w.                                            *)
LEMMA SumsUnique ==
  ASSUME NEW w \in [Slot -> Int], NEW f, IsSums(w, f), NEW g,
         g = [s \in Slot |-> IF s = 0 THEN w[0] ELSE g[s - 1] + w[s]]
  PROVE  g = f
<1> DEFINE G == {s \in Slot : g[s] = f[s]}
<1>1. 0 \in G
  BY SlotFacts DEF IsSums
<1>2. \A s \in Slot \ {0} : s - 1 \in G => s \in G
  BY SlotFacts DEF IsSums
<1>3. Slot \subseteq G
  <2> HIDE DEF G
  <2>1. QED BY <1>1, <1>2, SlotInduction
<1>4. \A s \in Slot : g[s] = f[s]
  BY <1>3
<1>5. DOMAIN f = Slot /\ f = [s \in Slot |-> f[s]]
  BY DEF IsSums
<1>6. g = [s \in Slot |-> g[s]]
  OBVIOUS
<1>7. QED BY <1>4, <1>5, <1>6

(* The function of Sums is the one and only that sums up.                  *)
LEMMA SumsFacts ==
  ASSUME NEW w \in [Slot -> Int]
  PROVE  IsSums(w, Sums(w))
<1>1. PICK f : IsSums(w, f)
  BY SumsExist
<1> DEFINE Rec(h) == h = [s \in Slot |-> IF s = 0 THEN w[0] ELSE h[s - 1] + w[s]]
<1>2. Rec(f)
  BY <1>1 DEF IsSums
<1>3. Sums(w) = CHOOSE h : Rec(h)
  BY DEF Sums
<1>4. Rec(Sums(w))
  <2> HIDE DEF Rec
  <2>1. QED BY <1>2, <1>3
<1>5. Sums(w) = f
  BY <1>1, <1>4, SumsUnique
<1>6. QED BY <1>1, <1>5

(* A function with the property of the sums is the sums.                   *)
LEMMA SumsIs ==
  ASSUME NEW w \in [Slot -> Int], NEW f, IsSums(w, f)
  PROVE  Sums(w) = f
<1> DEFINE g == Sums(w)
<1>1. IsSums(w, g)
  BY SumsFacts
<1> HIDE DEF g
<1>2. g = [s \in Slot |-> IF s = 0 THEN w[0] ELSE g[s - 1] + w[s]]
  BY <1>1 DEF IsSums
<1>3. QED BY <1>2, SumsUnique DEF g

(* Sums of times are times, never smaller than those before them.          *)
LEMMA SumsNat ==
  ASSUME NEW w \in [Slot -> Nat]
  PROVE  /\ Sums(w) \in [Slot -> Nat]
         /\ \A s \in Slot : w[s] <= Sums(w)[s]
         /\ \A s \in Slot \ {0} : Sums(w)[s] = Sums(w)[s - 1] + w[s]
         /\ Sums(w)[0] = w[0]
<1> DEFINE f == Sums(w)
           G == {s \in Slot : f[s] \in Nat}
<1>1. IsSums(w, f)
  BY SumsFacts
<1> HIDE DEF f
<1>2. 0 \in G
  BY <1>1, SlotFacts DEF IsSums
<1>3. \A s \in Slot \ {0} : s - 1 \in G => s \in G
  BY <1>1, SlotFacts DEF IsSums
<1>4. Slot \subseteq G
  <2> HIDE DEF G
  <2>1. QED BY <1>2, <1>3, SlotInduction
<1>5. \A s \in Slot : f[s] \in Nat
  BY <1>4
<1>6. f \in [Slot -> Nat]
  BY <1>1, <1>5 DEF IsSums
<1>7. \A s \in Slot : w[s] <= f[s]
  <2>1. TAKE s \in Slot
  <2>2. CASE s = 0
    BY <1>1, <2>2 DEF IsSums
  <2>3. CASE s # 0
    <3>1. f[s] = f[s - 1] + w[s] /\ s - 1 \in Slot
      BY <1>1, <2>3, SlotFacts DEF IsSums
    <3>2. f[s - 1] \in Nat /\ w[s] \in Nat
      BY <1>5, <3>1
    <3>3. QED BY <3>1, <3>2
  <2>4. QED BY <2>2, <2>3
<1>8. QED BY <1>1, <1>6, <1>7 DEF IsSums, f

(* A sum is never smaller than one before it.                              *)
LEMMA SumsGrow ==
  ASSUME NEW w \in [Slot -> Nat]
  PROVE  \A s \in Slot : \A r \in Slot : r <= s => Sums(w)[r] <= Sums(w)[s]
<1> DEFINE f == Sums(w)
           G == {s \in Slot : \A r \in Slot : r <= s => f[r] <= f[s]}
<1>1. /\ f \in [Slot -> Nat]
      /\ \A s \in Slot \ {0} : f[s] = f[s - 1] + w[s]
  BY SumsNat
<1> HIDE DEF f
<1>2. 0 \in G
  BY <1>1, SlotFacts
<1>3. ASSUME NEW s \in Slot \ {0}, s - 1 \in G PROVE s \in G
  <2>1. f[s - 1] \in Nat /\ f[s] \in Nat /\ w[s] \in Nat /\ f[s] = f[s - 1] + w[s]
    BY <1>1, SlotFacts
  <2>2. ASSUME NEW r \in Slot, r <= s PROVE f[r] <= f[s]
    <3>1. CASE r = s
      BY <2>1, <3>1
    <3>2. CASE r # s
      <4>1. r <= s - 1
        BY <2>2, <3>2, SlotFacts
      <4>2. f[r] <= f[s - 1] /\ f[r] \in Nat
        BY <1>1, <1>3, <4>1
      <4>3. QED BY <2>1, <4>2
    <3>3. QED BY <3>1, <3>2
  <2>3. QED BY <2>2
<1>4. Slot \subseteq G
  <2> HIDE DEF G
  <2>1. QED BY <1>2, <1>3, SlotInduction
<1>5. QED BY <1>4 DEF f

(* A sum is zero as long as all times are.                                 *)
LEMMA SumsZero ==
  ASSUME NEW w \in [Slot -> Nat], NEW s \in Slot
  PROVE  Sums(w)[s] = 0 <=> \A r \in 0 .. s : w[r] = 0
<1> DEFINE f == Sums(w)
           G == {r \in Slot : r <= s => f[r] = 0}
<1>1. /\ f \in [Slot -> Nat] /\ f[0] = w[0]
      /\ \A r \in Slot : w[r] <= f[r]
      /\ \A r \in Slot \ {0} : f[r] = f[r - 1] + w[r]
  BY SumsNat
<1>2. \A r \in Slot : r <= s => f[r] <= f[s]
  BY SumsGrow
<1>3. 0 .. s \subseteq Slot /\ s \in Nat
  BY CalloutAssumption DEF Slot
<1> HIDE DEF f
<1>4. ASSUME f[s] = 0, NEW r \in 0 .. s PROVE w[r] = 0
  <2>1. f[r] <= 0 /\ w[r] <= f[r] /\ f[r] \in Nat /\ w[r] \in Nat
    BY <1>1, <1>2, <1>3, <1>4
  <2>2. QED BY <2>1
<1>5. ASSUME \A r \in 0 .. s : w[r] = 0 PROVE f[s] = 0
  <2>1. 0 \in G
    BY <1>1, <1>3, <1>5
  <2>2. ASSUME NEW r \in Slot \ {0}, r - 1 \in G PROVE r \in G
    <3>1. CASE r <= s
      <4>1. f[r - 1] = 0 /\ w[r] = 0 /\ f[r] = f[r - 1] + w[r]
        BY <1>1, <1>3, <1>5, <2>2, <3>1, SlotFacts
      <4>2. QED BY <4>1
    <3>2. CASE ~ (r <= s)
      BY <3>2
    <3>3. QED BY <3>1, <3>2
  <2>3. Slot \subseteq G
    <3> HIDE DEF G
    <3>1. QED BY <2>1, <2>2, SlotInduction
  <2>4. QED BY <1>3, <2>3
<1>6. QED BY <1>4, <1>5 DEF f

(* A tick: one entry is decremented, and with it all that follow.          *)
LEMMA SumsTick ==
  ASSUME NEW w \in [Slot -> Nat], NEW f \in Slot, w[f] > 0, NEW s \in Slot
  PROVE  /\ Sums([w EXCEPT ![f] = @ - 1])[s]
              = IF s < f THEN Sums(w)[s] ELSE Sums(w)[s] - 1
         /\ s >= f => Sums(w)[s] >= 1
<1> DEFINE u == Sums(w)
           v == [w EXCEPT ![f] = @ - 1]
           g == [r \in Slot |-> IF r < f THEN u[r] ELSE u[r] - 1]
<1>1. /\ u \in [Slot -> Nat] /\ u[0] = w[0]
      /\ \A r \in Slot \ {0} : u[r] = u[r - 1] + w[r]
      /\ w[f] <= u[f]
  BY SumsNat
<1>2. \A r \in Slot : f <= r => u[f] <= u[r]
  BY SumsGrow
<1> HIDE DEF u
<1>3. v \in [Slot -> Int] /\ g \in [Slot -> Int]
  BY <1>1
<1>4. IsSums(v, g)
  <2>1. g[0] = v[0]
    BY <1>1, SlotFacts
  <2>2. ASSUME NEW r \in Slot \ {0} PROVE g[r] = g[r - 1] + v[r]
    <3>1. /\ r - 1 \in Slot /\ u[r] = u[r - 1] + w[r]
          /\ r \in Nat /\ f \in Nat /\ u[r] \in Nat /\ u[r - 1] \in Nat /\ w[r] \in Nat
      BY <1>1, SlotFacts
    <3>2. CASE r < f
      BY <3>1, <3>2
    <3>3. CASE r = f
      BY <3>1, <3>3
    <3>4. CASE r > f
      BY <3>1, <3>4
    <3>5. QED BY <3>1, <3>2, <3>3, <3>4
  <2> HIDE DEF v, g
  <2>3. QED BY <1>3, <2>1, <2>2 DEF IsSums
<1>5. Sums(v) = g
  <2> HIDE DEF v, g
  <2>1. QED BY <1>3, <1>4, SumsIs
<1>6. s >= f => u[s] >= 1
  <2>1. u[f] \in Nat /\ u[s] \in Nat /\ w[f] \in Nat /\ f \in Nat /\ s \in Nat
    BY <1>1, SlotFacts
  <2>2. QED BY <1>1, <1>2, <2>1
<1>7. QED BY <1>5, <1>6 DEF u

(* The times when an entry that expires at x is put before a.              *)
Mine(w, a, x) == IF a = 0 THEN x ELSE x - Sums(w)[a - 1]
Entered(w, a, x, n) ==
    [s \in Slot |-> IF s < a THEN w[s]
                    ELSE IF s = a THEN Mine(w, a, x)
                    ELSE IF s = a + 1 /\ a < n THEN w[a] - Mine(w, a, x)
                    ELSE w[s - 1]]

(* timeout: the entry that is put before a takes its time from that one.   *)
LEMMA SumsEnter ==
  ASSUME NEW w \in [Slot -> Nat], NEW a \in Slot, NEW x \in Nat, NEW n \in Nat
  PROVE  \A s \in Slot :
            /\ s < a => Sums(Entered(w, a, x, n))[s] = Sums(w)[s]
            /\ s = a => Sums(Entered(w, a, x, n))[s] = x
            /\ s > a /\ a < n => Sums(Entered(w, a, x, n))[s] = Sums(w)[s - 1]
<1> DEFINE mine == Mine(w, a, x)
           v == Entered(w, a, x, n)
<1>0. v = [s \in Slot |-> IF s < a THEN w[s]
                          ELSE IF s = a THEN mine
                          ELSE IF s = a + 1 /\ a < n THEN w[a] - mine
                          ELSE w[s - 1]]
  BY DEF Entered
<1> HIDE DEF v
<1> DEFINE u == Sums(w)
<1>1. /\ u \in [Slot -> Nat] /\ u[0] = w[0]
      /\ \A r \in Slot \ {0} : u[r] = u[r - 1] + w[r]
  BY SumsNat
<1> HIDE DEF u
<1>2. mine = IF a = 0 THEN x ELSE x - u[a - 1]
  BY DEF u, Mine
<1> HIDE DEF mine
<1>3. a \in Nat /\ mine \in Int /\ (a # 0 => a - 1 \in Slot /\ u[a - 1] \in Nat)
  BY <1>1, <1>2, SlotFacts
<1>4. v \in [Slot -> Int]
  <2>1. ASSUME NEW s \in Slot PROVE v[s] \in Int
    <3>1. s \in Nat /\ w[s] \in Nat /\ w[a] \in Nat /\ (s # 0 => w[s - 1] \in Nat)
      BY SlotFacts
    <3>2. CASE s < a
      BY <1>0, <3>1, <3>2
    <3>3. CASE s = a
      BY <1>0, <1>3, <3>3
    <3>4. CASE s > a
      BY <1>0, <1>3, <3>1, <3>4
    <3>5. QED BY <1>3, <3>1, <3>2, <3>3, <3>4
  <2>2. QED BY <1>0, <2>1
<1>5. PICK h \in [Slot -> Int] : IsSums(v, h) /\ h = Sums(v)
  BY <1>4, SumsFacts DEF IsSums
<1>6. h[0] = v[0] /\ \A s \in Slot \ {0} : h[s] = h[s - 1] + v[s]
  BY <1>5 DEF IsSums
<1> DEFINE G == {s \in Slot : /\ s < a => h[s] = u[s]
                              /\ s = a => h[s] = x
                              /\ s > a /\ a < n => h[s] = u[s - 1]}
<1>7. 0 \in G
  <2>1. CASE a = 0
    BY <1>0, <1>1, <1>2, <1>6, <2>1, SlotFacts
  <2>2. CASE a # 0
    BY <1>0, <1>1, <1>3, <1>6, <2>2, SlotFacts
  <2>3. QED BY <2>1, <2>2
<1>8. ASSUME NEW s \in Slot \ {0}, s - 1 \in G PROVE s \in G
  <2>1. /\ s \in Nat /\ s - 1 \in Slot /\ h[s] = h[s - 1] + v[s]
        /\ u[s] = u[s - 1] + w[s]
        /\ u[s] \in Nat /\ u[s - 1] \in Nat /\ w[s] \in Nat /\ w[s - 1] \in Nat
    BY <1>1, <1>6, SlotFacts
  <2>2. CASE s < a
    <3>1. s - 1 < a /\ h[s - 1] = u[s - 1]
      BY <1>3, <1>8, <2>1, <2>2
    <3>2. v[s] = w[s]
      BY <1>0, <2>2
    <3>3. QED BY <1>3, <2>1, <2>2, <3>1, <3>2
  <2>3. CASE s = a
    <3>1. s - 1 < a /\ h[s - 1] = u[s - 1]
      BY <1>3, <1>8, <2>1, <2>3
    <3>2. v[s] = x - u[s - 1]
      BY <1>0, <1>2, <1>3, <2>1, <2>3
    <3>3. QED BY <1>3, <2>1, <2>3, <3>1, <3>2
  <2>4. CASE s = a + 1
    <3>1. h[s - 1] = x /\ s - 1 = a
      BY <1>3, <1>8, <2>1, <2>4
    <3>2. a < n => v[s] = w[a] - mine
      BY <1>0, <1>3, <2>1, <2>4
    <3>3. x + (w[a] - mine) = u[a]
      <4>1. CASE a = 0
        BY <1>1, <1>2, <1>3, <4>1
      <4>2. CASE a # 0
        <5>1. u[a] = u[a - 1] + w[a] /\ mine = x - u[a - 1] /\ w[a] \in Nat
          BY <1>1, <1>2, <4>2
        <5>2. QED BY <1>3, <4>2, <5>1
      <4>3. QED BY <4>1, <4>2
    <3>4. QED BY <1>3, <2>1, <2>4, <3>1, <3>2, <3>3
  <2>5. CASE s > a + 1
    <3>1. s - 1 > a /\ s - 1 \in Slot \ {0} /\ s - 1 - 1 \in Slot
      BY <1>3, <2>1, <2>5, SlotFacts
    <3>2. a < n => h[s - 1] = u[s - 1 - 1]
      BY <1>8, <3>1
    <3>3. v[s] = w[s - 1]
      BY <1>0, <1>3, <2>1, <2>5
    <3>4. u[s - 1] = u[s - 1 - 1] + w[s - 1] /\ u[s - 1 - 1] \in Nat
      BY <1>1, <3>1
    <3>5. QED BY <1>3, <2>1, <2>5, <3>2, <3>3, <3>4
  <2>6. QED BY <1>3, <2>1, <2>2, <2>3, <2>4, <2>5
<1>9. Slot \subseteq G
  <2> HIDE DEF G
  <2>1. QED BY <1>7, <1>8, SlotInduction
<1>10. QED BY <1>5, <1>9 DEF u, v

(* The closing up: the time x of the entry b is found again at a, where    *)
(* there was none.                                                         *)
LEMMA SumsMove ==
  ASSUME NEW w \in [Slot -> Nat], NEW a \in Slot, NEW b \in Slot, a < b, w[a] = 0,
         NEW x \in Nat, x >= w[b]
  PROVE  \A s \in Slot :
           Sums([w EXCEPT ![a] = x, ![b] = 0])[s]
             = IF s < a THEN Sums(w)[s]
               ELSE IF s < b THEN Sums(w)[s] + x
               ELSE Sums(w)[s] + (x - w[b])
<1> DEFINE u == Sums(w)
           v == [w EXCEPT ![a] = x, ![b] = 0]
           g == [s \in Slot |-> IF s < a THEN u[s] ELSE IF s < b THEN u[s] + x
                                ELSE u[s] + (x - w[b])]
<1>1. /\ u \in [Slot -> Nat] /\ u[0] = w[0]
      /\ \A r \in Slot \ {0} : u[r] = u[r - 1] + w[r]
  BY SumsNat
<1> HIDE DEF u
<1>2. a \in Nat /\ b \in Nat /\ w[b] \in Nat /\ x - w[b] \in Int
  BY SlotFacts
<1>3. \A s \in Slot : v[s] = IF s = b THEN 0 ELSE IF s = a THEN x ELSE w[s]
  BY <1>2
<1>4. \A s \in Slot : g[s] = IF s < a THEN u[s] ELSE IF s < b THEN u[s] + x
                             ELSE u[s] + (x - w[b])
  OBVIOUS
<1>5. v \in [Slot -> Int] /\ g \in [Slot -> Int]
  <2>1. v \in [Slot -> Int]
    BY <1>3
  <2>2. \A s \in Slot : g[s] \in Int
    BY <1>1, <1>2, <1>4
  <2>3. QED BY <2>1, <2>2
<1> HIDE DEF v, g
<1>6. IsSums(v, g)
  <2>1. g[0] = v[0]
    <3>1. CASE a = 0
      BY <1>1, <1>2, <1>3, <1>4, <3>1, SlotFacts
    <3>2. CASE a # 0
      BY <1>1, <1>2, <1>3, <1>4, <3>2, SlotFacts
    <3>3. QED BY <3>1, <3>2
  <2>2. ASSUME NEW s \in Slot \ {0} PROVE g[s] = g[s - 1] + v[s]
    <3>1. /\ s - 1 \in Slot /\ u[s] = u[s - 1] + w[s]
          /\ s \in Nat /\ u[s] \in Nat /\ u[s - 1] \in Nat /\ w[s] \in Nat
      BY <1>1, SlotFacts
    <3>2. CASE s < a
      BY <1>2, <1>3, <1>4, <3>1, <3>2
    <3>3. CASE s = a
      BY <1>2, <1>3, <1>4, <3>1, <3>3
    <3>4. CASE s > a /\ s < b
      BY <1>2, <1>3, <1>4, <3>1, <3>4
    <3>5. CASE s = b
      BY <1>2, <1>3, <1>4, <3>1, <3>5
    <3>6. CASE s > b
      BY <1>2, <1>3, <1>4, <3>1, <3>6
    <3>7. QED BY <1>2, <3>1, <3>2, <3>3, <3>4, <3>5, <3>6
  <2>3. QED BY <1>5, <2>1, <2>2 DEF IsSums
<1>7. Sums(v) = g
  BY <1>5, <1>6, SumsIs
<1>8. QED BY <1>4, <1>7 DEF u, v

-----------------------------------------------------------------------------
(* The end of the table is the number of entries in use.                   *)
LEMMA EndIs ==
  ASSUME NEW f, NEW p \in Nat, NEW n \in p .. NCALL - 1,
         \A s \in Slot : f[s] # NoFunc <=> s < n
  PROVE  Min({s \in Slot : s >= p /\ ~ (f[s] # NoFunc)} \cup {NCALL}) = n
<1> DEFINE S == {s \in Slot : s >= p /\ ~ (f[s] # NoFunc)} \cup {NCALL}
<1>1. n \in Nat /\ n \in Slot /\ NCALL \in Nat
  BY CalloutAssumption DEF Slot
<1>2. S \subseteq Slot /\ n \in S
  BY <1>1, SlotFacts
<1>3. \A s \in S : n <= s
  BY <1>1, SlotFacts
<1>4. Min(S) \in S /\ Min(S) <= n
  BY <1>2, MinFacts
<1>5. n <= Min(S) /\ Min(S) \in Nat
  BY <1>2, <1>3, <1>4, SlotFacts
<1> HIDE DEF S
<1>6. Min(S) = n
  BY <1>1, <1>4, <1>5
<1>7. QED BY <1>6 DEF S

Moving == pc \in {"move", "load", "store"}
From == IF pc = "func" THEN p1 + 1 ELSE p1

(* The entries still to be called.                                         *)
LEMMA LiveIs ==
  ASSUME p1 \in Nat, NEW n \in p1 .. NCALL - 1, Shape(n)
  PROVE  Live = (IF Moving THEN 0 .. p2 - 1 ELSE {}) \cup From .. n - 1
<1>1. End = n
  BY EndIs DEF End, Shape, InUse
<1>2. QED BY <1>1 DEF Live, Moving, From

(* The same after a step.                                                  *)
LEMMA LiveIsNext ==
  ASSUME p1' \in Nat, NEW n \in p1' .. NCALL - 1, Shape(n)'
  PROVE  Live' = (IF Moving' THEN 0 .. p2' - 1 ELSE {}) \cup From' .. n - 1
<1>1. End' = n
  BY EndIs DEF End, Shape, InUse
<1>2. QED BY <1>1 DEF Live, Moving, From
-----------------------------------------------------------------------------
(* The invariant as the steps need it: n entries are in use.               *)
LEMMA TableFacts ==
  ASSUME CalloutInv
  PROVE  /\ TypeOK /\ p1 \in Nat /\ p2 \in Nat /\ NCALL \in Nat
         /\ \E n \in p1 .. NCALL - 1 :
              /\ Shape(n) /\ n \in Slot /\ n \in Nat
              /\ Live = (IF Moving THEN 0 .. p2 - 1 ELSE {}) \cup From .. n - 1
              /\ \A s \in Slot : s < n <=> InUse(s)
         /\ Live \subseteq Slot /\ Live \subseteq Nat
         /\ LiveTime \in [Slot -> Nat] /\ Left \in [Slot -> Nat]
         /\ \A s \in Live : /\ LiveTime[s] = time[s] /\ InUse(s)
                            /\ func[s] \in Timer /\ due[func[s]] \in Nat
<1>1. /\ TypeOK /\ p1 \in Slot /\ p2 \in Slot /\ NCALL \in Nat
      /\ p1 \in Nat /\ p2 \in Nat
  BY SlotFacts DEF CalloutInv, OneEntryEach, TypeOK
<1>2. PICK n \in p1 .. NCALL - 1 : Shape(n)
  BY DEF CalloutInv, ShapeOK
<1>3. /\ n \in Slot /\ n \in Nat
      /\ Live = (IF Moving THEN 0 .. p2 - 1 ELSE {}) \cup From .. n - 1
      /\ \A s \in Slot : s < n <=> InUse(s)
  BY <1>1, <1>2, LiveIs DEF Slot, Shape
<1>4. From \in Nat /\ (Moving => p2 < p1)
  BY <1>1 DEF From, Moving, CalloutInv, PointersOK
<1>5. \A s \in Live : s \in Nat /\ s < n /\ s < NCALL
  <2>1. p1 <= n /\ n < NCALL
    BY <1>1, <1>2
  <2>2. QED BY <1>1, <1>3, <1>4, <2>1
<1>6. Live \subseteq Slot
  BY <1>1, <1>5 DEF Slot
<1>7. LiveTime \in [Slot -> Nat]
  BY <1>1 DEF LiveTime, TypeOK
<1>8. Left \in [Slot -> Nat]
  BY <1>7, SumsNat DEF Left
<1>9. ASSUME NEW s \in Live
      PROVE  LiveTime[s] = time[s] /\ InUse(s) /\ func[s] \in Timer /\ due[func[s]] \in Nat
  <2>1. s \in Slot /\ InUse(s) /\ LiveTime[s] = time[s]
    BY <1>3, <1>5, <1>6 DEF LiveTime
  <2>2. func[s] \in Timer
    BY <1>1, <2>1 DEF InUse, TypeOK
  <2>3. due[func[s]] # Off
    BY DEF CalloutInv, OneEntryEach
  <2>4. due[func[s]] \in Off .. MaxTim
    BY <1>1, <2>2 DEF TypeOK
  <2>5. QED BY <2>1, <2>2, <2>3, <2>4, CalloutAssumption DEF Off
<1>10. QED BY <1>1, <1>2, <1>3, <1>5, <1>6, <1>7, <1>8, <1>9

(* A step that forgets entries or leaves them alone.                       *)
LEMMA TimesKept ==
  ASSUME CalloutInv, LiveTime' = LiveTime, Live' \subseteq Live, UNCHANGED missed,
         \A s \in Live' : func'[s] = func[s] /\ due'[func[s]] = due[func[s]]
  PROVE  OnTime'
BY DEF CalloutInv, OnTime, Left

(* A step that leaves the live entries and the timers alone.               *)
LEMMA EntriesKept ==
  ASSUME CalloutInv, TypeOK', Live' = Live, UNCHANGED due,
         \A s \in Live : func'[s] = func[s]
  PROVE  OneEntryEach'
BY DEF CalloutInv, OneEntryEach

(* A step that leaves the times of the live entries alone.                 *)
LEMMA LiveTimeKept ==
  ASSUME Live' = Live, \A s \in Live : time'[s] = time[s]
  PROVE  LiveTime' = LiveTime
BY DEF LiveTime

(* What a tick decrements: the first entry that has not expired.           *)
LEMMA CountFacts ==
  ASSUME CalloutInv, Count
  PROVE  \E f \in Slot :
           /\ \A r \in Slot : r < f => InUse(r) /\ time[r] = 0
           /\ \/ /\ InUse(f) /\ time[f] > 0
                 /\ time' = [time EXCEPT ![f] = @ - 1]
              \/ ~ InUse(f) /\ time' = time
<1> DEFINE S == {s \in Slot : ~InUse(s) \/ time[s] > 0} \cup {NCALL}
           f == Min(S)
<1>1. S \subseteq Slot /\ S # {}
  BY SlotFacts
<1>2. f \in S /\ \A s \in S : f <= s
  BY <1>1, MinFacts
<1>3. time \in [Slot -> 0 .. MaxTim]
  BY DEF CalloutInv, OneEntryEach, TypeOK
<1>4. ~ InUse(NCALL)
  <2>1. PICK n \in p1 .. NCALL - 1 : \A s \in Slot : s < n <=> InUse(s)
    BY TableFacts
  <2>2. ~ (NCALL < n) /\ NCALL \in Slot
    BY TableFacts, SlotFacts
  <2>3. QED BY <2>1, <2>2
<1>5. time' = IF InUse(f) THEN [time EXCEPT ![f] = @ - 1] ELSE time
  BY DEF Count
<1>6. f \in Slot /\ f \in Nat
  BY <1>1, <1>2, SlotFacts
<1>7. ASSUME NEW r \in Slot, r < f PROVE InUse(r) /\ time[r] = 0
  <2>1. r \notin S
    BY <1>2, <1>6, <1>7, SlotFacts
  <2>2. time[r] \in Nat
    BY <1>3
  <2>3. QED BY <2>1, <2>2
<1>8. InUse(f) => time[f] > 0
  BY <1>2, <1>4
<1> HIDE DEF f, S
<1>9. QED BY <1>5, <1>6, <1>7, <1>8

(* A tick takes at most one from each time, and one from each timer that   *)
(* is entered and not yet due.                                             *)
LEMMA CountTypes ==
  ASSUME CalloutInv, Count
  PROVE  /\ time' \in [Slot -> 0 .. MaxTim] /\ due' \in [Timer -> Off .. MaxTim]
         /\ \A s \in Slot : time[s] = 0 => time'[s] = 0
         /\ \A s \in Slot : time'[s] \in {time[s], time[s] - 1}
         /\ \A t \in Timer : /\ due'[t] = Off <=> due[t] = Off
                             /\ due[t] > 0 => due'[t] = due[t] - 1
                             /\ due[t] <= 0 => due'[t] = due[t]
<1>1. time \in [Slot -> 0 .. MaxTim] /\ due \in [Timer -> Off .. MaxTim] /\ MaxTim \in Nat
  BY CalloutAssumption DEF CalloutInv, OneEntryEach, TypeOK
<1>2. PICK f \in Slot : \/ time[f] > 0 /\ time' = [time EXCEPT ![f] = @ - 1]
                        \/ time' = time
  BY CountFacts
<1>3. \A s \in Slot : time[s] \in Nat /\ time[s] <= MaxTim
  BY <1>1
<1>4. /\ time' \in [Slot -> 0 .. MaxTim]
      /\ \A s \in Slot : time[s] = 0 => time'[s] = 0
      /\ \A s \in Slot : time'[s] \in {time[s], time[s] - 1}
  BY <1>1, <1>2, <1>3
<1>5. due' = [t \in Timer |-> IF due[t] > 0 THEN due[t] - 1 ELSE due[t]]
  BY DEF Count
<1>6. \A t \in Timer : due[t] \in Int /\ due[t] >= -1 /\ due[t] <= MaxTim
  BY <1>1 DEF Off
<1>7. QED BY <1>1, <1>4, <1>5, <1>6 DEF Off

(* A tick brings every live entry and the timer in it one tick nearer, or  *)
(* it hits the closing up and may be missed.                               *)
LEMMA CountTimes ==
  ASSUME CalloutInv, Count, UNCHANGED func, Live' = Live, missed' \in Nat,
         IF Moving THEN missed' = missed + 1 ELSE missed' = missed
  PROVE  /\ OnTime'
         /\ pc = "store" /\ UNCHANGED <<pc, p1, reg>> => TimesOK'
<1>1. PICK f \in Slot :
        /\ \A r \in Slot : r < f => InUse(r) /\ time[r] = 0
        /\ \/ InUse(f) /\ time[f] > 0 /\ time' = [time EXCEPT ![f] = @ - 1]
           \/ ~ InUse(f) /\ time' = time
  BY CountFacts
<1>2. /\ TypeOK /\ p1 \in Nat /\ Live \subseteq Slot /\ Live \subseteq Nat
      /\ LiveTime \in [Slot -> Nat] /\ Left \in [Slot -> Nat] /\ f \in Nat
      /\ missed \in Nat
  BY TableFacts, SlotFacts DEF TypeOK
<1>3. \A s \in Live : /\ LiveTime[s] = time[s] /\ InUse(s) /\ time[s] \in Nat
                      /\ Left[s] \in Nat
                      /\ due[func[s]] \in Nat /\ due'[func'[s]] \in Nat
                      /\ due[func[s]] > 0 => due'[func'[s]] = due[func[s]] - 1
                      /\ due[func[s]] = 0 => due'[func'[s]] = 0
  <2>1. TAKE s \in Live
  <2>2. LiveTime[s] = time[s] /\ InUse(s) /\ func[s] \in Timer /\ due[func[s]] \in Nat
    BY TableFacts
  <2>3. /\ due[func[s]] > 0 => due'[func'[s]] = due[func[s]] - 1
        /\ due[func[s]] = 0 => due'[func'[s]] = 0
    BY <2>2, CountTypes
  <2>4. due'[func'[s]] \in Nat
    BY <2>2, <2>3
  <2>5. QED BY <1>2, <2>2, <2>3, <2>4
<1>4. \A s \in Live : /\ Left[s] - due[func[s]] >= 0
                      /\ Left[s] - due[func[s]] <= missed
  BY <1>2, <1>3 DEF CalloutInv, OnTime
<1>5. \A s \in Live : s < f => Left[s] = 0
  <2>1. TAKE s \in Live
  <2>2. HAVE s < f
  <2>3. \A r \in 0 .. s : LiveTime[r] = 0
    <3>1. ASSUME NEW r \in 0 .. s PROVE LiveTime[r] = 0
      <4>1. r \in Slot /\ r < f
        BY <1>2, <2>2, CalloutAssumption DEF Slot
      <4>2. QED BY <1>1, <4>1 DEF LiveTime
    <3>2. QED BY <3>1
  <2>4. QED BY <1>2, <2>3, SumsZero DEF Left
<1>6. CASE f \in Live
  <2>1. InUse(f) /\ time[f] > 0 /\ time' = [time EXCEPT ![f] = @ - 1] /\ LiveTime[f] > 0
    BY <1>1, <1>3, <1>6
  <2>2. LiveTime' = [LiveTime EXCEPT ![f] = @ - 1]
    BY <1>2, <1>6, <2>1 DEF LiveTime, TypeOK
  <2>3. \A s \in Live : /\ Left'[s] = IF s < f THEN Left[s] ELSE Left[s] - 1
                        /\ s >= f => Left[s] >= 1
    BY <1>2, <2>1, <2>2, SumsTick DEF Left
  <2>4. ASSUME NEW s \in Live PROVE Left'[s] - due'[func'[s]] \in 0 .. missed'
    <3>1. Left'[s] - due'[func'[s]] \in 0 .. missed
      <4>1. CASE s < f
        BY <1>2, <1>3, <1>4, <1>5, <2>3, <4>1
      <4>2. CASE ~ (s < f)
        BY <1>2, <1>3, <1>4, <2>3, <4>2
      <4>3. QED BY <4>1, <4>2
    <3>2. QED BY <1>2, <3>1
  <2>5. ASSUME pc = "store", UNCHANGED <<pc, p1, reg>>,
               NEW s \in Live, s >= p1
        PROVE  Left'[s] + (reg' - time'[p1']) - due'[func'[s]] \in 0 .. missed'
    <3>1. /\ reg \in Nat /\ time[p1] \in Nat /\ reg >= time[p1] /\ p1 \in Slot
          /\ Left[s] + (reg - time[p1]) - due[func[s]] >= 0
          /\ Left[s] + (reg - time[p1]) - due[func[s]] <= missed
          /\ missed' = missed + 1
      BY <1>2, <2>5 DEF CalloutInv, PointersOK, TimesOK, TypeOK, Moving
    <3>2. CASE f = p1
      <4>1. time'[p1'] = time[p1] - 1 /\ s >= f
        BY <1>2, <2>1, <2>5, <3>2 DEF TypeOK
      <4>2. Left'[s] = Left[s] - 1
        BY <1>2, <2>3, <4>1
      <4>3. QED BY <1>2, <1>3, <2>5, <3>1, <4>1, <4>2
    <3>3. CASE f # p1
      <4>1. time'[p1'] = time[p1]
        BY <1>2, <2>1, <2>5, <3>3 DEF TypeOK
      <4>2. CASE s < f
        BY <1>2, <1>3, <1>4, <1>5, <2>3, <2>5, <3>1, <4>1, <4>2
      <4>3. CASE ~ (s < f)
        <5>1. Left'[s] = Left[s] - 1 /\ Left[s] >= 1
          BY <1>2, <2>3, <4>3
        <5>2. QED BY <1>2, <1>3, <2>5, <3>1, <4>1, <5>1
      <4>4. QED BY <4>2, <4>3
    <3>4. QED BY <3>2, <3>3
  <2>6. QED BY <2>4, <2>5 DEF OnTime, TimesOK
<1>7. CASE f \notin Live
  <2>1. \A s \in Live : time'[s] = time[s]
    BY <1>1, <1>2, <1>7 DEF TypeOK
  <2>2. LiveTime' = LiveTime /\ Left' = Left
    BY <2>1, LiveTimeKept DEF Left
  <2>3. CASE Moving
    <3>1. missed' = missed + 1
      BY <2>3
    <3>2. ASSUME NEW s \in Live PROVE Left'[s] - due'[func'[s]] \in 0 .. missed'
      BY <1>2, <1>3, <1>4, <2>2, <3>1
    <3>3. ASSUME pc = "store", UNCHANGED <<pc, p1, reg>>,
                 NEW s \in Live, s >= p1
          PROVE  Left'[s] + (reg' - time'[p1']) - due'[func'[s]] \in 0 .. missed'
      <4>1. /\ reg \in Nat /\ time[p1] \in Nat /\ reg >= time[p1] /\ p1 \in Slot
            /\ Left[s] + (reg - time[p1]) - due[func[s]] >= 0
            /\ Left[s] + (reg - time[p1]) - due[func[s]] <= missed
        BY <1>2, <3>3 DEF CalloutInv, PointersOK, TimesOK, TypeOK
      <4>2. p1 \in Live
        <5>1. PICK n \in p1 .. NCALL - 1 :
                /\ Shape(n) /\ n \in Nat
                /\ Live = (IF Moving THEN 0 .. p2 - 1 ELSE {}) \cup From .. n - 1
          BY TableFacts
        <5>2. p1 < n /\ From = p1
          BY <3>3, <5>1 DEF Shape, From
        <5>3. QED BY <1>2, <5>1, <5>2
      <4>3. time'[p1'] = time[p1]
        BY <2>1, <3>3, <4>2
      <4>4. Left[s] - due'[func'[s]] <= Left[s] - due[func[s]] + 1
            /\ Left[s] - due'[func'[s]] >= Left[s] - due[func[s]]
        BY <1>2, <1>3
      <4>5. QED BY <1>2, <1>3, <2>2, <3>1, <3>3, <4>1, <4>3, <4>4
    <3>4. QED BY <3>2, <3>3 DEF OnTime, TimesOK
  <2>4. CASE ~ Moving
    <3>1. PICK n \in p1 .. NCALL - 1 :
            /\ Shape(n) /\ n \in Nat /\ Live = From .. n - 1
            /\ \A s \in Slot : s < n <=> InUse(s)
      BY <2>4, TableFacts
    <3>2. f >= n
      <4>1. SUFFICES ASSUME f < n PROVE FALSE
        BY <1>2, <3>1
      <4>2. InUse(f) /\ time[f] > 0
        BY <1>1, <3>1, <4>1
      <4>3. f < From
        BY <1>2, <1>7, <3>1, <4>1 DEF From
      <4>4. pc \in {"run", "func"}
        BY <1>2, <2>4, <4>3 DEF From, Moving, TypeOK, CalloutInv, PointersOK
      <4>5. time[f] = 0
        BY <1>2, <4>3, <4>4 DEF From, CalloutInv, PointersOK
      <4>6. QED BY <4>2, <4>5
    <3>3. \A s \in Live : s < f
      BY <1>2, <3>1, <3>2 DEF From
    <3>4. ASSUME NEW s \in Live PROVE Left'[s] - due'[func'[s]] \in 0 .. missed'
      BY <1>2, <1>3, <1>4, <1>5, <2>2, <2>4, <3>3
    <3>5. QED BY <2>4, <3>4 DEF OnTime, Moving
  <2>5. QED BY <2>3, <2>4
<1>8. QED BY <1>6, <1>7
-----------------------------------------------------------------------------
(* The table is no longer than what has expired and one entry a timer.     *)
LEMMA TableLength ==
  ASSUME RoomEnough, CalloutInv, ~ Moving, NEW n \in p1 .. NCALL - 1, Shape(n)
  PROVE  /\ Cardinality(Timer) \in Nat /\ From \in Nat /\ From <= n
         /\ n - From <= Cardinality(Timer)
         /\ (\E t \in Timer : due[t] = Off) => n - From + 1 <= Cardinality(Timer)
<1>1. Cardinality(Timer) \in Nat /\ IsFiniteSet(Timer)
  BY FS_CardinalityType DEF RoomEnough
<1>2. /\ p1 \in Nat /\ n \in Nat /\ From \in Nat /\ From <= n
  BY TableFacts DEF From, Shape
<1>3. Live = From .. n - 1
  BY <1>2, LiveIs
<1>4. Cardinality(From .. n - 1) = n - From
  <2>1. n - 1 \in Int /\ (From > n - 1 => n - From = 0)
    BY <1>2
  <2>2. From \in Int /\ Cardinality(From .. n - 1)
                          = IF From > n - 1 THEN 0 ELSE (n - 1) - From + 1
    BY <1>2, <2>1, FS_Interval
  <2>3. QED BY <1>2, <2>1, <2>2
<1> DEFINE g == [s \in Live |-> func[s]]
<1>5. ASSUME NEW T \in SUBSET Timer, \A s \in Live : func[s] \in T
      PROVE  Cardinality(Live) <= Cardinality(T)
  <2>1. g \in Injection(Live, T)
    <3>1. g \in [Live -> T] /\ \A r, s \in Live : g[r] = g[s] => r = s
      BY <1>5 DEF CalloutInv, OneEntryEach
    <3>2. QED BY <3>1 DEF Injection, IsInjective
  <2>2. IsFiniteSet(T)
    BY <1>1, FS_Subset
  <2> HIDE DEF g
  <2>3. QED BY <2>1, <2>2, FS_Injection
<1>6. n - From <= Cardinality(Timer)
  BY <1>3, <1>4, <1>5, TableFacts
<1>7. ASSUME NEW t \in Timer, due[t] = Off
      PROVE  n - From + 1 <= Cardinality(Timer)
  <2>1. \A s \in Live : func[s] \in Timer \ {t}
    BY <1>7, TableFacts DEF CalloutInv, OneEntryEach
  <2>2. Cardinality(Live) <= Cardinality(Timer \ {t})
    BY <1>5, <2>1
  <2>3. Cardinality(Timer \ {t}) = Cardinality(Timer) - 1
    BY <1>1, FS_RemoveElement
  <2>4. QED BY <1>1, <1>2, <1>3, <1>4, <2>2, <2>3
<1>8. QED BY <1>1, <1>2, <1>6, <1>7

(* What has expired in a run of the calls.                                 *)
LEMMA FromBound ==
  ASSUME RoomEnough, CalloutInv, pc \in {"run", "func"}
  PROVE  From <= Cardinality(Timer) * (ticks + 1)
<1>1. Cardinality(Timer) \in Nat
  BY FS_CardinalityType DEF RoomEnough
<1>2. PICK n \in p1 .. NCALL - 1 : Shape(n) /\ n \in Nat /\ \A s \in Slot : s < n <=> InUse(s)
  BY TableFacts
<1>3. p1 \in Nat /\ From \in Nat /\ From <= n /\ n < NCALL /\ NCALL \in Nat
  BY <1>2, TableFacts DEF From, Shape
<1>4. ticks \in Nat /\ Cardinality(Timer) * (ticks + 1) \in Nat
  <2>1. ticks \in Nat
    BY CalloutAssumption DEF CalloutInv, OneEntryEach, TypeOK
  <2>2. QED BY <1>1, <2>1
<1>5. CASE From = 0
  BY <1>4, <1>5
<1>6. CASE From # 0
  <2>1. From - 1 \in Slot /\ From - 1 \in Nat
    BY <1>3, <1>6 DEF Slot
  <2>2. ASSUME NEW r \in 0 .. From - 1 PROVE InUse(r) /\ time[r] = 0
    <3>1. r \in Slot /\ r < n /\ (r < p1 \/ (r = p1 /\ pc = "func"))
      BY <1>3 DEF Slot, From
    <3>2. QED BY <1>2, <3>1 DEF CalloutInv, PointersOK
  <2>3. From - 1 < Cardinality(Timer) * (ticks + 1)
    BY <2>1, <2>2 DEF CalloutInv, ExpiredOK
  <2>4. QED BY <1>3, <1>4, <2>3
<1>7. QED BY <1>5, <1>6

-----------------------------------------------------------------------------
(* What every tick keeps.                                                  *)
LEMMA TickStep ==
  ASSUME CalloutInv, Count, UNCHANGED <<func, p1, p2, reg>>,
         pc' \in {"idle", "run", "func", "move", "load", "store"},
         pc' = pc \/ (pc = "idle" /\ pc' = "run"),
         ticks' \in 0 .. MaxRunTicks, missed' \in 0 .. MaxCopyTicks
  PROVE  TypeOK' /\ ShapeOK' /\ Live' = Live /\ OneEntryEach'
<1>1. TypeOK'
  BY CountTypes DEF CalloutInv, OneEntryEach, TypeOK
<1>2. PICK n \in p1 .. NCALL - 1 :
        Shape(n) /\ Live = (IF Moving THEN 0 .. p2 - 1 ELSE {}) \cup From .. n - 1
  BY TableFacts
<1>3. Shape(n)'
  BY <1>2, CountTypes DEF Shape, InUse
<1>4. ShapeOK'
  BY <1>3 DEF ShapeOK
<1>5. Live' = Live
  <2>1. p1' \in Nat /\ n \in p1' .. NCALL - 1
    BY TableFacts
  <2>2. Live' = (IF Moving' THEN 0 .. p2' - 1 ELSE {}) \cup From' .. n - 1
    BY <1>3, <2>1, LiveIsNext
  <2>3. Moving' = Moving /\ From' = From
    BY DEF Moving, From
  <2>4. QED BY <1>2, <2>2, <2>3
<1>6. OneEntryEach'
  <2>1. {t \in Timer : due'[t] # Off} = {t \in Timer : due[t] # Off}
    BY CountTypes
  <2>2. QED BY <1>1, <1>5, <2>1 DEF CalloutInv, OneEntryEach
<1>7. QED BY <1>1, <1>4, <1>5, <1>6

(* A tick at the base level starts the calls only if there is one.         *)
LEMMA TickBaseInv ==
  ASSUME RoomEnough, CalloutInv, TickBase
  PROVE  CalloutInv'
<1>1. /\ pc = "idle" /\ Count /\ ticks' = 0 /\ UNCHANGED <<func, p1, p2, reg, missed>>
      /\ pc' = IF InUse(0) /\ time'[0] <= 0 THEN "run" ELSE "idle"
  BY DEF TickBase
<1>2. missed \in 0 .. MaxCopyTicks /\ 0 \in 0 .. MaxRunTicks /\ missed \in Nat
  BY CalloutAssumption DEF CalloutInv, OneEntryEach, TypeOK
<1>3. TypeOK' /\ ShapeOK' /\ Live' = Live /\ OneEntryEach'
  BY <1>1, <1>2, TickStep
<1>4. p1 = 0 /\ p2 = 0 /\ reg = 0 /\ ~ Moving
  BY <1>1 DEF CalloutInv, PointersOK, Moving
<1>5. OnTime'
  BY <1>1, <1>2, <1>3, <1>4, CountTimes
<1>6. PointersOK'
  <2>1. time'[0] \in Nat
    BY <1>3, SlotFacts DEF TypeOK
  <2>2. \A s \in Slot : ~ (s < 0)
    BY SlotFacts
  <2>3. QED BY <1>1, <1>4, <2>1, <2>2 DEF PointersOK, InUse
<1>7. ExpiredOK'
  <2>1. PICK n \in p1 .. NCALL - 1 :
          Shape(n) /\ n \in Nat /\ \A s \in Slot : s < n <=> InUse(s)
    BY TableFacts
  <2>2. n <= Cardinality(Timer) /\ Cardinality(Timer) \in Nat
    BY <1>1, <1>4, <2>1, TableLength DEF From
  <2>3. ASSUME NEW s \in Slot, \A r \in 0 .. s : InUse(r)' PROVE s < Cardinality(Timer) * (0 + 1)
    <3>1. s \in Nat /\ InUse(s)
      BY <1>1, <2>3, SlotFacts DEF InUse
    <3>2. QED BY <2>1, <2>2, <3>1
  <2>4. QED BY <1>1, <2>3 DEF ExpiredOK
<1>8. TimesOK'
  BY <1>1 DEF TimesOK
<1>9. QED BY <1>3, <1>5, <1>6, <1>7, <1>8 DEF CalloutInv

(* A tick at a higher level: each makes room for what may expire with it.  *)
LEMMA TickHighInv ==
  ASSUME RoomEnough, CalloutInv, TickHigh
  PROVE  CalloutInv'
<1>1. /\ Count /\ UNCHANGED <<func, pc, p1, p2, reg>>
      /\ \/ pc = "idle" /\ UNCHANGED <<ticks, missed>>
         \/ /\ pc \in {"run", "func"} /\ ticks < MaxRunTicks
            /\ ticks' = ticks + 1 /\ UNCHANGED missed
         \/ /\ Moving /\ missed < MaxCopyTicks
            /\ missed' = missed + 1 /\ UNCHANGED ticks
  BY DEF TickHigh, Moving
<1>2. /\ ticks \in Nat /\ missed \in Nat
      /\ ticks' \in 0 .. MaxRunTicks /\ missed' \in 0 .. MaxCopyTicks
      /\ IF Moving THEN missed' = missed + 1 ELSE missed' = missed
      /\ missed' \in Nat
  BY <1>1, CalloutAssumption DEF CalloutInv, OneEntryEach, TypeOK, Moving
<1>3. TypeOK' /\ ShapeOK' /\ Live' = Live /\ OneEntryEach'
  BY <1>1, <1>2, TickStep DEF CalloutInv, OneEntryEach, TypeOK
<1>4. OnTime' /\ (pc = "store" => TimesOK')
  BY <1>1, <1>2, <1>3, CountTimes
<1>5. TimesOK'
  BY <1>1, <1>4 DEF TimesOK
<1>6. PointersOK'
  <2>1. pc = "store" => reg >= time'[p1]
    <3>1. time[p1] \in Nat /\ reg \in Nat /\ p1 \in Slot
      BY DEF CalloutInv, OneEntryEach, TypeOK
    <3>2. time'[p1] \in {time[p1], time[p1] - 1}
      BY <1>1, <3>1, CountTypes
    <3>3. pc = "store" => reg >= time[p1]
      BY DEF CalloutInv, PointersOK
    <3>4. QED BY <3>1, <3>2, <3>3
  <2>2. pc = "idle" => ticks' = ticks
    BY <1>1 DEF Moving
  <2>3. QED BY <1>1, <2>1, <2>2, CountTypes DEF CalloutInv, PointersOK, InUse
<1>7. ExpiredOK'
  <2>1. SUFFICES ASSUME pc \in {"run", "func"}, NEW s \in Slot,
                        \A r \in 0 .. s : InUse(r)'
                 PROVE  s < Cardinality(Timer) * (ticks' + 1)
    BY <1>1 DEF ExpiredOK
  <2>2. PICK n \in p1 .. NCALL - 1 :
          Shape(n) /\ n \in Nat /\ \A r \in Slot : r < n <=> InUse(r)
    BY TableFacts
  <2>3. /\ Cardinality(Timer) \in Nat /\ From \in Nat /\ n - From <= Cardinality(Timer)
        /\ From <= Cardinality(Timer) * (ticks + 1)
    BY <2>1, <2>2, TableLength, FromBound DEF Moving
  <2>4. s \in Nat /\ s < n
    BY <1>1, <2>1, <2>2, SlotFacts DEF InUse
  <2>5. ticks' = ticks + 1
    BY <1>1, <2>1 DEF Moving
  <2>6. \A c, t \in Nat : c * (t + 1) + c = c * ((t + 1) + 1) /\ c * (t + 1) \in Nat
    OBVIOUS
  <2>7. Cardinality(Timer) * (ticks + 1) + Cardinality(Timer)
          = Cardinality(Timer) * ((ticks + 1) + 1)
        /\ Cardinality(Timer) * (ticks + 1) \in Nat
    BY <1>2, <2>3, <2>6
  <2> DEFINE k == Cardinality(Timer) * (ticks + 1)
             m == Cardinality(Timer) * ((ticks + 1) + 1)
  <2>8. k \in Nat /\ m = k + Cardinality(Timer) /\ From <= k
    BY <2>3, <2>7
  <2> HIDE DEF k, m
  <2>9. s < m
    BY <2>2, <2>3, <2>4, <2>8
  <2>10. QED BY <2>5, <2>9 DEF m
<1>8. QED BY <1>3, <1>4, <1>5, <1>6, <1>7 DEF CalloutInv
-----------------------------------------------------------------------------
(* The first entry that has expired is called.                             *)
LEMMA CallInv ==
  ASSUME CalloutInv, Call
  PROVE  CalloutInv'
<1>1. /\ pc = "run" /\ InUse(p1) /\ time[p1] <= 0 /\ pc' = "func"
      /\ due' = [due EXCEPT ![func[p1]] = Off]
      /\ UNCHANGED <<func, time, p1, p2, reg, ticks, missed>>
  BY DEF Call
<1>2. PICK n \in p1 .. NCALL - 1 :
        /\ Shape(n) /\ n \in Nat /\ \A s \in Slot : s < n <=> InUse(s)
        /\ Live = (IF Moving THEN 0 .. p2 - 1 ELSE {}) \cup From .. n - 1
  BY TableFacts
<1>3. TypeOK /\ p1 \in Slot /\ p1 \in Nat /\ time[p1] = 0 /\ p1 < n
  <2>1. TypeOK /\ p1 \in Slot /\ p1 \in Nat
    BY TableFacts DEF TypeOK
  <2>2. time[p1] \in Nat
    BY <2>1 DEF TypeOK
  <2>3. QED BY <1>1, <1>2, <2>1, <2>2
<1>4. Live = p1 .. n - 1 /\ ~ Moving
  BY <1>1, <1>2 DEF Moving, From
<1>5. Shape(n)' /\ ShapeOK'
  BY <1>1, <1>2, <1>3 DEF Shape, ShapeOK, InUse
<1>6. Live' = p1 + 1 .. n - 1
  <2>1. Live' = (IF Moving' THEN 0 .. p2' - 1 ELSE {}) \cup From' .. n - 1
    BY <1>1, <1>3, <1>5, LiveIsNext
  <2>2. QED BY <1>1, <2>1 DEF Moving, From
<1>7. Live' = Live \ {p1} /\ p1 \in Live
  BY <1>2, <1>3, <1>4, <1>6
<1>8. LiveTime' = LiveTime
  BY <1>1, <1>3, <1>7 DEF LiveTime
<1>9. func[p1] \in Timer /\ \A s \in Live' : func[s] \in Timer /\ func[s] # func[p1]
  BY <1>7, TableFacts DEF CalloutInv, OneEntryEach
<1>10. TypeOK'
  <2>1. Off \in Off .. MaxTim
    BY CalloutAssumption DEF Off
  <2>2. QED BY <1>1, <1>3, <1>9, <2>1 DEF TypeOK
<1>11. \A s \in Live' : due'[func[s]] = due[func[s]]
  BY <1>1, <1>3, <1>9 DEF TypeOK
<1>12. OnTime'
  BY <1>1, <1>7, <1>8, <1>11, TimesKept
<1>13. OneEntryEach'
  <2>1. {func'[s] : s \in Live'} = {func[s] : s \in Live} \ {func[p1]}
    BY <1>1, <1>7, <1>9
  <2>2. {t \in Timer : due'[t] # Off} = {t \in Timer : due[t] # Off} \ {func[p1]}
    BY <1>1, <1>3 DEF TypeOK
  <2>3. QED BY <1>1, <1>7, <1>10, <2>1, <2>2 DEF CalloutInv, OneEntryEach
<1>14. PointersOK'
  <2>1. \A s \in Slot : s < p1 \/ s = p1 => time[s] = 0
    BY <1>1, <1>3 DEF CalloutInv, PointersOK
  <2>2. QED BY <1>1, <2>1 DEF CalloutInv, PointersOK
<1>15. ExpiredOK'
  BY <1>1 DEF CalloutInv, ExpiredOK, InUse
<1>16. QED BY <1>1, <1>5, <1>12, <1>13, <1>14, <1>15 DEF CalloutInv, TimesOK

(* It returns.                                                             *)
LEMMA FuncReturnInv ==
  ASSUME CalloutInv, FuncReturn
  PROVE  CalloutInv'
<1>1. /\ pc = "func" /\ pc' = "run" /\ p1' = p1 + 1
      /\ UNCHANGED <<func, time, p2, reg, ticks, missed, due>>
  BY DEF FuncReturn
<1>2. PICK n \in p1 .. NCALL - 1 :
        /\ Shape(n) /\ n \in Nat /\ n \in Slot
        /\ Live = (IF Moving THEN 0 .. p2 - 1 ELSE {}) \cup From .. n - 1
  BY TableFacts
<1>3. TypeOK /\ p1 \in Nat /\ p1 < n /\ p1' \in Nat /\ n \in p1' .. NCALL - 1
  BY <1>1, <1>2, TableFacts DEF Shape
<1>4. p1' \in Slot
  BY <1>1, <1>3, TableFacts DEF Slot
<1>5. TypeOK'
  BY <1>1, <1>3, <1>4 DEF TypeOK
<1>6. Shape(n)' /\ ShapeOK'
  BY <1>1, <1>2, <1>3 DEF Shape, ShapeOK, InUse
<1>7. Live' = Live
  <2>1. Live' = (IF Moving' THEN 0 .. p2' - 1 ELSE {}) \cup From' .. n - 1
    BY <1>3, <1>6, LiveIsNext
  <2>2. QED BY <1>1, <1>2, <2>1 DEF Moving, From
<1>8. OnTime' /\ OneEntryEach'
  BY <1>1, <1>5, <1>7, LiveTimeKept, TimesKept, EntriesKept
<1>9. PointersOK'
  <2>1. \A s \in Slot : s < p1 + 1 => time[s] = 0
    <3>1. \A s \in Slot : s < p1 + 1 => s < p1 \/ s = p1
      BY <1>3, SlotFacts
    <3>2. QED BY <1>1, <3>1 DEF CalloutInv, PointersOK
  <2>2. p1' # 0
    BY <1>1, <1>3
  <2>3. QED BY <1>1, <2>1, <2>2 DEF CalloutInv, PointersOK
<1>10. ExpiredOK'
  BY <1>1 DEF CalloutInv, ExpiredOK, InUse
<1>11. QED BY <1>1, <1>6, <1>8, <1>9, <1>10 DEF CalloutInv, TimesOK

(* Nothing else has expired.                                               *)
LEMMA RunEndInv ==
  ASSUME CalloutInv, RunEnd
  PROVE  CalloutInv'
<1>1. /\ pc = "run" /\ (~InUse(p1) \/ time[p1] > 0) /\ pc' = "move"
      /\ p2' = 0 /\ ticks' = 0
      /\ UNCHANGED <<func, time, p1, reg, missed, due>>
  BY DEF RunEnd
<1>2. PICK n \in p1 .. NCALL - 1 :
        /\ Shape(n) /\ n \in Nat
        /\ Live = (IF Moving THEN 0 .. p2 - 1 ELSE {}) \cup From .. n - 1
  BY TableFacts
<1>3. TypeOK' /\ p1' \in Nat
  BY <1>1, SlotFacts, CalloutAssumption, TableFacts DEF TypeOK
<1>4. Shape(n)' /\ ShapeOK'
  BY <1>1, <1>2 DEF Shape, ShapeOK, InUse
<1>5. Live' = Live
  <2>1. Live' = (IF Moving' THEN 0 .. p2' - 1 ELSE {}) \cup From' .. n - 1
    BY <1>1, <1>2, <1>3, <1>4, LiveIsNext
  <2>2. 0 .. 0 - 1 = {}
    OBVIOUS
  <2>3. QED BY <1>1, <1>2, <2>1, <2>2 DEF Moving, From
<1>6. OnTime' /\ OneEntryEach'
  BY <1>1, <1>3, <1>5, LiveTimeKept, TimesKept, EntriesKept
<1>7. PointersOK'
  <2>1. p1 # 0
    <3>1. SUFFICES ASSUME p1 = 0 PROVE FALSE
      OBVIOUS
    <3>2. InUse(0) /\ time[0] = 0
      BY <1>1, <3>1, SlotFacts DEF CalloutInv, PointersOK
    <3>3. QED BY <1>1, <3>1, <3>2
  <2>2. 0 < p1
    BY <1>1, <1>3, <2>1
  <2>3. QED BY <1>1, <2>2 DEF CalloutInv, PointersOK
<1>8. QED BY <1>1, <1>4, <1>6, <1>7 DEF CalloutInv, TimesOK, ExpiredOK

(* An entry is copied, but for its time ...                                *)
LEMMA MoveInv ==
  ASSUME CalloutInv, Move, InUse(p1)
  PROVE  CalloutInv'
<1>1. /\ pc = "move" /\ pc' = "load" /\ func' = [func EXCEPT ![p2] = func[p1]]
      /\ UNCHANGED <<time, p1, p2, ticks, reg, missed, due>>
  BY DEF Move
<1>2. PICK n \in p1 .. NCALL - 1 :
        /\ Shape(n) /\ n \in Nat /\ \A s \in Slot : s < n <=> InUse(s)
        /\ Live = (IF Moving THEN 0 .. p2 - 1 ELSE {}) \cup From .. n - 1
  BY TableFacts
<1>3. TypeOK /\ p1 \in Slot /\ p2 \in Slot /\ p1 \in Nat /\ p2 \in Nat /\ p2 < p1 /\ p1 < n
  BY <1>1, <1>2, TableFacts DEF TypeOK, CalloutInv, PointersOK
<1>4. func[p1] \in Timer /\ func[p1] # NoFunc
  BY <1>3 DEF TypeOK, InUse
<1>5. TypeOK'
  BY <1>1, <1>3, <1>4 DEF TypeOK
<1>6. \A s \in Slot : InUse(s)' <=> InUse(s)
  <2>1. InUse(p2)
    BY <1>2, <1>3
  <2>2. QED BY <1>1, <1>3, <1>4, <2>1 DEF InUse, TypeOK
<1>7. Shape(n)' /\ ShapeOK'
  BY <1>1, <1>2, <1>3, <1>6 DEF Shape, ShapeOK
<1>8. Live' = Live /\ p2 \notin Live
  <2>1. Live' = (IF Moving' THEN 0 .. p2' - 1 ELSE {}) \cup From' .. n - 1
    BY <1>1, <1>2, <1>3, <1>7, LiveIsNext
  <2>2. QED BY <1>1, <1>2, <1>3, <2>1 DEF Moving, From
<1>9. \A s \in Live : func'[s] = func[s]
  BY <1>1, <1>3, <1>8 DEF TypeOK
<1>10. OnTime' /\ OneEntryEach'
  BY <1>1, <1>5, <1>8, <1>9, LiveTimeKept, TimesKept, EntriesKept
<1>11. PointersOK'
  BY <1>1, <1>3 DEF CalloutInv, PointersOK, TypeOK
<1>12. QED BY <1>1, <1>7, <1>10, <1>11 DEF CalloutInv, TimesOK, ExpiredOK

(* ... or the end of the table is.                                         *)
LEMMA MoveEndInv ==
  ASSUME CalloutInv, Move, ~ InUse(p1)
  PROVE  CalloutInv'
<1>1. /\ pc = "move" /\ pc' = "idle" /\ p1' = 0 /\ p2' = 0 /\ ticks' = 0
      /\ func' = [s \in Slot |-> IF s < p2 THEN func[s] ELSE NoFunc]
      /\ time' = [s \in Slot |-> IF s < p2 THEN time[s] ELSE 0]
      /\ UNCHANGED <<reg, missed, due>>
  BY DEF Move
<1>2. PICK n \in p1 .. NCALL - 1 :
        /\ Shape(n) /\ n \in Nat /\ \A s \in Slot : s < n <=> InUse(s)
        /\ Live = (IF Moving THEN 0 .. p2 - 1 ELSE {}) \cup From .. n - 1
  BY TableFacts
<1>3. TypeOK /\ p1 \in Slot /\ p2 \in Slot /\ p1 \in Nat /\ p2 \in Nat /\ p2 < p1
      /\ p1 = n /\ n < NCALL /\ NCALL \in Nat
  BY <1>1, <1>2, TableFacts DEF TypeOK, CalloutInv, PointersOK
<1>4. TypeOK'
  BY <1>1, <1>3, CalloutAssumption, SlotFacts DEF TypeOK
<1> PICK m \in Nat : m = p2
  BY <1>3
<1>5. Shape(m)' /\ m \in p1' .. NCALL - 1
  <2>1. \A s \in Slot : s < p2 => func[s] # NoFunc
    BY <1>2, <1>3, SlotFacts DEF InUse
  <2>2. QED BY <1>1, <1>3, <2>1 DEF Shape, InUse
<1>6. Live = 0 .. p2 - 1
  BY <1>1, <1>2, <1>3 DEF Moving, From
<1>7. Live' = Live
  <2>1. Live' = (IF Moving' THEN 0 .. p2' - 1 ELSE {}) \cup From' .. m - 1
    BY <1>1, <1>5, LiveIsNext
  <2>2. QED BY <1>1, <1>6, <2>1 DEF Moving, From
<1>8. \A s \in Live : func'[s] = func[s] /\ time'[s] = time[s]
  <2>1. \A s \in Live : s \in Slot /\ s < p2
    BY <1>3, <1>6, TableFacts
  <2>2. QED BY <1>1, <2>1
<1>9. OnTime' /\ OneEntryEach'
  BY <1>1, <1>4, <1>7, <1>8, LiveTimeKept, TimesKept, EntriesKept
<1>10. PointersOK'
  BY <1>1 DEF CalloutInv, PointersOK
<1>11. ShapeOK'
  BY <1>5 DEF ShapeOK
<1>12. QED BY <1>1, <1>9, <1>10, <1>11 DEF CalloutInv, TimesOK, ExpiredOK

(* The time of an entry is fetched.                                        *)
LEMMA LoadInv ==
  ASSUME CalloutInv, Load
  PROVE  CalloutInv'
<1>1. /\ pc = "load" /\ pc' = "store" /\ reg' = time[p1]
      /\ UNCHANGED <<func, time, p1, p2, ticks, missed, due>>
  BY DEF Load
<1>2. PICK n \in p1 .. NCALL - 1 :
        /\ Shape(n) /\ n \in Nat
        /\ Live = (IF Moving THEN 0 .. p2 - 1 ELSE {}) \cup From .. n - 1
  BY TableFacts
<1>3. TypeOK /\ p1 \in Slot /\ p1 \in Nat /\ time[p1] \in 0 .. MaxTim /\ time[p1] \in Nat
  BY TableFacts DEF TypeOK
<1>4. TypeOK'
  BY <1>1, <1>3 DEF TypeOK
<1>5. Shape(n)' /\ ShapeOK'
  BY <1>1, <1>2 DEF Shape, ShapeOK, InUse
<1>6. Live' = Live
  <2>1. Live' = (IF Moving' THEN 0 .. p2' - 1 ELSE {}) \cup From' .. n - 1
    BY <1>1, <1>2, <1>3, <1>5, LiveIsNext
  <2>2. QED BY <1>1, <1>2, <2>1 DEF Moving, From
<1>7. OnTime' /\ OneEntryEach' /\ LiveTime' = LiveTime
  BY <1>1, <1>4, <1>6, LiveTimeKept, TimesKept, EntriesKept
<1>8. PointersOK'
  BY <1>1, <1>3 DEF CalloutInv, PointersOK
<1>9. TimesOK'
  <2>1. ASSUME NEW s \in Live
        PROVE  Left'[s] + (reg' - time'[p1']) - due'[func'[s]] \in 0 .. missed'
    <3>1. reg' - time'[p1'] = 0 /\ Left' = Left
      BY <1>1, <1>3, <1>7 DEF Left
    <3>2. Left[s] \in Nat /\ due[func[s]] \in Nat
      BY TableFacts
    <3>3. Left[s] - due[func[s]] \in 0 .. missed
      BY DEF CalloutInv, OnTime
    <3>4. Left[s] + 0 - due[func[s]] = Left[s] - due[func[s]]
      BY <3>2
    <3>5. QED BY <1>1, <3>1, <3>3, <3>4
  <2>2. QED BY <1>6, <2>1 DEF TimesOK
<1>10. QED BY <1>1, <1>5, <1>7, <1>8, <1>9 DEF CalloutInv, ExpiredOK

(* Between two entries with time there is none.                            *)
LEMMA SumsFlat ==
  ASSUME NEW w \in [Slot -> Nat], NEW a \in Slot, NEW b \in Slot, a <= b,
         \A r \in Slot : a < r /\ r <= b => w[r] = 0
  PROVE  Sums(w)[b] = Sums(w)[a]
<1> DEFINE f == Sums(w)
           G == {s \in Slot : a <= s /\ s <= b => f[s] = f[a]}
<1>1. /\ f \in [Slot -> Nat]
      /\ \A r \in Slot \ {0} : f[r] = f[r - 1] + w[r]
  BY SumsNat
<1> HIDE DEF f
<1>2. 0 \in G
  BY SlotFacts
<1>3. ASSUME NEW s \in Slot \ {0}, s - 1 \in G PROVE s \in G
  <2>1. CASE a <= s - 1 /\ s <= b
    <3>1. f[s - 1] = f[a] /\ w[s] = 0 /\ f[s] = f[s - 1] + w[s] /\ f[s - 1] \in Nat
      BY <1>1, <1>3, <2>1, SlotFacts
    <3>2. QED BY <3>1
  <2>2. CASE ~ (a <= s - 1 /\ s <= b)
    BY <2>2, SlotFacts
  <2>3. QED BY <2>1, <2>2
<1>4. Slot \subseteq G
  <2> HIDE DEF G
  <2>1. QED BY <1>2, <1>3, SlotInduction
<1>5. a \in Nat /\ b \in Nat
  BY SlotFacts
<1>6. QED BY <1>4, <1>5 DEF f

(* The time of an entry is stored: it has moved.                           *)
LEMMA StoreInv ==
  ASSUME CalloutInv, Store
  PROVE  CalloutInv'
<1>1. /\ pc = "store" /\ pc' = "move" /\ time' = [time EXCEPT ![p2] = reg]
      /\ p1' = p1 + 1 /\ p2' = p2 + 1 /\ reg' = 0
      /\ UNCHANGED <<func, ticks, missed, due>>
  BY DEF Store
<1>2. PICK n \in p1 .. NCALL - 1 :
        /\ Shape(n) /\ n \in Nat /\ \A s \in Slot : s < n <=> InUse(s)
        /\ Live = (IF Moving THEN 0 .. p2 - 1 ELSE {}) \cup From .. n - 1
  BY TableFacts
<1>3. /\ TypeOK /\ p1 \in Slot /\ p2 \in Slot /\ p1 \in Nat /\ p2 \in Nat
      /\ p2 < p1 /\ p1 < n /\ n < NCALL /\ NCALL \in Nat /\ func[p2] = func[p1]
      /\ reg \in Nat /\ time[p1] \in Nat /\ reg >= time[p1] /\ MaxTim \in Nat
  BY <1>1, <1>2, TableFacts, CalloutAssumption DEF TypeOK, CalloutInv, PointersOK, Shape
<1>4. TypeOK'
  <2>1. p1 + 1 \in Slot /\ p2 + 1 \in Slot /\ 0 \in 0 .. MaxTim
    BY <1>3, SlotFacts DEF Slot
  <2>2. QED BY <1>1, <1>3, <2>1 DEF TypeOK
<1>5. Shape(n)' /\ ShapeOK' /\ p1' \in Nat /\ n \in p1' .. NCALL - 1
  <2>1. p1' \in Nat /\ n \in p1' .. NCALL - 1
    BY <1>1, <1>3
  <2>2. \A s \in Slot : s >= n => time'[s] = 0
    BY <1>1, <1>2, <1>3, SlotFacts DEF Shape, TypeOK
  <2>3. Shape(n)'
    BY <1>1, <1>2, <2>2 DEF Shape, InUse
  <2>4. QED BY <2>1, <2>3 DEF ShapeOK
<1>6. Live = 0 .. p2 - 1 \cup p1 .. n - 1
  BY <1>1, <1>2 DEF Moving, From
<1>7. Live' = 0 .. p2 \cup p1 + 1 .. n - 1
  <2>1. Live' = (IF Moving' THEN 0 .. p2' - 1 ELSE {}) \cup From' .. n - 1
    BY <1>5, LiveIsNext
  <2>2. Moving' /\ From' = p1 + 1 /\ p2' - 1 = p2
    BY <1>1, <1>3 DEF Moving, From
  <2>3. QED BY <2>1, <2>2
<1>8. /\ p1 \in Live /\ p2 \notin Live /\ Live' = (Live \ {p1}) \cup {p2}
      /\ Live \subseteq Slot
  <2>1. p1 \in Live /\ p2 \notin Live
    BY <1>3, <1>6
  <2>2. ASSUME NEW s PROVE s \in Live' <=> s \in (Live \ {p1}) \cup {p2}
    BY <1>3, <1>6, <1>7
  <2>3. QED BY <2>1, <2>2, TableFacts
<1>9. OneEntryEach'
  <2>1. {func'[s] : s \in Live'} = {func[s] : s \in Live}
    BY <1>1, <1>3, <1>8
  <2>2. ASSUME NEW r \in Live', NEW s \in Live', func[r] = func[s] PROVE r = s
    BY <1>3, <1>8, <2>2 DEF CalloutInv, OneEntryEach
  <2>3. QED BY <1>1, <1>4, <2>1, <2>2 DEF CalloutInv, OneEntryEach
<1>10. LiveTime' = [LiveTime EXCEPT ![p2] = reg, ![p1] = 0]
  BY <1>1, <1>3, <1>8 DEF LiveTime, TypeOK
<1>11. /\ LiveTime \in [Slot -> Nat] /\ LiveTime[p2] = 0 /\ LiveTime[p1] = time[p1]
       /\ Left \in [Slot -> Nat]
  BY <1>3, <1>8, TableFacts DEF LiveTime
<1>12. \A s \in Slot : Left'[s] = IF s < p2 THEN Left[s]
                                  ELSE IF s < p1 THEN Left[s] + reg
                                  ELSE Left[s] + (reg - time[p1])
  <2>1. /\ p1 \in Slot /\ p2 \in Slot /\ p2 < p1 /\ reg \in Nat
        /\ LiveTime[p2] = 0 /\ reg >= LiveTime[p1] /\ LiveTime \in [Slot -> Nat]
    BY <1>3, <1>11
  <2>2. \A s \in Slot : Sums([LiveTime EXCEPT ![p2] = reg, ![p1] = 0])[s]
                          = IF s < p2 THEN Sums(LiveTime)[s]
                            ELSE IF s < p1 THEN Sums(LiveTime)[s] + reg
                            ELSE Sums(LiveTime)[s] + (reg - LiveTime[p1])
    BY <2>1, SumsMove
  <2>3. QED BY <1>10, <1>11, <2>2 DEF Left
<1>13. Left[p1] = Left[p2] + time[p1]
  <2>1. p1 - 1 \in Slot /\ p1 # 0 /\ p2 <= p1 - 1
    BY <1>3, SlotFacts
  <2>2. \A r \in Slot : p2 < r /\ r <= p1 - 1 => LiveTime[r] = 0
    <3>1. \A r \in Slot : p2 < r /\ r <= p1 - 1 => r \notin Live
      BY <1>3, <1>6, SlotFacts
    <3>2. QED BY <3>1 DEF LiveTime
  <2>3. Left[p1 - 1] = Left[p2]
    BY <1>3, <1>11, <2>1, <2>2, SumsFlat DEF Left
  <2>4. Left[p1] = Left[p1 - 1] + LiveTime[p1]
    BY <1>3, <1>11, <2>1, SumsNat DEF Left
  <2>5. QED BY <1>11, <2>3, <2>4
<1>14. OnTime'
  <2>1. ASSUME NEW s \in Live' PROVE Left'[s] - due'[func'[s]] \in 0 .. missed'
    <3>1. CASE s = p2
      <4>1. Left'[p2] = Left[p2] + reg
        BY <1>3, <1>12
      <4>2. Left[p1] + (reg - time[p1]) - due[func[p1]] \in 0 .. missed
        BY <1>1, <1>3, <1>8 DEF CalloutInv, TimesOK
      <4>3. Left[p2] \in Nat /\ due[func[p1]] \in Nat
        BY <1>3, <1>8, <1>11, TableFacts
      <4>4. Left[p1] + (reg - time[p1]) - due[func[p1]] = (Left[p2] + reg) - due[func[p1]]
        BY <1>3, <1>13, <4>3
      <4>5. Left'[s] = Left[p2] + reg /\ due'[func'[s]] = due[func[p1]] /\ missed' = missed
        BY <1>1, <1>3, <3>1, <4>1
      <4>6. Left'[s] - due'[func'[s]] = (Left[p2] + reg) - due[func[p1]]
        BY <4>5
      <4>7. 0 .. missed' = 0 .. missed
        BY <4>5
      <4>8. Left'[s] - due'[func'[s]] = Left[p1] + (reg - time[p1]) - due[func[p1]]
        BY ONLY <4>4, <4>6, Zenon
      <4>9. QED BY ONLY <4>2, <4>7, <4>8, Zenon
    <3>2. CASE s # p2
      <4>1. s \in Live /\ s # p1 /\ s \in Slot /\ s \in Nat
        BY <1>8, <3>2, SlotFacts
      <4>2. CASE s < p1
        <5>1. s < p2
          BY <1>3, <1>6, <4>1, <4>2
        <5>2. Left'[s] = Left[s]
          BY <1>12, <4>1, <5>1
        <5>3. QED BY <1>1, <4>1, <5>2 DEF CalloutInv, OnTime
      <4>3. CASE s > p1
        <5>1. Left'[s] = Left[s] + (reg - time[p1])
          BY <1>3, <1>12, <4>1, <4>3
        <5>2. s >= p1
          BY <1>3, <4>1, <4>3
        <5>3. Left[s] + (reg - time[p1]) - due[func[s]] \in 0 .. missed
          BY <1>1, <4>1, <5>2 DEF CalloutInv, TimesOK
        <5>4. func'[s] = func[s] /\ due' = due /\ missed' = missed
          BY <1>1
        <5>5. Left'[s] - due'[func'[s]] = (Left[s] + (reg - time[p1])) - due[func[s]]
          BY ONLY <5>1, <5>4, Zenon
        <5>6. (Left[s] + (reg - time[p1])) - due[func[s]]
                = Left[s] + (reg - time[p1]) - due[func[s]]
          <6>1. Left[s] \in Nat /\ due[func[s]] \in Nat
            BY <1>11, <4>1, TableFacts
          <6>2. QED BY <1>3, <6>1
        <5>7. QED BY ONLY <5>3, <5>4, <5>5, <5>6, Zenon
      <4>4. QED BY <1>3, <4>1, <4>2, <4>3
    <3>3. QED BY <3>1, <3>2
  <2>2. QED BY <2>1 DEF OnTime
<1>15. PointersOK'
  BY <1>1, <1>3 DEF CalloutInv, PointersOK
<1>16. QED BY <1>1, <1>5, <1>9, <1>14, <1>15 DEF CalloutInv, TimesOK, ExpiredOK
-----------------------------------------------------------------------------
(* The table has room for one more timer.                                  *)
LEMMA Room ==
  ASSUME RoomEnough, CalloutInv, pc \in {"idle", "func"}, NEW t \in Timer, due[t] = Off,
         NEW n \in p1 .. NCALL - 1, Shape(n)
  PROVE  n + 1 <= NCALL - 1 /\ n \in Nat /\ From \in Nat /\ From <= n
<1> DEFINE c == Cardinality(Timer)
<1>1. /\ c \in Nat /\ From \in Nat /\ From <= n /\ n - From + 1 <= c
  BY TableLength DEF Moving
<1>2. n \in Nat /\ NCALL \in Nat
  BY TableFacts
<1>3. ticks \in Nat /\ MaxRunTicks \in Nat /\ ticks <= MaxRunTicks
  BY CalloutAssumption DEF CalloutInv, OneEntryEach, TypeOK
<1>4. From <= c * (ticks + 1)
  <2>1. CASE pc = "idle"
    <3>1. From = 0 /\ ticks = 0
      BY <2>1 DEF From, CalloutInv, PointersOK
    <3>2. QED BY <1>1, <3>1
  <2>2. CASE pc = "func"
    BY <2>2, FromBound
  <2>3. QED BY <2>1, <2>2
<1>5. c * (MaxRunTicks + 2) < NCALL
  BY DEF RoomEnough
<1> HIDE DEF c
<1>6. c * (ticks + 1) + c <= c * (MaxRunTicks + 2)
  <2>1. \A d \in Nat : c * d \in Nat
    BY <1>1
  <2>2. MaxRunTicks - ticks \in Nat /\ c * (MaxRunTicks - ticks) \in Nat
    BY <1>3, <2>1
  <2>3. c * (MaxRunTicks + 2) = c * (ticks + 1) + c + c * (MaxRunTicks - ticks)
    BY <1>1, <1>3
  <2>4. c * (ticks + 1) \in Nat
    BY <1>3, <2>1
  <2>5. QED BY <1>1, <2>2, <2>3, <2>4
<1>7. c * (ticks + 1) \in Nat /\ c * (MaxRunTicks + 2) \in Nat
  BY <1>1, <1>3
<1> DEFINE k == c * (ticks + 1)
           m == c * (MaxRunTicks + 2)
<1> HIDE DEF k, m
<1>8. k \in Nat /\ m \in Nat /\ From <= k /\ k + c <= m /\ m < NCALL
  BY <1>4, <1>5, <1>6, <1>7 DEF k, m
<1>9. QED BY <1>1, <1>2, <1>8

(* The place where timeout enters a timer, and the time it gives it.       *)
LEMMA PlaceFacts ==
  ASSUME CalloutInv, pc \in {"idle", "func"}, NEW tim \in 1 .. MaxTim,
         NEW n \in p1 .. NCALL - 1, Shape(n),
         NEW a, a = Min({s \in Slot : ~InUse(s) \/ Sums(time)[s] > tim}),
         NEW mine, mine = IF a = 0 THEN tim ELSE tim - Sums(time)[a - 1]
  PROVE  /\ a \in Slot /\ a \in From .. n
         /\ \A s \in Slot : s < a => InUse(s)
         /\ InUse(a) <=> a < n
         /\ mine \in 0 .. tim
         /\ a < n => time[a] - mine \in 0 .. time[a]
         /\ (\A r \in Slot : r < a => time[r] = 0) => mine = tim
<1> DEFINE u == Sums(time)
           S == {s \in Slot : ~InUse(s) \/ u[s] > tim}
<1>1. /\ time \in [Slot -> Nat] /\ p1 \in Nat /\ n \in Nat /\ n \in Slot /\ tim \in Nat
      /\ From \in Nat /\ From <= n /\ MaxTim \in Nat
  <2>1. time \in [Slot -> Nat] /\ p1 \in Nat /\ n \in Nat
    BY TableFacts DEF TypeOK
  <2>2. From \in Nat /\ From <= n /\ n \in Slot
    BY <2>1, TableFacts DEF From, Shape, Slot
  <2>3. QED BY <2>1, <2>2, CalloutAssumption
<1>2. /\ u \in [Slot -> Nat] /\ u[0] = time[0]
      /\ \A s \in Slot \ {0} : u[s] = u[s - 1] + time[s]
  BY <1>1, SumsNat
<1>3. S \subseteq Slot /\ n \in S
  BY <1>1 DEF Shape
<1>4. a \in S /\ a <= n /\ \A s \in S : a <= s
  BY <1>3, MinFacts
<1> HIDE DEF u
<1>5. a \in Slot /\ a \in Nat
  BY <1>3, <1>4, SlotFacts
<1>6. \A s \in Slot : s < a => InUse(s) /\ u[s] <= tim
  <2>1. TAKE s \in Slot
  <2>2. HAVE s < a
  <2>3. s \notin S
    BY <1>4, <1>5, <2>2, SlotFacts
  <2>4. u[s] \in Nat
    BY <1>2
  <2>5. QED BY <1>1, <2>3, <2>4
<1>7. InUse(a) <=> a < n
  BY <1>5 DEF Shape
<1>8. a < n => u[a] > tim
  BY <1>4, <1>7
<1>9. a >= From
  <2>1. SUFFICES ASSUME a < From PROVE FALSE
    BY <1>1, <1>5
  <2>2. \A r \in 0 .. a : time[r] = 0
    <3>1. ASSUME NEW r \in 0 .. a PROVE time[r] = 0
      <4>1. r \in Slot /\ r < From /\ r \in Nat
        BY <1>1, <1>5, <2>1, CalloutAssumption DEF Slot
      <4>2. r < p1 \/ (r = p1 /\ pc = "func")
        BY <1>1, <4>1 DEF From
      <4>3. pc = "func"
        BY <1>1, <4>1, <4>2 DEF CalloutInv, PointersOK
      <4>4. QED BY <4>1, <4>2, <4>3 DEF CalloutInv, PointersOK
    <3>2. QED BY <3>1
  <2>3. u[a] = 0
    BY <1>1, <1>5, <2>2, SumsZero DEF u
  <2>4. QED BY <1>1, <1>5, <1>8, <2>1, <2>3
<1>10. mine = IF a = 0 THEN tim ELSE tim - u[a - 1]
  BY DEF u
<1>11. a # 0 => a - 1 \in Slot /\ a - 1 < a /\ u[a - 1] \in Nat /\ u[a - 1] <= tim
  <2>1. SUFFICES ASSUME a # 0
                 PROVE a - 1 \in Slot /\ a - 1 < a /\ u[a - 1] \in Nat /\ u[a - 1] <= tim
    OBVIOUS
  <2>2. a - 1 \in Slot /\ a - 1 < a
    BY <1>5, <2>1, SlotFacts
  <2>3. QED BY <1>2, <1>6, <2>2
<1>12. mine \in 0 .. tim
  BY <1>1, <1>10, <1>11
<1>13. a < n => time[a] - mine \in 0 .. time[a]
  <2>1. SUFFICES ASSUME a < n PROVE time[a] - mine \in 0 .. time[a]
    OBVIOUS
  <2>2. time[a] \in Nat /\ u[a] \in Nat /\ u[a] > tim
    BY <1>1, <1>2, <1>5, <1>8, <2>1
  <2>3. CASE a = 0
    BY <1>1, <1>2, <1>10, <1>12, <2>2, <2>3
  <2>4. CASE a # 0
    <3>1. u[a] = u[a - 1] + time[a] /\ mine = tim - u[a - 1] /\ u[a - 1] \in Nat
      BY <1>2, <1>5, <1>10, <1>11, <2>4
    <3>2. QED BY <1>1, <1>12, <2>2, <3>1
  <2>5. QED BY <2>3, <2>4
<1>14. ASSUME \A r \in Slot : r < a => time[r] = 0 PROVE mine = tim
  <2>1. CASE a = 0
    BY <1>10, <2>1
  <2>2. CASE a # 0
    <3>1. \A r \in 0 .. a - 1 : time[r] = 0
      <4>1. \A r \in 0 .. a - 1 : r \in Slot /\ r < a
        BY <1>5, CalloutAssumption DEF Slot
      <4>2. QED BY <1>14, <4>1
    <3>2. u[a - 1] = 0
      BY <1>1, <1>11, <2>2, <3>1, SumsZero DEF u
    <3>3. QED BY <1>1, <1>10, <2>2, <3>2
  <2>3. QED BY <2>1, <2>2
<1>15. QED BY <1>1, <1>4, <1>5, <1>6, <1>7, <1>9, <1>12, <1>13, <1>14

(* timeout enters a timer: the entries from its place on move up by one,   *)
(* and the times of all others stay what they are.                         *)
LEMMA TimeoutInv ==
  ASSUME RoomEnough, CalloutInv, NEW t \in Timer, NEW tim \in 1 .. MaxTim, Timeout(t, tim)
  PROVE  CalloutInv'
<1> DEFINE a == Min({s \in Slot : ~InUse(s) \/ Sums(time)[s] > tim})
           mine == IF a = 0 THEN tim ELSE tim - Sums(time)[a - 1]
<1>1. /\ pc \in {"idle", "func"} /\ due[t] = Off
      /\ due' = [due EXCEPT ![t] = tim]
      /\ UNCHANGED <<pc, p1, p2, reg, ticks, missed>>
      /\ func' = [s \in Slot |-> IF s < a THEN func[s]
                                 ELSE IF s = a THEN t ELSE func[s - 1]]
      /\ time' = [s \in Slot |-> IF s < a THEN time[s]
                                 ELSE IF s = a THEN mine
                                 ELSE IF s = a + 1 /\ InUse(a) THEN time[a] - mine
                                 ELSE time[s - 1]]
  BY DEF Timeout, EnterSorted
<1>2. PICK n \in p1 .. NCALL - 1 :
        /\ Shape(n) /\ n \in Nat /\ n \in Slot /\ \A s \in Slot : s < n <=> InUse(s)
        /\ Live = (IF Moving THEN 0 .. p2 - 1 ELSE {}) \cup From .. n - 1
  BY TableFacts
<1>3. /\ TypeOK /\ NCALL \in Nat /\ p1 \in Nat /\ p1' \in Nat /\ MaxTim \in Nat
      /\ tim \in Nat /\ tim > 0 /\ tim <= MaxTim /\ missed \in Nat
  BY <1>1, TableFacts, CalloutAssumption DEF TypeOK
<1>4. n + 1 <= NCALL - 1 /\ From \in Nat /\ From <= n
  BY <1>1, <1>2, Room
<1>5. /\ a \in Slot /\ a \in From .. n
      /\ \A s \in Slot : s < a => InUse(s)
      /\ InUse(a) <=> a < n
      /\ mine \in 0 .. tim
      /\ a < n => time[a] - mine \in 0 .. time[a]
      /\ (\A r \in Slot : r < a => time[r] = 0) => mine = tim
  BY <1>1, <1>2, PlaceFacts
<1>6. mine = IF a = 0 THEN tim ELSE tim - Sums(time)[a - 1]
  OBVIOUS
<1> HIDE DEF a, mine
<1>7. a \in Nat /\ a >= From /\ a <= n /\ mine \in Nat /\ mine <= tim
  BY <1>3, <1>4, <1>5
<1>8. \A s \in Slot : /\ s < a => func'[s] = func[s] /\ time'[s] = time[s]
                      /\ s = a => func'[s] = t /\ time'[s] = mine
                      /\ s > a => s - 1 \in Slot /\ s - 1 >= a /\ func'[s] = func[s - 1]
                      /\ s = a + 1 /\ InUse(a) => time'[s] = time[a] - mine
                      /\ s > a /\ ~(s = a + 1 /\ InUse(a)) => time'[s] = time[s - 1]
  <2>1. TAKE s \in Slot
  <2>2. s \in Nat /\ (s > a => s # 0 /\ s - 1 \in Slot)
    BY <1>7, SlotFacts
  <2>3. /\ func'[s] = IF s < a THEN func[s] ELSE IF s = a THEN t ELSE func[s - 1]
        /\ time'[s] = IF s < a THEN time[s] ELSE IF s = a THEN mine
                      ELSE IF s = a + 1 /\ InUse(a) THEN time[a] - mine ELSE time[s - 1]
    BY <1>1
  <2>4. QED BY <1>7, <2>2, <2>3
<1>9. TypeOK'
  <2>1. func' \in [Slot -> Timer \cup {NoFunc}]
    <3>1. \A s \in Slot : func'[s] \in Timer \cup {NoFunc}
      <4>1. TAKE s \in Slot
      <4>2. s \in Nat /\ (s < a \/ s = a \/ s > a)
        BY <1>7, SlotFacts
      <4>3. QED BY <1>3, <1>8, <4>2 DEF TypeOK
    <3>2. QED BY <1>1, <3>1
  <2>2. time' \in [Slot -> 0 .. MaxTim]
    <3>1. \A s \in Slot : time'[s] \in 0 .. MaxTim
      <4>1. TAKE s \in Slot
      <4>2. s \in Nat /\ (s < a \/ s = a \/ s > a)
        BY <1>7, SlotFacts
      <4>3. time[a] \in 0 .. MaxTim /\ \A r \in Slot : time[r] \in 0 .. MaxTim
        BY <1>3, <1>5 DEF TypeOK
      <4>4. CASE s = a + 1 /\ InUse(a)
        <5>1. time'[s] = time[a] - mine /\ time[a] - mine \in 0 .. time[a]
          BY <1>5, <1>8, <4>4
        <5>2. QED BY <1>3, <4>3, <5>1
      <4>5. CASE ~(s = a + 1 /\ InUse(a))
        <5>1. CASE s = a
          BY <1>3, <1>7, <1>8, <5>1
        <5>2. CASE s # a
          BY <1>8, <4>2, <4>3, <4>5, <5>2
        <5>3. QED BY <5>1, <5>2
      <4>6. QED BY <4>4, <4>5
    <3>2. QED BY <1>1, <3>1
  <2>3. due' \in [Timer -> Off .. MaxTim]
    <3>1. tim \in Off .. MaxTim
      BY <1>3 DEF Off
    <3>2. QED BY <1>1, <1>3, <3>1 DEF TypeOK
  <2>4. QED BY <1>1, <1>3, <2>1, <2>2, <2>3 DEF TypeOK
<1>10. Shape(n + 1)' /\ ShapeOK' /\ n + 1 \in p1' .. NCALL - 1 /\ n + 1 \in Nat
  <2>1. n + 1 \in p1' .. NCALL - 1 /\ n + 1 \in Nat
    BY <1>1, <1>2, <1>3, <1>4
  <2>2. \A s \in Slot : func'[s] # NoFunc <=> s < n + 1
    <3>1. TAKE s \in Slot
    <3>2. s \in Nat /\ (s < a \/ s = a \/ s > a)
      BY <1>7, SlotFacts
    <3>3. CASE s < a
      BY <1>2, <1>5, <1>7, <1>8, <3>2, <3>3 DEF InUse
    <3>4. CASE s = a
      BY <1>2, <1>7, <1>8, <3>4, CalloutAssumption
    <3>5. CASE s > a
      <4>1. s - 1 \in Slot /\ func'[s] = func[s - 1]
        BY <1>8, <3>5
      <4>2. s - 1 < n <=> s < n + 1
        BY <1>2, <3>2
      <4>3. QED BY <1>2, <4>1, <4>2 DEF InUse
    <3>6. QED BY <3>2, <3>3, <3>4, <3>5
  <2>3. \A s \in Slot : s >= n + 1 => time'[s] = 0
    <3>1. TAKE s \in Slot
    <3>2. HAVE s >= n + 1
    <3>3. s \in Nat /\ s > a /\ s - 1 \in Slot /\ s - 1 >= n
      BY <1>2, <1>7, <1>8, <3>2, SlotFacts
    <3>4. ~(s = a + 1 /\ InUse(a))
      BY <1>2, <1>5, <1>7, <3>2, <3>3
    <3>5. QED BY <1>2, <1>8, <3>3, <3>4 DEF Shape
  <2>4. (pc \in {"func", "load", "store"} => p1 < n + 1)'
    BY <1>1, <1>2, <1>3 DEF Shape
  <2>5. Shape(n + 1)'
    BY <2>2, <2>3, <2>4 DEF Shape, InUse
  <2>6. QED BY <2>1, <2>5 DEF ShapeOK
<1>11. Live = From .. n - 1 /\ Live' = From .. n
  <2>1. Live = From .. n - 1
    BY <1>1, <1>2 DEF Moving
  <2>2. Live' = (IF Moving' THEN 0 .. p2' - 1 ELSE {}) \cup From' .. (n + 1) - 1
    BY <1>1, <1>3, <1>10, LiveIsNext
  <2>3. From' = From /\ ~ Moving' /\ (n + 1) - 1 = n
    BY <1>1, <1>2 DEF From, Moving
  <2>4. QED BY <2>1, <2>2, <2>3
<1>12. \A s \in Slot : s < From => time[s] = 0
  <2>1. TAKE s \in Slot
  <2>2. HAVE s < From
  <2>3. s < p1 \/ (s = p1 /\ pc = "func")
    BY <1>3, <2>2, SlotFacts DEF From
  <2>4. pc = "func"
    BY <1>1, <2>3, SlotFacts DEF CalloutInv, PointersOK
  <2>5. QED BY <2>3, <2>4 DEF CalloutInv, PointersOK
<1>13. Left = Sums(time)
  <2>1. \A s \in Slot : s \notin Live => time[s] = 0
    <3>1. TAKE s \in Slot
    <3>2. HAVE s \notin Live
    <3>3. s < From \/ s >= n
      BY <1>2, <1>4, <1>11, <3>2, SlotFacts
    <3>4. QED BY <1>2, <1>12, <3>3 DEF Shape
  <2>2. LiveTime = time
    BY <1>3, <2>1 DEF LiveTime, TypeOK
  <2>3. QED BY <2>2 DEF Left
<1>14. Left' = Sums(time')
  <2>1. \A s \in Slot : s \notin Live' => time'[s] = 0
    <3>1. TAKE s \in Slot
    <3>2. HAVE s \notin Live'
    <3>3. s \in Nat /\ (s < From \/ s >= n + 1)
      BY <1>2, <1>4, <1>11, <3>2, SlotFacts
    <3>4. CASE s < From
      BY <1>4, <1>7, <1>8, <1>12, <3>3, <3>4
    <3>5. CASE s >= n + 1
      BY <1>10, <3>5 DEF Shape
    <3>6. QED BY <3>3, <3>4, <3>5
  <2>2. LiveTime' = time'
    BY <1>9, <2>1 DEF LiveTime, TypeOK
  <2>3. QED BY <2>2 DEF Left
<1>15. \A s \in Slot : /\ s < a => Left'[s] = Left[s]
                       /\ s = a => Left'[s] = tim
                       /\ s > a /\ InUse(a) => Left'[s] = Left[s - 1]
  <2>1. time \in [Slot -> Nat] /\ InUse(a) \in BOOLEAN
    BY TableFacts DEF TypeOK, InUse
  <2>2. time' = Entered(time, a, tim, n)
    BY <1>1, <1>5, <1>6 DEF Entered, Mine
  <2>3. \A s \in Slot :
           /\ s < a => Sums(Entered(time, a, tim, n))[s] = Sums(time)[s]
           /\ s = a => Sums(Entered(time, a, tim, n))[s] = tim
           /\ s > a /\ a < n => Sums(Entered(time, a, tim, n))[s] = Sums(time)[s - 1]
    BY <1>2, <1>3, <1>5, <2>1, SumsEnter
  <2>4. QED BY <1>5, <1>13, <1>14, <2>2, <2>3
<1>16. \A s \in Live : func[s] \in Timer /\ func[s] # t /\ due'[func[s]] = due[func[s]]
  <2>1. TAKE s \in Live
  <2>2. func[s] \in Timer /\ due[func[s]] # Off
    BY DEF CalloutInv, OneEntryEach
  <2>3. QED BY <1>1, <1>3, <2>2 DEF TypeOK
<1>17. \A s \in Live' : /\ s \in Slot /\ s \in Nat /\ (s < a \/ s = a \/ s > a)
                        /\ s < a => s \in Live
                        /\ s > a => s - 1 \in Live
  <2>1. TAKE s \in Live'
  <2>2. s \in Nat /\ s >= From /\ s <= n
    BY <1>4, <1>2, <1>11
  <2>3. s \in Slot
    BY <1>2, <1>3, <1>4, <2>2 DEF Slot
  <2>4. s < a => s \in From .. n - 1
    BY <1>2, <1>4, <1>7, <2>2
  <2>5. s > a => s - 1 \in From .. n - 1
    BY <1>2, <1>4, <1>7, <2>2
  <2>6. QED BY <1>7, <1>11, <2>2, <2>3, <2>4, <2>5
<1>18. OneEntryEach'
  <2>1. \A s \in Live' : (func'[s] = t <=> s = a) /\ func'[s] \in Timer
    <3>1. TAKE s \in Live'
    <3>2. QED BY <1>8, <1>16, <1>17
  <2>2. {func'[s] : s \in Live'} = {r \in Timer : due'[r] # Off}
    <3>1. \A s \in Live' : due'[func'[s]] # Off
      <4>1. TAKE s \in Live'
      <4>2. CASE s = a
        BY <1>1, <1>3, <2>1, <4>2 DEF TypeOK, Off
      <4>3. CASE s # a
        <5>1. PICK r \in Live : func'[s] = func[r]
          BY <1>8, <1>17, <4>3
        <5>2. QED BY <1>16, <5>1 DEF CalloutInv, OneEntryEach
      <4>4. QED BY <4>2, <4>3
    <3>2. ASSUME NEW r \in Timer, due'[r] # Off PROVE \E s \in Live' : func'[s] = r
      <4>1. CASE r = t
        <5>1. a \in Live'
          BY <1>2, <1>4, <1>7, <1>11
        <5>2. QED BY <2>1, <4>1, <5>1
      <4>2. CASE r # t
        <5>1. due[r] # Off
          BY <1>1, <1>3, <3>2, <4>2 DEF TypeOK
        <5>2. PICK s \in Live : func[s] = r
          BY <5>1 DEF CalloutInv, OneEntryEach
        <5>3. s \in Nat /\ s >= From /\ s <= n - 1 /\ s \in Slot
          BY <1>2, <1>4, <1>11, TableFacts
        <5>4. CASE s < a
          <6>1. s \in Live'
            BY <1>2, <1>4, <1>11, <5>3
          <6>2. QED BY <1>8, <5>2, <5>3, <5>4, <6>1
        <5>5. CASE ~(s < a)
          <6>1. s + 1 \in Live' /\ s + 1 \in Slot /\ s + 1 > a /\ (s + 1) - 1 = s
            BY <1>2, <1>3, <1>4, <1>7, <1>11, <5>3, <5>5 DEF Slot
          <6>2. func'[s + 1] = func[(s + 1) - 1]
            BY <1>8, <6>1
          <6>3. QED BY <5>2, <6>1, <6>2
        <5>6. QED BY <5>4, <5>5
      <4>3. QED BY <4>1, <4>2
    <3>3. QED BY <2>1, <3>1, <3>2
  <2>3. ASSUME NEW r \in Live', NEW s \in Live', func'[r] = func'[s] PROVE r = s
    <3>1. CASE r = a \/ s = a
      BY <2>1, <2>3, <3>1
    <3>2. CASE r # a /\ s # a
      <4>1. ASSUME NEW x \in Live', NEW y \in Live', x < a, y > a PROVE func'[x] # func'[y]
        <5>1. x \in Live /\ y - 1 \in Live /\ x # y - 1
          BY <1>7, <1>17, <4>1
        <5>2. func'[x] = func[x] /\ func'[y] = func[y - 1]
          BY <1>8, <1>17, <4>1
        <5>3. QED BY <5>1, <5>2 DEF CalloutInv, OneEntryEach
      <4>2. CASE r < a /\ s < a
        <5>1. r \in Live /\ s \in Live /\ func[r] = func[s]
          BY <1>8, <1>17, <2>3, <4>2
        <5>2. QED BY <5>1 DEF CalloutInv, OneEntryEach
      <4>3. CASE r > a /\ s > a
        <5>1. r - 1 \in Live /\ s - 1 \in Live /\ func[r - 1] = func[s - 1]
          BY <1>8, <1>17, <2>3, <4>3
        <5>2. r - 1 = s - 1
          BY <5>1 DEF CalloutInv, OneEntryEach
        <5>3. QED BY <1>17, <5>2
      <4>4. QED BY <1>17, <2>3, <3>2, <4>1, <4>2, <4>3
    <3>3. QED BY <3>1, <3>2
  <2>4. QED BY <1>9, <2>2, <2>3 DEF OneEntryEach
<1>19. OnTime'
  <2>1. ASSUME NEW s \in Live' PROVE Left'[s] - due'[func'[s]] \in 0 .. missed'
    <3>1. missed' = missed /\ 0 \in 0 .. missed
      BY <1>1, <1>3
    <3>2. CASE s = a
      <4>1. Left'[s] = tim /\ due'[func'[s]] = tim
        BY <1>1, <1>3, <1>8, <1>15, <1>17, <3>2 DEF TypeOK
      <4>2. QED BY <1>3, <3>1, <4>1
    <3>3. CASE s < a
      <4>1. s \in Live /\ Left'[s] = Left[s] /\ due'[func'[s]] = due[func[s]]
        BY <1>8, <1>15, <1>16, <1>17, <3>3
      <4>2. QED BY <3>1, <4>1 DEF CalloutInv, OnTime
    <3>4. CASE s > a
      <4>1. InUse(a)
        BY <1>2, <1>4, <1>5, <1>7, <1>11, <1>17, <3>4
      <4>2. /\ s - 1 \in Live /\ Left'[s] = Left[s - 1]
            /\ due'[func'[s]] = due[func[s - 1]]
        BY <1>8, <1>15, <1>16, <1>17, <3>4, <4>1
      <4>3. QED BY <3>1, <4>2 DEF CalloutInv, OnTime
    <3>5. QED BY <1>17, <3>2, <3>3, <3>4
  <2>2. QED BY <2>1 DEF OnTime
<1>20. PointersOK'
  <2>1. ASSUME pc = "func", NEW s \in Slot, s <= p1 PROVE time'[s] = 0
    <3>1. From = p1 + 1 /\ s < a /\ s < From
      BY <1>3, <1>7, <2>1, SlotFacts DEF From
    <3>2. QED BY <1>8, <1>12, <3>1
  <2>2. pc = "func" => \A s \in Slot : s < p1 \/ (s = p1 /\ (pc = "func" \/ p1 = 0))
                                         => time'[s] = 0
    BY <1>3, <2>1, SlotFacts
  <2>3. QED BY <1>1, <2>2 DEF CalloutInv, PointersOK
<1>21. ExpiredOK'
  <2>1. ASSUME pc = "func", NEW s \in Slot, \A r \in 0 .. s : InUse(r)' /\ time'[r] = 0
        PROVE  s < Cardinality(Timer) * (ticks + 1)
    <3>1. \A r \in 0 .. s : r \in Slot /\ r \in Nat
      BY SlotFacts, CalloutAssumption DEF Slot
    <3>2. s < a
      <4>1. SUFFICES ASSUME s >= a PROVE FALSE
        BY <1>7, SlotFacts
      <4>2. \A r \in Slot : r <= a => r \in 0 .. s
        BY <1>7, <4>1, SlotFacts
      <4>3. \A r \in Slot : r < a => time[r] = 0
        BY <1>7, <1>8, <2>1, <4>2, SlotFacts
      <4>4. mine = tim
        BY <1>5, <4>3
      <4>5. time'[a] = mine /\ time'[a] = 0
        BY <1>5, <1>7, <1>8, <2>1, <4>2
      <4>6. QED BY <1>3, <4>4, <4>5
    <3>3. \A r \in 0 .. s : r < a /\ r \in Slot
      BY <1>7, <3>1, <3>2, SlotFacts
    <3>4. \A r \in 0 .. s : InUse(r) /\ time[r] = 0
      BY <1>5, <1>8, <2>1, <3>3
    <3>5. QED BY <2>1, <3>4 DEF CalloutInv, ExpiredOK
  <2>2. QED BY <1>1, <2>1 DEF ExpiredOK
<1>22. TimesOK'
  BY <1>1 DEF TimesOK
<1>23. QED BY <1>10, <1>18, <1>19, <1>20, <1>21, <1>22 DEF CalloutInv

-----------------------------------------------------------------------------
(* An empty table.                                                         *)
LEMMA InitInv ==
  ASSUME Init
  PROVE  CalloutInv
<1>1. /\ func = [s \in Slot |-> NoFunc] /\ time = [s \in Slot |-> 0]
      /\ pc = "idle" /\ p1 = 0 /\ p2 = 0 /\ reg = 0 /\ ticks = 0 /\ missed = 0
      /\ due = [t \in Timer |-> Off]
  BY DEF Init
<1>2. /\ 0 \in Slot /\ NCALL \in Nat /\ NCALL > 1 /\ MaxTim \in Nat
      /\ MaxRunTicks \in Nat /\ MaxCopyTicks \in Nat /\ NoFunc \notin Timer
      /\ Slot \subseteq Nat
  BY CalloutAssumption, SlotFacts
<1>3. TypeOK
  <2>1. Off \in Off .. MaxTim /\ 0 \in 0 .. MaxTim
    BY <1>2 DEF Off
  <2>2. func \in [Slot -> Timer \cup {NoFunc}] /\ time \in [Slot -> 0 .. MaxTim]
    BY <1>1, <2>1
  <2>3. due \in [Timer -> Off .. MaxTim]
    BY <1>1, <2>1
  <2>4. QED BY <1>1, <1>2, <2>1, <2>2, <2>3 DEF TypeOK
<1>4. Shape(0) /\ 0 \in p1 .. NCALL - 1
  BY <1>1, <1>2 DEF Shape, InUse
<1>5. Live = {}
  <2>1. p1 \in Nat
    BY <1>1
  <2>2. Live = (IF Moving THEN 0 .. p2 - 1 ELSE {}) \cup From .. 0 - 1
    BY <1>4, <2>1, LiveIs
  <2>3. ~ Moving /\ From = 0
    BY <1>1 DEF Moving, From
  <2>4. From .. 0 - 1 = {}
    BY <2>3
  <2>5. QED BY <2>2, <2>3, <2>4
<1>6. OneEntryEach
  <2>1. {t \in Timer : due[t] # Off} = {}
    BY <1>1
  <2>2. QED BY <1>3, <1>5, <2>1 DEF OneEntryEach
<1>7. ShapeOK /\ OnTime
  BY <1>4, <1>5 DEF ShapeOK, OnTime
<1>8. PointersOK /\ ExpiredOK /\ TimesOK
  BY <1>1 DEF PointersOK, ExpiredOK, TimesOK
<1>9. QED BY <1>6, <1>7, <1>8 DEF CalloutInv

(* A step that changes nothing.                                            *)
LEMMA StutterInv ==
  ASSUME CalloutInv, UNCHANGED vars
  PROVE  CalloutInv'
<1>1. UNCHANGED <<func, time, pc, p1, p2, reg, ticks, missed, due>>
  BY DEF vars
<1>2. Live' = Live
  BY <1>1 DEF Live, End, InUse
<1>3. Left' = Left
  BY <1>1, <1>2 DEF Left, LiveTime
<1>4. OneEntryEach' /\ OnTime'
  BY <1>1, <1>2, <1>3 DEF CalloutInv, OneEntryEach, TypeOK, OnTime
<1>5. ShapeOK' /\ PointersOK' /\ ExpiredOK'
  BY <1>1 DEF CalloutInv, ShapeOK, Shape, PointersOK, ExpiredOK, InUse
<1>6. TimesOK'
  BY <1>1, <1>2, <1>3 DEF CalloutInv, TimesOK
<1>7. QED BY <1>4, <1>5, <1>6 DEF CalloutInv

(* Every step keeps the invariant.                                         *)
LEMMA NextInv ==
  ASSUME RoomEnough, CalloutInv, [Next]_vars
  PROVE  CalloutInv'
<1>1. CASE TickBase
  BY <1>1, TickBaseInv
<1>2. CASE TickHigh
  BY <1>2, TickHighInv
<1>3. CASE Clock
  <2>1. CASE Call
    BY <2>1, CallInv
  <2>2. CASE FuncReturn
    BY <2>2, FuncReturnInv
  <2>3. CASE RunEnd
    BY <2>3, RunEndInv
  <2>4. CASE Move
    BY <2>4, MoveInv, MoveEndInv
  <2>5. CASE Load
    BY <2>5, LoadInv
  <2>6. CASE Store
    BY <2>6, StoreInv
  <2>7. QED BY <1>3, <2>1, <2>2, <2>3, <2>4, <2>5, <2>6 DEF Clock
<1>4. CASE \E t \in Timer, tim \in 1 .. MaxTim : Timeout(t, tim)
  BY <1>4, TimeoutInv
<1>5. CASE UNCHANGED vars
  BY <1>5, StutterInv
<1>6. QED BY <1>1, <1>2, <1>3, <1>4, <1>5 DEF Next

(***************************************************************************)
(* Of any number of timers, and ticks that interrupt the calls and the     *)
(* closing up at any of its steps, a table with room for all of them keeps *)
(* the invariant.                                                          *)
(***************************************************************************)
THEOREM Invariance == ASSUME RoomEnough PROVE Spec => []CalloutInv
<1>1. Init => CalloutInv
  BY InitInv
<1>2. CalloutInv /\ [Next]_vars => CalloutInv'
  BY NextInv
<1>3. QED BY <1>1, <1>2, PTL DEF Spec

(***************************************************************************)
(* The entries of the table that clock has still to call are one for each  *)
(* timer that timeout entered: the call loop, the moves of the closing up  *)
(* and the entries that functions make meanwhile lose none and call none   *)
(* twice.                                                                  *)
(***************************************************************************)
THEOREM EntriesOnce == ASSUME RoomEnough PROVE Spec => []OneEntryEach
<1>1. CalloutInv => OneEntryEach
  BY DEF CalloutInv
<1>2. QED BY <1>1, Invariance, PTL

(***************************************************************************)
(* The times up to an entry are the ticks that are left before its timer   *)
(* is due, and one more for each tick that the closing up forgot: no call  *)
(* of clock is early, whatever is entered before or after it.              *)
(***************************************************************************)
THEOREM CallsOnTime == ASSUME RoomEnough PROVE Spec => []OnTime
<1>1. CalloutInv => OnTime
  BY DEF CalloutInv
<1>2. QED BY <1>1, Invariance, PTL

-----------------------------------------------------------------------------
(***************************************************************************)
(* That one clock at a time is in the callouts, as Callout has it, is what *)
(* the interrupt code of mch.s guarantees, as Interrupt models it.         *)
(***************************************************************************)

(* A level lets in only the devices above it.                              *)
MaskOrder == \A l \in Level, i \in IRQ : i \in LetIn(l) => Ipl(i) > l

(* Only the base code can be at level 0, so only the first handler on the  *)
(* stack can have interrupted level 0, which is what clock asks for.       *)
BaseOnly ==
    /\ stack # <<>> => pl # 0
    /\ \A k \in 1 .. Len(stack) : k > 1 => stack[k].saved # 0

LoweredAtBase ==
    \A k \in 1 .. Len(stack) :
        stack[k].at \in {"callout", "bolt"} => stack[k].saved = 0

IInv == IntrTypeOK /\ SplExcludes /\ BaseOnly /\ LoweredAtBase

(* The handlers run at level 4 and above.                                  *)
LEMMA IplLevel == ASSUME NEW i PROVE Ipl(i) \in {4, 5, 6, 7}
BY DEF Ipl

(* A new handler on the stack.                                             *)
LEMMA EnterInv ==
    ASSUME IInv, NEW i \in IRQ, Ipl(i) > pl, Enter(i), iq' \subseteq IRQ
    PROVE  IInv'
<1>1. pl \in Level /\ stack \in Seq(Frame)
  BY DEF IInv, IntrTypeOK
<1>2. /\ pl' = Ipl(i) /\ Ipl(i) \in {4, 5, 6, 7}
      /\ unq' = FALSE
  BY IplLevel DEF Enter
<1> DEFINE f == [irq |-> i, saved |-> pl, at |-> "own"]
<1>3. f \in Frame
  BY <1>1 DEF Frame
<1>4. stack' = Append(stack, f)
  BY DEF Enter
<1>5. /\ stack' \in Seq(Frame)
      /\ Len(stack') = Len(stack) + 1
      /\ \A k \in 1 .. Len(stack) : stack'[k] = stack[k]
      /\ stack'[Len(stack) + 1] = f
  BY <1>1, <1>3, <1>4
<1>6. Len(stack) \in Nat
  BY <1>1
<1>7. IntrTypeOK'
  BY <1>2, <1>5 DEF IntrTypeOK, Level
<1>8. SplExcludes'
  BY <1>5, <1>6 DEF IInv, SplExcludes
<1>9. BaseOnly'
  <2>1. stack # <<>> => pl # 0
    BY DEF IInv, BaseOnly
  <2>2. ASSUME NEW k \in 1 .. Len(stack'), k > 1
        PROVE  stack'[k].saved # 0
    <3>1. CASE k \in 1 .. Len(stack)
      BY <1>5, <2>2, <3>1 DEF IInv, BaseOnly
    <3>2. CASE k = Len(stack) + 1
      <4>1. stack # <<>>
        BY <1>6, <2>2, <3>2
      <4> QED BY <1>5, <2>1, <3>2, <4>1
    <3> QED BY <1>5, <1>6, <3>1, <3>2
  <2> QED BY <1>2, <2>2 DEF BaseOnly
<1>10. LoweredAtBase'
  <2>1. ASSUME NEW k \in 1 .. Len(stack'),
               stack'[k].at \in {"callout", "bolt"}
        PROVE  stack'[k].saved = 0
    <3>1. CASE k \in 1 .. Len(stack)
      BY <1>5, <2>1, <3>1 DEF IInv, LoweredAtBase
    <3>2. CASE k = Len(stack) + 1
      BY <1>5, <2>1, <3>2
    <3> QED BY <1>5, <1>6, <3>1, <3>2
  <2> QED BY <2>1 DEF LoweredAtBase
<1> QED BY <1>7, <1>8, <1>9, <1>10 DEF IInv

(* The running handler moves to another part, at another level.            *)
LEMMA SetTopInv ==
    ASSUME IInv, stack # <<>>,
           NEW at \in {"own", "spl6", "callout", "bolt"}, SetTop(at),
           at \in {"callout", "bolt"} => Top.saved = 0,
           pl' \in Level \ {0}, iq' = iq, unq' \in BOOLEAN
    PROVE  IInv'
<1>1. stack \in Seq(Frame)
  BY DEF IInv, IntrTypeOK
<1>2. Len(stack) \in Nat /\ Len(stack) \in 1 .. Len(stack)
  BY <1>1
<1>3. stack' = [stack EXCEPT ![Len(stack)].at = at]
  BY DEF SetTop
<1>4. Len(stack') = Len(stack)
  BY <1>1, <1>3
<1>5. \A k \in 1 .. Len(stack) :
          /\ stack'[k].irq = stack[k].irq
          /\ stack'[k].saved = stack[k].saved
          /\ stack'[k].at = IF k = Len(stack) THEN at ELSE stack[k].at
          /\ stack'[k] \in Frame
  <2> TAKE k \in 1 .. Len(stack)
  <2>1. stack[k] \in Frame
    BY <1>1
  <2>2. CASE k = Len(stack)
    <3>1. stack'[k] = [stack[k] EXCEPT !.at = at]
      BY <1>1, <1>2, <1>3, <2>2
    <3> QED BY <2>1, <2>2, <3>1 DEF Frame
  <2>3. CASE k # Len(stack)
    <3>1. stack'[k] = stack[k]
      BY <1>1, <1>2, <1>3, <2>3
    <3> QED BY <2>1, <2>3, <3>1
  <2> QED BY <2>2, <2>3
<1>6. stack' \in Seq(Frame)
  BY <1>1, <1>2, <1>3, <1>5
<1>7. IntrTypeOK'
  BY <1>6 DEF IInv, IntrTypeOK, Level
<1>8. SplExcludes'
  BY <1>4, <1>5 DEF IInv, SplExcludes
<1>9. BaseOnly'
  BY <1>4, <1>5 DEF IInv, BaseOnly
<1>10. LoweredAtBase'
  BY <1>2, <1>4, <1>5 DEF IInv, LoweredAtBase, Top
<1> QED BY <1>7, <1>8, <1>9, <1>10 DEF IInv

(* The handler on top of the stack returns.                                *)
LEMMA ReturnInv ==
    ASSUME IInv, Return
    PROVE  IInv'
<1>1. stack \in Seq(Frame) /\ stack # <<>>
  BY DEF IInv, IntrTypeOK, Return
<1> DEFINE n == Len(stack)
<1>2. n \in Nat /\ n >= 1 /\ stack[n] \in Frame
  BY <1>1
<1>3. stack' = SubSeq(stack, 1, n - 1) /\ pl' = stack[n].saved
      /\ iq' = iq /\ unq' = TRUE
  BY DEF Return, Top
<1>4. /\ Len(stack') = n - 1
      /\ stack' \in Seq(Frame)
      /\ \A k \in 1 .. n - 1 : stack'[k] = stack[k]
  <2>1. \A k \in 1 .. n - 1 : stack[k] \in Frame
    BY <1>1, <1>2
  <2>2. n - 1 \in Int /\ 1 \in Int
    BY <1>2
  <2> HIDE DEF n
  <2> QED BY <1>2, <1>3, <2>1, <2>2, SubSeqProperties, Z3
<1>5. IntrTypeOK'
  BY <1>2, <1>3, <1>4 DEF IInv, IntrTypeOK, Frame
<1>6. SplExcludes'
  BY <1>2, <1>4 DEF IInv, SplExcludes
<1>7. LoweredAtBase'
  BY <1>2, <1>4 DEF IInv, LoweredAtBase
<1>8. BaseOnly'
  <2>1. \A k \in 1 .. Len(stack') : k > 1 => stack'[k].saved # 0
    BY <1>2, <1>4 DEF IInv, BaseOnly
  <2>2. stack' # <<>> => pl' # 0
    <3>1. stack' # <<>> => n > 1
      BY <1>2, <1>4
    <3> QED BY <1>2, <1>3, <3>1 DEF IInv, BaseOnly
  <2> QED BY <2>1, <2>2 DEF BaseOnly
<1> QED BY <1>5, <1>6, <1>7, <1>8 DEF IInv

(* The invariant holds at first,                                          *)
LEMMA IntrFirst == IntrInit => IInv
<1> SUFFICES ASSUME IntrInit PROVE IInv
  OBVIOUS
<1>1. stack = <<>> /\ pl = 7 /\ iq = {} /\ unq = FALSE
  BY DEF IntrInit
<1>2. stack \in Seq(Frame) /\ Len(stack) = 0
  BY <1>1
<1>3. 1 .. Len(stack) = {}
  BY <1>2
<1>4. IntrTypeOK
  BY <1>1, <1>2 DEF IntrTypeOK, Level
<1>5. SplExcludes /\ LoweredAtBase
  BY <1>3 DEF SplExcludes, LoweredAtBase
<1>6. BaseOnly
  BY <1>1, <1>3 DEF BaseOnly
<1> QED BY <1>4, <1>5, <1>6 DEF IInv

(* and every step keeps it.                                                *)
LEMMA IntrKept ==
    ASSUME MaskOrder, IInv, [IntrNext]_intrVars
    PROVE  IInv'
<1>1. ASSUME NEW i \in IRQ, Raise(i) PROVE IInv'
  <2>1. CASE i \in LetIn(pl)
    <3>1. Enter(i) /\ iq' = iq
      BY <1>1, <2>1 DEF Raise
    <3>2. Ipl(i) > pl
      BY <2>1 DEF MaskOrder, IInv, IntrTypeOK
    <3> QED BY <3>1, <3>2, EnterInv DEF IInv, IntrTypeOK
  <2>2. CASE i \notin LetIn(pl)
    <3>1. iq' = iq \cup {i} /\ UNCHANGED <<pl, stack, unq>>
      BY <1>1, <2>2 DEF Raise
    <3> QED BY <3>1 DEF IInv, IntrTypeOK, SplExcludes, BaseOnly, LoweredAtBase
  <2> QED BY <2>1, <2>2
<1>2. ASSUME NEW l \in Level, Spl(l) PROVE IInv'
  <2>1. stack = <<>> /\ stack' = stack /\ iq' = iq /\ pl' = l /\ unq' = TRUE
    BY <1>2 DEF Spl
  <2> QED BY <2>1 DEF IInv, IntrTypeOK, SplExcludes, BaseOnly, LoweredAtBase
<1>3. CASE Unqint
  <2>1. CASE unq' = FALSE /\ UNCHANGED <<pl, iq, stack>>
    BY <2>1 DEF IInv, IntrTypeOK, SplExcludes, BaseOnly, LoweredAtBase
  <2>2. ASSUME NEW i \in iq \cap LetIn(pl), iq' = iq \ {i}, Enter(i)
        PROVE  IInv'
    <3>1. Ipl(i) > pl /\ i \in IRQ
      BY <2>2 DEF MaskOrder, IInv, IntrTypeOK
    <3> QED BY <2>2, <3>1, EnterInv DEF IInv, IntrTypeOK
  <2> QED BY <1>3, <2>1, <2>2 DEF Unqint
<1>4. CASE HandlerSpl6
  <2>1. /\ stack # <<>> /\ SetTop("spl6") /\ pl' = 6 /\ unq' = TRUE /\ iq' = iq
    BY <1>4 DEF HandlerSpl6, Running
  <2> QED BY <2>1, SetTopInv DEF Level
<1>5. CASE HandlerSplx
  <2>1. /\ stack # <<>> /\ SetTop("own") /\ pl' = Ipl(Top.irq)
        /\ unq' = TRUE /\ iq' = iq
    BY <1>5 DEF HandlerSplx, Running
  <2>2. pl' \in Level \ {0}
    BY <2>1, IplLevel DEF Level
  <2> QED BY <2>1, <2>2, SetTopInv
<1>6. CASE ClockCallout
  <2>1. /\ stack # <<>> /\ SetTop("callout") /\ pl' = 5 /\ Top.saved = 0
        /\ unq' = TRUE /\ iq' = iq
    BY <1>6 DEF ClockCallout, Running
  <2> QED BY <2>1, SetTopInv DEF Level
<1>7. CASE ClockBolt
  <2>1. /\ stack # <<>> /\ SetTop("bolt") /\ pl' = 1 /\ Top.saved = 0
        /\ unq' = TRUE /\ iq' = iq
    BY <1>7 DEF ClockBolt
  <2> QED BY <2>1, SetTopInv DEF Level
<1>8. CASE Return
  BY <1>8, ReturnInv
<1>9. CASE UNCHANGED intrVars
  BY <1>9 DEF intrVars, IInv, IntrTypeOK, SplExcludes, BaseOnly, LoweredAtBase
<1> QED
  BY <1>1, <1>2, <1>3, <1>4, <1>5, <1>6, <1>7, <1>8, <1>9 DEF IntrNext

(***************************************************************************)
(* Every handler runs on top of code at a lower level than its device's,   *)
(* for any set of lines whose masks respect the levels.                    *)
(***************************************************************************)
THEOREM LevelsExclude == ASSUME MaskOrder PROVE IntrSpec => []SplExcludes
<1>1. IInv => SplExcludes
  BY DEF IInv
<1>2. IInv /\ [IntrNext]_intrVars => IInv'
  BY IntrKept
<1> QED BY <1>1, <1>2, IntrFirst, PTL DEF IntrSpec

(***************************************************************************)
(* The part of clock that runs the callouts and the once-a-second work is  *)
(* never entered a second time before it is left.                          *)
(***************************************************************************)
THEOREM ClockNotReentered == ASSUME MaskOrder PROVE IntrSpec => []ClockOnce
<1>1. IInv => ClockOnce
  <2> SUFFICES ASSUME IInv,
                      NEW j \in 1 .. Len(stack), NEW k \in 1 .. Len(stack),
                      {stack[j].at, stack[k].at} \subseteq {"callout", "bolt"}
               PROVE  j = k
    BY DEF ClockOnce
  <2>1. stack[j].saved = 0 /\ stack[k].saved = 0
    BY DEF IInv, LoweredAtBase
  <2>2. ~(j > 1) /\ ~(k > 1)
    BY <2>1 DEF IInv, BaseOnly
  <2> QED BY <2>2
<1>2. IInv /\ [IntrNext]_intrVars => IInv'
  BY IntrKept
<1> QED BY <1>1, <1>2, IntrFirst, PTL DEF IntrSpec

(* The types, from the same invariant.                                     *)
THEOREM InterruptTypes == ASSUME MaskOrder PROVE IntrSpec => []IntrTypeOK
<1>1. IInv => IntrTypeOK
  BY DEF IInv
<1>2. IInv /\ [IntrNext]_intrVars => IInv'
  BY IntrKept
<1> QED BY <1>1, <1>2, IntrFirst, PTL DEF IntrSpec
=============================================================================
