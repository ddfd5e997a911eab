---------------------------- MODULE ResourceMap ----------------------------
(***************************************************************************)
(* The lists of free space that sys/malloc.c keeps, coremap and swapmap:   *)
(* malloc takes the first entry that is large enough, mfree sorts space    *)
(* back in and joins it with its neighbours.  A map is a sequence of       *)
(* entries; the zero size that ends the table is the sequence's end.       *)
(*                                                                         *)
(* The specification is one map with those who hold space: startup gives   *)
(* it the machine's memory page by page, leaving out the holes; images     *)
(* and texts are allocated and freed whole, and expand gives the end of an *)
(* image back.                                                             *)
(***************************************************************************)
EXTENDS Naturals, FiniteSets, Sequences

CONSTANTS
  Units,  \* the last address, phymem - 1 or nswap
  Hole    \* addresses that are not free memory: the kernel, the adapters

ASSUME UnitsAssumption == Units \in Nat
ASSUME HoleAssumption == Hole \subseteq 1 .. Units

VARIABLES
  map,    \* coremap or swapmap
  held,   \* the space that images and texts were given
  next    \* the page that startup frees next

vars == <<map, held, next>>

Entry(a, n) == [addr |-> a, size |-> n]
Extent(e) == e.addr .. e.addr + e.size - 1

(* Entries are shifted down over entry i, or up to make room for e at i.   *)
Close(m, i) == [j \in 1 .. Len(m) - 1 |-> IF j < i THEN m[j] ELSE m[j + 1]]
Insert(m, i, e) ==
  [j \in 1 .. Len(m) + 1 |->
     IF j < i THEN m[j] ELSE IF j = i THEN e ELSE m[j - 1]]

(* malloc: the first entry that has n units, and what is left of the map.  *)
Fits(m, n) == \E i \in 1 .. Len(m) : m[i].size >= n
FirstFit(m, n) ==
  CHOOSE i \in 1 .. Len(m) :
    m[i].size >= n /\ \A j \in 1 .. i - 1 : m[j].size < n

MallocAddr(m, n) == m[FirstFit(m, n)].addr

(* Mutant: the size is reduced and the address stays.                      *)
MallocRestStays(m, n) ==
  LET i == FirstFit(m, n)
  IN  IF m[i].size = n THEN Close(m, i)
      ELSE [m EXCEPT ![i] = Entry(m[i].addr, m[i].size - n)]

MallocRest(m, n) ==
  LET i == FirstFit(m, n)
  IN  IF m[i].size = n THEN Close(m, i)
      ELSE [m EXCEPT ![i] = Entry(m[i].addr + n, m[i].size - n)]

(* Mutant: the search does not stop at a greater address.                  *)
PlaceLast(m, a) == Len(m) + 1

(* mfree: a goes before the first entry with a greater address, unless it  *)
(* joins the entry before or the one behind.  No size is freed as well, by *)
(* expand, when an image keeps its size.                                   *)
Place(m, a) ==
  CHOOSE i \in 1 .. Len(m) + 1 :
    /\ \A j \in 1 .. i - 1 : m[j].addr <= a
    /\ i <= Len(m) => m[i].addr > a

(* Mutant: the last unit, not the one behind it, is compared.              *)
JoinsRightLate(m, i, a, n) == i <= Len(m) /\ a + n - 1 = m[i].addr

JoinsLeft(m, i, a) == i > 1 /\ m[i - 1].addr + m[i - 1].size = a
JoinsRight(m, i, a, n) == i <= Len(m) /\ a + n = m[i].addr

Mfree(m, n, a) ==
  LET i == Place(m, a)
      left == JoinsLeft(m, i, a)
      right == JoinsRight(m, i, a, n)
  IN  IF left /\ right
        THEN Close([m EXCEPT ![i - 1] = Entry(@.addr, @.size + n + m[i].size)], i)
      ELSE IF left THEN [m EXCEPT ![i - 1] = Entry(@.addr, @.size + n)]
      ELSE IF right THEN [m EXCEPT ![i] = Entry(a, @.size + n)]
      ELSE IF n # 0 THEN Insert(m, i, Entry(a, n))
      ELSE m

(***************************************************************************)
(* The map and its users.                                                  *)
(***************************************************************************)
Init == map = << >> /\ held = {} /\ next = 1

Startup ==
  /\ next <= Units
  /\ map' = IF next \in Hole THEN map ELSE Mfree(map, 1, next)
  /\ next' = next + 1
  /\ UNCHANGED held

Malloc(n) ==
  /\ next > Units
  /\ Fits(map, n)
  /\ held' = held \cup {Entry(MallocAddr(map, n), n)}
  /\ map' = MallocRest(map, n)
  /\ UNCHANGED next

Free(e) ==
  /\ map' = Mfree(map, e.size, e.addr)
  /\ held' = held \ {e}
  /\ UNCHANGED next

(* expand: the image shrinks to n units, or stays as it is.                *)
Shrink(e, n) ==
  /\ map' = Mfree(map, e.size - n, e.addr + n)
  /\ held' = (held \ {e}) \cup {Entry(e.addr, n)}
  /\ UNCHANGED next

Next ==
  \/ Startup
  \/ \E n \in 1 .. Units : Malloc(n)
  \/ \E e \in held : Free(e)
  \/ \E e \in held : \E n \in 1 .. e.size : Shrink(e, n)

Spec == Init /\ [][Next]_vars

(***************************************************************************)
(* Properties.                                                             *)
(***************************************************************************)

IsMap(m) ==
  /\ m \in Seq([addr : 1 .. Units, size : 1 .. Units])
  /\ \A i \in 1 .. Len(m) : m[i].addr + m[i].size <= Units + 1
  /\ \A i, j \in 1 .. Len(m) : i < j => m[i].addr + m[i].size < m[j].addr

InMap(m, a) == \E i \in 1 .. Len(m) : a \in Extent(m[i])
InHeld(a) == \E e \in held : a \in Extent(e)

(* The entries of malloc.c's map are in order of address, none is empty,   *)
(* and none touches the next: mfree has joined what can be joined, so a    *)
(* request fails only if no run of free units is long enough.              *)
MapOK == IsMap(map)

(* Every unit that startup has given is in one entry of the map or with    *)
(* one holder, and no other unit is in either: malloc hands nothing out    *)
(* twice, mfree loses nothing and makes nothing up.                        *)
UnitsOnce ==
  /\ held \subseteq [addr : 1 .. Units, size : 1 .. Units]
  /\ \A e, f \in held : e # f => Extent(e) \cap Extent(f) = {}
  /\ \A e \in held : e.addr + e.size <= Units + 1
  /\ \A a \in 1 .. Units :
       /\ InMap(map, a) \/ InHeld(a) <=> a < next /\ a \notin Hole
       /\ ~ (InMap(map, a) /\ InHeld(a))

(* A free run ends where a holder or a hole begins or at the end, so there *)
(* are never more entries than those and one more: what bounds the table,  *)
(* which mfree fills without a test (CMAPSIZ and SMAPSIZ are 50).          *)
Fragments ==
  Len(map) <= 1 + Cardinality(held)
                + Cardinality({h \in Hole : h + 1 \notin Hole})
=============================================================================
