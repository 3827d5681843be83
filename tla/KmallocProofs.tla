----------------------------- MODULE KmallocProofs -----------------------------
(***************************************************************************)
(* Proofs about Kmalloc, for every page size, every growth of the heap and *)
(* every sequence of calls: the blocks always cover the heap without       *)
(* overlap, the free list is the circle it should be, and kmalloc and      *)
(* kfree implement Heap.                                                   *)
(***************************************************************************)
EXTENDS Kmalloc, TLAPS

\* The blocks B, by the sizes sz, cover the units hp and do not overlap.
Tiled(B, sz, hp) ==
    /\ \A x \in B : sz[x] \in Nat \ {0} /\ x .. (x + sz[x] - 1) \subseteq hp
    /\ \A x, y \in B : x < y => x + sz[x] <= y
    /\ \A u \in hp : \E x \in B : x <= u /\ u < x + sz[x]

Apart(F, sz) == \A p, q \in F \ {base} : p + sz[p] # q

\* Before the first call there is no list and no heap.
Fresh == call = Idle /\ free = {base} /\ used = {} /\ heap = {}

\* Where a call is: the search is at a pair of neighbours in the list; a block that
\* is being freed is in no set yet.
CallOK ==
    /\ call # Idle => freep # NULL
    /\ call.op \in {"kmalloc", "acquire"} => call.nunits >= 2
    /\ call.op = "kmalloc" => call.prevp \in free /\ call.p = next[call.prevp]
    /\ Freeing => call.p \in free /\ call.bp \in heap /\ call.bp \notin used \cup free

Inv ==
    /\ TypeOK
    /\ base \in free /\ size[base] = 0
    /\ used \cap free = {}
    /\ \A x \in used : size[x] >= 2
    /\ freep = NULL => Fresh
    /\ freep # NULL => freep \in free /\ Linked(free, next)
    /\ Apart(free, size)
    /\ CallOK
    /\ Tiled(Blocks, size, heap)

\* What a step leaves alone: the sizes of the blocks that stay with their owners.
OwnersKeep == \A x \in used \cap used' : size'[x] = size[x]

-----------------------------------------------------------------------------
(***************************************************************************)
(* Circular lists.                                                         *)
(***************************************************************************)
\* base is the first header of every circle that holds it, so no other header
\* follows the last one.
LEMMA OnlyPredecessor ==
    ASSUME NEW F \in SUBSET Nat, base \in F, NEW nx, Linked(F, nx),
           NEW p \in F, p # base,
           NEW r \in F, NEW s \in F, nx[r] = p, nx[s] = p
    PROVE  r = s /\ r < p
<1>1. \A t \in F : nx[t] = p => t < p /\ \A v \in F : v <= t \/ p <= v
  BY DEF Linked, Follows, base
<1>2. r < p /\ s < p /\ (s <= r \/ p <= s) /\ (r <= s \/ p <= r)
  BY <1>1
<1>3. QED
  BY <1>2

\* Taking a header out: its predecessor is linked to its successor.
LEMMA Unlink ==
    ASSUME NEW F \in SUBSET Nat, base \in F, NEW nx, Linked(F, nx),
           NEW p \in F, p # base, NEW prevp \in F, nx[prevp] = p,
           NEW nx1, nx1[prevp] = nx[p],
           \A r \in F : r # prevp => nx1[r] = nx[r]
    PROVE  prevp # p /\ Linked(F \ {p}, nx1)
<1>0. \A v \in F : v \in Nat
  OBVIOUS
<1>1. prevp < p /\ \A r \in F : nx[r] = p => r = prevp
  BY OnlyPredecessor
<1>2. \A v \in F : v <= prevp \/ p <= v
  BY <1>1 DEF Linked, Follows
<1>3. nx[p] \in F /\ nx[p] # p
  BY <1>1 DEF Linked, Follows, base
<1>4. Follows(F \ {p}, prevp, nx[p])
  <2>0. nx[p] \in Nat /\ p \in Nat /\ prevp \in Nat
    BY <1>0, <1>3
  <2>1. CASE p < nx[p] /\ \A v \in F : v <= p \/ nx[p] <= v
    BY <2>0, <2>1, <1>1, <1>2, <1>3 DEF Follows
  <2>2. CASE nx[p] <= p /\ \A v \in F : nx[p] <= v /\ v <= p
    BY <2>0, <2>2, <1>1, <1>2, <1>3 DEF Follows
  <2>3. QED
    BY <2>1, <2>2, <1>3 DEF Linked, Follows
<1>5. ASSUME NEW r \in F \ {p}, r # prevp
      PROVE  nx1[r] \in F \ {p} /\ Follows(F \ {p}, r, nx1[r])
  <2>1. nx1[r] = nx[r] /\ nx[r] # p /\ nx[r] \in F /\ Follows(F, r, nx[r])
    BY <1>5, <1>1 DEF Linked
  <2>2. QED
    BY <2>1 DEF Follows
<1>6. QED
  BY <1>1, <1>3, <1>4, <1>5 DEF Linked

\* The place Between finds is behind p, and nothing is in between.
LEMMA Place ==
    ASSUME NEW F \in SUBSET Nat, base \in F, NEW nx, Linked(F, nx),
           NEW p \in F, NEW b \in Nat, b \notin F, b # base, Between(b, p, nx[p])
    PROVE  p < b /\ \A v \in F : v <= p \/ b <= v
<1>0. \A v \in F : v \in Nat
  OBVIOUS
<1>1. PICK q \in F : q = nx[p] /\ Follows(F, p, q) /\ Between(b, p, q)
  BY DEF Linked
<1>2. p \in Nat /\ q \in Nat /\ base <= q /\ base <= p
  BY <1>0 DEF base
<1>3. p < b
  <2>1. CASE p < q
    BY <2>1, <1>1, <1>2 DEF Between
  <2>2. CASE q <= p
    <3>1. q <= base
      BY <2>2, <1>1, <1>2 DEF Follows
    <3>2. QED
      BY <2>2, <3>1, <1>1, <1>2 DEF Between, base
  <2>3. QED
    BY <2>1, <2>2, <1>2
<1>4. \A v \in F : v <= p \/ b <= v
  <2>1. CASE p < q
    BY <2>1, <1>0, <1>1, <1>2, <1>3 DEF Between, Follows
  <2>2. CASE q <= p
    BY <2>2, <1>0, <1>1, <1>2 DEF Follows
  <2>3. QED
    BY <2>1, <2>2, <1>2
<1>5. QED
  BY <1>3, <1>4

\* Putting a header in at the place Between finds.
LEMMA Insert ==
    ASSUME NEW F \in SUBSET Nat, base \in F, NEW nx, Linked(F, nx),
           NEW p \in F, NEW b \in Nat, b \notin F, b # base, Between(b, p, nx[p]),
           NEW nx1, nx1[b] = nx[p], nx1[p] = b,
           \A r \in F : r # p => nx1[r] = nx[r]
    PROVE  Linked(F \cup {b}, nx1)
<1>0. \A v \in F : v \in Nat
  OBVIOUS
<1>1. PICK q \in F : q = nx[p] /\ Follows(F, p, q) /\ Between(b, p, q)
  BY DEF Linked
<1>a. p \in Nat /\ q \in Nat
  BY <1>0
<1>2. p < b
  BY Place
<1>3. \A v \in F : v <= p \/ b <= v
  BY Place
<1>4. Follows(F \cup {b}, p, b)
  BY <1>0, <1>2, <1>3 DEF Follows
<1>5. Follows(F \cup {b}, b, q)
  <2>1. CASE p < q
    BY <2>1, <1>0, <1>1, <1>2, <1>a DEF Follows, Between
  <2>2. CASE q <= p
    BY <2>2, <1>0, <1>1, <1>2, <1>a DEF Follows
  <2>3. QED
    BY <2>1, <2>2, <1>a
<1>6. ASSUME NEW r \in F, r # p
      PROVE  nx1[r] \in F /\ Follows(F \cup {b}, r, nx1[r])
  <2>1. PICK s \in F : s = nx1[r] /\ Follows(F, r, s)
    BY <1>6 DEF Linked
  <2>2. r \in Nat /\ s \in Nat
    BY <1>0
  <2>3. CASE r < s /\ \A v \in F : v <= r \/ s <= v
    <3>1. b <= r \/ s <= b
      BY <2>2, <2>3, <1>2, <1>3, <1>6, <1>a
    <3>2. QED
      BY <2>1, <2>3, <3>1 DEF Follows
  <2>4. CASE s <= r /\ \A v \in F : s <= v /\ v <= r
    <3>1. s <= p /\ p <= r
      BY <2>4
    <3>2. s <= b /\ b <= r
      BY <2>2, <3>1, <1>2, <1>3, <1>6, <1>a
    <3>3. QED
      BY <2>1, <2>4, <3>2 DEF Follows
  <2>5. QED
    BY <2>1, <2>3, <2>4 DEF Follows
<1>7. QED
  BY <1>1, <1>4, <1>5, <1>6 DEF Linked

-----------------------------------------------------------------------------
(***************************************************************************)
(* Tilings.                                                                *)
(***************************************************************************)
\* Cutting n units from the end of a block.
LEMMA Cut ==
    ASSUME NEW B \in SUBSET Nat, NEW sz, NEW hp \in SUBSET Nat, Tiled(B, sz, hp),
           NEW x \in B, NEW n \in Nat \ {0}, n < sz[x],
           NEW sz1, sz1[x] = sz[x] - n, sz1[x + sz[x] - n] = n,
           \A y \in B : y # x => sz1[y] = sz[y]
    PROVE  x + sz[x] - n \notin B /\ Tiled(B \cup {x + sz[x] - n}, sz1, hp)
<1> DEFINE q == x + sz[x] - n
<1>1. sz[x] \in Nat /\ x < q /\ q < x + sz[x] /\ q \in Nat /\ q + n = x + sz[x]
  BY DEF Tiled
<1>2. q \notin B
  BY <1>1 DEF Tiled
<1>3. \A y \in B \cup {q} : sz1[y] \in Nat \ {0} /\ y .. (y + sz1[y] - 1) \subseteq hp
  BY <1>1, <1>2 DEF Tiled
<1>4. \A y, z \in B \cup {q} : y < z => y + sz1[y] <= z
  BY <1>1, <1>2 DEF Tiled
<1>5. \A u \in hp : \E y \in B \cup {q} : y <= u /\ u < y + sz1[y]
  <2> TAKE u \in hp
  <2>1. PICK y \in B : y <= u /\ u < y + sz[y]
    BY DEF Tiled
  <2>2. QED
    BY <2>1, <1>1
<1>6. QED
  BY <1>2, <1>3, <1>4, <1>5 DEF Tiled

\* Joining two neighbours.
LEMMA Join ==
    ASSUME NEW B \in SUBSET Nat, NEW sz, NEW hp \in SUBSET Nat, Tiled(B, sz, hp),
           NEW x \in B, NEW y \in B, x + sz[x] = y,
           NEW sz1, sz1[x] = sz[x] + sz[y],
           \A z \in B : z # x /\ z # y => sz1[z] = sz[z]
    PROVE  x # y /\ Tiled(B \ {y}, sz1, hp)
<1>1. sz[x] \in Nat \ {0} /\ sz[y] \in Nat \ {0} /\ x < y /\ x + sz1[x] = y + sz[y]
  BY DEF Tiled
<1>2. \A z \in B \ {y} : sz1[z] \in Nat \ {0} /\ z .. (z + sz1[z] - 1) \subseteq hp
  <2> TAKE z \in B \ {y}
  <2>1. CASE z # x
    BY <2>1 DEF Tiled
  <2>2. CASE z = x
    <3>1. x .. (x + sz[x] - 1) \subseteq hp /\ y .. (y + sz[y] - 1) \subseteq hp
      BY DEF Tiled
    <3>2. x .. (x + sz1[x] - 1) \subseteq x .. (x + sz[x] - 1) \cup y .. (y + sz[y] - 1)
      BY <1>1
    <3>3. QED
      BY <2>2, <3>1, <3>2, <1>1
  <2>3. QED
    BY <2>1, <2>2
<1>3. \A v, z \in B \ {y} : v < z => v + sz1[v] <= z
  BY <1>1 DEF Tiled
<1>4. \A u \in hp : \E z \in B \ {y} : z <= u /\ u < z + sz1[z]
  <2> TAKE u \in hp
  <2>1. PICK z \in B : z <= u /\ u < z + sz[z]
    BY DEF Tiled
  <2>2. QED
    BY <2>1, <1>1
<1>5. QED
  BY <1>1, <1>2, <1>3, <1>4 DEF Tiled

\* Adding units that were not part of the heap as a block of their own.
Added(hp, v, n, hp1) ==
    /\ \A u \in hp : u \notin v .. (v + n - 1)
    /\ hp1 = hp \cup v .. (v + n - 1)

SameElsewhere(B, v, sz, sz1) == \A y \in B : y # v => sz1[y] = sz[y]

LEMMA Extend ==
    ASSUME NEW B \in SUBSET Nat, NEW sz, NEW hp \in SUBSET Nat, Tiled(B, sz, hp),
           NEW v \in Nat, NEW n \in Nat \ {0}, NEW sz1, sz1[v] = n,
           SameElsewhere(B, v, sz, sz1),
           NEW hp1, Added(hp, v, n, hp1)
    PROVE  v \notin B /\ Tiled(B \cup {v}, sz1, hp1)
<1>0. /\ hp \subseteq hp1 /\ v .. (v + n - 1) \subseteq hp1
      /\ \A u \in hp1 : u \in hp \/ u \in v .. (v + n - 1)
      /\ \A u \in hp : u \notin v .. (v + n - 1)
      /\ \A y \in B : y # v => sz1[y] = sz[y]
  BY DEF Added, SameElsewhere
<1>1. v \in v .. (v + n - 1) /\ v \notin hp
  BY <1>0
<1>2. \A y \in B : sz[y] \in Nat \ {0} /\ y .. (y + sz[y] - 1) \subseteq hp /\ y \in hp
  <2> TAKE y \in B
  <2>1. sz[y] \in Nat \ {0} /\ y .. (y + sz[y] - 1) \subseteq hp
    BY DEF Tiled
  <2>2. y \in y .. (y + sz[y] - 1)
    BY <2>1
  <2>3. QED
    BY <2>1, <2>2
<1>3. v \notin B /\ \A y \in B : sz1[y] = sz[y]
  BY <1>0, <1>1, <1>2
<1>4. \A y \in B : (y < v => y + sz[y] <= v) /\ (v < y => v + n <= y)
  <2> TAKE y \in B
  <2>1. y < v => y + sz[y] <= v
    <3> SUFFICES ASSUME y < v, ~(y + sz[y] <= v) PROVE FALSE
      OBVIOUS
    <3>1. v \in y .. (y + sz[y] - 1)
      BY <1>2
    <3>2. QED
      BY <3>1, <1>1, <1>2
  <2>2. v < y => v + n <= y
    <3> SUFFICES ASSUME v < y, ~(v + n <= y) PROVE FALSE
      OBVIOUS
    <3>1. y \in v .. (v + n - 1)
      BY <1>2
    <3>2. QED
      BY <3>1, <1>0, <1>2
  <2>3. QED
    BY <2>1, <2>2
<1>5. \A y \in B \cup {v} : sz1[y] \in Nat \ {0} /\ y .. (y + sz1[y] - 1) \subseteq hp1
  BY <1>0, <1>2, <1>3
<1>6. \A y, z \in B \cup {v} : y < z => y + sz1[y] <= z
  BY <1>3, <1>4 DEF Tiled
<1>7. \A u \in hp1 : \E y \in B \cup {v} : y <= u /\ u < y + sz1[y]
  <2> TAKE u \in hp1
  <2>1. CASE u \in hp
    <3>1. PICK y \in B : y <= u /\ u < y + sz[y]
      BY <2>1 DEF Tiled
    <3>2. QED
      BY <3>1, <1>3
  <2>2. CASE u \in v .. (v + n - 1)
    BY <2>2
  <2>3. QED
    BY <2>1, <2>2, <1>0
<1>8. QED
  BY <1>3, <1>5, <1>6, <1>7 DEF Tiled

\* Only the sizes of the blocks matter.
LEMMA SameSizes ==
    ASSUME NEW B, NEW sz, NEW hp, Tiled(B, sz, hp), NEW sz1,
           \A y \in B : sz1[y] = sz[y]
    PROVE  Tiled(B, sz1, hp)
  BY DEF Tiled

\* There is no header inside a block.
LEMMA Interior ==
    ASSUME NEW B \in SUBSET Nat, NEW sz, NEW hp, Tiled(B, sz, hp),
           NEW x \in B, NEW y \in B
    PROVE  y \notin (x + 1) .. (x + sz[x] - 1)
<1>1. x \in Nat /\ y \in Nat /\ sz[x] \in Nat \ {0}
  BY DEF Tiled
<1>2. x < y => x + sz[x] <= y
  BY DEF Tiled
<1>3. QED
  BY <1>1, <1>2

\* The addresses are numbers, and the heap does not reach down to base.
LEMMA Addresses ==
    ASSUME Inv
    PROVE  /\ Units \in SUBSET Nat /\ base \in Units
           /\ heap \in SUBSET Nat /\ base \notin heap
           /\ free \in SUBSET Nat /\ used \in SUBSET Nat
           /\ Blocks \in SUBSET Nat /\ base \notin Blocks
           /\ \A x \in Blocks : x \in heap
           /\ \A x \in free : x # base => x \in Blocks
<1>1. PAGE * (HEAP_PAGES + 1) \in Nat \ {0}
  BY SizesAssumption
<1>2. Units \in SUBSET Nat /\ base \in Units
  BY <1>1 DEF Units, base
<1>3. heap \in SUBSET Nat /\ base \notin heap /\ free \in SUBSET Nat /\ used \in SUBSET Nat
  BY <1>2 DEF Inv, TypeOK
<1>4. Blocks \in SUBSET Nat /\ base \notin Blocks
  BY <1>3 DEF Inv, TypeOK, CallOK, Blocks
<1>5. ASSUME NEW x \in Blocks PROVE x \in heap
  <2>1. x \in Nat /\ size[x] \in Nat \ {0} /\ x .. (x + size[x] - 1) \subseteq heap
    BY <1>4 DEF Inv, Tiled
  <2>2. x \in x .. (x + size[x] - 1)
    BY <2>1
  <2>3. QED
    BY <2>1, <2>2
<1>6. QED
  BY <1>2, <1>3, <1>4, <1>5 DEF Blocks

\* Tiled and the rest of the invariant give what the runs check.
LEMMA InvImplies == Inv => TypeOK /\ Partition /\ FreeList
<1> SUFFICES ASSUME Inv PROVE TypeOK /\ Partition /\ FreeList
  OBVIOUS
<1>1. TypeOK /\ FreeList
  BY DEF Inv, FreeList, Apart
<1>2. Tiled(Blocks, size, heap) /\ Blocks \in SUBSET Nat /\ heap \in SUBSET Nat
  BY Addresses DEF Inv
<1>3. \A x \in Blocks : size[x] \in Nat \ {0} /\ size[x] > 0 /\ UnitsOf(x) \subseteq heap
  BY <1>2 DEF Tiled, UnitsOf
<1>4. ASSUME NEW x \in Blocks, NEW y \in Blocks, x # y
      PROVE  UnitsOf(x) \cap UnitsOf(y) = {}
  <2>1. x \in Nat /\ y \in Nat /\ size[x] \in Nat /\ size[y] \in Nat
    BY <1>2, <1>3
  <2>2. (x < y => x + size[x] <= y) /\ (y < x => y + size[y] <= x)
    BY <1>2 DEF Tiled
  <2>3. QED
    BY <1>4, <2>1, <2>2 DEF UnitsOf
<1>5. ASSUME NEW u \in heap PROVE \E x \in Blocks : u \in UnitsOf(x)
  <2>1. PICK x \in Blocks : x <= u /\ u < x + size[x]
    BY <1>2 DEF Tiled
  <2>2. x \in Nat /\ u \in Nat /\ size[x] \in Nat
    BY <1>2, <1>3
  <2>3. QED
    BY <2>1, <2>2 DEF UnitsOf
<1>6. QED
  BY <1>1, <1>3, <1>4, <1>5 DEF Partition

-----------------------------------------------------------------------------
(***************************************************************************)
(* The invariant is inductive.                                             *)
(***************************************************************************)
LEMMA InitInv == Init => Inv
<1> SUFFICES ASSUME Init PROVE Inv
  OBVIOUS
<1>1. PAGE * (HEAP_PAGES + 1) \in Nat \ {0}
  BY SizesAssumption
<1>2. base \in Units /\ Units \in SUBSET Nat
  BY <1>1 DEF Units, base
<1>3. Idle \in Calls
  BY <1>2, SizesAssumption DEF Idle, Calls
<1>4. TypeOK
  BY <1>2, <1>3 DEF Init, TypeOK, base
<1>5. Blocks = {} /\ ~Freeing /\ ~Searching
  BY DEF Init, Blocks, Freeing, Searching, Idle
<1>6. Tiled(Blocks, size, heap)
  BY <1>5 DEF Tiled, Init
<1>7. CallOK
  BY DEF Init, CallOK, Idle, Freeing
<1>8. Apart(free, size)
  BY DEF Init, Apart
<1>9. QED
  BY <1>2, <1>4, <1>6, <1>7, <1>8 DEF Inv, Init, Fresh, base

LEMMA kmallocInv ==
    ASSUME Inv, NEW n \in 2 .. MAX_UNITS, kmalloc(n)
    PROVE  Inv'
<1>1. TypeOK /\ base \in Units /\ Units \in SUBSET Nat /\ n \in 0 .. MAX_UNITS /\ n >= 2
  BY Addresses, SizesAssumption DEF Inv
<1>2. freep' \in free /\ Linked(free, next') /\ next' \in [Units -> Units]
  <2>1. CASE freep = NULL
    <3>1. free = {base} /\ freep' = base /\ next' = [next EXCEPT ![base] = base]
      BY <2>1 DEF kmalloc, Inv, Fresh
    <3>2. next' \in [Units -> Units] /\ next'[base] = base
      BY <3>1, <1>1 DEF TypeOK
    <3>3. QED
      BY <3>1, <3>2 DEF Linked, Follows, base
  <2>2. CASE freep # NULL
    BY <2>2, <1>1 DEF kmalloc, Inv, TypeOK
  <2>3. QED
    BY <2>1, <2>2
<1>3. free \subseteq Units
  BY <1>1 DEF TypeOK
<1>4. /\ call'.op = "kmalloc" /\ call'.nunits = n /\ call'.prevp = freep'
      /\ call'.p = next'[freep'] /\ call' \in Calls /\ call' # Idle
  BY <1>1, <1>2, <1>3 DEF kmalloc, Idle, Calls, TypeOK
<1>5. freep' # NULL
  BY <1>1, <1>2, <1>3 DEF NULL
<1>6. TypeOK'
  BY <1>1, <1>2, <1>3, <1>4 DEF kmalloc, TypeOK
<1>7. Blocks' = Blocks
  BY <1>4 DEF kmalloc, Blocks, Freeing, Idle
<1>8. CallOK'
  BY <1>1, <1>2, <1>4, <1>5 DEF CallOK, Freeing, kmalloc
<1>9. QED
  BY <1>2, <1>5, <1>6, <1>7, <1>8 DEF Inv, kmalloc, Apart, Tiled

LEMMA searchInv ==
    ASSUME Inv, search
    PROVE  Inv'
<1>1. TypeOK /\ freep # NULL /\ Linked(free, next) /\ call.prevp \in free
      /\ call.p = next[call.prevp] /\ call.nunits >= 2
  BY DEF Inv, search, Searching, CallOK, Idle
<1>2. call.p \in free /\ next[call.p] \in Units /\ call.p \in Units
  BY <1>1 DEF Linked, TypeOK
<1>3. /\ call'.op = "kmalloc" /\ call'.nunits = call.nunits /\ call'.prevp = call.p
      /\ call'.p = next[call.p] /\ call' \in Calls /\ call' # Idle
  BY <1>1, <1>2 DEF search, Searching, Idle, Calls, TypeOK
<1>4. TypeOK'
  BY <1>1, <1>3 DEF search, TypeOK
<1>5. Blocks' = Blocks
  BY <1>3 DEF search, Searching, Blocks, Freeing
<1>6. CallOK'
  BY <1>1, <1>2, <1>3 DEF CallOK, Freeing, search
<1>7. QED
  BY <1>1, <1>4, <1>5, <1>6 DEF Inv, search, Apart, Tiled

LEMMA acquire_more_heap_failsInv ==
    ASSUME Inv, acquire_more_heap_fails
    PROVE  Inv'
<1>1. TypeOK /\ freep # NULL /\ base \in Units
  BY Addresses DEF Inv, acquire_more_heap_fails, Searching, CallOK, Idle
<1>2. call' = Idle /\ Idle \in Calls
  BY <1>1, SizesAssumption DEF acquire_more_heap_fails, Idle, Calls
<1>3. TypeOK'
  BY <1>1, <1>2 DEF acquire_more_heap_fails, TypeOK
<1>4. Blocks' = Blocks
  BY <1>2 DEF acquire_more_heap_fails, Searching, Blocks, Freeing, Idle
<1>5. CallOK'
  BY <1>2 DEF CallOK, Freeing, Idle
<1>6. QED
  BY <1>1, <1>3, <1>4, <1>5 DEF Inv, acquire_more_heap_fails, Apart, Tiled

\* What a search that is at a block knows.
LEMMA SearchAt ==
    ASSUME Inv, Searching, Enough
    PROVE  /\ TypeOK /\ freep # NULL /\ Linked(free, next)
           /\ call.prevp \in free /\ call.p = next[call.prevp] /\ call.p \in free
           /\ call.p # base /\ call.p \in Blocks /\ call.p \notin used
           /\ call.p \in Units /\ call.prevp \in Units
           /\ call.nunits \in Nat /\ call.nunits >= 2
           /\ size[call.p] \in Nat /\ call.nunits <= size[call.p]
           /\ Blocks = used \cup (free \ {base})
<1>1. TypeOK /\ freep # NULL /\ Linked(free, next) /\ call.prevp \in free
      /\ call.p = next[call.prevp] /\ call.nunits >= 2 /\ size[base] = 0
      /\ call.nunits \in Nat /\ used \cap free = {}
  BY DEF Inv, Searching, CallOK, Idle, TypeOK, Calls
<1>2. call.p \in free /\ call.p \in Units /\ call.prevp \in Units /\ size[call.p] \in Nat
  BY <1>1 DEF Linked, TypeOK
<1>3. call.p # base /\ call.nunits <= size[call.p]
  BY <1>1, <1>2 DEF Enough
<1>4. Blocks = used \cup (free \ {base})
  BY DEF Searching, Blocks, Freeing
<1>5. QED
  BY <1>1, <1>2, <1>3, <1>4

\* Overwriting the inside of a block keeps the type of a field.
LEMMA OverwrittenType ==
    ASSUME NEW S \in SUBSET Nat, 0 \in S, NEW f \in [Units -> S], NEW x, NEW n
    PROVE  Overwritten(f, x, n) \in [Units -> S]
  BY DEF Overwritten

LEMMA allocate_exactlyInv ==
    ASSUME Inv, allocate_exactly
    PROVE  Inv' /\ OwnersKeep
<1> DEFINE p == call.p  prevp == call.prevp  n == call.nunits
           list == [next EXCEPT ![prevp] = next[p]]
<1>0. Searching /\ Enough /\ size[p] = n
  BY DEF allocate_exactly
<1>1. /\ TypeOK /\ freep # NULL /\ Linked(free, next)
      /\ prevp \in free /\ p = next[prevp] /\ p \in free
      /\ p # base /\ p \in Blocks /\ p \notin used /\ p \in Units /\ prevp \in Units
      /\ n \in Nat /\ n >= 2 /\ Blocks = used \cup (free \ {base})
  BY <1>0, SearchAt
<1>2. /\ Units \in SUBSET Nat /\ base \in Units /\ Blocks \in SUBSET Nat /\ p \in Nat
      /\ free \in SUBSET Nat /\ free \subseteq Units /\ used \subseteq Units
      /\ base \in free /\ p \in heap
  BY <1>1, Addresses DEF Inv, TypeOK
<1>3. Tiled(Blocks, size, heap)
  BY DEF Inv
<1>4. \A u \in Blocks \cup {base} : u \in Units /\ u \notin (p + 1) .. (p + n - 1)
  <2>1. \A u \in Blocks : u \notin (p + 1) .. (p + n - 1)
    BY <1>0, <1>1, <1>2, <1>3, Interior
  <2>2. base \notin (p + 1) .. (p + n - 1)
    BY <1>2, <1>1 DEF base
  <2>3. QED
    BY <2>1, <2>2, <1>1, <1>2
<1>5. list \in [Units -> Units] /\ size \in [Units -> Nat]
  BY <1>1 DEF TypeOK
<1>6. next' = Overwritten(list, p, n) /\ size' = Overwritten(size, p, n)
  BY DEF allocate_exactly
<1>7. \A u \in Blocks \cup {base} : next'[u] = list[u] /\ size'[u] = size[u]
  BY <1>4, <1>6, <1>5, <1>2 DEF Overwritten
<1>8. next' \in [Units -> Units] /\ size' \in [Units -> Nat]
  <2>1. 0 \in Units /\ 0 \in Nat /\ Nat \in SUBSET Nat
    BY <1>2 DEF base
  <2>2. QED
    BY <2>1, <1>2, <1>5, <1>6, OverwrittenType
<1>9. prevp # p /\ Linked(free \ {p}, next')
  <2>1. \A u \in free : u \in Blocks \cup {base}
    BY <1>1
  <2>2. next'[prevp] = next[p] /\ \A r \in free : r # prevp => next'[r] = next[r]
    BY <2>1, <1>7, <1>1, <1>2 DEF TypeOK
  <2>3. free \in SUBSET Nat /\ base \in free /\ Linked(free, next) /\ p \in free
        /\ p # base /\ prevp \in free /\ next[prevp] = p
    BY <1>1, <1>2
  <2> HIDE DEF p, prevp
  <2>4. QED
    BY <2>2, <2>3, Unlink
<1>10. call' = Idle /\ Idle \in Calls
  BY <1>2, SizesAssumption DEF allocate_exactly, Idle, Calls
<1>11. TypeOK'
  BY <1>1, <1>2, <1>8, <1>10 DEF allocate_exactly, TypeOK
<1>12. Blocks' = Blocks
  BY <1>1, <1>10 DEF allocate_exactly, Blocks, Freeing, Idle
<1>13. Tiled(Blocks', size', heap')
  <2>1. heap' = heap
    BY DEF allocate_exactly
  <2>2. QED
    BY <2>1, <1>3, <1>7, <1>12, SameSizes
<1>14. CallOK'
  BY <1>10 DEF CallOK, Freeing, Idle
<1>15. Apart(free', size')
  BY <1>1, <1>7 DEF allocate_exactly, Inv, Apart
<1>16. /\ base \in free' /\ size'[base] = 0 /\ used' \cap free' = {}
       /\ \A x \in used' : size'[x] >= 2
  BY <1>0, <1>1, <1>2, <1>7 DEF Inv, allocate_exactly
<1>17. freep' \in free' /\ Linked(free', next') /\ freep' # NULL
  BY <1>1, <1>2, <1>9 DEF allocate_exactly, NULL
<1>18. OwnersKeep
  BY <1>1, <1>7 DEF OwnersKeep
<1>19. QED
  BY <1>18, <1>11, <1>13, <1>14, <1>15, <1>16, <1>17 DEF Inv

LEMMA allocate_tailInv ==
    ASSUME Inv, allocate_tail
    PROVE  Inv' /\ OwnersKeep
<1> DEFINE p == call.p  n == call.nunits  q == p + size[p] - n
           cut == [size EXCEPT ![p] = @ - n, ![q] = n]
<1>0. Searching /\ Enough /\ size[p] # n
  BY DEF allocate_tail
<1>1. /\ TypeOK /\ freep # NULL /\ Linked(free, next)
      /\ call.prevp \in free /\ p \in free
      /\ p # base /\ p \in Blocks /\ p \notin used /\ p \in Units
      /\ n \in Nat /\ n >= 2 /\ size[p] \in Nat /\ n < size[p]
      /\ Blocks = used \cup (free \ {base})
  BY <1>0, SearchAt
<1>2. /\ Units \in SUBSET Nat /\ base \in Units /\ Blocks \in SUBSET Nat /\ p \in Nat
      /\ heap \in SUBSET Nat /\ base \notin heap /\ heap \subseteq Units
      /\ free \in SUBSET Nat /\ free \subseteq Units /\ used \subseteq Units
      /\ base \in free
  BY <1>1, Addresses DEF Inv, TypeOK
<1>3. Tiled(Blocks, size, heap)
  BY DEF Inv
<1>4. q \in Nat /\ q > p /\ q + n = p + size[p]
      /\ q \in p .. (p + size[p] - 1) /\ p .. (p + size[p] - 1) \subseteq heap
  BY <1>1, <1>2, <1>3 DEF Tiled
<1>5. q \in heap /\ q \in Units /\ q # base
  BY <1>2, <1>4
<1>6. cut \in [Units -> Nat] /\ next \in [Units -> Units] /\ cut[p] = size[p] - n /\ cut[q] = n
      /\ \A u \in Units : u # p /\ u # q => cut[u] = size[u]
  BY <1>1, <1>4, <1>5 DEF TypeOK
<1>7. next' = Overwritten(next, q, n) /\ size' = Overwritten(cut, q, n)
  BY DEF allocate_tail
<1>8. \A u \in Blocks \cup {base, q} : u \in Units /\ u \notin (q + 1) .. (q + n - 1)
  <2>1. \A u \in Blocks : u \notin (p + 1) .. (p + size[p] - 1)
    BY <1>1, <1>2, <1>3, Interior
  <2>2. (q + 1) .. (q + n - 1) \subseteq (p + 1) .. (p + size[p] - 1)
    BY <1>1, <1>2, <1>4
  <2>3. base \notin (q + 1) .. (q + n - 1) /\ q \notin (q + 1) .. (q + n - 1)
    BY <1>1, <1>4 DEF base
  <2>4. QED
    BY <2>1, <2>2, <2>3, <1>1, <1>2, <1>5
<1>9. \A u \in Blocks \cup {base, q} : next'[u] = next[u] /\ size'[u] = cut[u]
  BY <1>6, <1>7, <1>8 DEF Overwritten
<1>10. next' \in [Units -> Units] /\ size' \in [Units -> Nat]
  <2>1. 0 \in Units /\ 0 \in Nat /\ Nat \in SUBSET Nat
    BY <1>2 DEF base
  <2>2. QED
    BY <2>1, <1>2, <1>6, <1>7, OverwrittenType
<1>11. q \notin Blocks /\ Tiled(Blocks \cup {q}, size', heap)
  <2>1. size'[p] = size[p] - n /\ size'[q] = n /\ \A y \in Blocks : y # p /\ y # q => size'[y] = size[y]
    BY <1>1, <1>6, <1>8, <1>9
  <2>2. q \notin Blocks
    <3>1. q \in (p + 1) .. (p + size[p] - 1)
      BY <1>1, <1>2, <1>4
    <3>2. QED
      BY <3>1, <1>1, <1>2, <1>3, Interior
  <2>3. n \in Nat \ {0}
    BY <1>1
  <2>4. QED
    BY <2>1, <2>2, <2>3, <1>1, <1>2, <1>3, Cut
<1>12. call' = Idle /\ Idle \in Calls
  BY <1>2, SizesAssumption DEF allocate_tail, Idle, Calls
<1>13. TypeOK'
  BY <1>1, <1>2, <1>5, <1>10, <1>12 DEF allocate_tail, TypeOK
<1>14. Blocks' = Blocks \cup {q} /\ heap' = heap /\ free' = free
  BY <1>1, <1>12 DEF allocate_tail, Blocks, Freeing, Idle
<1>15. Linked(free, next')
  <2>1. \A u \in free : next'[u] = next[u]
    BY <1>1, <1>9
  <2>2. QED
    BY <2>1, <1>1 DEF Linked
<1>16. Apart(free, size')
  <2> SUFFICES ASSUME NEW x \in free \ {base}, NEW y \in free \ {base}
               PROVE  x + size'[x] # y
    BY DEF Apart
  <2>1. CASE x = p
    <3>1. x + size'[x] = q
      BY <2>1, <1>1, <1>2, <1>4, <1>6, <1>9
    <3>2. QED
      BY <3>1, <1>1, <1>11
  <2>2. CASE x # p
    <3>1. size'[x] = size[x]
      BY <2>2, <1>1, <1>2, <1>6, <1>9, <1>11
    <3>2. QED
      BY <3>1 DEF Inv, Apart
  <2>3. QED
    BY <2>1, <2>2
<1>17. size'[base] = 0 /\ used' \cap free = {} /\ \A x \in used' : size'[x] >= 2
  <2>1. used' = used \cup {q} /\ q \notin free /\ q \notin used
    BY <1>1, <1>5, <1>11 DEF allocate_tail
  <2>2. size'[q] = n /\ size'[base] = size[base] /\ \A x \in used : size'[x] = size[x]
    BY <2>1, <1>1, <1>2, <1>5, <1>6, <1>9
  <2>3. QED
    BY <2>1, <2>2, <1>1 DEF Inv
<1>18. freep' \in free /\ freep' # NULL
  BY <1>1, <1>2 DEF allocate_tail, NULL
<1>19. CallOK'
  BY <1>12 DEF CallOK, Freeing, Idle
<1>20. OwnersKeep
  BY <1>1, <1>2, <1>5, <1>6, <1>9, <1>11 DEF OwnersKeep
<1>21. QED
  BY <1>20, <1>2, <1>11, <1>13, <1>14, <1>15, <1>16, <1>17, <1>18, <1>19 DEF Inv

LEMMA acquire_more_heapInv ==
    ASSUME Inv, acquire_more_heap
    PROVE  Inv' /\ OwnersKeep
<1>1. PICK v \in Nat \ {0} :
         /\ v .. (v + Growth - 1) \subseteq Units
         /\ (v .. (v + Growth - 1)) \cap heap = {}
         /\ heap' = heap \cup v .. (v + Growth - 1)
         /\ size' = [size EXCEPT ![v] = Growth]
         /\ call' = [call EXCEPT !.op = "acquire", !.bp = v, !.p = freep]
  <2>1. \A page \in 1 .. HEAP_PAGES : PAGE * page \in Nat \ {0}
    BY SizesAssumption
  <2>2. QED
    BY <2>1 DEF acquire_more_heap
<1> DEFINE new == v .. (v + Growth - 1)
<1>2. /\ TypeOK /\ Searching /\ freep # NULL /\ freep \in free /\ Linked(free, next)
      /\ call.nunits \in Nat /\ call.nunits >= 2 /\ call.nunits \in 0 .. MAX_UNITS
      /\ Blocks = used \cup (free \ {base}) /\ ~Freeing
  BY DEF acquire_more_heap, Inv, CallOK, Searching, Freeing, Blocks, Idle, TypeOK, Calls
<1>3. /\ Units \in SUBSET Nat /\ base \in Units /\ Blocks \in SUBSET Nat
      /\ heap \in SUBSET Nat /\ base \notin heap /\ heap \subseteq Units
      /\ free \subseteq Units /\ used \subseteq heap /\ base \notin Blocks
      /\ \A x \in Blocks : x \in heap
  BY <1>2, Addresses DEF Inv, TypeOK
<1>4. Growth \in Nat \ {0}
  <2> DEFINE m == IF call.nunits < MIN_BLOCK_SIZE THEN MIN_BLOCK_SIZE ELSE call.nunits
  <2>1. m \in Nat \ {0} /\ PAGE \in Nat \ {0}
    BY <1>2, SizesAssumption
  <2>2. div_ceil(m, PAGE) \in Nat \ {0}
    BY <2>1 DEF div_ceil
  <2>3. PAGE * div_ceil(m, PAGE) \in Nat \ {0}
    BY <2>1, <2>2
  <2>4. QED
    BY <2>3 DEF Growth
<1>5. v \in Nat /\ v # 0 /\ v \in new
  BY <1>4
<1>6. v \in Units /\ v # base /\ v \notin heap /\ base \notin new
  BY <1>1, <1>4, <1>5 DEF base
<1>7. size' \in [Units -> Nat] /\ size'[v] = Growth
      /\ \A u \in Units : u # v => size'[u] = size[u]
  BY <1>1, <1>2, <1>4, <1>6 DEF TypeOK
<1>8. v \notin Blocks /\ Tiled(Blocks \cup {v}, size', heap')
  <2>1. Tiled(Blocks, size, heap)
    BY DEF Inv
  <2>2. \A y \in Blocks : y # v => size'[y] = size[y]
    BY <1>3, <1>7
  <2>3. new \cap heap = {} /\ heap' = heap \cup new
    BY <1>1
  <2>4. Blocks \in SUBSET Nat /\ heap \in SUBSET Nat /\ v \in Nat /\ size'[v] = Growth
    BY <1>3, <1>5, <1>7
  <2>5. v \notin Blocks /\ Tiled(Blocks \cup {v}, size', heap')
    <3>1. Added(heap, v, Growth, heap') /\ SameElsewhere(Blocks, v, size, size')
      BY <2>2, <2>3 DEF Added, SameElsewhere
    <3>2. QED
      BY <2>1, <2>4, <3>1, <1>4, Extend
  <2>6. QED
    BY <2>5
<1>9. /\ call'.op = "acquire" /\ call'.bp = v /\ call'.p = freep
      /\ call'.nunits = call.nunits /\ call' \in Calls /\ call' # Idle
  BY <1>1, <1>2, <1>3, <1>6 DEF TypeOK, Calls, Idle
<1>10. next' = next /\ freep' = freep /\ used' = used /\ free' = free
  BY DEF acquire_more_heap
<1>11. TypeOK'
  <2>1. heap' \subseteq Units \ {base} /\ used' \subseteq heap'
    BY <1>1, <1>3, <1>6, <1>10
  <2>2. QED
    BY <2>1, <1>2, <1>7, <1>9, <1>10 DEF TypeOK
<1>12. Blocks' = Blocks \cup {v}
  BY <1>2, <1>9, <1>10 DEF Blocks, Freeing
<1>13. v \notin free /\ v \notin used
  BY <1>2, <1>6, <1>8
<1>14. CallOK'
  BY <1>1, <1>2, <1>5, <1>9, <1>10, <1>13 DEF CallOK, Freeing
<1>15. \A u \in used \cup free : size'[u] = size[u]
  BY <1>3, <1>7, <1>13
<1>16. Apart(free', size')
  BY <1>10, <1>15 DEF Inv, Apart
<1>17. size'[base] = 0 /\ \A x \in used' : size'[x] >= 2
  BY <1>10, <1>15 DEF Inv
<1>18. OwnersKeep
  BY <1>15 DEF OwnersKeep
<1>19. QED
  BY <1>18, <1>2, <1>8, <1>10, <1>11, <1>12, <1>14, <1>16, <1>17 DEF Inv

LEMMA kfreeInv ==
    ASSUME Inv, NEW x \in used, kfree(x)
    PROVE  Inv'
<1>1. TypeOK /\ freep # NULL /\ freep \in free /\ Linked(free, next) /\ x \in heap
      /\ x \in Units /\ freep \in Units /\ x \notin free /\ call = Idle /\ base \in Units
      /\ Idle \in Calls
  BY Addresses, SizesAssumption DEF Inv, Fresh, TypeOK, kfree
<1>2. /\ call'.op = "kfree" /\ call'.bp = x /\ call'.p = freep /\ call' \in Calls
      /\ call' # Idle
  BY <1>1 DEF kfree, Idle, Calls
<1>3. TypeOK'
  BY <1>1, <1>2 DEF kfree, TypeOK
<1>4. Blocks' = Blocks
  BY <1>1, <1>2 DEF kfree, Blocks, Freeing, Idle
<1>5. CallOK'
  BY <1>1, <1>2 DEF kfree, CallOK, Freeing
<1>6. QED
  BY <1>1, <1>3, <1>4, <1>5 DEF Inv, kfree, Apart, Tiled

LEMMA find_placeInv ==
    ASSUME Inv, find_place
    PROVE  Inv'
<1>1. TypeOK /\ freep # NULL /\ Linked(free, next) /\ call.p \in free /\ Freeing
  BY DEF Inv, find_place, Freeing, CallOK, Idle
<1>2. next[call.p] \in free /\ next[call.p] \in Units
  BY <1>1 DEF Linked, TypeOK
<1>3. /\ call'.op = call.op /\ call'.nunits = call.nunits /\ call'.bp = call.bp
      /\ call'.p = next[call.p] /\ call' \in Calls /\ call' # Idle
  BY <1>1, <1>2 DEF find_place, TypeOK, Calls, Idle, Freeing
<1>4. TypeOK'
  BY <1>1, <1>3 DEF find_place, TypeOK
<1>5. Blocks' = Blocks
  BY <1>3 DEF find_place, Blocks, Freeing
<1>6. CallOK'
  BY <1>1, <1>2, <1>3 DEF find_place, Inv, CallOK, Freeing
<1>7. QED
  BY <1>1, <1>4, <1>5, <1>6 DEF Inv, find_place, Apart, Tiled

\* What kfree knows when it has found the place.
LEMMA LinkAt ==
    ASSUME Inv, Freeing, Between(call.bp, call.p, next[call.p])
    PROVE  /\ TypeOK /\ freep # NULL /\ Linked(free, next)
           /\ call.p \in free /\ call.p \in Units /\ call.bp \in Units /\ call.bp \in Nat
           /\ call.bp # base /\ call.bp \notin free /\ call.bp \notin used
           /\ Blocks = used \cup (free \ {base}) \cup {call.bp}
           /\ next[call.p] \in free /\ next[call.p] \in Units
           /\ call.p < call.bp /\ \A v \in free : v <= call.p \/ call.bp <= v
<1>1. TypeOK /\ freep # NULL /\ Linked(free, next) /\ call.p \in free
      /\ call.bp \in heap /\ call.bp \notin used \cup free
  BY DEF Inv, CallOK, Freeing, Idle
<1>2. /\ Units \in SUBSET Nat /\ base \notin heap /\ heap \subseteq Units
      /\ free \in SUBSET Nat /\ free \subseteq Units /\ base \in free
  BY <1>1, Addresses DEF Inv, TypeOK
<1>3. next[call.p] \in free /\ next[call.p] \in Units
  BY <1>1, <1>2 DEF Linked
<1>4. Blocks = used \cup (free \ {base}) \cup {call.bp}
  BY DEF Blocks
<1>5. call.p < call.bp /\ \A v \in free : v <= call.p \/ call.bp <= v
  BY <1>1, <1>2, Place
<1>6. QED
  BY <1>1, <1>2, <1>3, <1>4, <1>5

\* The free headers F and the owned blocks U, when no block is being freed.
Settled(F, U, nx, sz, hp) ==
    /\ F \in SUBSET Nat /\ base \in F /\ sz[base] = 0 /\ U \in SUBSET Nat /\ U \cap F = {}
    /\ Linked(F, nx) /\ Apart(F, sz)
    /\ Tiled(U \cup (F \ {base}), sz, hp)

\* The same, when the block b is about to be linked in behind p.
Ready(F, U, nx, sz, hp, p, b) ==
    /\ F \in SUBSET Nat /\ base \in F /\ sz[base] = 0 /\ U \in SUBSET Nat /\ U \cap F = {}
    /\ Linked(F, nx) /\ Apart(F, sz)
    /\ hp \in SUBSET Nat /\ base \notin U
    /\ p \in F /\ b \in Nat /\ b \notin F \cup U /\ b # base /\ Between(b, p, nx[p])
    /\ Tiled(U \cup (F \ {base}) \cup {b}, sz, hp)

LEMMA ReadyFacts ==
    ASSUME NEW F, NEW U, NEW nx, NEW sz, NEW hp, NEW p, NEW b, Ready(F, U, nx, sz, hp, p, b)
    PROVE  /\ p \in Nat /\ nx[p] \in F /\ nx[p] \in Nat
           /\ p < b /\ \A v \in F : v \in Nat /\ (v <= p \/ b <= v)
           /\ \A x \in U \cup (F \ {base}) \cup {b} : x \in Nat /\ sz[x] \in Nat \ {0}
           /\ \A x, y \in U \cup (F \ {base}) \cup {b} : x < y => x + sz[x] <= y
<1>1. F \in SUBSET Nat /\ base \in F /\ U \in SUBSET Nat /\ Linked(F, nx) /\ p \in F
      /\ b \in Nat /\ b \notin F /\ b # base /\ Between(b, p, nx[p])
      /\ Tiled(U \cup (F \ {base}) \cup {b}, sz, hp)
  BY DEF Ready
<1>2. p < b /\ \A v \in F : v <= p \/ b <= v
  BY <1>1, Place
<1>3. nx[p] \in F
  BY <1>1 DEF Linked
<1>4. QED
  BY <1>1, <1>2, <1>3 DEF Tiled

\* The first half of link: the upper neighbour becomes part of the block.
LEMMA JoinUpper ==
    ASSUME NEW F, NEW U, NEW nx, NEW sz, NEW hp, NEW p, NEW b, Ready(F, U, nx, sz, hp, p, b),
           NEW q, q = nx[p], b + sz[b] = q,
           NEW sz1, sz1[b] = sz[b] + sz[q], SameElsewhere(F \cup U, b, sz, sz1),
           NEW nx1, nx1[p] = nx[q], SameElsewhere(F, p, nx, nx1)
    PROVE  /\ Ready(F \ {q}, U, nx1, sz1, hp, p, b)
           /\ b + sz1[b] \notin F \ {q}
<1> DEFINE B == U \cup (F \ {base}) \cup {b}
<1>1. F \in SUBSET Nat /\ base \in F /\ sz[base] = 0 /\ U \in SUBSET Nat /\ U \cap F = {}
      /\ Linked(F, nx) /\ Apart(F, sz) /\ hp \in SUBSET Nat /\ base \notin U
      /\ p \in F /\ b \in Nat /\ b \notin F /\ b \notin U /\ b # base
      /\ Between(b, p, nx[p]) /\ Tiled(B, sz, hp)
  BY DEF Ready
<1>2. /\ p \in Nat /\ q \in F /\ q \in Nat
      /\ p < b /\ \A v \in F : v \in Nat /\ (v <= p \/ b <= v)
      /\ \A x \in B : x \in Nat /\ sz[x] \in Nat \ {0}
      /\ \A x, y \in B : x < y => x + sz[x] <= y
  BY ReadyFacts
<1>3. \A x \in F \cup U : sz1[x] = sz[x]
  BY <1>1 DEF SameElsewhere
<1>4. b \in B /\ B \in SUBSET Nat
  BY <1>1
<1>5. b < q /\ q # base /\ q # p /\ q \in B
  BY <1>1, <1>2, <1>4 DEF base
<1>6. Linked(F \ {q}, nx1)
  <2>1. \A r \in F : r # p => nx1[r] = nx[r]
    BY DEF SameElsewhere
  <2>2. QED
    BY <2>1, <1>1, <1>2, <1>5, Unlink
<1>7. Tiled(B \ {q}, sz1, hp)
  <2>1. \A z \in B : z # b /\ z # q => sz1[z] = sz[z]
    BY <1>3
  <2> HIDE DEF B
  <2>2. QED
    BY <2>1, <1>1, <1>4, <1>5, Join
<1>8. B \ {q} = U \cup ((F \ {q}) \ {base}) \cup {b}
  BY <1>1, <1>2, <1>5
<1>9. Apart(F \ {q}, sz1)
  BY <1>1, <1>3 DEF Apart
<1>10. Between(b, p, nx1[p])
  <2>1. nx[q] \in F /\ Follows(F, q, nx[q]) /\ nx[q] \in Nat
    BY <1>1, <1>2 DEF Linked
  <2>2. CASE q < nx[q]
    BY <2>1, <2>2, <1>1, <1>2, <1>5 DEF Between
  <2>3. CASE nx[q] <= q
    <3>1. nx[q] <= p
      BY <2>1, <2>3, <1>1, <1>2 DEF Follows
    <3>2. QED
      BY <2>1, <3>1, <1>1, <1>2 DEF Between
  <2>4. QED
    BY <2>1, <2>2, <2>3, <1>2
<1>11. b + sz1[b] \notin F \ {q}
  <2>1. b + sz1[b] = q + sz[q] /\ sz[q] \in Nat \ {0} /\ q + sz[q] # base
    BY <1>2, <1>4, <1>5 DEF base
  <2>2. QED
    BY <2>1, <1>1, <1>2, <1>5 DEF Apart
<1>12. QED
  <2>1. base \in F \ {q} /\ sz1[base] = 0 /\ U \cap (F \ {q}) = {} /\ p \in F \ {q}
        /\ F \ {q} \in SUBSET Nat /\ b \notin (F \ {q}) \cup U
    BY <1>1, <1>3, <1>5
  <2>2. QED
    BY <2>1, <1>1, <1>6, <1>7, <1>8, <1>9, <1>10, <1>11 DEF Ready

\* The second half of link: the block becomes part of its lower neighbour ...
LEMMA JoinLower ==
    ASSUME NEW F, NEW U, NEW nx, NEW sz, NEW hp, NEW p, NEW b, Ready(F, U, nx, sz, hp, p, b),
           b + sz[b] \notin F, p + sz[p] = b,
           NEW sz1, sz1[p] = sz[p] + sz[b], SameElsewhere(F \cup U, p, sz, sz1),
           NEW nx1, \A r \in F : nx1[r] = nx[r]
    PROVE  Settled(F, U, nx1, sz1, hp)
<1> DEFINE B == U \cup (F \ {base}) \cup {b}
<1>1. F \in SUBSET Nat /\ base \in F /\ sz[base] = 0 /\ U \in SUBSET Nat /\ U \cap F = {}
      /\ Linked(F, nx) /\ Apart(F, sz) /\ hp \in SUBSET Nat /\ base \notin U
      /\ p \in F /\ b \in Nat /\ b \notin F /\ b \notin U /\ b # base
      /\ Tiled(B, sz, hp)
  BY DEF Ready
<1>2. /\ p \in Nat /\ p < b /\ \A x \in B : x \in Nat /\ sz[x] \in Nat \ {0}
  BY ReadyFacts
<1>3. \A x \in F \cup U : x # p => sz1[x] = sz[x]
  BY DEF SameElsewhere
<1>4. b \in B /\ B \in SUBSET Nat
  BY <1>1
<1>5. p # base
  BY <1>1, <1>2
<1>6. p \in B
  BY <1>1, <1>5
<1>7. Tiled(B \ {b}, sz1, hp)
  <2>1. \A z \in B : z # p /\ z # b => sz1[z] = sz[z]
    BY <1>3
  <2> HIDE DEF B
  <2>2. QED
    BY <2>1, <1>1, <1>4, <1>6, Join
<1>8. B \ {b} = U \cup (F \ {base})
  BY <1>1
<1>9. Linked(F, nx1)
  BY <1>1 DEF Linked
<1>10. Apart(F, sz1)
  <2>1. p + sz1[p] = b + sz[b]
    BY <1>2, <1>4, <1>6
  <2> SUFFICES ASSUME NEW x \in F \ {base}, NEW y \in F \ {base} PROVE x + sz1[x] # y
    BY DEF Apart
  <2>2. CASE x = p
    BY <2>1, <2>2
  <2>3. CASE x # p
    BY <2>3, <1>1, <1>3 DEF Apart
  <2>4. QED
    BY <2>2, <2>3
<1>11. sz1[base] = 0
  BY <1>1, <1>3, <1>5
<1>12. QED
  BY <1>1, <1>7, <1>8, <1>9, <1>10, <1>11 DEF Settled

\* ... or a free block of its own.
LEMMA LinkBehind ==
    ASSUME NEW F, NEW U, NEW nx, NEW sz, NEW hp, NEW p, NEW b, Ready(F, U, nx, sz, hp, p, b),
           b + sz[b] \notin F, p + sz[p] # b,
           NEW nx1, nx1[b] = nx[p], nx1[p] = b, SameElsewhere(F, p, nx, nx1)
    PROVE  Settled(F \cup {b}, U, nx1, sz, hp)
<1>1. F \in SUBSET Nat /\ base \in F /\ sz[base] = 0 /\ U \in SUBSET Nat /\ U \cap F = {}
      /\ Linked(F, nx) /\ Apart(F, sz)
      /\ p \in F /\ b \in Nat /\ b \notin F /\ b \notin U /\ b # base
      /\ Between(b, p, nx[p]) /\ Tiled(U \cup (F \ {base}) \cup {b}, sz, hp)
  BY DEF Ready
<1>2. /\ p \in Nat /\ p < b /\ \A v \in F : v \in Nat /\ (v <= p \/ b <= v)
      /\ \A x \in U \cup (F \ {base}) \cup {b} : x \in Nat /\ sz[x] \in Nat \ {0}
      /\ \A x, y \in U \cup (F \ {base}) \cup {b} : x < y => x + sz[x] <= y
  BY ReadyFacts
<1>3. Linked(F \cup {b}, nx1)
  <2>1. \A r \in F : r # p => nx1[r] = nx[r]
    BY DEF SameElsewhere
  <2>2. QED
    BY <2>1, <1>1, Insert
<1>4. Apart(F \cup {b}, sz)
  <2> SUFFICES ASSUME NEW x \in (F \cup {b}) \ {base}, NEW y \in (F \cup {b}) \ {base},
                      x + sz[x] = y
               PROVE  FALSE
    BY DEF Apart
  <2>0. sz[x] \in Nat \ {0} /\ sz[y] \in Nat \ {0} /\ x \in Nat /\ y \in Nat /\ x < y
    BY <1>2
  <2>1. CASE x # b /\ y # b
    BY <2>1, <1>1 DEF Apart
  <2>2. CASE x = b
    BY <2>0, <2>2
  <2>3. CASE x # b /\ y = b
    <3>1. x <= p /\ x # p /\ x \in F /\ x # base
      BY <2>0, <2>3, <1>2
    <3>2. x < p /\ p # base
      BY <3>1, <2>0, <1>2 DEF base
    <3>3. x + sz[x] <= p
      BY <3>1, <3>2, <1>1, <1>2
    <3>4. QED
      BY <3>3, <2>0, <2>3, <1>1, <1>2
  <2>4. QED
    BY <2>1, <2>2, <2>3
<1>5. U \cup ((F \cup {b}) \ {base}) = U \cup (F \ {base}) \cup {b}
  BY <1>1
<1>6. F \cup {b} \in SUBSET Nat /\ U \cap (F \cup {b}) = {}
  BY <1>1
<1>7. QED
  BY <1>1, <1>3, <1>4, <1>5, <1>6 DEF Settled

LEMMA linkInv ==
    ASSUME Inv, link
    PROVE  Inv' /\ OwnersKeep
<1> DEFINE bp == call.bp  p == call.p  q == next[p]
           upper == bp + size[bp] = q
           after == IF upper THEN next[q] ELSE q
           bsize == IF upper THEN size[bp] + size[q] ELSE size[bp]
           lower == p + size[p] = bp
           size1 == [size EXCEPT ![bp] = bsize]
           next1 == [next EXCEPT ![p] = after]
           F1 == IF upper THEN free \ {q} ELSE free
<1>1. /\ TypeOK /\ Freeing /\ Between(bp, p, q) /\ freep # NULL /\ Linked(free, next)
      /\ p \in free /\ p \in Units /\ bp \in Units /\ bp \in Nat
      /\ bp # base /\ bp \notin free /\ bp \notin used
      /\ Blocks = used \cup (free \ {base}) \cup {bp}
      /\ q \in free /\ q \in Units
      /\ p < bp /\ \A v \in free : v <= p \/ bp <= v
  BY LinkAt DEF link
<1>2. /\ Units \in SUBSET Nat /\ base \in Units
      /\ heap \in SUBSET Nat /\ free \in SUBSET Nat /\ free \subseteq Units
      /\ used \subseteq Units /\ used \in SUBSET Nat /\ base \in free /\ base \notin used
      /\ p \in Nat /\ q \in Nat /\ used \cap free = {}
      /\ size \in [Units -> Nat] /\ next \in [Units -> Units]
  BY <1>1, Addresses DEF Inv, TypeOK
<1>3. Ready(free, used, next, size, heap, p, bp)
  BY <1>1, <1>2 DEF Inv, Ready
<1>4. bsize \in Nat /\ after \in Units
  BY <1>1, <1>2
<1>5. /\ size1 \in [Units -> Nat] /\ size1[bp] = bsize
      /\ \A u \in Units : u # bp => size1[u] = size[u]
  BY <1>1, <1>2, <1>4
<1>6. /\ next1 \in [Units -> Units] /\ next1[p] = after
      /\ \A u \in Units : u # p => next1[u] = next[u]
  BY <1>1, <1>2, <1>4
<1>7. /\ size' = IF lower THEN [size1 EXCEPT ![p] = @ + bsize] ELSE size1
      /\ next' = IF lower THEN [next EXCEPT ![bp] = after, ![p] = after]
                          ELSE [next EXCEPT ![bp] = after, ![p] = bp]
      /\ freep' = p
      /\ free' = (free \cup (IF lower THEN {} ELSE {bp})) \ (IF upper THEN {q} ELSE {})
      /\ call' = Resumed(next', p)
      /\ heap' = heap /\ used' = used
  BY DEF link
<1>8. Ready(F1, used, next1, size1, heap, p, bp) /\ bp + size1[bp] \notin F1
      /\ F1 \subseteq free
  <2>1. CASE upper
    <3>1. size1[bp] = size[bp] + size[q] /\ next1[p] = next[q]
      BY <2>1, <1>5, <1>6
    <3>2. SameElsewhere(free \cup used, bp, size, size1) /\ SameElsewhere(free, p, next, next1)
      BY <1>2, <1>5, <1>6 DEF SameElsewhere
    <3>3. bp + size[bp] = q /\ q = next[p] /\ F1 = free \ {q}
      BY <2>1
    <3> HIDE DEF bp, p, q, upper, after, bsize, size1, next1, F1
    <3>4. QED
      BY <3>1, <3>2, <3>3, <1>3, JoinUpper
  <2>2. CASE ~upper
    <3>1. F1 = free /\ next1 = next /\ size1 = size
      BY <2>2, <1>1, <1>2
    <3>2. bp + size[bp] \notin free
      <4>1. /\ size[bp] \in Nat \ {0} /\ \A v \in free : v \in Nat /\ (v <= p \/ bp <= v)
        BY <1>3, ReadyFacts
      <4>2. SUFFICES ASSUME bp + size[bp] \in free PROVE FALSE
        OBVIOUS
      <4> DEFINE r == bp + size[bp]
      <4>3. Follows(free, p, q) /\ r \in free /\ r > bp /\ r # q /\ r > p
        BY <4>1, <4>2, <2>2, <1>1, <1>2 DEF Linked
      <4>4. p < q /\ q <= r
        BY <4>3, <1>1, <1>2 DEF Follows
      <4>5. bp < q /\ q \in free \ {base}
        BY <4>4, <1>1, <1>2 DEF base
      <4>6. bp + size[bp] <= q
        BY <4>5, <1>1, <1>2, <1>3, ReadyFacts
      <4>7. QED
        BY <4>3, <4>4, <4>6, <4>1, <1>1, <1>2
    <3>3. QED
      BY <3>1, <3>2, <1>3
  <2>3. QED
    BY <2>1, <2>2
<1>9. /\ Settled(free', used, next', size', heap)
      /\ size' \in [Units -> Nat] /\ next' \in [Units -> Units]
      /\ p \in free' /\ free' \subseteq Units
      /\ \A x \in used : size'[x] = size[x]
  <2>0. p # bp /\ p \in F1 /\ size[p] \in Nat /\ F1 \subseteq Units /\ size1[p] = size[p]
    BY <1>1, <1>2, <1>5, <1>8 DEF Ready
  <2>1. CASE lower
    <3>1. free' = F1
      BY <2>1, <1>1, <1>7
    <3>2. size' = [size1 EXCEPT ![p] = size1[p] + bsize]
      BY <2>1, <1>7
    <3>3. /\ size'[p] = size1[p] + size1[bp] /\ p + size1[p] = bp
          /\ size' \in [Units -> Nat]
          /\ SameElsewhere(F1 \cup used, p, size1, size')
      BY <2>0, <2>1, <3>2, <1>1, <1>2, <1>4, <1>5 DEF SameElsewhere
    <3>4. next' = [next EXCEPT ![bp] = after, ![p] = after]
      BY <2>1, <1>7
    <3>5. next' \in [Units -> Units] /\ \A r \in F1 : next'[r] = next1[r]
      BY <2>0, <3>4, <1>1, <1>2, <1>4, <1>6, <1>8
    <3>6. \A x \in used : size'[x] = size[x]
      BY <3>2, <1>1, <1>2, <1>5
    <3>7. Settled(F1, used, next', size', heap)
      <4> HIDE DEF bp, p, q, upper, after, bsize, lower, size1, next1, F1
      <4>1. QED
        BY <3>3, <3>5, <1>8, JoinLower
    <3>8. QED
      BY <2>0, <3>1, <3>3, <3>5, <3>6, <3>7
  <2>2. CASE ~lower
    <3>1. free' = F1 \cup {bp}
      <4>1. bp # q
        BY <1>1
      <4>2. QED
        BY <4>1, <2>2, <1>7
    <3>2. size' = size1 /\ p + size1[p] # bp
      BY <2>0, <2>2, <1>7
    <3>4. next' = [next EXCEPT ![bp] = after, ![p] = bp]
      BY <2>2, <1>7
    <3>5. /\ next' \in [Units -> Units] /\ next'[bp] = next1[p] /\ next'[p] = bp
          /\ SameElsewhere(F1, p, next1, next')
      BY <2>0, <3>4, <1>1, <1>2, <1>4, <1>6, <1>8 DEF SameElsewhere
    <3>6. \A x \in used : size'[x] = size[x]
      BY <3>2, <1>1, <1>2, <1>5
    <3>7. Settled(F1 \cup {bp}, used, next', size1, heap)
      <4> HIDE DEF bp, p, q, upper, after, bsize, lower, size1, next1, F1
      <4>1. QED
        BY <3>2, <3>5, <1>8, LinkBehind
    <3>8. QED
      BY <2>0, <3>1, <3>2, <3>5, <3>6, <3>7, <1>1, <1>5
  <2>3. QED
    BY <2>1, <2>2
<1>10. /\ call' \in Calls /\ call'.op \in {"idle", "kmalloc"}
       /\ call'.op = "kmalloc" => call'.nunits >= 2 /\ call'.prevp = p /\ call'.p = next'[p]
  <2>1. CASE call.op = "kfree"
    BY <2>1, <1>2, <1>7, SizesAssumption DEF Resumed, Idle, Calls
  <2>2. CASE call.op = "acquire"
    <3>1. call' = [Idle EXCEPT !.op = "kmalloc", !.nunits = call.nunits, !.prevp = p,
                               !.p = next'[p]]
      BY <2>2, <1>7 DEF Resumed
    <3>2. call.nunits >= 2 /\ call.nunits \in 0 .. MAX_UNITS /\ next'[p] \in Units
      BY <2>2, <1>1, <1>9 DEF Inv, CallOK, TypeOK, Calls
    <3> HIDE DEF p
    <3>3. QED
      BY <3>1, <3>2, <1>1, <1>2 DEF Idle, Calls
  <2>3. QED
    BY <2>1, <2>2, <1>1 DEF Freeing
<1>11. TypeOK'
  BY <1>1, <1>7, <1>9, <1>10 DEF TypeOK
<1>12. freep' # NULL /\ freep' \in free'
  BY <1>2, <1>7, <1>9 DEF NULL
<1>13. CallOK'
  BY <1>7, <1>9, <1>10, <1>12 DEF CallOK, Freeing
<1>14. Blocks' = used \cup (free' \ {base})
  BY <1>7, <1>10 DEF Blocks, Freeing
<1>15. \A x \in used' : size'[x] >= 2
  BY <1>7, <1>9 DEF Inv
<1>16. OwnersKeep
  BY <1>9 DEF OwnersKeep
<1>17. QED
  BY <1>16, <1>7, <1>9, <1>11, <1>12, <1>13, <1>14, <1>15 DEF Inv, Settled

\* Every step keeps the invariant, and the blocks of the callers.
LEMMA NextInv ==
    ASSUME Inv, [Next]_vars
    PROVE  Inv' /\ OwnersKeep
<1>1. CASE \E n \in 2 .. MAX_UNITS : kmalloc(n)
  BY <1>1, kmallocInv DEF kmalloc, OwnersKeep
<1>2. CASE \E x \in used : kfree(x)
  BY <1>2, kfreeInv DEF kfree, OwnersKeep
<1>3. CASE allocate_exactly
  BY <1>3, allocate_exactlyInv
<1>4. CASE allocate_tail
  BY <1>4, allocate_tailInv
<1>5. CASE search
  BY <1>5, searchInv DEF search, OwnersKeep
<1>6. CASE acquire_more_heap
  BY <1>6, acquire_more_heapInv
<1>7. CASE acquire_more_heap_fails
  BY <1>7, acquire_more_heap_failsInv DEF acquire_more_heap_fails, OwnersKeep
<1>8. CASE find_place
  BY <1>8, find_placeInv DEF find_place, OwnersKeep
<1>9. CASE link
  BY <1>9, linkInv
<1>10. CASE UNCHANGED vars
  <2>1. next' = next /\ size' = size /\ freep' = freep /\ call' = call /\ heap' = heap
        /\ used' = used /\ free' = free
    BY <1>10 DEF vars
  <2>2. Blocks' = Blocks /\ TypeOK' /\ CallOK' /\ Fresh' = Fresh
    BY <2>1 DEF Blocks, Freeing, TypeOK, CallOK, Fresh, Inv
  <2>3. QED
    BY <2>1, <2>2 DEF Inv, Apart, Tiled, OwnersKeep
<1>11. QED
  BY <1>1, <1>2, <1>3, <1>4, <1>5, <1>6, <1>7, <1>8, <1>9, <1>10 DEF Next, Step

-----------------------------------------------------------------------------
(***************************************************************************)
(* The theorems.                                                           *)
(***************************************************************************)
\* The strengthened invariant holds in every state the allocator reaches.
THEOREM Invariance == Spec => []Inv
<1>1. Inv /\ [Next]_vars => Inv'
  BY NextInv
<1>2. QED
  BY InitInv, <1>1, PTL DEF Spec

\* No pointer of kmalloc and kfree ever leaves the heap.
THEOREM TypeCorrectness == Spec => []TypeOK
<1>1. Inv => TypeOK
  BY InvImplies
<1>2. QED
  BY Invariance, <1>1, PTL

\* Splitting in kmalloc, joining in kfree and growing in acquire_more_heap never make
\* two blocks overlap and never lose a unit of the heap.
THEOREM HeapPartition == Spec => []Partition
<1>1. Inv => Partition
  BY InvImplies
<1>2. QED
  BY Invariance, <1>1, PTL

\* The list kmalloc and kfree walk is one circle in the order of addresses, and the
\* blocks kfree could have joined are joined.
THEOREM FreeListCircle == Spec => []FreeList
<1>1. Inv => FreeList
  BY InvImplies
<1>2. QED
  BY Invariance, <1>1, PTL

-----------------------------------------------------------------------------
(***************************************************************************)
(* Kmalloc implements Heap.                                                *)
(***************************************************************************)
\* What its owner knows of the block with header x, by the sizes sz.
Owned(x, sz) == [addr |-> x + 1, len |-> sz[x] - 1]
Owners == {Owned(x, size) : x \in used}

LEMMA OwnedAddr ==
    ASSUME NEW x \in Nat, NEW y \in Nat, NEW s, NEW t, Owned(x, s) = Owned(y, t)
    PROVE  x = y
  BY DEF Owned

LEMMA StepImplements ==
    ASSUME Inv, [Next]_vars
    PROVE  [H!Next]_Owners
<1>1. Inv' /\ OwnersKeep
  BY NextInv
<1>2. used \subseteq Nat /\ used' \subseteq Nat
  BY <1>1, Addresses DEF Inv, TypeOK
<1>3. \/ used' = used
      \/ \E x \in used : used' = used \ {x}
      \/ \E x \in used' \ used : used' = used \cup {x}
  <2>1. CASE allocate_exactly
    BY <2>1, SearchAt DEF allocate_exactly
  <2>2. CASE allocate_tail
    BY <2>2 DEF allocate_tail
  <2>3. CASE \E x \in used : kfree(x)
    BY <2>3 DEF kfree
  <2>4. QED
    BY <2>1, <2>2, <2>3 DEF Next, Step, kmalloc, search, acquire_more_heap,
       acquire_more_heap_fails, find_place, link, vars
<1>4. CASE used' = used
  BY <1>1, <1>4 DEF OwnersKeep, Owners, Owned
<1>5. ASSUME NEW x \in used, used' = used \ {x} PROVE H!Free
  <2>1. Owned(x, size) \in Owners
    BY DEF Owners
  <2>2. \A y \in used \ {x} : Owned(y, size') = Owned(y, size)
    BY <1>1, <1>5 DEF OwnersKeep, Owned
  <2>3. \A y \in used \ {x} : Owned(y, size) # Owned(x, size)
    BY <1>2, OwnedAddr
  <2>4. Owners' = Owners \ {Owned(x, size)}
    BY <2>2, <2>3, <1>5 DEF Owners
  <2>5. QED
    BY <2>1, <2>4 DEF H!Free, Owners, Owned
<1>6. ASSUME NEW x \in used' \ used, used' = used \cup {x} PROVE H!Allocate
  <2> DEFINE new == Owned(x, size')
  <2>1. \A y \in used : Owned(y, size') = Owned(y, size)
    BY <1>1, <1>6 DEF OwnersKeep, Owned
  <2>2. \A y \in used : Owned(y, size) # new
    BY <1>2, <1>6, OwnedAddr
  <2>3. Owners' = Owners \cup {new} /\ new \in Owners' \ Owners
    BY <2>1, <2>2, <1>6 DEF Owners
  <2>4. size' \in [Units' -> Nat] /\ \A y \in used' : size'[y] \in Nat /\ size'[y] >= 2
    BY <1>1, Addresses DEF Inv, TypeOK
  <2>5. new \in [addr : Nat, len : Nat \ {0}]
    BY <2>4, <1>2, <1>6 DEF Owned
  <2>6. \A y \in used : H!Memory(new) \cap H!Memory(Owned(y, size)) = {}
    <3> TAKE y \in used
    <3>1. (x < y => x + size'[x] <= y) /\ (y < x => y + size'[y] <= x)
      BY <1>1, <1>6 DEF Inv, Tiled, Blocks
    <3>2. x \in Nat /\ y \in Nat /\ x # y /\ size'[x] \in Nat /\ size'[y] \in Nat
          /\ size'[x] >= 2 /\ size'[y] >= 2
      BY <2>4, <1>2, <1>6
    <3>3. (x + 1) .. (x + 1 + (size'[x] - 1) - 1)
            \cap (y + 1) .. (y + 1 + (size'[y] - 1) - 1) = {}
      BY <3>1, <3>2
    <3>4. QED
      BY <3>3, <2>1 DEF H!Memory, Owned
  <2>7. QED
    BY <2>3, <2>5, <2>6 DEF H!Allocate, Owners, Owned
<1>7. QED
  BY <1>3, <1>4, <1>5, <1>6 DEF H!Next

\* Whatever kmalloc and kfree do to the list, a caller's block is its own from the
\* return of kmalloc to the call of kfree.
THEOREM Refinement == Spec => ImplementsHeap
<1>1. Init => H!Init
  BY DEF Init, H!Init
<1>2. Inv /\ [Next]_vars => [H!Next]_Owners
  BY StepImplements
<1>3. QED
  BY Invariance, <1>1, <1>2, PTL DEF Spec, ImplementsHeap, H!Spec, Owners, Owned
=============================================================================
