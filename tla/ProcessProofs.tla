----------------------------- MODULE ProcessProofs -----------------------------
(***************************************************************************)
(* Proofs about Process, for every number of frames, of entries of a table *)
(* and of processes: types, every page frame has one use, a process        *)
(* reaches its own memory and nothing else, the kernel finds what it has   *)
(* mapped, and only page tables are lost while no call fails.              *)
(***************************************************************************)
EXTENDS Process, WellFoundedInduction, TLAPS

-----------------------------------------------------------------------------
(***************************************************************************)
(* The memory, and who owns which page frames.                             *)
(***************************************************************************)
PageTables == UNION {[D -> Phys] : D \in SUBSET Entries}
Mem == [free : SUBSET Frames, at : [Phys -> PageTables]]

PsTypes == [st : {"unused", "loading", "live", "zombie"}, pdt : Pages, kernel_stack : Pages,
            pdt_paddr : Phys, code : Phys, stack : Phys, kernel_stack_paddr : Phys]
CallTypes == [op : {"idle", "create", "clone", "replace"}, child : Callers,
              at : Steps, list : Lists, paddr : Phys, vaddr : Pages]

Kinds == {"pdt", "kernel_stack", "stack", "code", "table", "call", "heap", "kernel", "orphan"}

Block(f, n) == IF f = 0 THEN {} ELSE f .. (f + n - 1)
Using(s) == {p \in Procs : s[p].st \in {"loading", "live"}}
Tables(m, f) == IF f = 0 THEN {}
                ELSE {m.at[f][d] : d \in {e \in DOMAIN m.at[f] : e < KERNEL_PDT_IDX}}
KernelTables(m) == {m.at[kernel_pdt][d] : d \in DOMAIN m.at[kernel_pdt]}

\* the frames a call holds
Size(e) == IF e.at \in {"code_map", "code_read", "copy_map", "copy_data"}
           THEN Count(e.list) ELSE 1
Hold(e) == Block(e.paddr, Size(e))

\* the frames of a struct
PsUse(m, e, k) ==
    CASE k = "pdt" -> Block(e.pdt_paddr, 1)
      [] k = "kernel_stack" -> Block(e.kernel_stack_paddr, 1)
      [] k = "stack" -> Block(e.stack, 1)
      [] k = "code" -> Block(e.code, CODE_PAGES)
      [] k = "table" -> Tables(m, e.pdt_paddr)
      [] OTHER -> {}

\* the frames of the kernel
BootUse(m, h, o, k) ==
    CASE k = "heap" -> h [] k = "kernel" -> KernelTables(m) [] k = "orphan" -> o [] OTHER -> {}

UseOf(m, s, cl, h, o, c, k) ==
    IF k = "call" THEN Hold(cl[c])
    ELSE IF c = boot THEN BootUse(m, h, o, k)
    ELSE IF c \in Using(s) THEN PsUse(m, s[c], k) ELSE {}
Uses(m, s, cl, h, o) == [c \in Callers |-> [k \in Kinds |-> UseOf(m, s, cl, h, o, c, k)]]

\* each frame has one owner or is free; exact: it has an owner if it is not free
Ledger(own, free, exact) ==
    /\ \A c \in Callers, k \in Kinds : own[c][k] \subseteq (IF k = "kernel" THEN Frames \cup {kernel_pt} ELSE Frames)
    /\ \A c \in Callers, k \in Kinds : own[c][k] \cap free = {}
    /\ \A c, d \in Callers, k, l \in Kinds : (c # d \/ k # l) => own[c][k] \cap own[d][l] = {}
    /\ exact => \A f \in Frames : f \in free \/ \E c \in Callers, k \in Kinds : f \in own[c][k]

\* what the kernel's directory maps the pages of structs and calls to
PsMapped(m, e) ==
    /\ e.pdt # 0 => Translate(m, kernel_pdt, e.pdt) = e.pdt_paddr
    /\ e.kernel_stack # 0 => Translate(m, kernel_pdt, e.kernel_stack) = e.kernel_stack_paddr
PsMap(m, s) == \A p \in Using(s) : PsMapped(m, s[p])
CallMapped(m, e) ==
    e.at \in {"code_read", "copy_data"} =>
        \A i \in 0 .. (Count(e.list) - 1) : Translate(m, kernel_pdt, e.vaddr + i) = e.paddr + i
CallMap(m, cl) == \A c \in Callers : CallMapped(m, cl[c])

\* how far the directory of a struct has been filled
UserHalf(m, f) == {e \in DOMAIN m.at[f] : e < KERNEL_PDT_IDX}
Shape(m, e, k) ==
    /\ e.pdt_paddr # 0 <=> k >= 1
    /\ e.code # 0 <=> k >= 2
    /\ e.stack # 0 <=> k >= 3
    /\ e.kernel_stack_paddr # 0 <=> k >= 4
    /\ k >= 1 => UserHalf(m, e.pdt_paddr) = (IF k >= 2 THEN {0} ELSE {}) \cup (IF k >= 3 THEN {KERNEL_PDT_IDX - 1} ELSE {})
    /\ k >= 2 => LET t == m.at[m.at[e.pdt_paddr][0]]
                 IN  DOMAIN t = 0 .. (CODE_PAGES - 1) /\ \A i \in DOMAIN t : t[i] = e.code + i
    /\ k >= 3 => LET t == m.at[m.at[e.pdt_paddr][KERNEL_PDT_IDX - 1]]
                 IN  DOMAIN t = {NUM_ENTRIES - 1} /\ \A i \in DOMAIN t : t[i] = e.stack
Level(e) ==
    CASE e.at \in {"pdt", "pdt_map"} -> 0
      [] e.at \in {"code", "code_map", "code_read"} -> 1
      [] e.at \in {"copy", "copy_map", "copy_data"} -> IF e.list = "code" THEN 1 ELSE 2
      [] e.at = "stack" -> 2
      [] e.at \in {"kernel_stack", "kernel_stack_map"} -> 3
      [] OTHER -> 4
Shapes(m, s, cl) ==
    /\ \A p \in Procs : s[p].st = "live" => Shape(m, s[p], 4)
    /\ \A c \in Callers : cl[c].at \notin {"idle", "delete", "loop"} => Shape(m, s[cl[c].child], Level(cl[c]))

Paired(e) == (e.pdt = 0 <=> e.pdt_paddr = 0) /\ (e.kernel_stack = 0 <=> e.kernel_stack_paddr = 0)

\* a call and what it works on
Holding == {"code_map", "code_read", "kernel_stack_map", "copy_map", "copy_data"}
CallOK(e, fl) ==
    /\ e.at \in {"delete", "loop"} => fl
    /\ e.paddr # 0 => e.at \in Holding \cup {"pdt_map"}
    /\ e.at \in Holding => e.paddr # 0 /\ e.vaddr # 0
    /\ e.at \in {"idle", "pdt", "pdt_map", "code", "code_map", "code_read"} => e.list = "code"
    /\ VIRTUAL_TO_PT_IDX(e.vaddr) + Size(e) <= NUM_ENTRIES
Calls(s, cl, fl) ==
    /\ \A c \in Callers : CallOK(cl[c], fl)
    /\ \A c \in Callers : cl[c].at # "idle" =>
          /\ cl[c].child \in Procs /\ s[cl[c].child].st = "loading"
          /\ IF c = boot THEN cl[c].op = "create" ELSE s[c].st = "live"
    /\ \A c, d \in Callers : cl[c].at # "idle" /\ cl[d].at # "idle" /\ cl[c].child = cl[d].child => c = d
    /\ \A p \in Procs : Paired(s[p])
    /\ \A p \in Procs : s[p].st = "unused" => s[p] = Unused

Inv(m, s, cl, h, o, fl) ==
    /\ m \in Mem /\ s \in [Procs -> PsTypes] /\ cl \in [Callers -> CallTypes]
    /\ h \subseteq Frames /\ o \subseteq Frames /\ fl \in BOOLEAN
    /\ Ledger(Uses(m, s, cl, h, o), m.free, ~fl)
    /\ PsMap(m, s) /\ CallMap(m, cl)
    /\ Shapes(m, s, cl)
    /\ Calls(s, cl, fl)

Counts(run, n, k) == run \in Callers /\ n \in 0 .. MAX_CALLS /\ k \in 0 .. MAX_SWITCHES

\* the inductive invariant: until the kernel touches foreign memory
IInv ==
    ~wild => Inv(mem, ps, call, heap, orphans, failed) /\ Counts(running, calls, switches)

-----------------------------------------------------------------------------
(***************************************************************************)
(* The ledger of page frames.                                              *)
(***************************************************************************)
Own == [Callers -> [Kinds -> SUBSET Nat]]
Put(own, c, k, S) == [own EXCEPT ![c][k] = S]

\* Put changes one account.
LEMMA PutAt ==
    ASSUME NEW own \in Own, NEW c \in Callers, NEW k \in Kinds, NEW S \in SUBSET Nat
    PROVE  /\ Put(own, c, k, S) \in Own
           /\ Put(own, c, k, S)[c][k] = S
           /\ \A d \in Callers, l \in Kinds : c # d \/ k # l => Put(own, c, k, S)[d][l] = own[d][l]
BY DEF Put, Own

\* Accounts are equal when they are equal one by one.
LEMMA OwnEqual ==
    ASSUME NEW a \in Own, NEW b \in Own, \A c \in Callers, k \in Kinds : a[c][k] = b[c][k]
    PROVE  a = b
<1>1. \A c \in Callers : a[c] = b[c]
  BY DEF Own
<1> QED
  BY <1>1 DEF Own

\* Frames taken from the free ones go to an account.
LEMMA LedgerTake ==
    ASSUME NEW own \in Own, NEW free \in SUBSET Frames, NEW exact \in BOOLEAN,
           Ledger(own, free, exact),
           NEW c \in Callers, NEW k \in Kinds, NEW S \in SUBSET free, NEW T \in SUBSET Nat,
           T = own[c][k] \cup S
    PROVE  Ledger(Put(own, c, k, T), free \ S, exact)
BY PutAt DEF Ledger

\* An account is emptied: its frames are lost.
LEMMA LedgerDrop ==
    ASSUME NEW own \in Own, NEW free \in SUBSET Frames, NEW exact \in BOOLEAN,
           Ledger(own, free, exact), NEW c \in Callers, NEW k \in Kinds
    PROVE  Ledger(Put(own, c, k, {}), free, FALSE)
BY PutAt DEF Ledger

\* Free frames are lost.
LEMMA LedgerLeak ==
    ASSUME NEW own \in Own, NEW free \in SUBSET Frames, NEW exact \in BOOLEAN,
           Ledger(own, free, exact), NEW free2 \in SUBSET free
    PROVE  Ledger(own, free2, FALSE)
BY DEF Ledger

\* The frames of an account become free.
LEMMA LedgerFree ==
    ASSUME NEW own \in Own, NEW free \in SUBSET Frames, NEW exact \in BOOLEAN,
           Ledger(own, free, exact), NEW c \in Callers, NEW k \in Kinds
    PROVE  Ledger(Put(own, c, k, {}), free \cup own[c][k], exact)
BY PutAt DEF Ledger

\* The frames of an account go to another one.
LEMMA LedgerMove ==
    ASSUME NEW own \in Own, NEW free \in SUBSET Frames, NEW exact \in BOOLEAN,
           Ledger(own, free, exact), NEW c \in Callers, NEW k \in Kinds,
           NEW d \in Callers, NEW l \in Kinds, c # d \/ k # l,
           k # "kernel",
           NEW T \in SUBSET Nat, T = own[d][l] \cup own[c][k]
    PROVE  Ledger(Put(Put(own, c, k, {}), d, l, T), free, exact)
BY PutAt DEF Ledger

-----------------------------------------------------------------------------
(***************************************************************************)
(* Numbers: the smallest of a set, and the two halves of a page number.    *)
(***************************************************************************)
\* Min is the smallest number of a set.
LEMMA MinOf ==
    ASSUME NEW S \in SUBSET Nat, S # {}
    PROVE  Min(S) \in S /\ \A x \in S : Min(S) <= x
<1> DEFINE R == OpToRel(<, Nat)
<1>1. \A y, z \in Nat : y < z => <<y, z>> \in R
  BY DEF OpToRel
<1>2. IsWellFoundedOn(R, Nat)
  BY NatLessThanWellFounded
<1> HIDE DEF R
<1>3. PICK x \in S : \A y \in S : ~(<<y, x>> \in R)
  BY <1>2, WFMin
<1>4. \A y \in S : ~(y < x)
  BY <1>1, <1>3
<1>5. \A y \in S : x <= y
  BY <1>4
<1> QED
  BY <1>3, <1>5 DEF Min

\* A number is a multiple and a rest, in one way.
LEMMA DivMod ==
    ASSUME NEW q \in Nat, NEW n \in Nat \ {0}, NEW r \in 0 .. (n - 1)
    PROVE  (q * n + r) \div n = q /\ (q * n + r) % n = r
OBVIOUS

LEMMA PageSplit ==
    ASSUME NEW page \in Nat
    PROVE  /\ VIRTUAL_TO_PDT_IDX(page) \in Nat
           /\ VIRTUAL_TO_PT_IDX(page) \in Entries
           /\ page = VIRTUAL_TO_PDT_IDX(page) * NUM_ENTRIES + VIRTUAL_TO_PT_IDX(page)
BY PagingAssumption DEF VIRTUAL_TO_PDT_IDX, VIRTUAL_TO_PT_IDX, Entries

\* The page of an entry of a table.
LEMMA PageOf ==
    ASSUME NEW d \in Entries, NEW i \in Entries
    PROVE  /\ d * NUM_ENTRIES + i \in Pages
           /\ VIRTUAL_TO_PDT_IDX(d * NUM_ENTRIES + i) = d
           /\ VIRTUAL_TO_PT_IDX(d * NUM_ENTRIES + i) = i
<1> DEFINE N == NUM_ENTRIES
<1>1. N \in Nat /\ N > 3 /\ d \in Nat /\ i \in 0 .. (N - 1) /\ d <= N - 1
  BY PagingAssumption DEF Entries
<1>2. d * N \in Nat /\ (N - 1) * N \in Nat /\ d * N <= (N - 1) * N /\ (N - 1) * N = N * N - N
  <2> HIDE DEF N
  <2> QED BY <1>1
<1>3. d * N + i \in 0 .. (N * N - 1)
  <2>1. N * N \in Nat
    BY <1>1
  <2> HIDE DEF N
  <2> QED BY <1>1, <1>2, <2>1
<1> QED
  BY <1>1, <1>3, DivMod DEF Pages, VIRTUAL_TO_PDT_IDX, VIRTUAL_TO_PT_IDX

\* The pages behind a page, in the same table.
LEMMA PageNext ==
    ASSUME NEW page \in Nat, NEW j \in Nat, VIRTUAL_TO_PT_IDX(page) + j < NUM_ENTRIES
    PROVE  /\ page + j \in Nat
           /\ VIRTUAL_TO_PDT_IDX(page + j) = VIRTUAL_TO_PDT_IDX(page)
           /\ VIRTUAL_TO_PT_IDX(page + j) = VIRTUAL_TO_PT_IDX(page) + j
<1> DEFINE N == NUM_ENTRIES  d == VIRTUAL_TO_PDT_IDX(page)  i == VIRTUAL_TO_PT_IDX(page)
<1>1. N \in Nat \ {0} /\ d \in Nat /\ i \in Nat /\ page = d * N + i
  BY PageSplit, PagingAssumption DEF Entries
<1>2. i + j \in 0 .. (N - 1)
  BY <1>1
<1>3. (d * N + (i + j)) \div N = d /\ (d * N + (i + j)) % N = i + j
  <2> HIDE DEF d, i, N
  <2> QED BY <1>1, <1>2, DivMod
<1>4. page + j = d * N + (i + j)
  <2>1. d * N \in Nat
    <3> HIDE DEF d, N
    <3> QED BY <1>1
  <2> HIDE DEF d, i, N
  <2> QED BY <1>1, <2>1
<1> QED
  BY <1>3, <1>4 DEF VIRTUAL_TO_PDT_IDX, VIRTUAL_TO_PT_IDX

LEMMA PageInTable ==
    ASSUME NEW page \in Pages
    PROVE  page \in Nat /\ VIRTUAL_TO_PDT_IDX(page) \in Entries
<1> DEFINE N == NUM_ENTRIES  d == VIRTUAL_TO_PDT_IDX(page)  i == VIRTUAL_TO_PT_IDX(page)
<1>1. N \in Nat /\ N > 3 /\ N * N \in Nat
  BY PagingAssumption
<1>2. page \in Nat /\ page < N * N
  BY <1>1 DEF Pages
<1>3. d \in Nat /\ i \in Nat /\ page = d * N + i
  BY <1>2, PageSplit DEF Entries
<1>4. d < N
  <2> SUFFICES ASSUME d >= N PROVE FALSE
    BY <1>1, <1>3
  <2>1. d * N >= N * N /\ d * N \in Nat
    <3> HIDE DEF d, N
    <3> QED BY <1>1, <1>3
  <2> HIDE DEF d, i, N
  <2> QED BY <1>1, <1>2, <1>3, <2>1
<1> QED
  BY <1>1, <1>2, <1>3, <1>4 DEF Entries

-----------------------------------------------------------------------------
(***************************************************************************)
(* The operators of Paging: tables, the allocator, finding pages.          *)
(***************************************************************************)
LEMMA Constants ==
    /\ NUM_ENTRIES \in Nat /\ NUM_ENTRIES > 3
    /\ NUM_FRAMES \in Nat
    /\ Frames \subseteq Phys /\ Phys \subseteq Nat /\ 0 \in Phys /\ 0 \notin Frames
    /\ kernel_pdt \in Phys /\ kernel_pt \in Phys /\ kernel_pdt # 0 /\ kernel_pt # 0
    /\ kernel_pdt \notin Frames /\ kernel_pt \notin Frames /\ kernel_pdt # kernel_pt
    /\ KERNEL_PDT_IDX \in Entries /\ KERNEL_PDT_IDX > 1
    /\ boot \notin Procs /\ boot \in Callers /\ Procs \subseteq Callers
    /\ CODE_PAGES \in Nat /\ CODE_PAGES > 0 /\ CODE_PAGES < NUM_ENTRIES
    /\ Entries \subseteq Nat /\ 0 \in Entries
    /\ 0 \in Pages /\ Pages \subseteq Nat
<1>1. NUM_ENTRIES * NUM_ENTRIES \in Nat /\ NUM_ENTRIES * NUM_ENTRIES > 0
  BY PagingAssumption
<1> QED
  BY <1>1, PagingAssumption, ProcessAssumption
  DEF Frames, Phys, kernel_pdt, kernel_pt, KERNEL_PDT_IDX, Entries, Callers, Pages

\* A table is a function of some entries.
LEMMA TableFacts ==
    ASSUME NEW t \in PageTables
    PROVE  DOMAIN t \subseteq Entries /\ \A i \in DOMAIN t : t[i] \in Phys
BY DEF PageTables

LEMMA EmptyFacts == Empty \in PageTables /\ DOMAIN Empty = {}
<1>1. DOMAIN Empty = {} /\ Empty \in [{} -> Phys]
  BY DEF Empty
<1> QED
  BY <1>1 DEF PageTables

LEMMA WithFacts ==
    ASSUME NEW t \in PageTables, NEW i \in Entries, NEW v \in Phys
    PROVE  /\ With(t, i, v) \in PageTables
           /\ DOMAIN With(t, i, v) = DOMAIN t \cup {i}
           /\ With(t, i, v)[i] = v
           /\ \A j \in DOMAIN t : j # i => With(t, i, v)[j] = t[j]
<1>1. With(t, i, v) \in [DOMAIN t \cup {i} -> Phys]
  BY TableFacts DEF With
<1>2. DOMAIN t \cup {i} \in SUBSET Entries
  BY TableFacts
<1> QED
  BY <1>1, <1>2 DEF With, PageTables

LEMMA WithoutFacts ==
    ASSUME NEW t \in PageTables, NEW S
    PROVE  /\ Without(t, S) \in PageTables
           /\ DOMAIN Without(t, S) = DOMAIN t \ S
           /\ \A j \in DOMAIN t \ S : Without(t, S)[j] = t[j]
<1>1. Without(t, S) \in [DOMAIN t \ S -> Phys]
  BY TableFacts DEF Without
<1>2. DOMAIN t \ S \in SUBSET Entries
  BY TableFacts
<1> QED
  BY <1>1, <1>2 DEF Without, PageTables

LEMMA FilledFacts ==
    ASSUME NEW t \in PageTables, NEW i \in Nat, NEW paddr \in Nat, NEW k \in Nat,
           i .. (i + k - 1) \subseteq Entries, \A j \in 0 .. (k - 1) : paddr + j \in Phys
    PROVE  /\ Filled(t, i, paddr, k) \in PageTables
           /\ DOMAIN Filled(t, i, paddr, k) = DOMAIN t \cup (i .. (i + k - 1))
<1> DEFINE D == DOMAIN t \cup (i .. (i + k - 1))
<1>1. \A j \in i .. (i + k - 1) : paddr + j - i \in Phys
  <2> TAKE j \in i .. (i + k - 1)
  <2>1. j - i \in 0 .. (k - 1) /\ paddr + j - i = paddr + (j - i)
    OBVIOUS
  <2> QED
    BY <2>1
<1>2. Filled(t, i, paddr, k) \in [D -> Phys]
  BY <1>1, TableFacts DEF Filled
<1>3. D \in SUBSET Entries
  BY TableFacts
<1>4. Filled(t, i, paddr, k) \in PageTables /\ DOMAIN Filled(t, i, paddr, k) = D
  BY <1>2, <1>3 DEF PageTables
<1> QED
  BY <1>4

LEMMA FilledNew ==
    ASSUME NEW t, NEW i \in Nat, NEW paddr \in Nat, NEW k \in Nat, NEW j \in 0 .. (k - 1)
    PROVE  Filled(t, i, paddr, k)[i + j] = paddr + j
BY DEF Filled

LEMMA FilledOld ==
    ASSUME NEW t, NEW i \in Nat, NEW paddr \in Nat, NEW k \in Nat,
           NEW j \in DOMAIN t, j \notin i .. (i + k - 1)
    PROVE  Filled(t, i, paddr, k)[j] = t[j]
BY DEF Filled

LEMMA BlockOne ==
    ASSUME NEW f \in Nat, f # 0
    PROVE  Block(f, 1) = {f}
BY DEF Block

\* The allocator gives a free block, or nothing.
LEMMA AllocFacts ==
    ASSUME NEW m \in Mem, NEW n \in Nat, n > 0
    PROVE  /\ pfa_allocate(m, n) \in Frames \cup {0}
           /\ pfa_allocate(m, n) \in Phys
           /\ Block(pfa_allocate(m, n), n) \in SUBSET m.free
<1> DEFINE blocks == {f \in Frames : f .. (f + n - 1) \subseteq m.free}
<1>1. blocks \in SUBSET Nat
  BY Constants
<1>2. CASE blocks = {}
  BY <1>2, Constants DEF pfa_allocate, Block
<1>3. CASE blocks # {}
  <2>1. Min(blocks) \in blocks
    BY <1>1, <1>3, MinOf
  <2>2. pfa_allocate(m, n) = Min(blocks)
    BY <1>3 DEF pfa_allocate
  <2> QED
    BY <2>1, <2>2, Constants DEF Block
<1> QED
  BY <1>2, <1>3

LEMMA MemFacts ==
    ASSUME NEW m \in Mem
    PROVE  /\ m.free \in SUBSET Frames
           /\ m.at \in [Phys -> PageTables]
           /\ \A S \in SUBSET Frames : /\ [m EXCEPT !.free = S] \in Mem
                                       /\ [m EXCEPT !.free = S].free = S
                                       /\ [m EXCEPT !.free = S].at = m.at
           /\ \A f \in Phys, t \in PageTables :
                 /\ [m EXCEPT !.at[f] = t] \in Mem
                 /\ [m EXCEPT !.at[f] = t].free = m.free
                 /\ [m EXCEPT !.at[f] = t].at = [m.at EXCEPT ![f] = t]
BY DEF Mem

LEMMA TakenFacts ==
    ASSUME NEW m \in Mem, NEW n \in Nat, NEW f \in Phys
    PROVE  /\ Taken(m, f, n) \in Mem
           /\ Taken(m, f, n).at = m.at
           /\ Taken(m, f, n).free = m.free \ Block(f, n)
BY MemFacts DEF Taken, Block

LEMMA TakenOne ==
    ASSUME NEW m \in Mem, NEW f \in Phys, f # 0
    PROVE  /\ Taken(m, f, 1) \in Mem
           /\ Taken(m, f, 1).at = m.at
           /\ Taken(m, f, 1).free = m.free \ {f}
<1>1. Block(f, 1) = {f}
  BY Constants, BlockOne
<1>2. \A n \in Nat : /\ Taken(m, f, n) \in Mem
                     /\ Taken(m, f, n).at = m.at
                     /\ Taken(m, f, n).free = m.free \ Block(f, n)
  BY TakenFacts
<1> QED
  BY <1>1, <1>2

\* Frames that are not free become free.
LEMMA FreeFacts ==
    ASSUME NEW m \in Mem, NEW n \in Nat, NEW f \in Phys, f # 0,
           Block(f, n) \subseteq Frames, Block(f, n) \cap m.free = {}
    PROVE  /\ pfa_free_cont(m, f, n) \in Mem
           /\ pfa_free_cont(m, f, n).at = m.at
           /\ pfa_free_cont(m, f, n).free = m.free \cup Block(f, n)
<1> DEFINE S == (m.free \ (f .. (f + n - 1))) \cup ((f .. (f + n - 1)) \ m.free)
<1>1. S = m.free \cup Block(f, n) /\ S \in SUBSET Frames
  BY MemFacts DEF Block
<1>2. pfa_free_cont(m, f, n) = [m EXCEPT !.free = S]
  BY MemFacts DEF pfa_free_cont, Mem
<1> HIDE DEF S
<1> QED
  BY <1>1, <1>2, MemFacts

\* Pages that are found are pages of one table.
LEMMA FindFacts ==
    ASSUME NEW m, NEW n \in Nat, n > 0, n < NUM_ENTRIES
    PROVE  /\ pdt_kernel_find_next_vaddr(m, n) \in Pages
           /\ VIRTUAL_TO_PT_IDX(pdt_kernel_find_next_vaddr(m, n)) + n <= NUM_ENTRIES
<1> DEFINE found(d) == IF IS_ENTRY_PRESENT(m, kernel_pdt, d)
                       THEN pt_kernel_find_next_vaddr(m, d, n) ELSE {0}
           pages == UNION {{d * NUM_ENTRIES + i : i \in found(d)}
                               : d \in KERNEL_PDT_IDX .. (NUM_ENTRIES - 1)}
<1>1. \A d \in KERNEL_PDT_IDX .. (NUM_ENTRIES - 1) : \A i \in found(d) :
         d \in Entries /\ i \in Entries /\ i + n <= NUM_ENTRIES
  BY Constants DEF Entries, pt_kernel_find_next_vaddr
<1> HIDE DEF found
<1>2. \A x \in pages : x \in Pages /\ VIRTUAL_TO_PT_IDX(x) + n <= NUM_ENTRIES
  BY <1>1, PageOf
<1>3. pages \in SUBSET Nat
  BY <1>2, Constants
<1>4. 0 \in Pages /\ VIRTUAL_TO_PT_IDX(0) + n <= NUM_ENTRIES
  BY Constants DEF VIRTUAL_TO_PT_IDX
<1>5. pdt_kernel_find_next_vaddr(m, n) = IF pages = {} THEN 0 ELSE Min(pages)
  BY DEF pdt_kernel_find_next_vaddr, found
<1> HIDE DEF pages
<1> QED
  BY <1>2, <1>3, <1>4, <1>5, MinOf

-----------------------------------------------------------------------------
(***************************************************************************)
(* Mapping and unmapping.                                                  *)
(***************************************************************************)
\* pt_map_memory stops at the first entry that is in use.
LEMMA CountFacts ==
    ASSUME NEW m, NEW d, NEW pt, NEW i \in Nat, NEW n \in Nat
    PROVE  LET k == pt_map_memory(m, d, pt, i, n)
           IN  /\ k \in 0 .. n
               /\ \A j \in 0 .. (k - 1) : i + j \notin DOMAIN m.at[pt]
               /\ \/ k = n
                  \/ i + k \in DOMAIN m.at[pt]
                  \/ d = KERNEL_PDT_IDX
<1> DEFINE blocked == {j \in 0 .. (n - 1) : \/ IS_ENTRY_PRESENT(m, pt, i + j)
                                            \/ d = KERNEL_PDT_IDX /\ i + j = KERNEL_TMP_PT_IDX}
           S == {n} \cup blocked
           k == Min(S)
<1>1. S \in SUBSET Nat /\ S # {}
  OBVIOUS
<1>2. k \in S /\ \A x \in S : k <= x
  BY <1>1, MinOf
<1>3. pt_map_memory(m, d, pt, i, n) = k
  BY DEF pt_map_memory
<1> HIDE DEF k
<1>4. k \in 0 .. n
  BY <1>2
<1>5. ASSUME NEW j \in 0 .. (k - 1) PROVE i + j \notin DOMAIN m.at[pt]
  <2>1. j \in 0 .. (n - 1) /\ ~(k <= j)
    BY <1>4
  <2>2. j \notin blocked
    BY <1>2, <2>1
  <2> QED
    BY <2>1, <2>2 DEF IS_ENTRY_PRESENT
<1>6. k = n \/ i + k \in DOMAIN m.at[pt] \/ d = KERNEL_PDT_IDX
  BY <1>2 DEF IS_ENTRY_PRESENT
<1> QED
  BY <1>3, <1>4, <1>5, <1>6

\* What pdt_map_memory does to the table pt, which was t, and to the directory.
Links(m, m2, pdt, paddr, page, k, pt, t) ==
    LET d == VIRTUAL_TO_PDT_IDX(page)
        i == VIRTUAL_TO_PT_IDX(page)
    IN  /\ \/ /\ d \in DOMAIN m.at[pdt] /\ pt = m.at[pdt][d]
              /\ m2.free = m.free /\ t = m.at[pt]
           \/ /\ d \notin DOMAIN m.at[pdt] /\ pt \in m.free
              /\ m2.free = m.free \ {pt} /\ t = Empty
        /\ \A j \in 0 .. (k - 1) : i + j \notin DOMAIN t
        /\ m2.at[pt] = Filled(t, i, paddr, k)
        /\ m2.at[pdt] = With(m.at[pdt], d, pt)
        /\ \A f \in Phys : f # pt /\ f # pdt => m2.at[f] = m.at[f]

LEMMA MapFacts ==
    ASSUME NEW m \in Mem, NEW pdt \in Phys, pdt \notin m.free, NEW paddr \in Phys,
           NEW page \in Pages, NEW n \in Nat, n > 0,
           VIRTUAL_TO_PT_IDX(page) + n <= NUM_ENTRIES,
           \A j \in 0 .. (n - 1) : paddr + j \in Phys,
           VIRTUAL_TO_PDT_IDX(page) \in DOMAIN m.at[pdt] =>
              /\ m.at[pdt][VIRTUAL_TO_PDT_IDX(page)] # 0
              /\ m.at[pdt][VIRTUAL_TO_PDT_IDX(page)] # pdt
    PROVE  LET r == pdt_map_memory(m, pdt, paddr, page, n)
           IN  /\ r.m \in Mem /\ r.ok \in BOOLEAN
               /\ \/ r.m = m /\ ~r.ok
                  \/ /\ ~r.ok /\ VIRTUAL_TO_PDT_IDX(page) = KERNEL_PDT_IDX
                     /\ \E pt \in m.free : /\ r.m.free = m.free \ {pt}
                                           /\ r.m.at = [m.at EXCEPT ![pt] = Empty]
                  \/ \E pt \in Phys \ {0, pdt}, k \in 1 .. n, t \in PageTables :
                        /\ r.ok <=> k = n
                        /\ \/ k = n
                           \/ VIRTUAL_TO_PT_IDX(page) + k \in DOMAIN t
                           \/ VIRTUAL_TO_PDT_IDX(page) = KERNEL_PDT_IDX
                        /\ Links(m, r.m, pdt, paddr, page, k, pt, t)
<1> DEFINE d == VIRTUAL_TO_PDT_IDX(page)
           i == VIRTUAL_TO_PT_IDX(page)
           present == IS_ENTRY_PRESENT(m, pdt, d)
           pt == IF present THEN m.at[pdt][d] ELSE pfa_allocate(m, 1)
           m1 == IF present THEN m ELSE [Taken(m, pt, 1) EXCEPT !.at[pt] = Empty]
           k == pt_map_memory(m1, d, pt, i, n)
           m2 == [m1 EXCEPT !.at[pt] = Filled(@, i, paddr, k), !.at[pdt] = With(@, d, pt)]
           r == pdt_map_memory(m, pdt, paddr, page, n)
<1>1. r = IF pt = 0 THEN [m |-> m, ok |-> FALSE]
          ELSE IF k = 0 THEN [m |-> m1, ok |-> FALSE]
          ELSE [m |-> m2, ok |-> k = n]
  BY DEF pdt_map_memory
<1>2. d \in Entries /\ i \in Entries /\ d \in Nat /\ i \in Nat
  BY PageInTable, PageSplit, Constants
<1>3. m.at \in [Phys -> PageTables] /\ m.free \in SUBSET Frames
  BY MemFacts
<1>4. CASE pt = 0
  BY <1>1, <1>4
<1>5. CASE pt # 0
  <2>1. /\ pt \in Phys /\ pt # pdt
        /\ ~present => pt \in m.free
    <3>1. CASE present
      BY <3>1, <1>3, TableFacts DEF IS_ENTRY_PRESENT
    <3>2. CASE ~present
      <4>1. pt = pfa_allocate(m, 1)
        BY <3>2
      <4>2. pt \in Phys /\ Block(pt, 1) \in SUBSET m.free
        BY <4>1, AllocFacts
      <4> HIDE DEF pt
      <4> QED
        BY <1>5, <4>2, Constants DEF Block
    <3> QED
      BY <3>1, <3>2
  <2> DEFINE t == m1.at[pt]
  <2>2. /\ m1 \in Mem
        /\ present => m1 = m /\ t = m.at[pt]
        /\ ~present => /\ m1.free = m.free \ {pt}
                       /\ m1.at = [m.at EXCEPT ![pt] = Empty]
                       /\ t = Empty
    <3>1. CASE present
      BY <3>1
    <3>2. CASE ~present
      <4> DEFINE m0 == Taken(m, pt, 1)
      <4>1. m0 \in Mem /\ m0.at = m.at /\ m0.free = m.free \ {pt}
        <5> HIDE DEF pt
        <5> QED
          BY <1>5, <2>1, TakenOne
      <4>2. m1 = [m0 EXCEPT !.at[pt] = Empty]
        BY <3>2
      <4> HIDE DEF m0, pt, m1
      <4> QED
        BY <4>1, <4>2, <3>2, <2>1, <1>3, MemFacts, EmptyFacts
    <3> QED
      BY <3>1, <3>2
  <2>7. present => pt = m.at[pdt][d]
    OBVIOUS
  <2> HIDE DEF pt, m1
  <2>3. /\ k \in 0 .. n
        /\ \A j \in 0 .. (k - 1) : i + j \notin DOMAIN t
        /\ \/ k = n
           \/ i + k \in DOMAIN t
           \/ d = KERNEL_PDT_IDX
    <3> HIDE DEF d, i
    <3> QED
      BY <1>2, CountFacts
  <2> HIDE DEF k
  <2>4. m1.at \in [Phys -> PageTables] /\ t \in PageTables
    BY <2>1, <2>2, MemFacts
  <2>5. CASE k = 0
    <3>a. r = [m |-> m1, ok |-> FALSE]
      BY <1>1, <1>5, <2>5, Zenon
    <3>1. r.m = m1 /\ r.ok = FALSE
      BY <3>a
    <3>2. CASE present
      BY <3>1, <3>2, <2>2
    <3>3. CASE ~present
      <4>1. d = KERNEL_PDT_IDX
        BY <2>3, <2>5, <3>3, <2>2, EmptyFacts
      <4> QED
        BY <3>1, <3>3, <4>1, <2>1, <2>2
    <3> QED
      BY <3>2, <3>3
  <2>6. CASE k # 0
    <3>a. r = [m |-> m2, ok |-> k = n]
      BY <1>1, <1>5, <2>6, Zenon
    <3>1. r.m = m2 /\ (r.ok <=> k = n) /\ r.ok \in BOOLEAN
      <4> DEFINE b == k = n
                 x == [m |-> m2, ok |-> b]
      <4>1. x.m = m2 /\ x.ok = b
        BY Zenon
      <4>2. r = x
        BY <3>a
      <4>3. r.m = m2 /\ r.ok = b
        BY <4>1, <4>2, Zenon
      <4> HIDE DEF m2, x, r
      <4> QED BY <4>3, Zenon
    <3> DEFINE t2 == Filled(t, i, paddr, k)
               d2 == With(m1.at[pdt], d, pt)
    <3>2. t2 \in PageTables
      <4>1. i .. (i + k - 1) \subseteq Entries
        BY <1>2, <2>3, Constants DEF Entries
      <4>2. paddr \in Nat /\ k \in Nat /\ \A j \in 0 .. (k - 1) : paddr + j \in Phys
        BY <2>3, Constants
      <4> HIDE DEF i, t
      <4> QED
        BY <1>2, <2>4, <4>1, <4>2, FilledFacts
    <3>3. d2 \in PageTables
      BY <1>2, <2>1, <2>4, WithFacts
    <3> DEFINE mt == [m1 EXCEPT !.at[pt] = t2]
    <3>4. m2 = [mt EXCEPT !.at[pdt] = d2]
      BY <2>1, <2>2, <2>4 DEF Mem
    <3> HIDE DEF t2, d2
    <3>b. mt \in Mem /\ mt.free = m1.free /\ mt.at = [m1.at EXCEPT ![pt] = t2]
      BY <2>1, <2>2, <3>2, MemFacts
    <3> HIDE DEF mt, m2
    <3>5. m2 \in Mem /\ m2.free = m1.free /\ m2.at = [m1.at EXCEPT ![pt] = t2, ![pdt] = d2]
      BY <2>1, <3>b, <3>3, <3>4, MemFacts
    <3>6. m2.at[pt] = t2 /\ m2.at[pdt] = d2 /\ \A f \in Phys : f # pt /\ f # pdt => m2.at[f] = m1.at[f]
      BY <2>1, <2>4, <3>5
    <3>7. m1.at[pdt] = m.at[pdt] /\ \A f \in Phys : f # pt => m1.at[f] = m.at[f]
      BY <1>3, <2>1, <2>2
    <3>8. Links(m, m2, pdt, paddr, page, k, pt, t)
      <4>1. m2.at[pt] = Filled(t, i, paddr, k) /\ m2.at[pdt] = With(m.at[pdt], d, pt)
        BY <3>6, <3>7 DEF t2, d2
      <4>2. \A f \in Phys : f # pt /\ f # pdt => m2.at[f] = m.at[f]
        BY <3>6, <3>7
      <4>3. \/ d \in DOMAIN m.at[pdt] /\ pt = m.at[pdt][d] /\ m2.free = m.free /\ t = m.at[pt]
            \/ d \notin DOMAIN m.at[pdt] /\ pt \in m.free /\ m2.free = m.free \ {pt} /\ t = Empty
        BY <2>1, <2>2, <2>7, <3>5 DEF IS_ENTRY_PRESENT
      <4> HIDE DEF t
      <4> QED
        BY <2>3, <4>1, <4>2, <4>3 DEF Links
    <3>9. k \in 1 .. n
      BY <2>3, <2>6
    <3> HIDE DEF t
    <3> QED
      BY <1>5, <2>1, <2>3, <2>4, <3>1, <3>5, <3>8, <3>9
  <2> QED
    BY <2>5, <2>6
<1> QED
  BY <1>4, <1>5

LEMMA TranslateFacts ==
    ASSUME NEW m \in Mem, NEW pdt \in Phys, NEW page \in Nat,
           NEW d, d = VIRTUAL_TO_PDT_IDX(page), NEW i, i = VIRTUAL_TO_PT_IDX(page)
    PROVE  /\ Translate(m, pdt, page) # NotMapped <=>
                 d \in DOMAIN m.at[pdt] /\ i \in DOMAIN m.at[m.at[pdt][d]]
           /\ Translate(m, pdt, page) # NotMapped =>
                 /\ Translate(m, pdt, page) = m.at[m.at[pdt][d]][i]
                 /\ Translate(m, pdt, page) \in Phys
<1>1. d \in DOMAIN m.at[pdt] /\ i \in DOMAIN m.at[m.at[pdt][d]] => m.at[m.at[pdt][d]][i] \in Phys
  BY MemFacts, TableFacts
<1>2. NotMapped \notin Phys
  BY Constants DEF NotMapped
<1> QED
  BY <1>1, <1>2 DEF Translate, IS_ENTRY_PRESENT

\* Translations of the kernel stay, but for those to frames in B.
Kept(m, m2, B) ==
    \A page \in Nat : Translate(m, kernel_pdt, page) \notin B \cup {NotMapped} =>
        Translate(m2, kernel_pdt, page) = Translate(m, kernel_pdt, page)

KernelOK(m) == KernelTables(m) \subseteq Frames \cup {kernel_pt} /\ KernelTables(m) \cap m.free = {}

\* Translations stay when entries do.
LEMMA KeptEntries ==
    ASSUME NEW m \in Mem, NEW m2 \in Mem, NEW B,
           \A d \in DOMAIN m.at[kernel_pdt] :
              /\ d \in DOMAIN m2.at[kernel_pdt] /\ m2.at[kernel_pdt][d] = m.at[kernel_pdt][d],
           \A f \in KernelTables(m) : \A i \in DOMAIN m.at[f] :
              m.at[f][i] \in B \/ (i \in DOMAIN m2.at[f] /\ m2.at[f][i] = m.at[f][i])
    PROVE  Kept(m, m2, B)
<1> SUFFICES ASSUME NEW page \in Nat, Translate(m, kernel_pdt, page) \notin B \cup {NotMapped}
             PROVE  Translate(m2, kernel_pdt, page) = Translate(m, kernel_pdt, page)
  BY DEF Kept
<1> DEFINE d == VIRTUAL_TO_PDT_IDX(page)
           i == VIRTUAL_TO_PT_IDX(page)
           f == m.at[kernel_pdt][d]
<1>1. /\ d \in DOMAIN m.at[kernel_pdt] /\ i \in DOMAIN m.at[f]
      /\ Translate(m, kernel_pdt, page) = m.at[f][i]
  BY Constants, TranslateFacts
<1>2. f \in KernelTables(m)
  BY <1>1 DEF KernelTables
<1>3. /\ d \in DOMAIN m2.at[kernel_pdt] /\ m2.at[kernel_pdt][d] = f
      /\ i \in DOMAIN m2.at[f] /\ m2.at[f][i] = m.at[f][i]
  BY <1>1, <1>2
<1> QED
  BY <1>1, <1>3 DEF Translate, IS_ENTRY_PRESENT

\* Mapping pages of the kernel: at most one frame is taken, for a table; what was mapped
\* stays mapped.
LEMMA KernelMap ==
    ASSUME NEW m \in Mem, KernelOK(m), NEW paddr \in Phys, NEW page \in Pages,
           NEW n \in Nat, n > 0, VIRTUAL_TO_PT_IDX(page) + n <= NUM_ENTRIES,
           \A j \in 0 .. (n - 1) : paddr + j \in Phys
    PROVE  LET r == pdt_map_memory(m, kernel_pdt, paddr, page, n)
           IN  /\ r.m \in Mem /\ r.ok \in BOOLEAN
               /\ \E S \in SUBSET m.free :
                     /\ r.m.free = m.free \ S
                     /\ \/ KernelTables(r.m) = KernelTables(m) \cup S
                        \/ ~r.ok /\ KernelTables(r.m) = KernelTables(m)
                     /\ \A f \in Phys : f \notin KernelTables(m) \cup S \cup {kernel_pdt} =>
                           r.m.at[f] = m.at[f]
               /\ Kept(m, r.m, {})
               /\ r.ok => \A j \in 0 .. (n - 1) : Translate(r.m, kernel_pdt, page + j) = paddr + j
               /\ \A j \in 0 .. (n - 1) : Translate(m, kernel_pdt, page + j) = NotMapped =>
                     Translate(r.m, kernel_pdt, page + j) \in (paddr .. (paddr + n - 1)) \cup {NotMapped}
<1> DEFINE r == pdt_map_memory(m, kernel_pdt, paddr, page, n)
           d == VIRTUAL_TO_PDT_IDX(page)
           i == VIRTUAL_TO_PT_IDX(page)
<1>1. kernel_pdt \in Phys /\ kernel_pdt \notin m.free /\ m.at \in [Phys -> PageTables] /\ m.at[kernel_pdt] \in PageTables
  BY Constants, MemFacts
<1>2. \A e \in DOMAIN m.at[kernel_pdt] :
         /\ m.at[kernel_pdt][e] \in KernelTables(m) /\ m.at[kernel_pdt][e] \in Phys
         /\ m.at[kernel_pdt][e] # 0 /\ m.at[kernel_pdt][e] # kernel_pdt
  BY Constants DEF KernelOK, KernelTables
<1>3. d \in Entries /\ i \in Entries /\ d \in Nat /\ i \in Nat /\ page \in Nat
  BY PageInTable, PageSplit, Constants
<1>4. /\ r.m \in Mem /\ r.ok \in BOOLEAN
      /\ \/ r.m = m /\ ~r.ok
         \/ /\ ~r.ok
            /\ \E pt \in m.free : r.m.free = m.free \ {pt} /\ r.m.at = [m.at EXCEPT ![pt] = Empty]
         \/ \E pt \in Phys \ {0, kernel_pdt}, k \in 1 .. n, t \in PageTables :
               (r.ok <=> k = n) /\ Links(m, r.m, kernel_pdt, paddr, page, k, pt, t)
  BY <1>1, <1>2, MapFacts
<1>5. CASE r.m = m /\ ~r.ok
  <2>1. Kept(m, r.m, {})
    BY <1>5 DEF Kept
  <2>2. m.free = m.free \ {} /\ KernelTables(r.m) = KernelTables(m)
    BY <1>5
  <2> QED
    BY <1>4, <1>5, <2>1, <2>2
<1>6. ASSUME ~r.ok, NEW pt \in m.free, r.m.free = m.free \ {pt}, r.m.at = [m.at EXCEPT ![pt] = Empty]
      PROVE  /\ \E S \in SUBSET m.free :
                 /\ r.m.free = m.free \ S
                 /\ ~r.ok /\ KernelTables(r.m) = KernelTables(m)
                 /\ \A f \in Phys : f \notin KernelTables(m) \cup S \cup {kernel_pdt} =>
                       r.m.at[f] = m.at[f]
             /\ Kept(m, r.m, {})
             /\ \A j \in 0 .. (n - 1) : Translate(r.m, kernel_pdt, page + j) = Translate(m, kernel_pdt, page + j)
  <2>1. pt \in Phys /\ pt # kernel_pdt /\ pt \notin KernelTables(m)
    BY <1>1, MemFacts, Constants DEF KernelOK
  <2>2. \A f \in Phys : f # pt => r.m.at[f] = m.at[f]
    BY <1>1, <1>6, <2>1
  <2>3. r.m.at[kernel_pdt] = m.at[kernel_pdt] /\ \A f \in KernelTables(m) : r.m.at[f] = m.at[f]
    BY <1>1, <2>1, <2>2, Constants DEF KernelOK
  <2>4. KernelTables(r.m) = KernelTables(m)
    BY <2>3 DEF KernelTables
  <2>5. Kept(m, r.m, {})
    BY <1>4, <2>3, KeptEntries
  <2>6. \A j \in 0 .. (n - 1) : Translate(r.m, kernel_pdt, page + j) = Translate(m, kernel_pdt, page + j)
    BY <2>3 DEF Translate, IS_ENTRY_PRESENT, KernelTables
  <2>7. \E S \in SUBSET m.free :
            /\ r.m.free = m.free \ S
            /\ ~r.ok /\ KernelTables(r.m) = KernelTables(m)
            /\ \A f \in Phys : f \notin KernelTables(m) \cup S \cup {kernel_pdt} => r.m.at[f] = m.at[f]
    <3>1. {pt} \in SUBSET m.free /\ \A f \in Phys : f \notin KernelTables(m) \cup {pt} \cup {kernel_pdt} => f # pt
      BY <1>6
    <3> WITNESS {pt} \in SUBSET m.free
    <3> QED
      BY <1>6, <2>2, <2>4, <3>1
  <2> QED
    BY <2>5, <2>6, <2>7
<1>7. ASSUME NEW pt \in Phys \ {0, kernel_pdt}, NEW k \in 1 .. n, NEW t \in PageTables,
             r.ok <=> k = n, Links(m, r.m, kernel_pdt, paddr, page, k, pt, t)
      PROVE  /\ \E S \in SUBSET m.free :
                 /\ r.m.free = m.free \ S
                 /\ KernelTables(r.m) = KernelTables(m) \cup S
                 /\ \A f \in Phys : f \notin KernelTables(m) \cup S \cup {kernel_pdt} =>
                       r.m.at[f] = m.at[f]
             /\ Kept(m, r.m, {})
             /\ r.ok => \A j \in 0 .. (n - 1) : Translate(r.m, kernel_pdt, page + j) = paddr + j
             /\ \A j \in 0 .. (n - 1) : Translate(m, kernel_pdt, page + j) = NotMapped =>
                   Translate(r.m, kernel_pdt, page + j) \in (paddr .. (paddr + n - 1)) \cup {NotMapped}
  <2>1. /\ \/ /\ d \in DOMAIN m.at[kernel_pdt] /\ pt = m.at[kernel_pdt][d]
              /\ r.m.free = m.free /\ t = m.at[pt]
           \/ /\ d \notin DOMAIN m.at[kernel_pdt] /\ pt \in m.free
              /\ r.m.free = m.free \ {pt} /\ t = Empty
        /\ \A j \in 0 .. (k - 1) : i + j \notin DOMAIN t
        /\ r.m.at[pt] = Filled(t, i, paddr, k)
        /\ r.m.at[kernel_pdt] = With(m.at[kernel_pdt], d, pt)
        /\ \A f \in Phys : f # pt /\ f # kernel_pdt => r.m.at[f] = m.at[f]
    BY <1>7 DEF Links
  <2> HIDE DEF r
  <2>2. /\ DOMAIN r.m.at[kernel_pdt] = DOMAIN m.at[kernel_pdt] \cup {d}
        /\ r.m.at[kernel_pdt][d] = pt
        /\ \A e \in DOMAIN m.at[kernel_pdt] : r.m.at[kernel_pdt][e] = m.at[kernel_pdt][e]
    <3> DEFINE w == With(m.at[kernel_pdt], d, pt)
    <3>1. /\ DOMAIN w = DOMAIN m.at[kernel_pdt] \cup {d} /\ w[d] = pt
          /\ \A e \in DOMAIN m.at[kernel_pdt] : e # d => w[e] = m.at[kernel_pdt][e]
      <4>1. pt \in Phys /\ m.at[kernel_pdt] \in PageTables /\ d \in Entries
        BY <1>1, <1>3, <1>7
      <4> HIDE DEF d
      <4> QED BY <4>1, WithFacts DEF With
    <3>2. d \in DOMAIN m.at[kernel_pdt] => pt = m.at[kernel_pdt][d]
      BY <2>1
    <3>3. r.m.at[kernel_pdt] = w
      BY <2>1
    <3> HIDE DEF w
    <3> QED
      BY <3>1, <3>2, <3>3
  <2>3. /\ DOMAIN r.m.at[pt] = DOMAIN t \cup (i .. (i + k - 1))
        /\ \A j \in 0 .. (k - 1) : r.m.at[pt][i + j] = paddr + j
        /\ \A j \in DOMAIN t \ (i .. (i + k - 1)) : r.m.at[pt][j] = t[j]
    <3>1. i .. (i + k - 1) \subseteq Entries /\ \A j \in 0 .. (k - 1) : paddr + j \in Phys
      BY <1>3, Constants DEF Entries
    <3>2. k \in Nat /\ paddr \in Nat
      BY Constants
    <3>3. /\ DOMAIN Filled(t, i, paddr, k) = DOMAIN t \cup (i .. (i + k - 1))
          /\ \A j \in 0 .. (k - 1) : Filled(t, i, paddr, k)[i + j] = paddr + j
          /\ \A j \in DOMAIN t \ (i .. (i + k - 1)) : Filled(t, i, paddr, k)[j] = t[j]
      <4>1. i \in Nat /\ i .. (i + k - 1) \subseteq Entries /\ t \in PageTables
        BY <1>3, <3>1, <1>7
      <4> HIDE DEF i
      <4>2. DOMAIN Filled(t, i, paddr, k) = DOMAIN t \cup (i .. (i + k - 1))
        BY DEF Filled
      <4>3. \A j \in 0 .. (k - 1) : Filled(t, i, paddr, k)[i + j] = paddr + j
        BY <4>1, <3>2, FilledNew
      <4>4. \A j \in DOMAIN t \ (i .. (i + k - 1)) : Filled(t, i, paddr, k)[j] = t[j]
        BY <4>1, <3>2, FilledOld
      <4> QED BY <4>2, <4>3, <4>4
    <3>4. r.m.at[pt] = Filled(t, i, paddr, k)
      BY <2>1
    <3> QED
      BY <3>3, <3>4
  <2>4. \A j \in DOMAIN t : j \in DOMAIN r.m.at[pt] /\ r.m.at[pt][j] = t[j]
    <3> SUFFICES ASSUME NEW j \in DOMAIN t PROVE j \notin i .. (i + k - 1)
      BY <2>3
    <3>1. j \in Nat
      BY TableFacts, Constants
    <3>2. j \in i .. (i + k - 1) => j - i \in 0 .. (k - 1) /\ i + (j - i) = j
      BY <1>3, <3>1
    <3> QED
      BY <2>1, <3>2
  <2>5. \A f \in KernelTables(m) : \A j \in DOMAIN m.at[f] :
           j \in DOMAIN r.m.at[f] /\ r.m.at[f][j] = m.at[f][j]
    <3> TAKE f \in KernelTables(m)
    <3>1. f \in Phys /\ f # kernel_pdt /\ f \notin m.free
      BY Constants DEF KernelOK
    <3>2. f = pt => t = m.at[pt]
      BY <2>1, <3>1
    <3> QED
      BY <2>1, <2>4, <3>1, <3>2
  <2>6. Kept(m, r.m, {})
    BY <1>4, <2>2, <2>5, KeptEntries DEF r
  <2>7. r.ok => \A j \in 0 .. (n - 1) : Translate(r.m, kernel_pdt, page + j) = paddr + j
    <3> SUFFICES ASSUME k = n, NEW j \in 0 .. (n - 1)
                 PROVE  Translate(r.m, kernel_pdt, page + j) = paddr + j
      BY <1>7 DEF r
    <3>1. j \in Nat /\ i + j < NUM_ENTRIES /\ i + j \in i .. (i + k - 1)
      BY <1>3, Constants
    <3>2. VIRTUAL_TO_PDT_IDX(page + j) = d /\ VIRTUAL_TO_PT_IDX(page + j) = i + j
      BY <1>3, <3>1, PageNext
    <3>3. r.m.at[pt][i + j] = paddr + j /\ i + j \in DOMAIN r.m.at[pt]
      BY <2>3, <3>1
    <3> HIDE DEF d, i
    <3> QED
      BY <2>2, <3>2, <3>3 DEF Translate, IS_ENTRY_PRESENT
  <2>10. \A j \in 0 .. (n - 1) : Translate(m, kernel_pdt, page + j) = NotMapped =>
            Translate(r.m, kernel_pdt, page + j) \in (paddr .. (paddr + n - 1)) \cup {NotMapped}
    <3> SUFFICES ASSUME NEW j \in 0 .. (n - 1), Translate(m, kernel_pdt, page + j) = NotMapped
                 PROVE  Translate(r.m, kernel_pdt, page + j) \in (paddr .. (paddr + n - 1)) \cup {NotMapped}
      OBVIOUS
    <3>1. j \in Nat /\ i + j < NUM_ENTRIES /\ i + j \in Nat
      BY <1>3, Constants
    <3>2. VIRTUAL_TO_PDT_IDX(page + j) = d /\ VIRTUAL_TO_PT_IDX(page + j) = i + j /\ page + j \in Nat
      BY <1>3, <3>1, PageNext
    <3>3. ~(d \in DOMAIN m.at[kernel_pdt] /\ i + j \in DOMAIN m.at[m.at[kernel_pdt][d]])
      BY <3>2, TranslateFacts, Constants
    <3>4. i + j \notin DOMAIN t
      BY <2>1, <3>3, EmptyFacts
    <3>5. Translate(r.m, kernel_pdt, page + j) =
             IF i + j \in DOMAIN r.m.at[pt] THEN r.m.at[pt][i + j] ELSE NotMapped
      <4> HIDE DEF d, i
      <4> QED BY <2>2, <3>2 DEF Translate, IS_ENTRY_PRESENT
    <3>6. CASE i + j \in DOMAIN r.m.at[pt]
      <4>1. i + j \in i .. (i + k - 1)
        BY <2>3, <3>4, <3>6
      <4>2. j \in 0 .. (k - 1)
        BY <1>3, <4>1
      <4>3. r.m.at[pt][i + j] = paddr + j
        BY <2>3, <4>2
      <4>4. paddr + j \in paddr .. (paddr + n - 1)
        BY Constants
      <4> QED
        BY <3>5, <3>6, <4>3, <4>4
    <3> QED
      BY <3>5, <3>6
  <2>8. CASE d \in DOMAIN m.at[kernel_pdt]
    <3>1. pt = m.at[kernel_pdt][d] /\ r.m.free = m.free \ {}
      BY <2>1, <2>8
    <3>2. KernelTables(r.m) = KernelTables(m) \cup {}
      BY <2>2, <2>8, <3>1 DEF KernelTables
    <3>3. \A f \in Phys : f \notin KernelTables(m) \cup {} \cup {kernel_pdt} => r.m.at[f] = m.at[f]
      BY <1>2, <2>1, <2>8, <3>1
    <3> QED
      BY <2>6, <2>7, <2>10, <3>1, <3>2, <3>3 DEF r
  <2>9. CASE d \notin DOMAIN m.at[kernel_pdt]
    <3>1. pt \in m.free /\ r.m.free = m.free \ {pt}
      BY <2>1, <2>9
    <3>2. KernelTables(r.m) = KernelTables(m) \cup {pt}
      BY <2>2, <2>9 DEF KernelTables
    <3>3. \A f \in Phys : f \notin KernelTables(m) \cup {pt} \cup {kernel_pdt} => r.m.at[f] = m.at[f]
      BY <2>1
    <3> QED
      BY <2>6, <2>7, <2>10, <3>1, <3>2, <3>3 DEF r
  <2> QED
    BY <2>8, <2>9
<1> QED
  BY <1>4, <1>5, <1>6, <1>7

\* Mapping pages of a process where it has no table yet: one frame is taken, for the table.
LEMMA UserMap ==
    ASSUME NEW m \in Mem, NEW f \in Phys, f \notin m.free, NEW paddr \in Phys,
           NEW page \in Pages, NEW n \in Nat, n > 0,
           VIRTUAL_TO_PT_IDX(page) + n <= NUM_ENTRIES,
           \A j \in 0 .. (n - 1) : paddr + j \in Phys,
           VIRTUAL_TO_PDT_IDX(page) \notin DOMAIN m.at[f],
           VIRTUAL_TO_PDT_IDX(page) # KERNEL_PDT_IDX
    PROVE  LET r == pdt_map_memory(m, f, paddr, page, n)
               i == VIRTUAL_TO_PT_IDX(page)
           IN  /\ r.m \in Mem /\ r.ok \in BOOLEAN
               /\ ~r.ok => r.m = m
               /\ r.ok => \E pt \in m.free :
                     /\ r.m.free = m.free \ {pt}
                     /\ DOMAIN r.m.at[pt] = i .. (i + n - 1)
                     /\ \A j \in 0 .. (n - 1) : r.m.at[pt][i + j] = paddr + j
                     /\ r.m.at[f] = With(m.at[f], VIRTUAL_TO_PDT_IDX(page), pt)
                     /\ \A g \in Phys : g # pt /\ g # f => r.m.at[g] = m.at[g]
<1> DEFINE r == pdt_map_memory(m, f, paddr, page, n)
           d == VIRTUAL_TO_PDT_IDX(page)
           i == VIRTUAL_TO_PT_IDX(page)
<1>1. /\ r.m \in Mem /\ r.ok \in BOOLEAN
      /\ \/ r.m = m /\ ~r.ok
         \/ \E pt \in Phys \ {0, f}, k \in 1 .. n, t \in PageTables :
               /\ r.ok <=> k = n
               /\ k = n \/ i + k \in DOMAIN t
               /\ Links(m, r.m, f, paddr, page, k, pt, t)
  BY MapFacts
<1>2. CASE r.m = m /\ ~r.ok
  BY <1>1, <1>2
<1>3. ASSUME NEW pt \in Phys \ {0, f}, NEW k \in 1 .. n, NEW t \in PageTables,
             r.ok <=> k = n, k = n \/ i + k \in DOMAIN t,
             Links(m, r.m, f, paddr, page, k, pt, t)
      PROVE  /\ r.ok
             /\ pt \in m.free
             /\ r.m.free = m.free \ {pt}
             /\ DOMAIN r.m.at[pt] = i .. (i + n - 1)
             /\ \A j \in 0 .. (n - 1) : r.m.at[pt][i + j] = paddr + j
             /\ r.m.at[f] = With(m.at[f], d, pt)
             /\ \A g \in Phys : g # pt /\ g # f => r.m.at[g] = m.at[g]
  <2>1. /\ pt \in m.free /\ r.m.free = m.free \ {pt} /\ t = Empty
        /\ r.m.at[pt] = Filled(t, i, paddr, k)
        /\ r.m.at[f] = With(m.at[f], d, pt)
        /\ \A g \in Phys : g # pt /\ g # f => r.m.at[g] = m.at[g]
    BY <1>3 DEF Links
  <2>2. k = n /\ r.ok
    BY <1>3, <2>1, EmptyFacts
  <2>3. i \in Nat /\ paddr \in Nat
    BY Constants, PageInTable, PageSplit
  <2> HIDE DEF i, r
  <2>4. DOMAIN Filled(t, i, paddr, n) = i .. (i + n - 1)
    BY <2>1, EmptyFacts DEF Filled
  <2>5. ASSUME NEW j \in 0 .. (n - 1) PROVE Filled(t, i, paddr, n)[i + j] = paddr + j
    BY <2>3 DEF Filled
  <2> QED
    BY <2>1, <2>2, <2>4, <2>5
<1> QED
  BY <1>1, <1>2, <1>3

\* Unmapping pages of the kernel that lead to B takes nothing else away.
LEMMA KernelUnmap ==
    ASSUME NEW m \in Mem, KernelOK(m), NEW page \in Pages, NEW n \in Nat, n > 0,
           VIRTUAL_TO_PT_IDX(page) + n <= NUM_ENTRIES,
           VIRTUAL_TO_PDT_IDX(page) \in DOMAIN m.at[kernel_pdt],
           NEW B,
           \A j \in 0 .. (n - 1) : Translate(m, kernel_pdt, page + j) \in B \cup {NotMapped}
    PROVE  LET m2 == pdt_unmap_kernel_memory(m, page, n)
           IN  /\ m2 \in Mem /\ m2.free = m.free
               /\ KernelTables(m2) = KernelTables(m)
               /\ \A f \in Phys : f \notin KernelTables(m) => m2.at[f] = m.at[f]
               /\ Kept(m, m2, B)
<1> DEFINE d == VIRTUAL_TO_PDT_IDX(page)
           i == VIRTUAL_TO_PT_IDX(page)
           pt == m.at[kernel_pdt][d]
           t == Without(m.at[pt], i .. (i + n - 1))
           m2 == pdt_unmap_kernel_memory(m, page, n)
<1>1. /\ m.at \in [Phys -> PageTables] /\ m.at[kernel_pdt] \in PageTables
      /\ page \in Nat /\ d \in Nat /\ i \in Nat
  BY MemFacts, Constants, PageInTable, PageSplit
<1>2. pt \in KernelTables(m) /\ pt \in Phys /\ pt # kernel_pdt
  BY Constants DEF KernelTables, KernelOK
<1>3. m2 = [m EXCEPT !.at[pt] = t]
  BY DEF pdt_unmap_kernel_memory
<1>4. t \in PageTables /\ DOMAIN t = DOMAIN m.at[pt] \ (i .. (i + n - 1))
  BY <1>1, <1>2, WithoutFacts
<1>5. \A j \in DOMAIN m.at[pt] : j \notin i .. (i + n - 1) => t[j] = m.at[pt][j]
  BY DEF Without
<1>6. \A j \in DOMAIN m.at[pt] : j \in i .. (i + n - 1) => m.at[pt][j] \in B
  <2> SUFFICES ASSUME NEW j \in DOMAIN m.at[pt], j \in i .. (i + n - 1) PROVE m.at[pt][j] \in B
    OBVIOUS
  <2> DEFINE e == j - i
  <2>1. e \in 0 .. (n - 1) /\ e \in Nat /\ i + e = j /\ i + e < NUM_ENTRIES
    BY <1>1, Constants
  <2> HIDE DEF e
  <2>2. VIRTUAL_TO_PDT_IDX(page + e) = d /\ VIRTUAL_TO_PT_IDX(page + e) = j /\ page + e \in Nat
    BY <1>1, <2>1, PageNext
  <2>3. Translate(m, kernel_pdt, page + e) \in B \cup {NotMapped}
    BY <2>1
  <2>4. Translate(m, kernel_pdt, page + e) = m.at[pt][j]
    <3>1. kernel_pdt \in Phys /\ d \in DOMAIN m.at[kernel_pdt]
      BY Constants
    <3> HIDE DEF d
    <3> QED
      BY <2>2, <3>1 DEF Translate, IS_ENTRY_PRESENT
  <2>5. m.at[pt][j] \in Phys /\ NotMapped \notin Phys
    <3>1. m.at[pt] \in PageTables
      BY <1>1, <1>2
    <3> HIDE DEF pt
    <3> QED
      BY <3>1, TableFacts, Constants DEF NotMapped
  <2> QED
    BY <2>3, <2>4, <2>5
<1> HIDE DEF t, m2, pt
<1>7. m2 \in Mem /\ m2.free = m.free /\ m2.at = [m.at EXCEPT ![pt] = t]
  BY <1>2, <1>3, <1>4, MemFacts
<1>8. m2.at[kernel_pdt] = m.at[kernel_pdt] /\ m2.at[pt] = t /\ \A f \in Phys : f # pt => m2.at[f] = m.at[f]
  BY <1>1, <1>2, <1>7, Constants
<1>9. KernelTables(m2) = KernelTables(m)
  BY <1>8 DEF KernelTables
<1>10. \A f \in KernelTables(m) : \A j \in DOMAIN m.at[f] :
          m.at[f][j] \in B \/ (j \in DOMAIN m2.at[f] /\ m2.at[f][j] = m.at[f][j])
  <2> TAKE f \in KernelTables(m)
  <2> TAKE j \in DOMAIN m.at[f]
  <2>1. f \in Phys
    BY Constants DEF KernelOK
  <2>2. CASE f = pt
    BY <2>2, <1>4, <1>5, <1>6, <1>8
  <2>3. CASE f # pt
    BY <2>1, <2>3, <1>8
  <2> QED
    BY <2>2, <2>3
<1>11. Kept(m, m2, B)
  BY <1>7, <1>8, <1>10, KeptEntries
<1> QED
  BY <1>2, <1>7, <1>8, <1>9, <1>11 DEF m2

-----------------------------------------------------------------------------
(***************************************************************************)
(* How the accounts follow the state.                                      *)
(***************************************************************************)
Typed(m, s, cl, h, o) ==
    /\ m \in Mem /\ s \in [Procs -> PsTypes] /\ cl \in [Callers -> CallTypes]
    /\ h \in SUBSET Frames /\ o \in SUBSET Frames

PsKinds == {"pdt", "kernel_stack", "stack", "code", "table"}

LEMMA BlockNat ==
    ASSUME NEW f \in Nat, NEW n \in Nat
    PROVE  Block(f, n) \in SUBSET Nat
BY DEF Block

LEMMA SizeNat ==
    ASSUME NEW e
    PROVE  Size(e) \in Nat /\ Size(e) > 0 /\ Size(e) < NUM_ENTRIES
BY Constants DEF Size, Count

LEMMA TablesNat ==
    ASSUME NEW m \in Mem, NEW f \in Phys
    PROVE  Tables(m, f) \in SUBSET Phys
<1>1. m.at[f] \in PageTables
  BY MemFacts
<1>2. \A d \in DOMAIN m.at[f] : m.at[f][d] \in Phys
  BY <1>1, TableFacts
<1> QED
  BY <1>2 DEF Tables

LEMMA KernelTablesNat ==
    ASSUME NEW m \in Mem
    PROVE  KernelTables(m) \in SUBSET Phys
<1>1. m.at[kernel_pdt] \in PageTables
  BY MemFacts, Constants
<1>2. \A d \in DOMAIN m.at[kernel_pdt] : m.at[kernel_pdt][d] \in Phys
  BY <1>1, TableFacts
<1> QED
  BY <1>2 DEF KernelTables

LEMMA UsesOwn ==
    ASSUME NEW m, NEW s, NEW cl, NEW h, NEW o, Typed(m, s, cl, h, o)
    PROVE  Uses(m, s, cl, h, o) \in Own
<1> SUFFICES ASSUME NEW c \in Callers, NEW k \in Kinds
             PROVE  UseOf(m, s, cl, h, o, c, k) \in SUBSET Nat
  BY DEF Uses, Own
<1>1. Hold(cl[c]) \in SUBSET Nat
  <2>1. cl[c].paddr \in Nat
    BY Constants DEF Typed, CallTypes
  <2> QED
    BY <2>1, SizeNat, BlockNat DEF Hold
<1>2. BootUse(m, h, o, k) \in SUBSET Nat
  <2>1. h \in SUBSET Nat /\ o \in SUBSET Nat /\ KernelTables(m) \in SUBSET Nat
    BY KernelTablesNat, Constants DEF Typed
  <2> QED
    BY <2>1 DEF BootUse
<1>3. ASSUME c \in Procs PROVE PsUse(m, s[c], k) \in SUBSET Nat
  <2>1. /\ s[c].pdt_paddr \in Phys /\ s[c].code \in Phys /\ s[c].stack \in Phys
        /\ s[c].kernel_stack_paddr \in Phys
    BY <1>3 DEF Typed, PsTypes
  <2>2. Tables(m, s[c].pdt_paddr) \in SUBSET Nat
    BY <2>1, TablesNat, Constants DEF Typed
  <2>3. /\ Block(s[c].pdt_paddr, 1) \in SUBSET Nat /\ Block(s[c].kernel_stack_paddr, 1) \in SUBSET Nat
        /\ Block(s[c].stack, 1) \in SUBSET Nat /\ Block(s[c].code, CODE_PAGES) \in SUBSET Nat
    BY <2>1, Constants, BlockNat
  <2> QED
    BY <2>2, <2>3 DEF PsUse
<1>4. c \in Using(s) => c \in Procs
  BY DEF Using
<1> QED
  BY <1>1, <1>2, <1>3, <1>4 DEF UseOf

LEMMA UsesAt ==
    ASSUME NEW m, NEW s, NEW cl, NEW h, NEW o, NEW c \in Callers, NEW k \in Kinds
    PROVE  Uses(m, s, cl, h, o)[c][k] = UseOf(m, s, cl, h, o, c, k)
BY DEF Uses

\* The accounts one by one.
LEMMA UsesIs ==
    ASSUME NEW m, NEW s, NEW cl, NEW h, NEW o
    PROVE  /\ \A c \in Callers : Uses(m, s, cl, h, o)[c]["call"] = Hold(cl[c])
           /\ Uses(m, s, cl, h, o)[boot]["heap"] = h
           /\ Uses(m, s, cl, h, o)[boot]["kernel"] = KernelTables(m)
           /\ Uses(m, s, cl, h, o)[boot]["orphan"] = o
           /\ \A p \in Using(s) :
                 /\ Uses(m, s, cl, h, o)[p]["pdt"] = Block(s[p].pdt_paddr, 1)
                 /\ Uses(m, s, cl, h, o)[p]["kernel_stack"] = Block(s[p].kernel_stack_paddr, 1)
                 /\ Uses(m, s, cl, h, o)[p]["stack"] = Block(s[p].stack, 1)
                 /\ Uses(m, s, cl, h, o)[p]["code"] = Block(s[p].code, CODE_PAGES)
                 /\ Uses(m, s, cl, h, o)[p]["table"] = Tables(m, s[p].pdt_paddr)
<1>1. \A p \in Using(s) : p \in Callers /\ p # boot
  BY Constants DEF Using
<1>2. /\ \A k \in PsKinds : k \in Kinds /\ k # "call"
      /\ "call" \in Kinds /\ "heap" \in Kinds /\ "kernel" \in Kinds /\ "orphan" \in Kinds
  BY DEF Kinds, PsKinds
<1>3. \A p \in Using(s), k \in PsKinds : Uses(m, s, cl, h, o)[p][k] = PsUse(m, s[p], k)
  BY <1>1, <1>2, UsesAt DEF UseOf
<1>4. \A p \in Using(s) :
                 /\ Uses(m, s, cl, h, o)[p]["pdt"] = Block(s[p].pdt_paddr, 1)
                 /\ Uses(m, s, cl, h, o)[p]["kernel_stack"] = Block(s[p].kernel_stack_paddr, 1)
                 /\ Uses(m, s, cl, h, o)[p]["stack"] = Block(s[p].stack, 1)
                 /\ Uses(m, s, cl, h, o)[p]["code"] = Block(s[p].code, CODE_PAGES)
                 /\ Uses(m, s, cl, h, o)[p]["table"] = Tables(m, s[p].pdt_paddr)
  BY <1>3 DEF PsUse, PsKinds
<1>5. \A c \in Callers : Uses(m, s, cl, h, o)[c]["call"] = Hold(cl[c])
  BY <1>2, UsesAt DEF UseOf
<1>6. /\ Uses(m, s, cl, h, o)[boot]["heap"] = h
      /\ Uses(m, s, cl, h, o)[boot]["kernel"] = KernelTables(m)
      /\ Uses(m, s, cl, h, o)[boot]["orphan"] = o
  BY <1>2, UsesAt, Constants DEF UseOf, BootUse
<1> QED
  BY <1>4, <1>5, <1>6

\* A call takes or gives up frames.
LEMMA UsesCall ==
    ASSUME NEW m, NEW s, NEW cl, NEW h, NEW o, Typed(m, s, cl, h, o),
           NEW c \in Callers, NEW e \in CallTypes
    PROVE  /\ Typed(m, s, [cl EXCEPT ![c] = e], h, o)
           /\ Uses(m, s, [cl EXCEPT ![c] = e], h, o) = Put(Uses(m, s, cl, h, o), c, "call", Hold(e))
<1> DEFINE cl2 == [cl EXCEPT ![c] = e]
           a == Uses(m, s, cl2, h, o)
           b == Uses(m, s, cl, h, o)
<1>1. Typed(m, s, cl2, h, o)
  BY DEF Typed
<1>2. cl2[c] = e /\ \A d \in Callers : d # c => cl2[d] = cl[d]
  BY DEF Typed
<1>3. a \in Own /\ b \in Own /\ Hold(e) \in SUBSET Nat /\ "call" \in Kinds
  <2>1. e.paddr \in Nat
    BY Constants DEF CallTypes
  <2>2. Hold(e) \in SUBSET Nat
    BY <2>1, SizeNat, BlockNat DEF Hold
  <2> HIDE DEF cl2
  <2> QED
    BY <1>1, <2>2, UsesOwn DEF Kinds
<1> HIDE DEF cl2
<1>4. ASSUME NEW d \in Callers, NEW k \in Kinds PROVE a[d][k] = Put(b, c, "call", Hold(e))[d][k]
  <2>1. CASE d = c /\ k = "call"
    BY <1>2, <1>3, <2>1, PutAt, UsesAt DEF UseOf
  <2>2. CASE d # c \/ k # "call"
    <3>1. Put(b, c, "call", Hold(e))[d][k] = b[d][k]
      BY <1>3, <2>2, PutAt
    <3>2. UseOf(m, s, cl2, h, o, d, k) = UseOf(m, s, cl, h, o, d, k)
      BY <1>2, <2>2 DEF UseOf
    <3> QED
      BY <3>1, <3>2, UsesAt
  <2> QED
    BY <2>1, <2>2
<1> HIDE DEF a, b
<1>5. Put(b, c, "call", Hold(e)) \in Own
  BY <1>3, PutAt
<1>6. a = Put(b, c, "call", Hold(e))
  BY <1>3, <1>4, <1>5, OwnEqual
<1> QED
  BY <1>1, <1>6 DEF a, b, cl2

\* Memory changes; the tables of processes are the same.
LEMMA UsesMem ==
    ASSUME NEW m, NEW s, NEW cl, NEW h, NEW o, Typed(m, s, cl, h, o), NEW m2 \in Mem,
           \A p \in Using(s) : Tables(m2, s[p].pdt_paddr) = Tables(m, s[p].pdt_paddr)
    PROVE  /\ Typed(m2, s, cl, h, o)
           /\ Uses(m2, s, cl, h, o) = Put(Uses(m, s, cl, h, o), boot, "kernel", KernelTables(m2))
<1> DEFINE a == Uses(m2, s, cl, h, o)
           b == Uses(m, s, cl, h, o)
           K == KernelTables(m2)
<1>1. Typed(m2, s, cl, h, o)
  BY DEF Typed
<1>2. a \in Own /\ b \in Own /\ K \in SUBSET Nat /\ "kernel" \in Kinds /\ boot \in Callers
  BY <1>1, UsesOwn, KernelTablesNat, Constants DEF Kinds
<1>3. ASSUME NEW d \in Callers, NEW k \in Kinds PROVE a[d][k] = Put(b, boot, "kernel", K)[d][k]
  <2>1. CASE d = boot /\ k = "kernel"
    BY <1>2, <2>1, PutAt, UsesAt DEF UseOf, BootUse
  <2>2. CASE d # boot \/ k # "kernel"
    <3>1. Put(b, boot, "kernel", K)[d][k] = b[d][k]
      BY <1>2, <2>2, PutAt
    <3>2. d = boot => BootUse(m2, h, o, k) = BootUse(m, h, o, k)
      BY <2>2 DEF BootUse
    <3>3. d \in Using(s) => PsUse(m2, s[d], k) = PsUse(m, s[d], k)
      BY DEF PsUse
    <3>4. UseOf(m2, s, cl, h, o, d, k) = UseOf(m, s, cl, h, o, d, k)
      BY <3>2, <3>3 DEF UseOf
    <3> QED
      BY <3>1, <3>4, UsesAt
  <2> QED
    BY <2>1, <2>2
<1> HIDE DEF a, b, K
<1>4. Put(b, boot, "kernel", K) \in Own
  BY <1>2, PutAt
<1>5. a = Put(b, boot, "kernel", K)
  BY <1>2, <1>3, <1>4, OwnEqual
<1> QED
  BY <1>1, <1>5 DEF a, b, K

\* Memory changes; q gets a table.
LEMMA UsesTable ==
    ASSUME NEW m, NEW s, NEW cl, NEW h, NEW o, Typed(m, s, cl, h, o), NEW m2 \in Mem,
           NEW q \in Using(s), KernelTables(m2) = KernelTables(m),
           \A p \in Using(s) : p # q => Tables(m2, s[p].pdt_paddr) = Tables(m, s[p].pdt_paddr)
    PROVE  /\ Typed(m2, s, cl, h, o)
           /\ Uses(m2, s, cl, h, o) = Put(Uses(m, s, cl, h, o), q, "table", Tables(m2, s[q].pdt_paddr))
<1> DEFINE a == Uses(m2, s, cl, h, o)
           b == Uses(m, s, cl, h, o)
           K == Tables(m2, s[q].pdt_paddr)
<1>1. Typed(m2, s, cl, h, o)
  BY DEF Typed
<1>2. a \in Own /\ b \in Own /\ K \in SUBSET Nat /\ "table" \in Kinds /\ q \in Callers /\ q # boot
  <2>1. q \in Procs /\ s[q].pdt_paddr \in Phys
    BY DEF Typed, PsTypes, Using
  <2> QED
    BY <1>1, <2>1, UsesOwn, TablesNat, Constants DEF Kinds
<1>3. ASSUME NEW d \in Callers, NEW k \in Kinds PROVE a[d][k] = Put(b, q, "table", K)[d][k]
  <2>1. CASE d = q /\ k = "table"
    BY <1>2, <2>1, PutAt, UsesAt DEF UseOf, PsUse
  <2>2. CASE d # q \/ k # "table"
    <3>1. Put(b, q, "table", K)[d][k] = b[d][k]
      BY <1>2, <2>2, PutAt
    <3>2. BootUse(m2, h, o, k) = BootUse(m, h, o, k)
      BY DEF BootUse
    <3>3. d \in Using(s) => PsUse(m2, s[d], k) = PsUse(m, s[d], k)
      BY <2>2 DEF PsUse
    <3>4. UseOf(m2, s, cl, h, o, d, k) = UseOf(m, s, cl, h, o, d, k)
      BY <3>2, <3>3 DEF UseOf
    <3> QED
      BY <3>1, <3>4, UsesAt
  <2> QED
    BY <2>1, <2>2
<1> HIDE DEF a, b, K
<1>4. Put(b, q, "table", K) \in Own
  BY <1>2, PutAt
<1>5. a = Put(b, q, "table", K)
  BY <1>2, <1>3, <1>4, OwnEqual
<1> QED
  BY <1>1, <1>5 DEF a, b, K

\* A struct gets frames of the kind k, or of none.
LEMMA UsesPs ==
    ASSUME NEW m, NEW s, NEW cl, NEW h, NEW o, Typed(m, s, cl, h, o),
           NEW q \in Procs, NEW e \in PsTypes, e.st \in {"loading", "live"}, q \in Using(s),
           NEW k \in PsKinds,
           \A l \in PsKinds \ {k} : PsUse(m, e, l) = PsUse(m, s[q], l)
    PROVE  /\ Typed(m, [s EXCEPT ![q] = e], cl, h, o)
           /\ Uses(m, [s EXCEPT ![q] = e], cl, h, o) = Put(Uses(m, s, cl, h, o), q, k, PsUse(m, e, k))
<1> DEFINE s2 == [s EXCEPT ![q] = e]
           a == Uses(m, s2, cl, h, o)
           b == Uses(m, s, cl, h, o)
           K == PsUse(m, e, k)
<1>1. Typed(m, s2, cl, h, o) /\ s2[q] = e /\ \A p \in Procs : p # q => s2[p] = s[p]
  BY DEF Typed
<1>2. Using(s2) = Using(s)
  BY <1>1 DEF Using
<1>3. q \in Callers /\ q # boot /\ k \in Kinds /\ k # "call"
  BY Constants DEF Kinds, PsKinds
<1> HIDE DEF s2
<1>4. a \in Own /\ b \in Own /\ a[q][k] = K
  BY <1>1, <1>2, <1>3, UsesOwn, UsesAt DEF UseOf
<1>5. K \in SUBSET Nat
  BY <1>3, <1>4 DEF Own
<1>6. ASSUME NEW d \in Callers, NEW l \in Kinds, d # q \/ l # k PROVE a[d][l] = b[d][l]
  <2>1. CASE d # q
    <3>1. d \in Using(s) => s2[d] = s[d]
      BY <1>1, <2>1 DEF Using
    <3> QED
      BY <1>2, <3>1, UsesAt DEF UseOf
  <2>2. CASE d = q
    <3>1. l \in PsKinds => PsUse(m, e, l) = PsUse(m, s[q], l)
      BY <1>6, <2>2
    <3>2. l \notin PsKinds => PsUse(m, e, l) = PsUse(m, s[q], l)
      BY DEF PsKinds, PsUse
    <3> QED
      BY <1>1, <1>2, <2>2, <3>1, <3>2, UsesAt DEF UseOf
  <2> QED
    BY <2>1, <2>2
<1> HIDE DEF a, b, K
<1>7. /\ Put(b, q, k, K) \in Own /\ Put(b, q, k, K)[q][k] = K
      /\ \A d \in Callers, l \in Kinds : d # q \/ l # k => Put(b, q, k, K)[d][l] = b[d][l]
  BY <1>3, <1>4, <1>5, PutAt
<1>8. \A d \in Callers, l \in Kinds : a[d][l] = Put(b, q, k, K)[d][l]
  BY <1>4, <1>6, <1>7
<1>9. a = Put(b, q, k, K)
  BY <1>4, <1>7, <1>8, OwnEqual
<1> QED
  BY <1>1, <1>9 DEF a, b, K, s2

\* A struct changes, but not its frames.
LEMMA UsesPsSame ==
    ASSUME NEW m, NEW s, NEW cl, NEW h, NEW o, Typed(m, s, cl, h, o),
           NEW q \in Procs, NEW e \in PsTypes, e.st \in {"loading", "live"},
           \A l \in PsKinds : PsUse(m, e, l) = IF q \in Using(s) THEN PsUse(m, s[q], l) ELSE {}
    PROVE  /\ Typed(m, [s EXCEPT ![q] = e], cl, h, o)
           /\ Uses(m, [s EXCEPT ![q] = e], cl, h, o) = Uses(m, s, cl, h, o)
<1> DEFINE s2 == [s EXCEPT ![q] = e]
           a == Uses(m, s2, cl, h, o)
           b == Uses(m, s, cl, h, o)
<1>1. Typed(m, s2, cl, h, o) /\ s2[q] = e /\ \A p \in Procs : p # q => s2[p] = s[p]
  BY DEF Typed
<1>2. q \in Using(s2) /\ \A p \in Procs : p # q => (p \in Using(s2) <=> p \in Using(s))
  BY <1>1 DEF Using
<1>3. q \in Callers /\ q # boot
  BY Constants
<1> HIDE DEF s2
<1>4. a \in Own /\ b \in Own
  BY <1>1, UsesOwn
<1>6. ASSUME NEW d \in Callers, NEW l \in Kinds PROVE a[d][l] = b[d][l]
  <2>1. CASE d # q
    <3>1. d \in Using(s) => s2[d] = s[d]
      BY <1>1, <2>1 DEF Using
    <3>2. d \in Using(s) <=> d \in Using(s2)
      BY <1>2, <2>1 DEF Using
    <3> QED
      BY <3>1, <3>2, UsesAt DEF UseOf
  <2>2. CASE d = q
    <3>1. PsUse(m, e, l) = IF q \in Using(s) THEN PsUse(m, s[q], l) ELSE {}
      <4>1. CASE l \in PsKinds
        BY <4>1
      <4>2. CASE l \notin PsKinds
        BY <4>2 DEF PsKinds, PsUse
      <4> QED
        BY <4>1, <4>2
    <3>2. a[q][l] = IF l = "call" THEN Hold(cl[q]) ELSE PsUse(m, e, l)
      BY <1>1, <1>2, <1>3, UsesAt DEF UseOf
    <3>3. b[q][l] = IF l = "call" THEN Hold(cl[q]) ELSE IF q \in Using(s) THEN PsUse(m, s[q], l) ELSE {}
      BY <1>3, UsesAt DEF UseOf
    <3> QED
      BY <2>2, <3>1, <3>2, <3>3
  <2> QED
    BY <2>1, <2>2
<1> HIDE DEF a, b
<1>9. a = b
  BY <1>4, <1>6, OwnEqual
<1> QED
  BY <1>1, <1>9 DEF a, b, s2

\* A struct is given up; its tables are orphans.
LEMMA UsesGone ==
    ASSUME NEW m, NEW s, NEW cl, NEW h, NEW o, Typed(m, s, cl, h, o),
           NEW q \in Using(s), NEW e \in PsTypes, e.st \notin {"loading", "live"},
           NEW o2 \in SUBSET Frames
    PROVE  LET a == Uses(m, [s EXCEPT ![q] = e], cl, h, o2)
               b == Uses(m, s, cl, h, o)
           IN  /\ Typed(m, [s EXCEPT ![q] = e], cl, h, o2)
               /\ \A k \in PsKinds : a[q][k] = {}
               /\ a[boot]["orphan"] = o2
               /\ \A d \in Callers, k \in Kinds :
                     (d # q \/ k \notin PsKinds) /\ (d # boot \/ k # "orphan") => a[d][k] = b[d][k]
<1> DEFINE s2 == [s EXCEPT ![q] = e]
           a == Uses(m, s2, cl, h, o2)
           b == Uses(m, s, cl, h, o)
<1>0. q \in Procs
  BY DEF Using
<1>1. Typed(m, s2, cl, h, o2) /\ s2[q] = e /\ \A p \in Procs : p # q => s2[p] = s[p]
  BY <1>0 DEF Typed
<1>2. q \notin Using(s2) /\ \A p \in Procs : p # q => (p \in Using(s2) <=> p \in Using(s))
  BY <1>1 DEF Using
<1>3. q \in Callers /\ q # boot /\ PsKinds \subseteq Kinds /\ "call" \notin PsKinds
  BY <1>0, Constants DEF Kinds, PsKinds
<1> HIDE DEF s2
<1>4. \A k \in PsKinds : a[q][k] = {}
  BY <1>2, <1>3, UsesAt DEF UseOf
<1>5. a[boot]["orphan"] = o2
  BY UsesIs
<1>6. ASSUME NEW d \in Callers, NEW l \in Kinds, d # q \/ l \notin PsKinds, d # boot \/ l # "orphan"
      PROVE  a[d][l] = b[d][l]
  <2>1. CASE d = boot
    <3>1. BootUse(m, h, o2, l) = BootUse(m, h, o, l)
      BY <1>6, <2>1 DEF BootUse
    <3> QED
      BY <2>1, <3>1, UsesAt DEF UseOf
  <2>2. CASE d # q /\ d # boot
    <3>1. d \in Using(s) => s2[d] = s[d]
      BY <1>1, <2>2 DEF Using
    <3>2. d \in Using(s) <=> d \in Using(s2)
      BY <1>2, <2>2 DEF Using
    <3>3. UseOf(m, s2, cl, h, o2, d, l) = UseOf(m, s, cl, h, o, d, l)
      BY <2>2, <3>1, <3>2 DEF UseOf
    <3> QED
      BY <3>3, UsesAt
  <2>3. CASE d = q
    <3>1. PsUse(m, s[q], l) = {}
      BY <1>6, <2>3 DEF PsUse, PsKinds
    <3>2. a[q][l] = IF l = "call" THEN Hold(cl[q]) ELSE {}
      BY <1>2, <1>3, UsesAt DEF UseOf
    <3>3. b[q][l] = IF l = "call" THEN Hold(cl[q]) ELSE PsUse(m, s[q], l)
      BY <1>3, UsesAt DEF UseOf
    <3> QED
      BY <2>3, <3>1, <3>2, <3>3
  <2> QED
    BY <2>1, <2>2, <2>3
<1> QED
  BY <1>1, <1>4, <1>5, <1>6 DEF s2

\* The heap grows.
LEMMA UsesHeap ==
    ASSUME NEW m, NEW s, NEW cl, NEW h, NEW o, Typed(m, s, cl, h, o), NEW h2 \in SUBSET Frames
    PROVE  /\ Typed(m, s, cl, h2, o)
           /\ Uses(m, s, cl, h2, o) = Put(Uses(m, s, cl, h, o), boot, "heap", h2)
<1> DEFINE a == Uses(m, s, cl, h2, o)
           b == Uses(m, s, cl, h, o)
<1>1. Typed(m, s, cl, h2, o)
  BY DEF Typed
<1>2. a \in Own /\ b \in Own /\ h2 \in SUBSET Nat /\ "heap" \in Kinds /\ boot \in Callers
  BY <1>1, UsesOwn, Constants DEF Kinds
<1>3. ASSUME NEW d \in Callers, NEW k \in Kinds PROVE a[d][k] = Put(b, boot, "heap", h2)[d][k]
  <2>1. CASE d = boot /\ k = "heap"
    BY <1>2, <2>1, PutAt, UsesAt DEF UseOf, BootUse
  <2>2. CASE d # boot \/ k # "heap"
    <3>1. Put(b, boot, "heap", h2)[d][k] = b[d][k]
      BY <1>2, <2>2, PutAt
    <3>2. d = boot => BootUse(m, h2, o, k) = BootUse(m, h, o, k)
      BY <2>2 DEF BootUse
    <3>4. UseOf(m, s, cl, h2, o, d, k) = UseOf(m, s, cl, h, o, d, k)
      BY <3>2 DEF UseOf
    <3> QED
      BY <3>1, <3>4, UsesAt
  <2> QED
    BY <2>1, <2>2
<1> HIDE DEF a, b
<1>4. Put(b, boot, "heap", h2) \in Own
  BY <1>2, PutAt
<1>5. a = Put(b, boot, "heap", h2)
  BY <1>2, <1>3, <1>4, OwnEqual
<1> QED
  BY <1>1, <1>5 DEF a, b

\* The frames of a struct become free, its tables orphans.
LEMMA LedgerGone ==
    ASSUME NEW own \in Own, NEW free \in SUBSET Frames, NEW exact \in BOOLEAN,
           Ledger(own, free, exact), NEW a \in Own, NEW q \in Procs,
           \A k \in PsKinds : a[q][k] = {},
           a[boot]["orphan"] = own[boot]["orphan"] \cup own[q]["table"],
           \A d \in Callers, k \in Kinds :
              (d # q \/ k \notin PsKinds) /\ (d # boot \/ k # "orphan") => a[d][k] = own[d][k],
           NEW free2 \in SUBSET Frames,
           free2 = free \cup own[q]["pdt"] \cup own[q]["kernel_stack"]
                        \cup own[q]["code"] \cup own[q]["stack"]
    PROVE  Ledger(a, free2, exact)
<1>0. q \in Callers /\ q # boot /\ boot \in Callers /\ PsKinds \subseteq Kinds /\ "orphan" \in Kinds
  BY Constants DEF Kinds, PsKinds
<1>1. \A d \in Callers, k \in Kinds : own[d][k] \subseteq (IF k = "kernel" THEN Frames \cup {kernel_pt} ELSE Frames)
  BY DEF Ledger
<1>2. \A d \in Callers, k \in Kinds : own[d][k] \cap free = {}
  BY DEF Ledger
<1>3. \A c, d \in Callers, k, l \in Kinds : (c # d \/ k # l) => own[c][k] \cap own[d][l] = {}
  BY DEF Ledger
<1>4. ASSUME NEW d \in Callers, NEW k \in Kinds, NEW f \in a[d][k]
      PROVE  \/ f \in own[d][k] /\ (d # q \/ k \notin PsKinds)
             \/ d = boot /\ k = "orphan" /\ f \in own[q]["table"]
  BY <1>0, <1>4
<1>5. ASSUME NEW d \in Callers, NEW k \in Kinds, NEW f \in a[d][k] PROVE f \notin free2
  <2>1. "table" \in Kinds /\ "pdt" \in Kinds /\ "code" \in Kinds /\ "stack" \in Kinds /\ "kernel_stack" \in Kinds
    BY DEF Kinds
  <2>2. PsKinds = {"pdt", "kernel_stack", "stack", "code", "table"}
    BY DEF PsKinds
  <2>3. CASE f \in own[d][k] /\ (d # q \/ k \notin PsKinds)
    <3>1. f \notin free
      BY <1>2, <2>3
    <3>2. \A l \in PsKinds : f \notin own[q][l]
      BY <1>0, <1>3, <2>3
    <3> QED
      BY <3>1, <3>2, <2>2
  <2>4. CASE f \in own[q]["table"]
    <3>1. f \notin free
      BY <1>0, <1>2, <2>1, <2>4
    <3>2. \A l \in PsKinds : l # "table" => f \notin own[q][l]
      BY <1>0, <1>3, <2>1, <2>4
    <3> QED
      BY <3>1, <3>2, <2>2
  <2> QED
    BY <1>4, <1>5, <2>3, <2>4
<1>6. ASSUME NEW c \in Callers, NEW d \in Callers, NEW k \in Kinds, NEW l \in Kinds, c # d \/ k # l,
             NEW f \in a[c][k], f \in a[d][l]
      PROVE  FALSE
  <2>1. "table" \in Kinds /\ "table" \in PsKinds /\ "orphan" \notin PsKinds
    BY DEF Kinds, PsKinds
  <2>2. \/ f \in own[c][k] /\ (c # q \/ k \notin PsKinds)
        \/ c = boot /\ k = "orphan" /\ f \in own[q]["table"]
    BY <1>4
  <2>3. \/ f \in own[d][l] /\ (d # q \/ l \notin PsKinds)
        \/ d = boot /\ l = "orphan" /\ f \in own[q]["table"]
    BY <1>4, <1>6
  <2> QED
    BY <1>0, <1>3, <1>6, <2>1, <2>2, <2>3
<1>7. ASSUME NEW d \in Callers, NEW k \in Kinds
      PROVE  a[d][k] \subseteq (IF k = "kernel" THEN Frames \cup {kernel_pt} ELSE Frames)
  <2>1. own[q]["table"] \subseteq Frames
    BY <1>0, <1>1 DEF Kinds
  <2> QED
    BY <1>1, <1>4, <2>1
<1>8. ASSUME exact, NEW f \in Frames, f \notin free2 PROVE \E c \in Callers, k \in Kinds : f \in a[c][k]
  <2>1. f \notin free
    BY <1>8
  <2>2. PICK c \in Callers, k \in Kinds : f \in own[c][k]
    BY <1>8, <2>1 DEF Ledger
  <2>3. CASE c = q /\ k \in PsKinds
    <3>1. k = "table"
      BY <1>8, <2>2, <2>3 DEF PsKinds
    <3> QED
      BY <1>0, <2>2, <2>3, <3>1
  <2>4. CASE c = boot /\ k = "orphan"
    BY <1>0, <2>2, <2>4
  <2>5. CASE (c # q \/ k \notin PsKinds) /\ (c # boot \/ k # "orphan")
    BY <2>2, <2>5
  <2> QED
    BY <2>3, <2>4, <2>5
<1> QED
  BY <1>5, <1>6, <1>7, <1>8 DEF Ledger

-----------------------------------------------------------------------------
(***************************************************************************)
(* What the invariant says of frames.                                      *)
(***************************************************************************)
LEMMA InvTyped ==
    ASSUME NEW m, NEW s, NEW cl, NEW h, NEW o, NEW fl, Inv(m, s, cl, h, o, fl)
    PROVE  /\ Typed(m, s, cl, h, o) /\ fl \in BOOLEAN /\ (~fl) \in BOOLEAN
           /\ Uses(m, s, cl, h, o) \in Own
           /\ Ledger(Uses(m, s, cl, h, o), m.free, ~fl)
           /\ m.free \in SUBSET Frames
           /\ KernelOK(m)
<1>0. (~fl) \in BOOLEAN
  BY Zenon
<1>1. Typed(m, s, cl, h, o) /\ fl \in BOOLEAN /\ m.free \in SUBSET Frames
  BY MemFacts DEF Inv, Typed
<1>2. Ledger(Uses(m, s, cl, h, o), m.free, ~fl)
  BY DEF Inv
<1>3. KernelOK(m)
  <2>1. Uses(m, s, cl, h, o)[boot]["kernel"] = KernelTables(m)
    BY UsesIs
  <2>2. boot \in Callers /\ "kernel" \in Kinds
    BY Constants DEF Kinds
  <2> QED
    BY <1>2, <2>1, <2>2 DEF Ledger, KernelOK
<1>4. Uses(m, s, cl, h, o) \in Own
  BY <1>1, UsesOwn
<1> QED
  BY <1>0, <1>1, <1>2, <1>3, <1>4, Zenon

\* The frames of a struct: the directory and the tables.
LEMMA ProcFrames ==
    ASSUME NEW m, NEW s, NEW cl, NEW h, NEW o, NEW fl, Inv(m, s, cl, h, o, fl),
           NEW p \in Using(s), s[p].pdt_paddr # 0
    PROVE  LET f == s[p].pdt_paddr
           IN  /\ f \in Frames /\ f \notin m.free /\ f \notin KernelTables(m)
               /\ f \notin Tables(m, f)
               /\ Tables(m, f) \subseteq Frames /\ Tables(m, f) \cap m.free = {}
               /\ Tables(m, f) \cap KernelTables(m) = {}
               /\ \A c \in Callers : f \notin Hold(cl[c]) /\ Tables(m, f) \cap Hold(cl[c]) = {}
               /\ \A q \in Using(s) : q # p =>
                     /\ f # s[q].pdt_paddr /\ f \notin Tables(m, s[q].pdt_paddr)
                     /\ Tables(m, f) \cap Tables(m, s[q].pdt_paddr) = {}
<1> DEFINE u == Uses(m, s, cl, h, o)
           f == s[p].pdt_paddr
<1>1. Ledger(u, m.free, ~fl) /\ f \in Nat
  <2>1. Typed(m, s, cl, h, o) /\ p \in Procs /\ Ledger(u, m.free, ~fl)
    BY InvTyped DEF Using
  <2>2. f \in Phys
    BY <2>1 DEF Typed, PsTypes
  <2> QED
    BY <2>1, <2>2, Constants
<1>2. /\ u[p]["pdt"] = {f} /\ u[p]["table"] = Tables(m, f)
      /\ u[boot]["kernel"] = KernelTables(m)
      /\ \A c \in Callers : u[c]["call"] = Hold(cl[c])
      /\ \A q \in Using(s) : u[q]["pdt"] = Block(s[q].pdt_paddr, 1) /\ u[q]["table"] = Tables(m, s[q].pdt_paddr)
  BY <1>1, UsesIs, BlockOne
<1>3. /\ "pdt" \in Kinds /\ "table" \in Kinds /\ "kernel" \in Kinds /\ "call" \in Kinds
      /\ boot \in Callers /\ p \in Callers /\ p # boot /\ \A q \in Using(s) : q \in Callers
  BY Constants DEF Kinds, Using
<1> HIDE DEF u
<1>4. /\ u[p]["pdt"] \subseteq Frames /\ u[p]["table"] \subseteq Frames
      /\ u[p]["pdt"] \cap m.free = {} /\ u[p]["table"] \cap m.free = {}
      /\ u[p]["pdt"] \cap u[p]["table"] = {}
      /\ u[p]["pdt"] \cap u[boot]["kernel"] = {} /\ u[p]["table"] \cap u[boot]["kernel"] = {}
  BY <1>1, <1>3 DEF Ledger
<1>5. \A c \in Callers : u[p]["pdt"] \cap u[c]["call"] = {} /\ u[p]["table"] \cap u[c]["call"] = {}
  BY <1>1, <1>3 DEF Ledger
<1>6. \A q \in Using(s) : q # p => /\ u[p]["pdt"] \cap u[q]["pdt"] = {}
                                   /\ u[p]["pdt"] \cap u[q]["table"] = {}
                                   /\ u[p]["table"] \cap u[q]["table"] = {}
  BY <1>1, <1>3 DEF Ledger
<1>7. \A q \in Using(s) : q # p => f # s[q].pdt_paddr
  <2> SUFFICES ASSUME NEW q \in Using(s), q # p, f = s[q].pdt_paddr PROVE FALSE
    OBVIOUS
  <2>1. u[q]["pdt"] = {f}
    BY <1>1, <1>2, BlockOne
  <2> QED
    BY <1>2, <1>6, <2>1
<1> QED
  BY <1>2, <1>4, <1>5, <1>6, <1>7

\* The frames of a call.
LEMMA CallFrames ==
    ASSUME NEW m, NEW s, NEW cl, NEW h, NEW o, NEW fl, Inv(m, s, cl, h, o, fl), NEW c \in Callers
    PROVE  /\ Hold(cl[c]) \subseteq Frames /\ Hold(cl[c]) \cap m.free = {}
           /\ Hold(cl[c]) \cap KernelTables(m) = {}
           /\ \A d \in Callers : d # c => Hold(cl[c]) \cap Hold(cl[d]) = {}
           /\ \A p \in Using(s) : s[p].pdt_paddr \notin Hold(cl[c]) /\ s[p].kernel_stack_paddr \notin Hold(cl[c])
<1> DEFINE u == Uses(m, s, cl, h, o)
<1>1. Ledger(u, m.free, ~fl)
  BY InvTyped
<1>2. /\ u[boot]["kernel"] = KernelTables(m)
      /\ \A d \in Callers : u[d]["call"] = Hold(cl[d])
      /\ \A q \in Using(s) : /\ u[q]["pdt"] = Block(s[q].pdt_paddr, 1)
                             /\ u[q]["kernel_stack"] = Block(s[q].kernel_stack_paddr, 1)
  BY UsesIs
<1>3. /\ "pdt" \in Kinds /\ "kernel_stack" \in Kinds /\ "kernel" \in Kinds /\ "call" \in Kinds
      /\ boot \in Callers /\ \A q \in Using(s) : q \in Callers /\ q \in Procs
  BY Constants DEF Kinds, Using
<1> HIDE DEF u
<1>4. /\ u[c]["call"] \subseteq Frames /\ u[c]["call"] \cap m.free = {}
      /\ u[c]["call"] \cap u[boot]["kernel"] = {}
      /\ \A d \in Callers : d # c => u[c]["call"] \cap u[d]["call"] = {}
  BY <1>1, <1>3 DEF Ledger
<1>5. ASSUME NEW p \in Using(s), NEW f \in Phys, NEW k \in {"pdt", "kernel_stack"}, u[p][k] = Block(f, 1)
      PROVE  f \notin Hold(cl[c])
  <2>1. CASE f = 0
    BY <1>2, <1>4, <2>1, Constants
  <2>2. CASE f # 0
    <3>1. u[p][k] = {f}
      BY <1>5, <2>2, BlockOne, Constants
    <3>2. u[p][k] \cap u[c]["call"] = {}
      BY <1>1, <1>3 DEF Ledger
    <3> QED
      BY <1>2, <3>1, <3>2
  <2> QED
    BY <2>1, <2>2
<1>6. \A p \in Using(s) : s[p].pdt_paddr \in Phys /\ s[p].kernel_stack_paddr \in Phys
  BY <1>3, InvTyped DEF Typed, PsTypes
<1> QED
  BY <1>2, <1>4, <1>5, <1>6

-----------------------------------------------------------------------------
(***************************************************************************)
(* Steps of memory.                                                        *)
(***************************************************************************)
\* The user half of the directory f is the same.
UserSame(m, m2, f) ==
    /\ UserHalf(m2, f) = UserHalf(m, f)
    /\ \A d \in UserHalf(m, f) : m2.at[f][d] = m.at[f][d] /\ m2.at[m.at[f][d]] = m.at[m.at[f][d]]

LEMMA SameTables ==
    ASSUME NEW m, NEW m2, NEW f, UserSame(m, m2, f)
    PROVE  Tables(m2, f) = Tables(m, f)
BY DEF UserSame, Tables, UserHalf

LEMMA SameFrom ==
    ASSUME NEW m \in Mem, NEW m2 \in Mem, NEW W, \A g \in Phys : g \notin W => m2.at[g] = m.at[g],
           NEW f \in Phys, f # 0, f \notin W, Tables(m, f) \cap W = {}
    PROVE  UserSame(m, m2, f)
<1>1. m2.at[f] = m.at[f]
  OBVIOUS
<1>2. \A d \in UserHalf(m, f) : m.at[f][d] \in Tables(m, f)
  BY DEF UserHalf, Tables
<1>3. Tables(m, f) \subseteq Phys
  BY TablesNat
<1>4. \A d \in UserHalf(m, f) : m2.at[m.at[f][d]] = m.at[m.at[f][d]]
  BY <1>2, <1>3
<1> QED
  BY <1>1, <1>4 DEF UserSame, UserHalf

LEMMA ShapeKept ==
    ASSUME NEW m, NEW m2, NEW e, NEW k \in 0 .. 4, Shape(m, e, k),
           e.pdt_paddr # 0 => UserSame(m, m2, e.pdt_paddr)
    PROVE  Shape(m2, e, k)
<1>1. CASE k = 0
  BY <1>1 DEF Shape
<1>2. CASE k >= 1
  <2> DEFINE f == e.pdt_paddr
  <2>1. UserSame(m, m2, f)
    BY <1>2 DEF Shape
  <2>2. UserHalf(m2, f) = UserHalf(m, f)
    BY <2>1 DEF UserSame
  <2>3. k >= 2 => m2.at[f][0] = m.at[f][0] /\ m2.at[m2.at[f][0]] = m.at[m.at[f][0]]
    <3> SUFFICES ASSUME k >= 2 PROVE 0 \in UserHalf(m, f)
      BY <2>1 DEF UserSame
    <3> QED
      BY DEF Shape
  <2>4. k >= 3 => /\ m2.at[f][KERNEL_PDT_IDX - 1] = m.at[f][KERNEL_PDT_IDX - 1]
                  /\ m2.at[m2.at[f][KERNEL_PDT_IDX - 1]] = m.at[m.at[f][KERNEL_PDT_IDX - 1]]
    <3> SUFFICES ASSUME k >= 3 PROVE KERNEL_PDT_IDX - 1 \in UserHalf(m, f)
      BY <2>1 DEF UserSame
    <3> QED
      BY DEF Shape
  <2> QED
    BY <2>2, <2>3, <2>4 DEF Shape
<1> QED
  BY <1>1, <1>2

LEMMA LevelRange ==
    ASSUME NEW e
    PROVE  Level(e) \in 0 .. 4
BY DEF Level

\* What a step of memory keeps for structs and calls that do not take part in it.
LEMMA PinsKept ==
    ASSUME NEW m, NEW m2, NEW B, Kept(m, m2, B), NEW x \in Nat, NEW f, f \notin B, f # NotMapped,
           Translate(m, kernel_pdt, x) = f
    PROVE  Translate(m2, kernel_pdt, x) = f
BY DEF Kept

LEMMA NotMappedFacts == NotMapped \notin Nat /\ NotMapped \notin Phys
BY Constants DEF NotMapped

LEMMA PsMappedKept ==
    ASSUME NEW m, NEW m2, NEW B, Kept(m, m2, B), NEW e \in PsTypes, PsMapped(m, e),
           e.pdt_paddr \notin B, e.kernel_stack_paddr \notin B
    PROVE  PsMapped(m2, e)
<1>1. /\ e.pdt \in Nat /\ e.kernel_stack \in Nat
      /\ e.pdt_paddr # NotMapped /\ e.kernel_stack_paddr # NotMapped
  BY Constants, NotMappedFacts DEF PsTypes
<1> QED
  BY <1>1, PinsKept DEF PsMapped

LEMMA CallMappedKept ==
    ASSUME NEW m, NEW m2, NEW B, Kept(m, m2, B), NEW e \in CallTypes, CallMapped(m, e),
           e.paddr # 0, e.at \in {"code_read", "copy_data"} => Hold(e) \cap B = {}
    PROVE  CallMapped(m2, e)
<1> SUFFICES ASSUME e.at \in {"code_read", "copy_data"}, NEW i \in 0 .. (Count(e.list) - 1)
             PROVE  Translate(m2, kernel_pdt, e.vaddr + i) = e.paddr + i
  BY DEF CallMapped
<1>1. Translate(m, kernel_pdt, e.vaddr + i) = e.paddr + i
  BY DEF CallMapped
<1>2. e.vaddr \in Nat /\ e.paddr \in Nat /\ Count(e.list) \in Nat
  BY Constants DEF CallTypes, Count
<1>3. Size(e) = Count(e.list)
  BY DEF Size
<1>4. e.paddr + i \in Hold(e)
  BY <1>2, <1>3 DEF Hold, Block
<1>5. e.vaddr + i \in Nat /\ e.paddr + i \in Nat /\ e.paddr + i \notin B
  BY <1>2, <1>4
<1> QED
  BY <1>1, <1>5, PinsKept, NotMappedFacts

LEMMA CallOKMono ==
    ASSUME NEW e, NEW fl \in BOOLEAN, NEW fl2 \in BOOLEAN, fl => fl2, CallOK(e, fl)
    PROVE  CallOK(e, fl2)
BY DEF CallOK

\* A loading or live struct and its caller.
LEMMA ChildFacts ==
    ASSUME NEW m, NEW s, NEW cl, NEW h, NEW o, NEW fl, Inv(m, s, cl, h, o, fl),
           NEW c \in Callers, cl[c].at # "idle"
    PROVE  /\ cl[c].child \in Procs /\ cl[c].child \in Using(s)
           /\ s[cl[c].child].st = "loading" /\ s[cl[c].child] \in PsTypes
           /\ cl[c] \in CallTypes /\ CallOK(cl[c], fl) /\ Paired(s[cl[c].child])
           /\ PsMapped(m, s[cl[c].child]) /\ CallMapped(m, cl[c])
           /\ cl[c].at \notin {"delete", "loop"} => Shape(m, s[cl[c].child], Level(cl[c]))
           /\ \A d \in Callers : d # c /\ cl[d].at # "idle" => cl[d].child # cl[c].child
           /\ c # cl[c].child
<1>1. /\ cl[c].child \in Procs /\ s[cl[c].child].st = "loading"
      /\ CallOK(cl[c], fl) /\ Paired(s[cl[c].child])
      /\ \A d \in Callers : d # c /\ cl[d].at # "idle" => cl[d].child # cl[c].child
      /\ c # boot => s[c].st = "live"
  BY DEF Inv, Calls
<1>2. cl[c].child \in Using(s)
  BY <1>1 DEF Using
<1>3. s[cl[c].child] \in PsTypes /\ cl[c] \in CallTypes
  BY <1>1, InvTyped DEF Typed
<1>4. PsMapped(m, s[cl[c].child]) /\ CallMapped(m, cl[c])
  BY <1>2 DEF Inv, PsMap, CallMap
<1>5. cl[c].at \notin {"delete", "loop"} => Shape(m, s[cl[c].child], Level(cl[c]))
  BY DEF Inv, Shapes
<1>6. c # cl[c].child
  BY <1>1, Constants
<1> QED
  BY <1>1, <1>2, <1>3, <1>4, <1>5, <1>6

\* A step of memory alone.
LEMMA MemStep ==
    ASSUME NEW m, NEW s, NEW cl, NEW h, NEW o, NEW fl, Inv(m, s, cl, h, o, fl),
           NEW m2 \in Mem, NEW S \in SUBSET m.free, m2.free = m.free \ S,
           NEW fl2 \in BOOLEAN, fl => fl2,
           \/ KernelTables(m2) = KernelTables(m) \cup S
           \/ fl2 /\ KernelTables(m2) = KernelTables(m),
           \A p \in Using(s) : s[p].pdt_paddr # 0 => UserSame(m, m2, s[p].pdt_paddr),
           NEW B, Kept(m, m2, B),
           \A p \in Using(s) : s[p].pdt_paddr \notin B /\ s[p].kernel_stack_paddr \notin B,
           \A c \in Callers : cl[c].at \in {"code_read", "copy_data"} => Hold(cl[c]) \cap B = {}
    PROVE  Inv(m2, s, cl, h, o, fl2)
<1> DEFINE u == Uses(m, s, cl, h, o)
           u2 == Uses(m2, s, cl, h, o)
<1>1. /\ Typed(m, s, cl, h, o) /\ fl \in BOOLEAN /\ (~fl) \in BOOLEAN
      /\ u \in Own /\ Ledger(u, m.free, ~fl) /\ m.free \in SUBSET Frames
  BY InvTyped
<1>2. \A p \in Using(s) : Tables(m2, s[p].pdt_paddr) = Tables(m, s[p].pdt_paddr)
  <2> TAKE p \in Using(s)
  <2>1. CASE s[p].pdt_paddr = 0
    BY <2>1 DEF Tables
  <2>2. CASE s[p].pdt_paddr # 0
    BY <2>2, SameTables
  <2> QED
    BY <2>1, <2>2
<1>3. u2 = Put(u, boot, "kernel", KernelTables(m2)) /\ Typed(m2, s, cl, h, o) /\ u2 \in Own
  BY <1>1, <1>2, UsesMem, UsesOwn
<1>4. /\ u[boot]["kernel"] = KernelTables(m) /\ boot \in Callers /\ "kernel" \in Kinds
      /\ KernelTables(m2) \in SUBSET Nat
  <2>1. KernelTables(m2) \in SUBSET Phys
    BY KernelTablesNat
  <2>2. u[boot]["kernel"] = KernelTables(m)
    BY UsesIs
  <2> QED
    BY <2>1, <2>2, Constants DEF Kinds
<1>5. Ledger(u2, m2.free, ~fl2)
  <2> HIDE DEF u, u2
  <2>1. CASE KernelTables(m2) = KernelTables(m) \cup S
    <3>1. Ledger(Put(u, boot, "kernel", KernelTables(m2)), m.free \ S, ~fl)
      BY <1>1, <1>4, <2>1, LedgerTake
    <3> QED
      BY <1>1, <1>3, <3>1 DEF Ledger
  <2>2. CASE fl2 /\ KernelTables(m2) = KernelTables(m)
    <3>1. Put(u, boot, "kernel", KernelTables(m2)) = u
      <4>1. Put(u, boot, "kernel", KernelTables(m2)) \in Own
        BY <1>1, <1>4, PutAt
      <4>2. \A d \in Callers, k \in Kinds : Put(u, boot, "kernel", KernelTables(m2))[d][k] = u[d][k]
        BY <1>1, <1>4, <2>2, PutAt
      <4> QED
        BY <1>1, <4>1, <4>2, OwnEqual
    <3>2. Ledger(u, m.free \ S, FALSE)
      BY <1>1, LedgerLeak
    <3> QED
      BY <1>3, <2>2, <3>1, <3>2 DEF Ledger
  <2> QED
    BY <2>1, <2>2
<1>6. PsMap(m2, s)
  <2> SUFFICES ASSUME NEW p \in Using(s) PROVE PsMapped(m2, s[p])
    BY DEF PsMap
  <2>1. s[p] \in PsTypes
    BY <1>1 DEF Typed, Using
  <2>2. PsMapped(m, s[p])
    BY DEF Inv, PsMap
  <2> QED
    BY <2>1, <2>2, PsMappedKept
<1>7. CallMap(m2, cl)
  <2> SUFFICES ASSUME NEW c \in Callers PROVE CallMapped(m2, cl[c])
    BY DEF CallMap
  <2>1. CASE cl[c].at \notin {"code_read", "copy_data"}
    BY <2>1 DEF CallMapped
  <2>2. CASE cl[c].at \in {"code_read", "copy_data"}
    <3>1. cl[c] \in CallTypes /\ CallMapped(m, cl[c]) /\ CallOK(cl[c], fl)
      BY <1>1 DEF Typed, Inv, CallMap, Calls
    <3>2. cl[c].paddr # 0
      BY <2>2, <3>1 DEF CallOK, Holding
    <3> QED
      BY <2>2, <3>1, <3>2, CallMappedKept
  <2> QED
    BY <2>1, <2>2
<1>8. Shapes(m2, s, cl)
  <2>1. ASSUME NEW p \in Procs, s[p].st = "live" PROVE Shape(m2, s[p], 4)
    <3>1. p \in Using(s) /\ Shape(m, s[p], 4)
      BY <2>1 DEF Using, Inv, Shapes
    <3> QED
      BY <3>1, ShapeKept
  <2>2. ASSUME NEW c \in Callers, cl[c].at \notin {"idle", "delete", "loop"}
        PROVE  Shape(m2, s[cl[c].child], Level(cl[c]))
    <3>1. cl[c].child \in Using(s) /\ Shape(m, s[cl[c].child], Level(cl[c]))
      BY <2>2, ChildFacts
    <3> QED
      BY <3>1, LevelRange, ShapeKept
  <2> QED
    BY <2>1, <2>2 DEF Shapes
<1>9. Calls(s, cl, fl2)
  <2>1. Calls(s, cl, fl)
    BY DEF Inv
  <2>2. \A c \in Callers : CallOK(cl[c], fl2)
    BY <1>1, <2>1, CallOKMono DEF Calls
  <2> QED
    BY <2>1, <2>2 DEF Calls
<1> QED
  BY <1>3, <1>5, <1>6, <1>7, <1>8, <1>9 DEF Inv, Typed

\* The same when no frame is taken, and when every page stays mapped.
LEMMA MemStepSame ==
    ASSUME NEW m, NEW s, NEW cl, NEW h, NEW o, NEW fl, Inv(m, s, cl, h, o, fl),
           NEW m2 \in Mem, m2.free = m.free, KernelTables(m2) = KernelTables(m),
           \A p \in Using(s) : s[p].pdt_paddr # 0 => UserSame(m, m2, s[p].pdt_paddr),
           NEW B, Kept(m, m2, B),
           \A p \in Using(s) : s[p].pdt_paddr \notin B /\ s[p].kernel_stack_paddr \notin B,
           \A c \in Callers : cl[c].at \in {"code_read", "copy_data"} => Hold(cl[c]) \cap B = {}
    PROVE  Inv(m2, s, cl, h, o, fl)
<1>1. fl \in BOOLEAN
  BY InvTyped
<1> DEFINE S == {}
<1>2. S \in SUBSET m.free /\ m2.free = m.free \ S /\ KernelTables(m2) = KernelTables(m) \cup S
  OBVIOUS
<1> HIDE DEF S
<1>3. \/ KernelTables(m2) = KernelTables(m) \cup S
      \/ fl /\ KernelTables(m2) = KernelTables(m)
  BY <1>2
<1> QED
  BY <1>1, <1>2, <1>3, MemStep

LEMMA MemStepKept ==
    ASSUME NEW m, NEW s, NEW cl, NEW h, NEW o, NEW fl, Inv(m, s, cl, h, o, fl),
           NEW m2 \in Mem, NEW S \in SUBSET m.free, m2.free = m.free \ S,
           NEW fl2 \in BOOLEAN, fl => fl2,
           \/ KernelTables(m2) = KernelTables(m) \cup S
           \/ fl2 /\ KernelTables(m2) = KernelTables(m),
           \A p \in Using(s) : s[p].pdt_paddr # 0 => UserSame(m, m2, s[p].pdt_paddr),
           Kept(m, m2, {})
    PROVE  Inv(m2, s, cl, h, o, fl2)
<1> DEFINE B == {}
<1>1. /\ Kept(m, m2, B)
      /\ \A p \in Using(s) : s[p].pdt_paddr \notin B /\ s[p].kernel_stack_paddr \notin B
      /\ \A c \in Callers : cl[c].at \in {"code_read", "copy_data"} => Hold(cl[c]) \cap B = {}
  OBVIOUS
<1> HIDE DEF B
<1> QED
  BY <1>1, MemStep

\* A step of the call of c: what it keeps for the others.
LEMMA CallerStep ==
    ASSUME NEW m, NEW s, NEW cl, NEW h, NEW o, NEW fl, Inv(m, s, cl, h, o, fl),
           NEW m2 \in Mem, NEW c \in Callers, cl[c].at # "idle",
           NEW q, q = cl[c].child,
           Kept(m, m2, {}),
           \A p \in Using(s) : p # q /\ s[p].pdt_paddr # 0 => UserSame(m, m2, s[p].pdt_paddr),
           NEW x \in PsTypes, x.st = "loading", Paired(x), PsMapped(m2, x),
           NEW e \in CallTypes, e.child = q, e.op = cl[c].op, e.at # "idle",
           NEW fl2 \in BOOLEAN, fl => fl2, CallOK(e, fl2), CallMapped(m2, e),
           e.at \notin {"delete", "loop"} => Shape(m2, x, Level(e)),
           Ledger(Uses(m2, [s EXCEPT ![q] = x], [cl EXCEPT ![c] = e], h, o), m2.free, ~fl2)
    PROVE  Inv(m2, [s EXCEPT ![q] = x], [cl EXCEPT ![c] = e], h, o, fl2)
<1> DEFINE s2 == [s EXCEPT ![q] = x]
           cl2 == [cl EXCEPT ![c] = e]
<1>1. Typed(m, s, cl, h, o) /\ fl \in BOOLEAN
  BY InvTyped
<1>2. /\ q \in Procs /\ q \in Using(s) /\ s[q].st = "loading" /\ c # q
      /\ \A d \in Callers : d # c /\ cl[d].at # "idle" => cl[d].child # q
  BY ChildFacts
<1>3. s2[q] = x /\ \A p \in Procs : p # q => s2[p] = s[p]
  BY <1>1, <1>2 DEF Typed
<1>4. cl2[c] = e /\ \A d \in Callers : d # c => cl2[d] = cl[d]
  BY <1>1 DEF Typed
<1>5. s2 \in [Procs -> PsTypes] /\ cl2 \in [Callers -> CallTypes]
  BY <1>1, <1>2 DEF Typed
<1>6. Using(s2) = Using(s)
  BY <1>2, <1>3 DEF Using
<1>0. Ledger(Uses(m2, s2, cl2, h, o), m2.free, ~fl2)
  OBVIOUS
<1> HIDE DEF s2, cl2
<1>7. PsMap(m2, s2)
  <2> SUFFICES ASSUME NEW p \in Using(s) PROVE PsMapped(m2, s2[p])
    BY <1>6 DEF PsMap
  <2>1. CASE p = q
    BY <1>3, <2>1
  <2>2. CASE p # q
    <3>1. s2[p] = s[p] /\ s[p] \in PsTypes /\ PsMapped(m, s[p])
      BY <1>1, <1>3, <2>2 DEF Typed, Using, Inv, PsMap
    <3>2. PsMapped(m2, s[p])
      BY <3>1, PsMappedKept
    <3> QED
      BY <3>1, <3>2
  <2> QED
    BY <2>1, <2>2
<1>8. CallMap(m2, cl2)
  <2> SUFFICES ASSUME NEW d \in Callers PROVE CallMapped(m2, cl2[d])
    BY DEF CallMap
  <2>1. CASE d = c
    BY <1>4, <2>1
  <2>2. CASE d # c
    <3>1. cl2[d] = cl[d] /\ cl[d] \in CallTypes /\ CallMapped(m, cl[d]) /\ CallOK(cl[d], fl)
      BY <1>1, <1>4, <2>2 DEF Typed, Inv, CallMap, Calls
    <3>2. CASE cl[d].at \notin {"code_read", "copy_data"}
      BY <3>1, <3>2 DEF CallMapped
    <3>3. CASE cl[d].at \in {"code_read", "copy_data"}
      <4>1. cl[d].paddr # 0
        BY <3>1, <3>3 DEF CallOK, Holding
      <4>2. CallMapped(m2, cl[d])
        BY <3>1, <4>1, CallMappedKept
      <4> QED
        BY <3>1, <4>2
    <3> QED
      BY <3>2, <3>3
  <2> QED
    BY <2>1, <2>2
<1>9. Shapes(m2, s2, cl2)
  <2>1. ASSUME NEW p \in Procs, s2[p].st = "live" PROVE Shape(m2, s2[p], 4)
    <3>1. p # q
      BY <1>3, <2>1
    <3>2. s2[p] = s[p] /\ p \in Using(s) /\ Shape(m, s[p], 4)
      BY <1>3, <2>1, <3>1 DEF Using, Inv, Shapes
    <3>3. Shape(m2, s[p], 4)
      BY <3>1, <3>2, ShapeKept
    <3> QED
      BY <3>2, <3>3
  <2>2. ASSUME NEW d \in Callers, cl2[d].at \notin {"idle", "delete", "loop"}
        PROVE  Shape(m2, s2[cl2[d].child], Level(cl2[d]))
    <3>1. CASE d = c
      BY <1>3, <1>4, <2>2, <3>1
    <3>2. CASE d # c
      <4>1. cl2[d] = cl[d] /\ cl[d].at \notin {"idle", "delete", "loop"}
        BY <1>4, <2>2, <3>2
      <4>2. /\ cl[d].child # q /\ cl[d].child \in Using(s) /\ cl[d].child \in Procs
            /\ Shape(m, s[cl[d].child], Level(cl[d]))
        BY <1>2, <3>2, <4>1, ChildFacts
      <4>3. Shape(m2, s[cl[d].child], Level(cl[d]))
        BY <4>2, LevelRange, ShapeKept
      <4>4. s2[cl[d].child] = s[cl[d].child]
        BY <1>3, <4>2
      <4> QED
        BY <4>1, <4>3, <4>4
    <3> QED
      BY <3>1, <3>2
  <2> QED
    BY <2>1, <2>2 DEF Shapes
<1>10. Calls(s2, cl2, fl2)
  <2>1. Calls(s, cl, fl)
    BY DEF Inv
  <2>2. ASSUME NEW d \in Callers PROVE CallOK(cl2[d], fl2)
    <3>1. CallOK(cl[d], fl2)
      BY <1>1, <2>1, CallOKMono DEF Calls
    <3> QED
      BY <1>4, <3>1
  <2>3. ASSUME NEW d \in Callers, cl2[d].at # "idle"
        PROVE  /\ cl2[d].child \in Procs /\ s2[cl2[d].child].st = "loading"
               /\ IF d = boot THEN cl2[d].op = "create" ELSE s2[d].st = "live"
    <3>1. /\ cl[d].at # "idle" /\ cl2[d].child = cl[d].child /\ cl2[d].op = cl[d].op
      BY <1>4, <2>3
    <3>2. /\ cl[d].child \in Procs /\ s[cl[d].child].st = "loading"
          /\ IF d = boot THEN cl[d].op = "create" ELSE s[d].st = "live"
      BY <2>1, <3>1 DEF Calls
    <3>3. s2[cl[d].child].st = "loading"
      BY <1>3, <3>2
    <3>4. d # boot => d \in Procs /\ d # q /\ s2[d] = s[d]
      BY <1>2, <1>3, <3>2 DEF Callers
    <3> QED
      BY <3>1, <3>2, <3>3, <3>4
  <2>4. ASSUME NEW a \in Callers, NEW d \in Callers, cl2[a].at # "idle", cl2[d].at # "idle",
               cl2[a].child = cl2[d].child
        PROVE  a = d
    <3>1. /\ cl[a].at # "idle" /\ cl[d].at # "idle"
          /\ cl2[a].child = cl[a].child /\ cl2[d].child = cl[d].child
      BY <1>4, <2>4
    <3>2. cl[a].child = cl[d].child
      BY <2>4, <3>1
    <3>3. \A b, f \in Callers : cl[b].at # "idle" /\ cl[f].at # "idle" /\ cl[b].child = cl[f].child => b = f
      BY <2>1 DEF Calls
    <3> QED
      BY <3>1, <3>2, <3>3
  <2>5. ASSUME NEW p \in Procs PROVE Paired(s2[p]) /\ (s2[p].st = "unused" => s2[p] = Unused)
    BY <1>3, <2>1 DEF Calls
  <2> QED
    BY <2>2, <2>3, <2>4, <2>5 DEF Calls
<1> QED
  <2> SUFFICES Inv(m2, s2, cl2, h, o, fl2)
    BY DEF s2, cl2
  <2> QED
    BY <1>0, <1>1, <1>5, <1>7, <1>8, <1>9, <1>10 DEF Inv, Typed

\* Mapping pages of the kernel.
LEMMA KernelMapStep ==
    ASSUME NEW m, NEW s, NEW cl, NEW h, NEW o, NEW fl, Inv(m, s, cl, h, o, fl),
           NEW paddr \in Phys, NEW page \in Pages,
           NEW n \in Nat, n > 0, VIRTUAL_TO_PT_IDX(page) + n <= NUM_ENTRIES,
           \A j \in 0 .. (n - 1) : paddr + j \in Phys,
           NEW r, r = pdt_map_memory(m, kernel_pdt, paddr, page, n),
           NEW fl2 \in BOOLEAN, fl => fl2, ~r.ok => fl2
    PROVE  /\ Inv(r.m, s, cl, h, o, fl2)
           /\ Kept(m, r.m, {})
           /\ r.ok => \A j \in 0 .. (n - 1) : Translate(r.m, kernel_pdt, page + j) = paddr + j
           /\ \A j \in 0 .. (n - 1) : Translate(m, kernel_pdt, page + j) = NotMapped =>
                 Translate(r.m, kernel_pdt, page + j) \in (paddr .. (paddr + n - 1)) \cup {NotMapped}
<1>1. m \in Mem /\ KernelOK(m) /\ m.free \in SUBSET Frames
  BY InvTyped DEF Typed
<1>2. /\ r.m \in Mem /\ r.ok \in BOOLEAN
      /\ \E S \in SUBSET m.free :
            /\ r.m.free = m.free \ S
            /\ \/ KernelTables(r.m) = KernelTables(m) \cup S
               \/ ~r.ok /\ KernelTables(r.m) = KernelTables(m)
            /\ \A f \in Phys : f \notin KernelTables(m) \cup S \cup {kernel_pdt} =>
                  r.m.at[f] = m.at[f]
      /\ Kept(m, r.m, {})
      /\ r.ok => \A j \in 0 .. (n - 1) : Translate(r.m, kernel_pdt, page + j) = paddr + j
      /\ \A j \in 0 .. (n - 1) : Translate(m, kernel_pdt, page + j) = NotMapped =>
            Translate(r.m, kernel_pdt, page + j) \in (paddr .. (paddr + n - 1)) \cup {NotMapped}
  <2>1. LET t == pdt_map_memory(m, kernel_pdt, paddr, page, n)
        IN  /\ t.m \in Mem /\ t.ok \in BOOLEAN
            /\ \E S \in SUBSET m.free :
                  /\ t.m.free = m.free \ S
                  /\ \/ KernelTables(t.m) = KernelTables(m) \cup S
                     \/ ~t.ok /\ KernelTables(t.m) = KernelTables(m)
                  /\ \A f \in Phys : f \notin KernelTables(m) \cup S \cup {kernel_pdt} =>
                        t.m.at[f] = m.at[f]
            /\ Kept(m, t.m, {})
            /\ t.ok => \A j \in 0 .. (n - 1) : Translate(t.m, kernel_pdt, page + j) = paddr + j
            /\ \A j \in 0 .. (n - 1) : Translate(m, kernel_pdt, page + j) = NotMapped =>
                  Translate(t.m, kernel_pdt, page + j) \in (paddr .. (paddr + n - 1)) \cup {NotMapped}
    BY <1>1, KernelMap
  <2> QED
    BY <2>1
<1>3. PICK S \in SUBSET m.free :
            /\ r.m.free = m.free \ S
            /\ \/ KernelTables(r.m) = KernelTables(m) \cup S
               \/ ~r.ok /\ KernelTables(r.m) = KernelTables(m)
            /\ \A f \in Phys : f \notin KernelTables(m) \cup S \cup {kernel_pdt} =>
                  r.m.at[f] = m.at[f]
  BY <1>2
<1>4. ASSUME NEW p \in Using(s), s[p].pdt_paddr # 0 PROVE UserSame(m, r.m, s[p].pdt_paddr)
  <2> DEFINE f == s[p].pdt_paddr
             W == KernelTables(m) \cup S \cup {kernel_pdt}
  <2>1. /\ f \in Frames /\ f \notin m.free /\ f \notin KernelTables(m)
        /\ Tables(m, f) \subseteq Frames /\ Tables(m, f) \cap m.free = {}
        /\ Tables(m, f) \cap KernelTables(m) = {}
    BY <1>4, ProcFrames
  <2> HIDE DEF f
  <2>2. f \in Phys /\ f # 0 /\ f \notin W /\ Tables(m, f) \cap W = {}
    BY <2>1, Constants
  <2>3. \A g \in Phys : g \notin W => r.m.at[g] = m.at[g]
    BY <1>3
  <2> HIDE DEF W
  <2>4. UserSame(m, r.m, f)
    BY <1>1, <1>2, <2>2, <2>3, SameFrom
  <2> QED
    BY <2>4 DEF f
<1>5. Inv(r.m, s, cl, h, o, fl2)
  <2>1. \A p \in Using(s) : s[p].pdt_paddr # 0 => UserSame(m, r.m, s[p].pdt_paddr)
    BY <1>4
  <2>2. \/ KernelTables(r.m) = KernelTables(m) \cup S
        \/ fl2 /\ KernelTables(r.m) = KernelTables(m)
    BY <1>3
  <2>3. r.m \in Mem /\ r.m.free = m.free \ S /\ Kept(m, r.m, {})
    BY <1>2, <1>3
  <2> QED
    BY <2>1, <2>2, <2>3, MemStepKept
<1> QED
  BY <1>2, <1>5

\* Unmapping pages of the kernel that lead to B, where no struct or call has its pages.
LEMMA UnmapStep ==
    ASSUME NEW m, NEW s, NEW cl, NEW h, NEW o, NEW fl, Inv(m, s, cl, h, o, fl),
           NEW page \in Pages, NEW n \in Nat, n > 0,
           VIRTUAL_TO_PT_IDX(page) + n <= NUM_ENTRIES,
           VIRTUAL_TO_PDT_IDX(page) \in DOMAIN m.at[kernel_pdt],
           NEW B,
           \A j \in 0 .. (n - 1) : Translate(m, kernel_pdt, page + j) \in B \cup {NotMapped},
           \A p \in Using(s) : s[p].pdt_paddr \notin B /\ s[p].kernel_stack_paddr \notin B,
           \A c \in Callers : cl[c].at \in {"code_read", "copy_data"} => Hold(cl[c]) \cap B = {},
           NEW m2, m2 = pdt_unmap_kernel_memory(m, page, n)
    PROVE  Inv(m2, s, cl, h, o, fl) /\ m2.free = m.free
<1>1. m \in Mem /\ KernelOK(m) /\ fl \in BOOLEAN
  BY InvTyped DEF Typed
<1>2. /\ m2 \in Mem /\ m2.free = m.free
      /\ KernelTables(m2) = KernelTables(m)
      /\ \A f \in Phys : f \notin KernelTables(m) => m2.at[f] = m.at[f]
      /\ Kept(m, m2, B)
  BY <1>1, KernelUnmap
<1>3. ASSUME NEW p \in Using(s), s[p].pdt_paddr # 0 PROVE UserSame(m, m2, s[p].pdt_paddr)
  <2> DEFINE f == s[p].pdt_paddr
  <2>1. /\ f \in Frames /\ f \notin KernelTables(m)
        /\ Tables(m, f) \cap KernelTables(m) = {}
    BY <1>3, ProcFrames
  <2>2. f \in Phys /\ f # 0
    BY <2>1, Constants
  <2> HIDE DEF f
  <2>4. UserSame(m, m2, f)
    BY <1>1, <1>2, <2>1, <2>2, SameFrom
  <2> QED
    BY <2>4 DEF f
<1>4. \A p \in Using(s) : s[p].pdt_paddr # 0 => UserSame(m, m2, s[p].pdt_paddr)
  BY <1>3
<1>5. Inv(m2, s, cl, h, o, fl)
  BY <1>2, <1>4, MemStepSame
<1> QED
  BY <1>2, <1>5

\* A frame a call holds is cleared.
LEMMA ClearStep ==
    ASSUME NEW m, NEW s, NEW cl, NEW h, NEW o, NEW fl, Inv(m, s, cl, h, o, fl),
           NEW c \in Callers, NEW f, f \in Hold(cl[c]) \cup {0},
           NEW m2, m2 = [m EXCEPT !.at[f] = Empty]
    PROVE  /\ Inv(m2, s, cl, h, o, fl)
           /\ Kept(m, m2, {})
           /\ m2.at[f] = Empty
<1>1. /\ m \in Mem /\ KernelOK(m) /\ fl \in BOOLEAN /\ m.at \in [Phys -> PageTables]
      /\ m.free \in SUBSET Frames
  BY InvTyped, MemFacts DEF Typed
<1>2. f \in Phys /\ f # kernel_pdt /\ f \notin KernelTables(m)
  <2>1. Hold(cl[c]) \subseteq Frames /\ Hold(cl[c]) \cap KernelTables(m) = {}
    BY CallFrames
  <2>2. 0 \notin KernelTables(m)
    BY <1>1, Constants DEF KernelOK
  <2> QED
    BY <2>1, <2>2, Constants
<1>3. m2 \in Mem /\ m2.free = m.free /\ m2.at = [m.at EXCEPT ![f] = Empty]
  BY <1>1, <1>2, MemFacts, EmptyFacts
<1>4. m2.at[f] = Empty /\ \A g \in Phys : g \notin {f} => m2.at[g] = m.at[g]
  BY <1>1, <1>2, <1>3
<1>5. m2.at[kernel_pdt] = m.at[kernel_pdt] /\ \A g \in KernelTables(m) : m2.at[g] = m.at[g]
  BY <1>1, <1>2, <1>4, Constants DEF KernelOK
<1>6. KernelTables(m2) = KernelTables(m)
  BY <1>5 DEF KernelTables
<1>7. Kept(m, m2, {})
  BY <1>1, <1>3, <1>5, KeptEntries
<1>8. ASSUME NEW p \in Using(s), s[p].pdt_paddr # 0 PROVE UserSame(m, m2, s[p].pdt_paddr)
  <2> DEFINE g == s[p].pdt_paddr
  <2>1. /\ g \in Frames /\ Tables(m, g) \subseteq Frames
        /\ g \notin Hold(cl[c]) /\ Tables(m, g) \cap Hold(cl[c]) = {}
    BY <1>8, ProcFrames
  <2> HIDE DEF g
  <2>2. g \in Phys /\ g # 0 /\ g \notin {f} /\ Tables(m, g) \cap {f} = {}
    BY <2>1, Constants
  <2>4. UserSame(m, m2, g)
    BY <1>1, <1>3, <1>4, <2>2, SameFrom
  <2> QED
    BY <2>4 DEF g
<1>9. \A p \in Using(s) : s[p].pdt_paddr # 0 => UserSame(m, m2, s[p].pdt_paddr)
  BY <1>8
<1>10. Inv(m2, s, cl, h, o, fl)
  <2> DEFINE B == {}
  <2>1. /\ Kept(m, m2, B)
        /\ \A p \in Using(s) : s[p].pdt_paddr \notin B /\ s[p].kernel_stack_paddr \notin B
        /\ \A d \in Callers : cl[d].at \in {"code_read", "copy_data"} => Hold(cl[d]) \cap B = {}
    BY <1>7
  <2> HIDE DEF B
  <2> QED
    BY <1>3, <1>6, <1>9, <2>1, MemStepSame
<1> QED
  BY <1>4, <1>7, <1>10

\* Translations depend on the entries.
LEMMA SameAt ==
    ASSUME NEW m, NEW m2, m2.at = m.at
    PROVE  /\ \A B : Kept(m, m2, B)
           /\ \A f : UserSame(m, m2, f) /\ Tables(m2, f) = Tables(m, f)
           /\ KernelTables(m2) = KernelTables(m)
           /\ \A e : PsMapped(m, e) => PsMapped(m2, e)
           /\ \A e : CallMapped(m, e) => CallMapped(m2, e)
<1>1. \A x : Translate(m2, kernel_pdt, x) = Translate(m, kernel_pdt, x)
  BY DEF Translate, IS_ENTRY_PRESENT
<1>2. \A f : UserSame(m, m2, f) /\ Tables(m2, f) = Tables(m, f)
  BY DEF UserSame, UserHalf, Tables
<1>3. KernelTables(m2) = KernelTables(m)
  BY DEF KernelTables
<1>4. \A B : Kept(m, m2, B)
  BY <1>1 DEF Kept
<1>5. \A e : PsMapped(m, e) => PsMapped(m2, e)
  BY <1>1 DEF PsMapped
<1>6. \A e : CallMapped(m, e) => CallMapped(m2, e)
  BY <1>1 DEF CallMapped
<1> QED
  BY <1>2, <1>3, <1>4, <1>5, <1>6

\* Free frames are lost.
LEMMA LeakStep ==
    ASSUME NEW m, NEW s, NEW cl, NEW h, NEW o, NEW fl, Inv(m, s, cl, h, o, fl),
           NEW n \in Nat, n > 0, NEW f, f = pfa_allocate(m, n), NEW m2, m2 = Taken(m, f, n)
    PROVE  Inv(m2, s, cl, h, o, TRUE)
<1>1. m \in Mem /\ f \in Phys /\ Block(f, n) \in SUBSET m.free
  BY InvTyped, AllocFacts DEF Typed
<1>2. m2 \in Mem /\ m2.at = m.at /\ m2.free = m.free \ Block(f, n)
  BY <1>1, TakenFacts
<1>3. Kept(m, m2, {}) /\ KernelTables(m2) = KernelTables(m) /\ \A g : UserSame(m, m2, g)
  BY <1>2, SameAt
<1> DEFINE S == Block(f, n)
<1> HIDE DEF S
<1>4. S \in SUBSET m.free /\ m2.free = m.free \ S
  BY <1>1, <1>2 DEF S
<1>5. fl \in BOOLEAN /\ TRUE \in BOOLEAN
  BY InvTyped
<1> QED
  BY <1>2, <1>3, <1>4, <1>5, MemStepKept

\* An account that is put back changes nothing.
LEMMA PutSame ==
    ASSUME NEW own \in Own, NEW c \in Callers, NEW k \in Kinds, NEW S, S = own[c][k]
    PROVE  Put(own, c, k, S) = own
<1>1. S \in SUBSET Nat
  BY DEF Own
<1>2. Put(own, c, k, S) \in Own /\ \A d \in Callers, l \in Kinds : Put(own, c, k, S)[d][l] = own[d][l]
  BY <1>1, PutAt
<1> QED
  BY <1>2, OwnEqual

\* The accounts depend on the entries of the tables.
LEMMA UsesSameAt ==
    ASSUME NEW m, NEW m2, m2.at = m.at, NEW s, NEW cl, NEW h, NEW o
    PROVE  Uses(m2, s, cl, h, o) = Uses(m, s, cl, h, o)
BY DEF Uses, UseOf, PsUse, BootUse, Tables, KernelTables

\* A call that begins, goes on or ends, while the tables stay as they are.
LEMMA CallChange ==
    ASSUME NEW m, NEW s, NEW cl, NEW h, NEW o, NEW fl, Inv(m, s, cl, h, o, fl),
           NEW m2 \in Mem, m2.at = m.at, NEW c \in Callers, NEW e \in CallTypes,
           NEW fl2 \in BOOLEAN, fl => fl2, CallOK(e, fl2), CallMapped(m, e),
           e.at \notin {"idle", "delete", "loop"} => Shape(m, s[e.child], Level(e)),
           e.at # "idle" =>
              /\ e.child \in Procs /\ s[e.child].st = "loading"
              /\ IF c = boot THEN e.op = "create" ELSE s[c].st = "live"
              /\ \A d \in Callers : d # c /\ cl[d].at # "idle" => cl[d].child # e.child,
           Ledger(Put(Uses(m, s, cl, h, o), c, "call", Hold(e)), m2.free, ~fl2)
    PROVE  Inv(m2, s, [cl EXCEPT ![c] = e], h, o, fl2)
<1> DEFINE cl2 == [cl EXCEPT ![c] = e]
<1>1. Typed(m, s, cl, h, o) /\ fl \in BOOLEAN
  BY InvTyped
<1>2. cl2[c] = e /\ \A d \in Callers : d # c => cl2[d] = cl[d]
  BY <1>1 DEF Typed
<1>3. cl2 \in [Callers -> CallTypes]
  BY <1>1 DEF Typed
<1>4. Ledger(Uses(m2, s, cl2, h, o), m2.free, ~fl2)
  <2>1. Uses(m, s, cl2, h, o) = Put(Uses(m, s, cl, h, o), c, "call", Hold(e))
    BY <1>1, UsesCall
  <2>2. Uses(m2, s, cl2, h, o) = Uses(m, s, cl2, h, o)
    BY UsesSameAt
  <2> QED
    BY <2>1, <2>2
<1> HIDE DEF cl2
<1>5. /\ \A y : PsMapped(m, y) => PsMapped(m2, y)
      /\ \A y : CallMapped(m, y) => CallMapped(m2, y)
      /\ \A f : UserSame(m, m2, f)
  BY SameAt
<1>6. PsMap(m2, s)
  BY <1>5 DEF PsMap, Inv
<1>7. CallMap(m2, cl2)
  BY <1>2, <1>5 DEF CallMap, Inv
<1>8. Shapes(m2, s, cl2)
  <2>1. ASSUME NEW p \in Procs, s[p].st = "live" PROVE Shape(m2, s[p], 4)
    <3>1. Shape(m, s[p], 4)
      BY <2>1 DEF Inv, Shapes
    <3> QED
      BY <1>5, <3>1, ShapeKept
  <2>2. ASSUME NEW d \in Callers, cl2[d].at \notin {"idle", "delete", "loop"}
        PROVE  Shape(m2, s[cl2[d].child], Level(cl2[d]))
    <3>1. CASE d = c
      <4>1. Shape(m, s[e.child], Level(e))
        BY <1>2, <2>2, <3>1
      <4>2. Shape(m2, s[e.child], Level(e))
        BY <1>5, <4>1, LevelRange, ShapeKept
      <4> QED
        BY <1>2, <3>1, <4>2
    <3>2. CASE d # c
      <4>1. Shape(m, s[cl[d].child], Level(cl[d])) /\ cl2[d] = cl[d]
        BY <1>2, <2>2, <3>2 DEF Inv, Shapes
      <4>2. Shape(m2, s[cl[d].child], Level(cl[d]))
        BY <1>5, <4>1, LevelRange, ShapeKept
      <4> QED
        BY <4>1, <4>2
    <3> QED
      BY <3>1, <3>2
  <2> QED
    BY <2>1, <2>2 DEF Shapes
<1>9. Calls(s, cl2, fl2)
  <2>1. Calls(s, cl, fl)
    BY DEF Inv
  <2>2. ASSUME NEW d \in Callers PROVE CallOK(cl2[d], fl2)
    <3>1. CallOK(cl[d], fl2)
      BY <1>1, <2>1, CallOKMono DEF Calls
    <3> QED
      BY <1>2, <3>1
  <2>3. ASSUME NEW d \in Callers, cl2[d].at # "idle"
        PROVE  /\ cl2[d].child \in Procs /\ s[cl2[d].child].st = "loading"
               /\ IF d = boot THEN cl2[d].op = "create" ELSE s[d].st = "live"
    BY <1>2, <2>1, <2>3 DEF Calls
  <2>4. ASSUME NEW a \in Callers, NEW d \in Callers, cl2[a].at # "idle", cl2[d].at # "idle",
               cl2[a].child = cl2[d].child
        PROVE  a = d
    <3>1. CASE a # c /\ d # c
      BY <1>2, <2>1, <2>4, <3>1 DEF Calls
    <3>2. CASE a = c \/ d = c
      BY <1>2, <2>4, <3>2
    <3> QED
      BY <3>1, <3>2
  <2>5. /\ \A p \in Procs : Paired(s[p])
        /\ \A p \in Procs : s[p].st = "unused" => s[p] = Unused
    BY <2>1 DEF Calls
  <2> QED
    BY <2>2, <2>3, <2>4, <2>5 DEF Calls
<1> QED
  <2> SUFFICES Inv(m2, s, cl2, h, o, fl2)
    BY DEF cl2
  <2> QED
    BY <1>1, <1>3, <1>4, <1>6, <1>7, <1>8, <1>9 DEF Inv, Typed

\* A call at another step, with a block of frames and a page.
Moved(e, step, paddr, vaddr) == [e EXCEPT !.at = step, !.paddr = paddr, !.vaddr = vaddr]

LEMMA MovedFacts ==
    ASSUME NEW e \in CallTypes, NEW step \in Steps, NEW paddr \in Phys, NEW vaddr \in Pages
    PROVE  /\ Moved(e, step, paddr, vaddr) \in CallTypes
           /\ Moved(e, step, paddr, vaddr).at = step
           /\ Moved(e, step, paddr, vaddr).paddr = paddr
           /\ Moved(e, step, paddr, vaddr).vaddr = vaddr
           /\ Moved(e, step, paddr, vaddr).child = e.child
           /\ Moved(e, step, paddr, vaddr).op = e.op
           /\ Moved(e, step, paddr, vaddr).list = e.list
BY DEF CallTypes, Moved

LEMMA MovedFree ==
    ASSUME NEW e \in CallTypes, NEW step \in Steps
    PROVE  /\ Moved(e, step, 0, 0) \in CallTypes
           /\ Moved(e, step, 0, 0).at = step
           /\ Moved(e, step, 0, 0).paddr = 0
           /\ Moved(e, step, 0, 0).vaddr = 0
           /\ Moved(e, step, 0, 0).child = e.child
           /\ Moved(e, step, 0, 0).op = e.op
           /\ Moved(e, step, 0, 0).list = e.list
BY Constants DEF CallTypes, Moved

\* Go, as a change of the call.
Went(cl, c, step, paddr, vaddr) == [cl EXCEPT ![c].at = step, ![c].paddr = paddr, ![c].vaddr = vaddr]
LEMMA WentMoves ==
    ASSUME NEW cl \in [Callers -> CallTypes], NEW c \in Callers, NEW step, NEW paddr, NEW vaddr
    PROVE  Went(cl, c, step, paddr, vaddr) = [cl EXCEPT ![c] = Moved(cl[c], step, paddr, vaddr)]
BY DEF CallTypes, Moved, Went

\* What the struct and the caller of a call are, for a call that goes on.
LEMMA GoesOn ==
    ASSUME NEW m, NEW s, NEW cl, NEW h, NEW o, NEW fl, Inv(m, s, cl, h, o, fl),
           NEW c \in Callers, cl[c].at # "idle", NEW e, e.child = cl[c].child, e.op = cl[c].op
    PROVE  /\ e.child \in Procs /\ s[e.child].st = "loading"
           /\ IF c = boot THEN e.op = "create" ELSE s[c].st = "live"
           /\ \A d \in Callers : d # c /\ cl[d].at # "idle" => cl[d].child # e.child
<1>1. Calls(s, cl, fl)
  BY DEF Inv
<1>2. /\ cl[c].child \in Procs /\ s[cl[c].child].st = "loading"
      /\ IF c = boot THEN cl[c].op = "create" ELSE s[c].st = "live"
  BY <1>1 DEF Calls
<1>3. \A d \in Callers : d # c /\ cl[d].at # "idle" => cl[d].child # cl[c].child
  BY ChildFacts
<1> QED
  BY <1>2, <1>3

\* A call goes on with the frames it has.
LEMMA AdvanceStep ==
    ASSUME NEW m, NEW s, NEW cl, NEW h, NEW o, NEW fl, Inv(m, s, cl, h, o, fl),
           NEW c \in Callers, cl[c].at # "idle",
           NEW e \in CallTypes, e.child = cl[c].child, e.op = cl[c].op, e.at # "idle",
           CallOK(e, fl), CallMapped(m, e),
           e.at \notin {"idle", "delete", "loop"} => Shape(m, s[e.child], Level(e)),
           Hold(e) = Hold(cl[c])
    PROVE  Inv(m, s, [cl EXCEPT ![c] = e], h, o, fl)
<1>1. Typed(m, s, cl, h, o) /\ fl \in BOOLEAN /\ m \in Mem
  BY InvTyped DEF Typed
<1>2. Put(Uses(m, s, cl, h, o), c, "call", Hold(e)) = Uses(m, s, cl, h, o)
  <2>1. Uses(m, s, cl, h, o) \in Own /\ Uses(m, s, cl, h, o)[c]["call"] = Hold(e)
    BY InvTyped, UsesIs
  <2>2. "call" \in Kinds
    BY DEF Kinds
  <2> QED
    BY <2>1, <2>2, PutSame
<1>3. Ledger(Put(Uses(m, s, cl, h, o), c, "call", Hold(e)), m.free, ~fl)
  BY <1>2, InvTyped
<1>4. /\ e.child \in Procs /\ s[e.child].st = "loading"
      /\ IF c = boot THEN e.op = "create" ELSE s[c].st = "live"
      /\ \A d \in Callers : d # c /\ cl[d].at # "idle" => cl[d].child # e.child
  BY GoesOn
<1> QED
  BY <1>1, <1>3, <1>4, CallChange

\* The end of a step that fails: what the call had is lost.
LEMMA FailStep ==
    ASSUME NEW m, NEW s, NEW cl, NEW h, NEW o, NEW fl, Inv(m, s, cl, h, o, fl),
           NEW c \in Callers, cl[c].at # "idle", NEW step \in {"delete", "loop"}
    PROVE  Inv(m, s, [cl EXCEPT ![c] = Moved(cl[c], step, 0, 0)], h, o, TRUE)
<1> DEFINE e == Moved(cl[c], step, 0, 0)
<1>1. Typed(m, s, cl, h, o) /\ fl \in BOOLEAN /\ m \in Mem /\ cl[c] \in CallTypes
  BY InvTyped DEF Typed
<1>2. /\ e \in CallTypes /\ e.at = step /\ e.paddr = 0 /\ e.vaddr = 0
      /\ e.child = cl[c].child /\ e.op = cl[c].op
  <2>1. step \in Steps
    BY DEF Steps
  <2> QED
    BY <1>1, <2>1, MovedFree
<1> HIDE DEF e
<1>3. CallOK(e, TRUE) /\ CallMapped(m, e) /\ Hold(e) = {}
  <2>1. VIRTUAL_TO_PT_IDX(0) = 0
    BY PagingAssumption DEF VIRTUAL_TO_PT_IDX
  <2> QED
    BY <1>2, <2>1, SizeNat, Constants DEF CallOK, CallMapped, Hold, Block, Holding
<1>4. Ledger(Put(Uses(m, s, cl, h, o), c, "call", Hold(e)), m.free, FALSE)
  <2>1. "call" \in Kinds
    BY DEF Kinds
  <2> QED
    BY <1>3, <2>1, InvTyped, LedgerDrop
<1>5. /\ e.child \in Procs /\ s[e.child].st = "loading"
      /\ IF c = boot THEN e.op = "create" ELSE s[c].st = "live"
      /\ \A d \in Callers : d # c /\ cl[d].at # "idle" => cl[d].child # e.child
  BY <1>2, GoesOn
<1>6. TRUE \in BOOLEAN /\ (fl => TRUE) /\ e.at \in {"delete", "loop"}
      /\ Ledger(Put(Uses(m, s, cl, h, o), c, "call", Hold(e)), m.free, ~TRUE)
  BY <1>2, <1>4
<1>7. Inv(m, s, [cl EXCEPT ![c] = e], h, o, TRUE)
  BY <1>1, <1>2, <1>3, <1>5, <1>6, CallChange
<1> QED
  BY <1>7 DEF e

\* A step that fails frees what the call had.
LEMMA FreeStep ==
    ASSUME NEW m, NEW s, NEW cl, NEW h, NEW o, NEW fl, Inv(m, s, cl, h, o, fl),
           NEW c \in Callers, cl[c].at # "idle", cl[c].paddr # 0,
           NEW n, n = Size(cl[c]), NEW m2, m2 = pfa_free_cont(m, cl[c].paddr, n)
    PROVE  Inv(m2, s, [cl EXCEPT ![c] = Moved(cl[c], "delete", 0, 0)], h, o, TRUE)
<1> DEFINE e == Moved(cl[c], "delete", 0, 0)
<1>1. Typed(m, s, cl, h, o) /\ fl \in BOOLEAN /\ m \in Mem /\ cl[c] \in CallTypes
  BY InvTyped DEF Typed
<1>2. /\ e \in CallTypes /\ e.at = "delete" /\ e.paddr = 0 /\ e.vaddr = 0
      /\ e.child = cl[c].child /\ e.op = cl[c].op
  <2>1. "delete" \in Steps
    BY DEF Steps
  <2> QED
    BY <1>1, <2>1, MovedFree
<1> HIDE DEF e
<1>3. CallOK(e, TRUE) /\ CallMapped(m, e) /\ Hold(e) = {}
  <2>1. VIRTUAL_TO_PT_IDX(0) = 0
    BY PagingAssumption DEF VIRTUAL_TO_PT_IDX
  <2> QED
    BY <1>2, <2>1, SizeNat, Constants DEF CallOK, CallMapped, Hold, Block, Holding
<1>4. m2 \in Mem /\ m2.at = m.at /\ m2.free = m.free \cup Hold(cl[c])
  <2>1. Hold(cl[c]) = Block(cl[c].paddr, n) /\ n \in Nat /\ cl[c].paddr \in Phys
    BY <1>1, SizeNat DEF Hold, CallTypes
  <2>2. Hold(cl[c]) \subseteq Frames /\ Hold(cl[c]) \cap m.free = {}
    BY CallFrames
  <2>3. Block(cl[c].paddr, n) \subseteq Frames /\ Block(cl[c].paddr, n) \cap m.free = {}
    BY <2>1, <2>2
  <2>4. m2 \in Mem /\ m2.at = m.at /\ m2.free = m.free \cup Block(cl[c].paddr, n)
    BY <1>1, <2>1, <2>3, FreeFacts
  <2> QED
    BY <2>1, <2>4
<1>5. Ledger(Put(Uses(m, s, cl, h, o), c, "call", Hold(e)), m2.free, ~TRUE)
  <2> DEFINE u == Uses(m, s, cl, h, o)
  <2>1. "call" \in Kinds /\ u \in Own /\ Ledger(u, m.free, ~fl) /\ (~fl) \in BOOLEAN
        /\ m.free \in SUBSET Frames
    BY InvTyped DEF Kinds
  <2>2. u[c]["call"] = Hold(cl[c])
    BY UsesIs
  <2> HIDE DEF u
  <2>3. Ledger(Put(u, c, "call", {}), m.free \cup u[c]["call"], ~fl)
    BY <2>1, LedgerFree
  <2>4. Ledger(Put(u, c, "call", {}), m2.free, ~TRUE)
    BY <1>4, <2>2, <2>3 DEF Ledger
  <2> QED
    BY <1>3, <2>4 DEF u
<1>6. /\ e.child \in Procs /\ s[e.child].st = "loading"
      /\ IF c = boot THEN e.op = "create" ELSE s[c].st = "live"
      /\ \A d \in Callers : d # c /\ cl[d].at # "idle" => cl[d].child # e.child
  BY <1>2, GoesOn
<1>7. TRUE \in BOOLEAN /\ (fl => TRUE) /\ e.at \in {"delete", "loop"}
  BY <1>2
<1>8. Inv(m2, s, [cl EXCEPT ![c] = e], h, o, TRUE)
  BY <1>2, <1>3, <1>4, <1>5, <1>6, <1>7, CallChange
<1> QED
  BY <1>8 DEF e

\* A call takes a block of free frames.
LEMMA TakeStep ==
    ASSUME NEW m, NEW s, NEW cl, NEW h, NEW o, NEW fl, Inv(m, s, cl, h, o, fl),
           NEW c \in Callers, cl[c].at # "idle", cl[c].paddr = 0,
           NEW n \in Nat, n > 0, NEW f, f = pfa_allocate(m, n), NEW m2, m2 = Taken(m, f, n),
           NEW e \in CallTypes, e.child = cl[c].child, e.op = cl[c].op,
           e.at \in {"pdt_map", "code_map", "copy_map", "kernel_stack_map"},
           e.paddr = f, n = Size(e), CallOK(e, fl),
           Shape(m, s[e.child], Level(e))
    PROVE  Inv(m2, s, [cl EXCEPT ![c] = e], h, o, fl)
<1>1. Typed(m, s, cl, h, o) /\ fl \in BOOLEAN /\ m \in Mem
  BY InvTyped DEF Typed
<1>2. f \in Phys /\ Block(f, n) \in SUBSET m.free
  BY <1>1, AllocFacts
<1>3. m2 \in Mem /\ m2.at = m.at /\ m2.free = m.free \ Block(f, n)
  BY <1>1, <1>2, TakenFacts
<1>4. Hold(e) = Block(f, n) /\ Hold(cl[c]) = {}
  BY DEF Hold, Block
<1>5. Ledger(Put(Uses(m, s, cl, h, o), c, "call", Hold(e)), m2.free, ~fl)
  <2> DEFINE u == Uses(m, s, cl, h, o)
             S == Block(f, n)
  <2>1. "call" \in Kinds /\ u \in Own /\ Ledger(u, m.free, ~fl) /\ (~fl) \in BOOLEAN
        /\ m.free \in SUBSET Frames
    BY InvTyped DEF Kinds
  <2>2. u[c]["call"] = {}
    BY <1>4, UsesIs
  <2>3. S \in SUBSET Nat /\ S \in SUBSET m.free
    BY <1>2, <2>1, Constants
  <2> HIDE DEF u, S
  <2>4. S = u[c]["call"] \cup S
    BY <2>2
  <2>5. Ledger(Put(u, c, "call", S), m.free \ S, ~fl)
    BY <2>1, <2>3, <2>4, LedgerTake
  <2> QED
    BY <1>3, <1>4, <2>5 DEF u, S
<1>6. /\ e.child \in Procs /\ s[e.child].st = "loading"
      /\ IF c = boot THEN e.op = "create" ELSE s[c].st = "live"
      /\ \A d \in Callers : d # c /\ cl[d].at # "idle" => cl[d].child # e.child
  BY GoesOn
<1>7. CallMapped(m, e)
  BY DEF CallMapped
<1> QED
  BY <1>1, <1>3, <1>5, <1>6, <1>7, CallChange

\* A call ends.
LEMMA IdleStep ==
    ASSUME NEW m, NEW s, NEW cl, NEW h, NEW o, NEW fl, Inv(m, s, cl, h, o, fl),
           NEW c \in Callers, cl[c].paddr = 0
    PROVE  Inv(m, s, [cl EXCEPT ![c] = Idle], h, o, fl)
<1>1. Typed(m, s, cl, h, o) /\ fl \in BOOLEAN /\ m \in Mem
  BY InvTyped DEF Typed
<1>2. Idle \in CallTypes /\ Idle.at = "idle" /\ Idle.paddr = 0 /\ Idle.vaddr = 0 /\ Idle.list = "code"
  BY Constants DEF Idle, CallTypes, Steps, Lists
<1>3. CallOK(Idle, fl) /\ CallMapped(m, Idle) /\ Hold(Idle) = {} /\ Hold(cl[c]) = {}
  <2>1. VIRTUAL_TO_PT_IDX(0) = 0
    BY PagingAssumption DEF VIRTUAL_TO_PT_IDX
  <2> QED
    BY <1>2, <2>1, SizeNat, Constants DEF CallOK, CallMapped, Hold, Block, Holding
<1>4. Put(Uses(m, s, cl, h, o), c, "call", Hold(Idle)) = Uses(m, s, cl, h, o)
  <2>1. Uses(m, s, cl, h, o) \in Own /\ Uses(m, s, cl, h, o)[c]["call"] = Hold(Idle)
    BY <1>3, InvTyped, UsesIs
  <2>2. "call" \in Kinds
    BY DEF Kinds
  <2> QED
    BY <2>1, <2>2, PutSame
<1>5. Ledger(Put(Uses(m, s, cl, h, o), c, "call", Hold(Idle)), m.free, ~fl)
  BY <1>4, InvTyped
<1> DEFINE e == Idle
<1> HIDE DEF e
<1> QED
  <2>1. /\ e \in CallTypes /\ e.at = "idle" /\ CallOK(e, fl) /\ CallMapped(m, e)
        /\ Ledger(Put(Uses(m, s, cl, h, o), c, "call", Hold(e)), m.free, ~fl)
    BY <1>2, <1>3, <1>5 DEF e
  <2>2. Inv(m, s, [cl EXCEPT ![c] = e], h, o, fl)
    BY <1>1, <2>1, CallChange
  <2> QED
    BY <2>2 DEF e

\* An unused struct is empty.
Blank(e) == e.st = "unused" => e = Unused

\* A struct that no call loads changes, and pages of the kernel that lead to B may go.
LEMMA StructChange ==
    ASSUME NEW m, NEW s, NEW cl, NEW h, NEW o, NEW fl, Inv(m, s, cl, h, o, fl),
           NEW m2 \in Mem, NEW p \in Procs, NEW x \in PsTypes, Paired(x),
           Blank(x), x.st = "live" => Shape(m2, x, 4),
           x.st \in {"loading", "live"} => PsMapped(m2, x),
           \A c \in Callers : cl[c].at # "idle" => cl[c].child # p,
           cl[p].at # "idle" => x.st = "live",
           NEW B, Kept(m, m2, B),
           \A q \in Using(s) : q # p => s[q].pdt_paddr \notin B /\ s[q].kernel_stack_paddr \notin B,
           \A c \in Callers : cl[c].at \in {"code_read", "copy_data"} => Hold(cl[c]) \cap B = {},
           \A q \in Using(s) : q # p /\ s[q].pdt_paddr # 0 => UserSame(m, m2, s[q].pdt_paddr),
           NEW o2 \in SUBSET Frames,
           Ledger(Uses(m2, [s EXCEPT ![p] = x], cl, h, o2), m2.free, ~fl)
    PROVE  Inv(m2, [s EXCEPT ![p] = x], cl, h, o2, fl)
<1> DEFINE s2 == [s EXCEPT ![p] = x]
<1>1. Typed(m, s, cl, h, o) /\ fl \in BOOLEAN
  BY InvTyped
<1>2. s2[p] = x /\ \A q \in Procs : q # p => s2[q] = s[q]
  BY <1>1 DEF Typed
<1>3. s2 \in [Procs -> PsTypes]
  BY <1>1 DEF Typed
<1>4. Ledger(Uses(m2, s2, cl, h, o2), m2.free, ~fl)
  OBVIOUS
<1> HIDE DEF s2
<1>5. PsMap(m2, s2)
  <2> SUFFICES ASSUME NEW q \in Using(s2) PROVE PsMapped(m2, s2[q])
    BY DEF PsMap
  <2>1. CASE q = p
    BY <1>2, <2>1 DEF Using
  <2>2. CASE q # p
    <3>1. s2[q] = s[q] /\ q \in Using(s)
      BY <1>2, <2>2 DEF Using
    <3>2. s[q] \in PsTypes /\ PsMapped(m, s[q])
      BY <1>1, <3>1 DEF Typed, Using, Inv, PsMap
    <3>3. PsMapped(m2, s[q])
      BY <2>2, <3>1, <3>2, PsMappedKept
    <3> QED
      BY <3>1, <3>3
  <2> QED
    BY <2>1, <2>2
<1>6. CallMap(m2, cl)
  <2> SUFFICES ASSUME NEW c \in Callers PROVE CallMapped(m2, cl[c])
    BY DEF CallMap
  <2>1. CASE cl[c].at \notin {"code_read", "copy_data"}
    BY <2>1 DEF CallMapped
  <2>2. CASE cl[c].at \in {"code_read", "copy_data"}
    <3>1. cl[c] \in CallTypes /\ CallMapped(m, cl[c]) /\ CallOK(cl[c], fl)
      BY <1>1 DEF Typed, Inv, CallMap, Calls
    <3>2. cl[c].paddr # 0
      BY <2>2, <3>1 DEF CallOK, Holding
    <3> QED
      BY <2>2, <3>1, <3>2, CallMappedKept
  <2> QED
    BY <2>1, <2>2
<1>7. Shapes(m2, s2, cl)
  <2>1. ASSUME NEW q \in Procs, s2[q].st = "live" PROVE Shape(m2, s2[q], 4)
    <3>1. CASE q = p
      BY <1>2, <2>1, <3>1
    <3>2. CASE q # p
      <4>1. s2[q] = s[q] /\ q \in Using(s) /\ Shape(m, s[q], 4)
        BY <1>2, <2>1, <3>2 DEF Using, Inv, Shapes
      <4>2. Shape(m2, s[q], 4)
        BY <3>2, <4>1, ShapeKept
      <4> QED
        BY <4>1, <4>2
    <3> QED
      BY <3>1, <3>2
  <2>2. ASSUME NEW c \in Callers, cl[c].at \notin {"idle", "delete", "loop"}
        PROVE  Shape(m2, s2[cl[c].child], Level(cl[c]))
    <3>1. /\ cl[c].child \in Using(s) /\ cl[c].child \in Procs
          /\ Shape(m, s[cl[c].child], Level(cl[c]))
      BY <2>2, ChildFacts
    <3>2. cl[c].child # p
      BY <2>2
    <3>3. Shape(m2, s[cl[c].child], Level(cl[c]))
      BY <3>1, <3>2, LevelRange, ShapeKept
    <3> QED
      BY <1>2, <3>1, <3>2, <3>3
  <2> QED
    BY <2>1, <2>2 DEF Shapes
<1>8. Calls(s2, cl, fl)
  <2>1. Calls(s, cl, fl)
    BY DEF Inv
  <2>2. ASSUME NEW c \in Callers, cl[c].at # "idle"
        PROVE  /\ cl[c].child \in Procs /\ s2[cl[c].child].st = "loading"
               /\ IF c = boot THEN cl[c].op = "create" ELSE s2[c].st = "live"
    <3>1. /\ cl[c].child \in Procs /\ s[cl[c].child].st = "loading" /\ cl[c].child # p
          /\ IF c = boot THEN cl[c].op = "create" ELSE s[c].st = "live"
      BY <2>1, <2>2 DEF Calls
    <3>2. c # boot => s2[c].st = "live"
      BY <1>2, <2>2, <3>1 DEF Callers
    <3> QED
      BY <1>2, <3>1, <3>2
  <2>3. ASSUME NEW q \in Procs PROVE Paired(s2[q]) /\ (s2[q].st = "unused" => s2[q] = Unused)
    BY <1>2, <2>1 DEF Calls, Blank
  <2>4. /\ \A c \in Callers : CallOK(cl[c], fl)
        /\ \A c, d \in Callers : cl[c].at # "idle" /\ cl[d].at # "idle" /\ cl[c].child = cl[d].child => c = d
    BY <2>1 DEF Calls
  <2> QED
    BY <2>2, <2>3, <2>4 DEF Calls
<1> QED
  <2> SUFFICES Inv(m2, s2, cl, h, o2, fl)
    BY DEF s2
  <2> QED
    BY <1>1, <1>3, <1>4, <1>5, <1>6, <1>7, <1>8 DEF Inv, Typed

\* A struct that has been loaded completely is put on the run queue.
LEMMA LiveStep ==
    ASSUME NEW m, NEW s, NEW cl, NEW h, NEW o, NEW fl, Inv(m, s, cl, h, o, fl),
           NEW p \in Procs, s[p].st = "loading", Shape(m, s[p], 4),
           \A c \in Callers : cl[c].at # "idle" => cl[c].child # p
    PROVE  Inv(m, [s EXCEPT ![p].st = "live"], cl, h, o, fl)
<1> DEFINE x == [s[p] EXCEPT !.st = "live"]
<1>1. Typed(m, s, cl, h, o) /\ m \in Mem /\ s[p] \in PsTypes /\ o \in SUBSET Frames
  BY InvTyped DEF Typed
<1>2. /\ x \in PsTypes /\ x.st = "live" /\ x.pdt = s[p].pdt /\ x.pdt_paddr = s[p].pdt_paddr
      /\ x.code = s[p].code /\ x.stack = s[p].stack /\ x.kernel_stack = s[p].kernel_stack
      /\ x.kernel_stack_paddr = s[p].kernel_stack_paddr
  BY <1>1 DEF PsTypes
<1>3. [s EXCEPT ![p].st = "live"] = [s EXCEPT ![p] = x]
  BY <1>1 DEF Typed
<1> HIDE DEF x
<1>4. p \in Using(s) /\ Paired(s[p]) /\ PsMapped(m, s[p])
  <2>1. p \in Using(s)
    BY DEF Using
  <2>2. PsMap(m, s) /\ Calls(s, cl, fl)
    BY DEF Inv
  <2> QED
    BY <2>1, <2>2 DEF Calls, PsMap
<1>5. Paired(x) /\ PsMapped(m, x) /\ Shape(m, x, 4) /\ Blank(x)
  BY <1>2, <1>4, Zenon DEF Paired, PsMapped, Shape, Blank
<1>6. \A l \in PsKinds : PsUse(m, x, l) = IF p \in Using(s) THEN PsUse(m, s[p], l) ELSE {}
  BY <1>2, <1>4 DEF PsUse
<1>7. Uses(m, [s EXCEPT ![p] = x], cl, h, o) = Uses(m, s, cl, h, o)
  BY <1>1, <1>2, <1>6, UsesPsSame
<1>8. Ledger(Uses(m, [s EXCEPT ![p] = x], cl, h, o), m.free, ~fl)
  BY <1>7, InvTyped
<1> DEFINE B == {}
<1>9. /\ Kept(m, m, B) /\ \A f : UserSame(m, m, f)
      /\ \A q \in Using(s) : q # p => s[q].pdt_paddr \notin B /\ s[q].kernel_stack_paddr \notin B
      /\ \A c \in Callers : cl[c].at \in {"code_read", "copy_data"} => Hold(cl[c]) \cap B = {}
  BY SameAt
<1> HIDE DEF B
<1>10. Inv(m, [s EXCEPT ![p] = x], cl, h, o, fl)
  BY <1>1, <1>2, <1>5, <1>8, <1>9, StructChange
<1> QED
  BY <1>3, <1>10

\* An unused struct is initialised.
LEMMA NewStep ==
    ASSUME NEW m, NEW s, NEW cl, NEW h, NEW o, NEW fl, Inv(m, s, cl, h, o, fl),
           NEW p \in Procs, s[p].st = "unused", NEW x \in PsTypes, x.st = "loading",
           x.pdt = 0, x.pdt_paddr = 0, x.code = 0, x.stack = 0, x.kernel_stack = 0,
           x.kernel_stack_paddr = 0
    PROVE  /\ Inv(m, [s EXCEPT ![p] = x], cl, h, o, fl)
           /\ \A c \in Callers : cl[c].at # "idle" => cl[c].child # p
           /\ Shape(m, x, 0)
<1>1. Typed(m, s, cl, h, o) /\ m \in Mem /\ s[p] \in PsTypes /\ o \in SUBSET Frames
  BY InvTyped DEF Typed
<1>3. \A c \in Callers : cl[c].at # "idle" => cl[c].child # p
  BY DEF Inv, Calls
<1>4. cl[p].at = "idle"
  BY Constants DEF Inv, Calls
<1>5. Paired(x) /\ PsMapped(m, x) /\ Shape(m, x, 0) /\ Blank(x)
  BY DEF Paired, PsMapped, Shape, Blank
<1>6. \A l \in PsKinds : PsUse(m, x, l) = IF p \in Using(s) THEN PsUse(m, s[p], l) ELSE {}
  <2>1. p \notin Using(s) /\ Block(x.pdt_paddr, 1) = {} /\ Block(x.kernel_stack_paddr, 1) = {}
        /\ Block(x.stack, 1) = {} /\ Block(x.code, CODE_PAGES) = {} /\ Tables(m, x.pdt_paddr) = {}
    BY DEF Using, Block, Tables
  <2>2. \A l \in PsKinds : PsUse(m, x, l) = {}
    BY <2>1 DEF PsUse, PsKinds
  <2> QED
    BY <2>1, <2>2
<1>7. Uses(m, [s EXCEPT ![p] = x], cl, h, o) = Uses(m, s, cl, h, o)
  BY <1>1, <1>6, UsesPsSame
<1>8. Ledger(Uses(m, [s EXCEPT ![p] = x], cl, h, o), m.free, ~fl)
  BY <1>7, InvTyped
<1> DEFINE B == {}
<1>9. /\ Kept(m, m, B) /\ \A f : UserSame(m, m, f)
      /\ \A q \in Using(s) : q # p => s[q].pdt_paddr \notin B /\ s[q].kernel_stack_paddr \notin B
      /\ \A c \in Callers : cl[c].at \in {"code_read", "copy_data"} => Hold(cl[c]) \cap B = {}
  BY SameAt
<1> HIDE DEF B
<1>10. Inv(m, [s EXCEPT ![p] = x], cl, h, o, fl)
  BY <1>1, <1>3, <1>4, <1>5, <1>8, <1>9, StructChange
<1> QED
  BY <1>3, <1>5, <1>10

\* The blocks of a struct.
LEMMA StructBlocks ==
    ASSUME NEW m, NEW s, NEW cl, NEW h, NEW o, NEW fl, Inv(m, s, cl, h, o, fl), NEW p \in Using(s),
           NEW P, P = Block(s[p].pdt_paddr, 1), NEW K, K = Block(s[p].kernel_stack_paddr, 1),
           NEW T, T = Block(s[p].stack, 1), NEW C, C = Block(s[p].code, CODE_PAGES)
    PROVE  /\ P \cup K \cup T \cup C \subseteq Frames
           /\ (P \cup K \cup T \cup C) \cap m.free = {}
           /\ (P \cup K \cup T \cup C) \cap KernelTables(m) = {}
           /\ P \cap K = {} /\ P \cap T = {} /\ P \cap C = {}
           /\ K \cap T = {} /\ K \cap C = {} /\ T \cap C = {}
           /\ \A c \in Callers : Hold(cl[c]) \cap K = {}
           /\ \A q \in Using(s) : q # p => s[q].pdt_paddr \notin K /\ s[q].kernel_stack_paddr \notin K
<1> DEFINE u == Uses(m, s, cl, h, o)
<1>1. Ledger(u, m.free, ~fl) /\ Typed(m, s, cl, h, o)
  BY InvTyped
<1>2. /\ u[p]["pdt"] = P /\ u[p]["kernel_stack"] = K /\ u[p]["stack"] = T /\ u[p]["code"] = C
      /\ u[boot]["kernel"] = KernelTables(m)
      /\ \A c \in Callers : u[c]["call"] = Hold(cl[c])
      /\ \A q \in Using(s) : /\ u[q]["pdt"] = Block(s[q].pdt_paddr, 1)
                             /\ u[q]["kernel_stack"] = Block(s[q].kernel_stack_paddr, 1)
  BY UsesIs
<1>3. /\ "pdt" \in Kinds /\ "kernel_stack" \in Kinds /\ "stack" \in Kinds /\ "code" \in Kinds
      /\ "kernel" \in Kinds /\ "call" \in Kinds
      /\ boot \in Callers /\ p \in Callers /\ p # boot /\ \A q \in Using(s) : q \in Callers
  BY Constants DEF Kinds, Using
<1> HIDE DEF u
<1>4. /\ P \subseteq Frames /\ K \subseteq Frames /\ T \subseteq Frames /\ C \subseteq Frames
      /\ P \cap m.free = {} /\ K \cap m.free = {} /\ T \cap m.free = {} /\ C \cap m.free = {}
  BY <1>1, <1>2, <1>3 DEF Ledger
<1>5. /\ P \cap KernelTables(m) = {} /\ K \cap KernelTables(m) = {}
      /\ T \cap KernelTables(m) = {} /\ C \cap KernelTables(m) = {}
  BY <1>1, <1>2, <1>3 DEF Ledger
<1>6. /\ P \cap K = {} /\ P \cap T = {} /\ P \cap C = {}
      /\ K \cap T = {} /\ K \cap C = {} /\ T \cap C = {}
  BY <1>1, <1>2, <1>3 DEF Ledger
<1>7. \A c \in Callers : Hold(cl[c]) \cap K = {}
  BY <1>1, <1>2, <1>3 DEF Ledger
<1>8. ASSUME NEW q \in Using(s), q # p PROVE s[q].pdt_paddr \notin K /\ s[q].kernel_stack_paddr \notin K
  <2>1. Block(s[q].pdt_paddr, 1) \cap K = {} /\ Block(s[q].kernel_stack_paddr, 1) \cap K = {}
    BY <1>1, <1>2, <1>3, <1>8 DEF Ledger
  <2>2. s[q].pdt_paddr \in Phys /\ s[q].kernel_stack_paddr \in Phys
    BY <1>1 DEF Typed, Using, PsTypes
  <2>3. ASSUME NEW f \in Phys, Block(f, 1) \cap K = {} PROVE f \notin K
    <3>1. CASE f = 0
      BY <1>4, <3>1, Constants
    <3>2. CASE f # 0
      BY <2>3, <3>2, BlockOne, Constants
    <3> QED
      BY <3>1, <3>2
  <2> QED
    BY <2>1, <2>2, <2>3
<1> QED
  BY <1>4, <1>5, <1>6, <1>7, <1>8

\* Freeing a list of one block, or an empty list.
LEMMA DeleteList ==
    ASSUME NEW m \in Mem, NEW n \in Nat, NEW f \in Phys,
           Block(f, n) \subseteq Frames, Block(f, n) \cap m.free = {}
    PROVE  /\ delete_paddr_list(m, f, n) \in Mem
           /\ delete_paddr_list(m, f, n).at = m.at
           /\ delete_paddr_list(m, f, n).free = m.free \cup Block(f, n)
<1>1. CASE f = 0
  BY <1>1 DEF delete_paddr_list, Block
<1>2. CASE f # 0
  BY <1>2, FreeFacts DEF delete_paddr_list
<1> QED
  BY <1>1, <1>2

\* pdt_delete frees the directory and no table: the test for a table is negated.
LEMMA PdtDelete ==
    ASSUME NEW m \in Mem, NEW page, NEW f \in Frames, f \notin m.free,
           Translate(m, kernel_pdt, page) = f
    PROVE  /\ pdt_delete(m, page) \in Mem
           /\ pdt_delete(m, page).at = m.at
           /\ pdt_delete(m, page).free = m.free \cup {f}
<1> DEFINE tables == {m.at[f][i] : i \in {j \in DOMAIN m.at[f] : IS_ENTRY_PAGE_TABLE(m, f, j)}}
           F == (m.free \ (tables \cup {f})) \cup ((tables \cup {f}) \ m.free)
<1>1. tables = {}
  BY DEF IS_ENTRY_PAGE_TABLE
<1> HIDE DEF tables
<1>2. F = m.free \cup {f} /\ F \in SUBSET Frames
  BY <1>1, MemFacts
<1>3. pdt_delete(m, page) = [m EXCEPT !.free = F]
  BY Zenon DEF pdt_delete, tables
<1> HIDE DEF F
<1> QED
  BY <1>2, <1>3, MemFacts

\* process_delete_resources of a struct e.
HalfGone(m, e) ==
    LET m1 == IF e.pdt = 0 THEN m ELSE pdt_delete(m, e.pdt)
    IN  IF e.kernel_stack = 0 THEN m1
        ELSE pdt_unmap_kernel_memory(delete_paddr_list(m1, e.kernel_stack_paddr, 1), e.kernel_stack, 1)
Gone(m, e) ==
    delete_paddr_list(delete_paddr_list(HalfGone(m, e), e.code, CODE_PAGES), e.stack, 1)

\* Its directory, kernel stack, code and stack are free afterwards.
LEMMA GoneFacts ==
    ASSUME NEW m, NEW s, NEW cl, NEW h, NEW o, NEW fl, Inv(m, s, cl, h, o, fl), NEW p \in Using(s),
           NEW P, P = Block(s[p].pdt_paddr, 1), NEW K, K = Block(s[p].kernel_stack_paddr, 1),
           NEW T, T = Block(s[p].stack, 1), NEW C, C = Block(s[p].code, CODE_PAGES),
           NEW m2, m2 = Gone(m, s[p])
    PROVE  /\ m2 \in Mem /\ m2.free = m.free \cup P \cup K \cup C \cup T
           /\ KernelTables(m2) = KernelTables(m)
           /\ \A f \in Phys : f \notin KernelTables(m) => m2.at[f] = m.at[f]
           /\ Kept(m, m2, K)
<1> DEFINE e == s[p]
           m1 == IF e.pdt = 0 THEN m ELSE pdt_delete(m, e.pdt)
           mk == delete_paddr_list(m1, e.kernel_stack_paddr, 1)
           mh == HalfGone(m, e)
           mc == delete_paddr_list(mh, e.code, CODE_PAGES)
<1>1. /\ m \in Mem /\ KernelOK(m) /\ m.free \in SUBSET Frames /\ e \in PsTypes
      /\ Paired(e) /\ PsMapped(m, e)
  BY InvTyped DEF Typed, Using, Inv, Calls, PsMap
<1>2. /\ P \subseteq Frames /\ K \subseteq Frames /\ T \subseteq Frames /\ C \subseteq Frames
      /\ P \cap m.free = {} /\ K \cap m.free = {} /\ T \cap m.free = {} /\ C \cap m.free = {}
      /\ P \cap KernelTables(m) = {} /\ K \cap KernelTables(m) = {}
      /\ P \cap K = {} /\ P \cap T = {} /\ P \cap C = {}
      /\ K \cap T = {} /\ K \cap C = {} /\ T \cap C = {}
  <2>1. /\ P \cup K \cup T \cup C \subseteq Frames
        /\ (P \cup K \cup T \cup C) \cap m.free = {}
        /\ (P \cup K \cup T \cup C) \cap KernelTables(m) = {}
        /\ P \cap K = {} /\ P \cap T = {} /\ P \cap C = {}
        /\ K \cap T = {} /\ K \cap C = {} /\ T \cap C = {}
    BY StructBlocks, SMTT(30)
  <2> QED
    BY <2>1, Zenon
<1>3. /\ e.pdt_paddr \in Phys /\ e.kernel_stack_paddr \in Phys /\ e.code \in Phys /\ e.stack \in Phys
      /\ e.kernel_stack \in Pages
  BY <1>1 DEF PsTypes
<1>0. /\ P = Block(e.pdt_paddr, 1) /\ K = Block(e.kernel_stack_paddr, 1)
      /\ T = Block(e.stack, 1) /\ C = Block(e.code, CODE_PAGES)
      /\ m2 = delete_paddr_list(mc, e.stack, 1)
      /\ mh = IF e.kernel_stack = 0 THEN m1 ELSE pdt_unmap_kernel_memory(mk, e.kernel_stack, 1)
  BY DEF Gone, HalfGone
<1> HIDE DEF e
<1>4. m1 \in Mem /\ m1.at = m.at /\ m1.free = m.free \cup P
  <2>1. CASE e.pdt = 0
    <3>1. P = {}
      BY <1>0, <1>1, <2>1 DEF Paired, Block
    <3> QED
      BY <1>1, <2>1, <3>1
  <2>2. CASE e.pdt # 0
    <3>1. e.pdt_paddr # 0 /\ P = {e.pdt_paddr}
      BY <1>0, <1>1, <1>3, <2>2, BlockOne, Constants DEF Paired
    <3>2. e.pdt_paddr \in Frames /\ e.pdt_paddr \notin m.free
      BY <1>2, <3>1
    <3>3. Translate(m, kernel_pdt, e.pdt) = e.pdt_paddr
      BY <1>1, <2>2 DEF PsMapped
    <3> QED
      BY <1>1, <2>2, <3>1, <3>2, <3>3, PdtDelete
  <2> QED
    BY <2>1, <2>2
<1> HIDE DEF m1
<1>5. mk \in Mem /\ mk.at = m.at /\ mk.free = m.free \cup P \cup K
  <2>1. 1 \in Nat /\ K \subseteq Frames /\ K \cap m1.free = {}
    BY <1>2, <1>4
  <2> QED
    BY <1>0, <1>3, <1>4, <2>1, DeleteList
<1> HIDE DEF mk, mh
<1>6. /\ mh \in Mem /\ mh.free = m.free \cup P \cup K
      /\ KernelTables(mh) = KernelTables(m)
      /\ \A f \in Phys : f \notin KernelTables(m) => mh.at[f] = m.at[f]
      /\ Kept(m, mh, K)
  <2>1. CASE e.kernel_stack = 0
    <3>1. K = {} /\ mh = m1
      BY <1>0, <1>1, <2>1 DEF Paired, Block
    <3>2. KernelTables(mh) = KernelTables(m) /\ Kept(m, mh, K)
      BY <1>4, <3>1, SameAt
    <3> QED
      BY <1>4, <3>1, <3>2
  <2>2. CASE e.kernel_stack # 0
    <3>1. mh = pdt_unmap_kernel_memory(mk, e.kernel_stack, 1)
      BY <1>0, <2>2
    <3>2. e.kernel_stack_paddr # 0 /\ K = {e.kernel_stack_paddr}
      BY <1>0, <1>1, <1>3, <2>2, BlockOne, Constants DEF Paired
    <3>3. KernelTables(mk) = KernelTables(m)
      BY <1>5, SameAt
    <3>4. KernelOK(mk)
      BY <1>1, <1>2, <1>5, <3>3 DEF KernelOK
    <3>5. Translate(mk, kernel_pdt, e.kernel_stack) = e.kernel_stack_paddr
      <4>1. Translate(m, kernel_pdt, e.kernel_stack) = e.kernel_stack_paddr
        BY <1>1, <2>2 DEF PsMapped
      <4> QED
        BY <1>5, <4>1 DEF Translate, IS_ENTRY_PRESENT
    <3>6. e.kernel_stack \in Nat /\ kernel_pdt \in Phys
      BY <1>3, Constants
    <3>7. VIRTUAL_TO_PDT_IDX(e.kernel_stack) \in DOMAIN mk.at[kernel_pdt]
      <4>1. Translate(mk, kernel_pdt, e.kernel_stack) # NotMapped
        BY <1>3, <3>5, NotMappedFacts
      <4> QED
        BY <4>1 DEF Translate, IS_ENTRY_PRESENT
    <3>8. VIRTUAL_TO_PT_IDX(e.kernel_stack) + 1 <= NUM_ENTRIES
      <4>1. VIRTUAL_TO_PT_IDX(e.kernel_stack) \in Entries
        BY <3>6, PageSplit
      <4> QED
        BY <4>1, PagingAssumption DEF Entries
    <3>9. \A j \in 0 .. (1 - 1) : Translate(mk, kernel_pdt, e.kernel_stack + j) \in K \cup {NotMapped}
      <4> SUFFICES ASSUME NEW j \in 0 .. (1 - 1)
                   PROVE  Translate(mk, kernel_pdt, e.kernel_stack + j) \in K \cup {NotMapped}
        OBVIOUS
      <4>1. e.kernel_stack + j = e.kernel_stack
        BY <3>6
      <4> QED
        BY <3>2, <3>5, <4>1
    <3>10. /\ mh \in Mem /\ mh.free = mk.free
           /\ KernelTables(mh) = KernelTables(mk)
           /\ \A f \in Phys : f \notin KernelTables(mk) => mh.at[f] = mk.at[f]
           /\ Kept(mk, mh, K)
      <4>1. 1 \in Nat /\ 1 > 0
        OBVIOUS
      <4> QED
        BY <1>3, <1>5, <3>1, <3>4, <3>7, <3>8, <3>9, <4>1, KernelUnmap
    <3>11. Kept(m, mh, K)
      <4>1. \A x : Translate(mk, kernel_pdt, x) = Translate(m, kernel_pdt, x)
        BY <1>5 DEF Translate, IS_ENTRY_PRESENT
      <4> QED
        BY <3>10, <4>1 DEF Kept
    <3> QED
      BY <1>5, <3>3, <3>10, <3>11
  <2> QED
    BY <2>1, <2>2
<1>7. mc \in Mem /\ mc.at = mh.at /\ mc.free = m.free \cup P \cup K \cup C
  <2>1. C \cap mh.free = {} /\ CODE_PAGES \in Nat
    BY <1>2, <1>6, Constants
  <2> QED
    BY <1>0, <1>2, <1>3, <1>6, <2>1, DeleteList
<1> HIDE DEF mc
<1>8. m2 \in Mem /\ m2.at = mh.at /\ m2.free = m.free \cup P \cup K \cup C \cup T
  <2>1. T \cap mc.free = {} /\ 1 \in Nat
    BY <1>2, <1>7
  <2> QED
    BY <1>0, <1>2, <1>3, <1>7, <2>1, DeleteList
<1>9. KernelTables(m2) = KernelTables(m) /\ Kept(m, m2, K)
  <2>1. KernelTables(m2) = KernelTables(mh)
    BY <1>8, SameAt
  <2>2. \A x : Translate(m2, kernel_pdt, x) = Translate(mh, kernel_pdt, x)
    BY <1>8 DEF Translate, IS_ENTRY_PRESENT
  <2> QED
    BY <1>6, <2>1, <2>2 DEF Kept
<1> QED
  BY <1>6, <1>8, <1>9

\* The accounts when only tables of the kernel change.
LEMMA UsesKernelSame ==
    ASSUME NEW m, NEW s, NEW cl, NEW h, NEW o, Typed(m, s, cl, h, o), NEW m2 \in Mem,
           KernelTables(m2) = KernelTables(m),
           \A p \in Using(s) : Tables(m2, s[p].pdt_paddr) = Tables(m, s[p].pdt_paddr)
    PROVE  Uses(m2, s, cl, h, o) = Uses(m, s, cl, h, o)
<1>1. Uses(m2, s, cl, h, o) = Put(Uses(m, s, cl, h, o), boot, "kernel", KernelTables(m2))
  BY UsesMem
<1>2. Uses(m, s, cl, h, o) \in Own /\ Uses(m, s, cl, h, o)[boot]["kernel"] = KernelTables(m2)
  BY UsesOwn, UsesIs
<1>3. boot \in Callers /\ "kernel" \in Kinds
  BY Constants DEF Kinds
<1> QED
  BY <1>1, <1>2, <1>3, PutSame

\* The resources of a struct are deleted.
LEMMA GoneStep ==
    ASSUME NEW m, NEW s, NEW cl, NEW h, NEW o, NEW fl, Inv(m, s, cl, h, o, fl), NEW p \in Using(s),
           \A c \in Callers : cl[c].at # "idle" => cl[c].child # p, cl[p].at = "idle",
           NEW x \in PsTypes, x.st \notin {"loading", "live"}, Blank(x), Paired(x),
           NEW m2, m2 = Gone(m, s[p]), NEW o2, o2 = o \cup Tables(m, s[p].pdt_paddr)
    PROVE  Inv(m2, [s EXCEPT ![p] = x], cl, h, o2, fl)
<1> DEFINE P == Block(s[p].pdt_paddr, 1)
           K == Block(s[p].kernel_stack_paddr, 1)
           T == Block(s[p].stack, 1)
           C == Block(s[p].code, CODE_PAGES)
           s2 == [s EXCEPT ![p] = x]
           u == Uses(m, s, cl, h, o)
           a == Uses(m, s2, cl, h, o2)
<1>1. /\ Typed(m, s, cl, h, o) /\ m \in Mem /\ p \in Procs /\ s[p] \in PsTypes /\ o \in SUBSET Frames
      /\ u \in Own /\ Ledger(u, m.free, ~fl) /\ m.free \in SUBSET Frames /\ (~fl) \in BOOLEAN
  BY InvTyped DEF Typed, Using
<1>2. /\ m2 \in Mem /\ m2.free = m.free \cup P \cup K \cup C \cup T
      /\ KernelTables(m2) = KernelTables(m)
      /\ \A f \in Phys : f \notin KernelTables(m) => m2.at[f] = m.at[f]
      /\ Kept(m, m2, K)
  BY GoneFacts
<1>3. /\ \A c \in Callers : Hold(cl[c]) \cap K = {}
      /\ \A q \in Using(s) : q # p => s[q].pdt_paddr \notin K /\ s[q].kernel_stack_paddr \notin K
  BY StructBlocks, SMTT(30)
<1>4. o2 \in SUBSET Frames
  <2>1. CASE s[p].pdt_paddr = 0
    BY <1>1, <2>1 DEF Tables
  <2>2. CASE s[p].pdt_paddr # 0
    BY <1>1, <2>2, ProcFrames
  <2> QED
    BY <2>1, <2>2
<1>5. ASSUME NEW q \in Using(s), s[q].pdt_paddr # 0 PROVE UserSame(m, m2, s[q].pdt_paddr)
  <2> DEFINE f == s[q].pdt_paddr
  <2>1. /\ f \in Frames /\ f \notin KernelTables(m)
        /\ Tables(m, f) \cap KernelTables(m) = {}
    BY <1>5, ProcFrames
  <2>2. f \in Phys /\ f # 0
    BY <2>1, Constants
  <2> HIDE DEF f
  <2>4. UserSame(m, m2, f)
    BY <1>1, <1>2, <2>1, <2>2, SameFrom
  <2> QED
    BY <2>4 DEF f
<1>6. u[p]["pdt"] = P /\ u[p]["kernel_stack"] = K /\ u[p]["stack"] = T /\ u[p]["code"] = C
      /\ u[p]["table"] = Tables(m, s[p].pdt_paddr) /\ u[boot]["orphan"] = o
  BY UsesIs
<1>7. /\ Typed(m, s2, cl, h, o2)
      /\ \A k \in PsKinds : a[p][k] = {}
      /\ a[boot]["orphan"] = o2
      /\ \A d \in Callers, k \in Kinds :
            (d # p \/ k \notin PsKinds) /\ (d # boot \/ k # "orphan") => a[d][k] = u[d][k]
  <2>1. Typed(m, s, cl, h, o) /\ o2 \in SUBSET Frames
    BY <1>1, <1>4
  <2>2. Typed(m, s2, cl, h, o2)
    BY <2>1, UsesGone
  <2>3. \A k \in PsKinds : a[p][k] = {}
    BY <2>1, UsesGone
  <2>4. a[boot]["orphan"] = o2
    BY <2>1, UsesGone
  <2>5. ASSUME NEW d \in Callers, NEW k \in Kinds, d # p \/ k \notin PsKinds, d # boot \/ k # "orphan"
        PROVE  a[d][k] = u[d][k]
    BY <2>1, <2>5, UsesGone
  <2> QED
    BY <2>2, <2>3, <2>4, <2>5
<1>8. a \in Own
  BY <1>7, UsesOwn
<1>9. s2[p] = x /\ (\A q \in Procs : q # p => s2[q] = s[q]) /\ Using(s2) = Using(s) \ {p}
  BY <1>1 DEF Typed, Using
<1>10. Uses(m2, s2, cl, h, o2) = a
  <2>1. ASSUME NEW q \in Using(s2) PROVE Tables(m2, s2[q].pdt_paddr) = Tables(m, s2[q].pdt_paddr)
    <3>1. q \in Using(s) /\ s2[q] = s[q]
      BY <1>9 DEF Using
    <3>2. CASE s[q].pdt_paddr = 0
      BY <3>1, <3>2 DEF Tables
    <3>3. CASE s[q].pdt_paddr # 0
      BY <1>5, <3>1, <3>3, SameTables
    <3> QED
      BY <3>2, <3>3
  <2> HIDE DEF s2
  <2> QED
    BY <1>2, <1>7, <2>1, UsesKernelSame
<1>11. Ledger(a, m2.free, ~fl)
  <2>1. /\ a[boot]["orphan"] = u[boot]["orphan"] \cup u[p]["table"]
        /\ m2.free = m.free \cup u[p]["pdt"] \cup u[p]["kernel_stack"] \cup u[p]["code"] \cup u[p]["stack"]
    BY <1>2, <1>6, <1>7
  <2>2. m2.free \in SUBSET Frames
    BY <1>2, MemFacts
  <2> DEFINE F == m2.free
             ex == ~fl
  <2>3. /\ F \in SUBSET Frames /\ ex \in BOOLEAN /\ Ledger(u, m.free, ex)
        /\ F = m.free \cup u[p]["pdt"] \cup u[p]["kernel_stack"] \cup u[p]["code"] \cup u[p]["stack"]
    BY <1>1, <2>1, <2>2
  <2>4. /\ \A k \in PsKinds : a[p][k] = {}
        /\ \A d \in Callers, k \in Kinds :
              (d # p \/ k \notin PsKinds) /\ (d # boot \/ k # "orphan") => a[d][k] = u[d][k]
    BY <1>7
  <2> HIDE DEF a, u, F, ex
  <2>5. Ledger(a, F, ex)
    BY <1>1, <1>8, <2>1, <2>3, <2>4, LedgerGone, ZenonT(40)
  <2> QED
    BY <2>5 DEF F, ex
<1>12. Ledger(Uses(m2, [s EXCEPT ![p] = x], cl, h, o2), m2.free, ~fl)
  BY <1>10, <1>11
<1>13. \A q \in Using(s) : q # p /\ s[q].pdt_paddr # 0 => UserSame(m, m2, s[q].pdt_paddr)
  BY <1>5
<1> HIDE DEF P, K, T, C, u, a, s2
<1>14. /\ x.st = "live" => Shape(m2, x, 4)
       /\ x.st \in {"loading", "live"} => PsMapped(m2, x)
       /\ \A c \in Callers : cl[c].at \in {"code_read", "copy_data"} => Hold(cl[c]) \cap K = {}
  BY <1>3
<1> QED
  BY <1>1, <1>2, <1>3, <1>4, <1>12, <1>13, <1>14, StructChange

\* The heap takes a frame.
LEMMA HeapStep ==
    ASSUME NEW m, NEW s, NEW cl, NEW h, NEW o, NEW fl, Inv(m, s, cl, h, o, fl),
           NEW f, f = pfa_allocate(m, 1), f # 0, NEW m2, m2 = Taken(m, f, 1)
    PROVE  Inv(m2, s, cl, h \cup {f}, o, fl) /\ f \in Frames
<1> DEFINE h2 == h \cup {f}
           u == Uses(m, s, cl, h, o)
<1>1. /\ Typed(m, s, cl, h, o) /\ m \in Mem /\ h \in SUBSET Frames
      /\ u \in Own /\ Ledger(u, m.free, ~fl) /\ m.free \in SUBSET Frames /\ (~fl) \in BOOLEAN
      /\ fl \in BOOLEAN
  BY InvTyped DEF Typed
<1>2. f \in Phys /\ f \in Frames /\ {f} \in SUBSET m.free
  <2>1. 1 \in Nat /\ 1 > 0
    OBVIOUS
  <2>2. f \in Frames \cup {0} /\ f \in Phys /\ Block(f, 1) \in SUBSET m.free
    BY <1>1, <2>1, AllocFacts
  <2> QED
    BY <2>2, BlockOne, Constants
<1>3. m2 \in Mem /\ m2.at = m.at /\ m2.free = m.free \ {f}
  BY <1>1, <1>2, TakenOne
<1>4. h2 \in SUBSET Frames
  BY <1>1, <1>2
<1>5. Ledger(Uses(m2, s, cl, h2, o), m2.free, ~fl)
  <2>1. Uses(m, s, cl, h2, o) = Put(u, boot, "heap", h2)
    BY <1>1, <1>4, UsesHeap
  <2>2. Uses(m2, s, cl, h2, o) = Uses(m, s, cl, h2, o)
    BY <1>3, UsesSameAt
  <2>6. Frames \subseteq Nat
    BY Constants
  <2>3. u[boot]["heap"] = h /\ boot \in Callers /\ "heap" \in Kinds /\ h2 \in SUBSET Nat
    <3>1. u[boot]["heap"] = h
      BY UsesIs
    <3>2. boot \in Callers /\ "heap" \in Kinds
      BY Constants DEF Kinds
    <3> QED
      BY <1>4, <2>6, <3>1, <3>2
  <2>4. h2 = u[boot]["heap"] \cup {f}
    BY <2>3
  <2> HIDE DEF u, h2
  <2>5. Ledger(Put(u, boot, "heap", h2), m.free \ {f}, ~fl)
    BY <1>1, <1>2, <2>3, <2>4, LedgerTake
  <2> QED
    BY <1>3, <2>1, <2>2, <2>5
<1>6. /\ \A y : PsMapped(m, y) => PsMapped(m2, y)
      /\ \A y : CallMapped(m, y) => CallMapped(m2, y)
      /\ \A g : UserSame(m, m2, g)
  BY <1>3, SameAt
<1>7. PsMap(m2, s) /\ CallMap(m2, cl) /\ Calls(s, cl, fl)
  BY <1>6 DEF PsMap, CallMap, Inv
<1>8. Shapes(m2, s, cl)
  <2>1. ASSUME NEW p \in Procs, s[p].st = "live" PROVE Shape(m2, s[p], 4)
    <3>1. Shape(m, s[p], 4)
      BY <2>1 DEF Inv, Shapes
    <3> QED
      BY <1>6, <3>1, ShapeKept
  <2>2. ASSUME NEW c \in Callers, cl[c].at \notin {"idle", "delete", "loop"}
        PROVE  Shape(m2, s[cl[c].child], Level(cl[c]))
    <3>1. Shape(m, s[cl[c].child], Level(cl[c]))
      BY <2>2 DEF Inv, Shapes
    <3> QED
      BY <1>6, <3>1, LevelRange, ShapeKept
  <2> QED
    BY <2>1, <2>2 DEF Shapes
<1> QED
  BY <1>1, <1>2, <1>3, <1>4, <1>5, <1>7, <1>8 DEF Inv, Typed

\* Loading a directory gives it the entries of the kernel, above those of the process.
LEMMA LoadStep ==
    ASSUME NEW m, NEW s, NEW cl, NEW h, NEW o, NEW fl, Inv(m, s, cl, h, o, fl),
           NEW q \in Using(s), s[q].pdt_paddr # 0,
           NEW m2, m2 = pdt_load_process_pdt(m, s[q].pdt_paddr)
    PROVE  Inv(m2, s, cl, h, o, fl)
<1> DEFINE f == s[q].pdt_paddr
           t == m.at[f]
           kernel == {i \in DOMAIN m.at[kernel_pdt] : i >= KERNEL_PDT_IDX}
           t2 == [i \in DOMAIN t \cup kernel |-> IF i \in kernel THEN m.at[kernel_pdt][i] ELSE t[i]]
<1>1. /\ m \in Mem /\ KernelOK(m) /\ m.at \in [Phys -> PageTables] /\ fl \in BOOLEAN
  BY InvTyped, MemFacts DEF Typed
<1>2. /\ f \in Frames /\ f \notin KernelTables(m) /\ f \notin Tables(m, f)
      /\ \A p \in Using(s) : p # q => f # s[p].pdt_paddr /\ f \notin Tables(m, s[p].pdt_paddr)
  BY ProcFrames
<1>3. f \in Phys /\ f # kernel_pdt /\ f # 0 /\ kernel_pdt \in Phys
  BY <1>2, Constants
<1>4. t2 \in PageTables
  <2>1. t \in PageTables /\ m.at[kernel_pdt] \in PageTables
    BY <1>1, <1>3
  <2>2. DOMAIN t \cup kernel \in SUBSET Entries
    BY <2>1, TableFacts
  <2>3. t2 \in [DOMAIN t \cup kernel -> Phys]
    BY <2>1, TableFacts
  <2> QED
    BY <2>2, <2>3 DEF PageTables
<1>5. m2 = [m EXCEPT !.at[f] = t2]
  BY DEF pdt_load_process_pdt
<1>6. /\ UserHalf(m, f) = {d \in DOMAIN t : d < KERNEL_PDT_IDX}
      /\ {d \in DOMAIN t2 : d < KERNEL_PDT_IDX} = {d \in DOMAIN t : d < KERNEL_PDT_IDX}
      /\ \A d \in DOMAIN t : d < KERNEL_PDT_IDX => t2[d] = t[d]
  <2>1. KERNEL_PDT_IDX \in Nat /\ DOMAIN t \subseteq Entries /\ DOMAIN m.at[kernel_pdt] \subseteq Entries
        /\ Entries \subseteq Nat
    BY <1>1, <1>3, TableFacts, Constants
  <2>2. UserHalf(m, f) = {d \in DOMAIN t : d < KERNEL_PDT_IDX}
    BY DEF UserHalf
  <2>3. DOMAIN t2 = DOMAIN t \cup kernel
    OBVIOUS
  <2>5. ASSUME NEW d \in kernel PROVE ~(d < KERNEL_PDT_IDX)
    <3>1. d \in Nat /\ d >= KERNEL_PDT_IDX /\ KERNEL_PDT_IDX \in Nat
      BY <2>1
    <3> QED
      BY <3>1
  <2>4. ASSUME NEW d \in DOMAIN t, d < KERNEL_PDT_IDX PROVE t2[d] = t[d]
    <3>1. d \notin kernel
      BY <2>4, <2>5
    <3> HIDE DEF kernel, t
    <3> QED
      BY <3>1
  <2> HIDE DEF t2, kernel, t
  <2> QED
    BY <2>2, <2>3, <2>4, <2>5
<1> HIDE DEF t2, kernel, f
<1>7. m2 \in Mem /\ m2.free = m.free /\ m2.at = [m.at EXCEPT ![f] = t2]
  BY <1>1, <1>3, <1>4, <1>5, MemFacts
<1>8. m2.at[f] = t2 /\ \A g \in Phys : g \notin {f} => m2.at[g] = m.at[g]
  BY <1>1, <1>3, <1>7
<1>9. m2.at[kernel_pdt] = m.at[kernel_pdt] /\ \A g \in KernelTables(m) : m2.at[g] = m.at[g]
  BY <1>1, <1>2, <1>3, <1>8, Constants DEF KernelOK
<1>10. KernelTables(m2) = KernelTables(m)
  BY <1>9 DEF KernelTables
<1>11. Kept(m, m2, {})
  BY <1>1, <1>7, <1>9, KeptEntries
<1>12. ASSUME NEW p \in Using(s), s[p].pdt_paddr # 0 PROVE UserSame(m, m2, s[p].pdt_paddr)
  <2> DEFINE g == s[p].pdt_paddr
  <2>1. CASE p = q
    <3>1. UserHalf(m2, f) = UserHalf(m, f) /\ \A d \in UserHalf(m, f) : m2.at[f][d] = m.at[f][d]
      BY <1>6, <1>8 DEF UserHalf
    <3>2. ASSUME NEW d \in UserHalf(m, f) PROVE m2.at[m.at[f][d]] = m.at[m.at[f][d]]
      <4>1. m.at[f][d] \in Tables(m, f) /\ m.at[f][d] \in Phys
        <5>1. m.at[f] \in PageTables /\ d \in DOMAIN m.at[f] /\ d < KERNEL_PDT_IDX
          BY <1>1, <1>3 DEF UserHalf
        <5> QED
          BY <1>3, <5>1, TableFacts DEF Tables
      <4> QED
        BY <1>2, <1>8, <4>1
    <3> QED
      BY <2>1, <3>1, <3>2 DEF UserSame, f
  <2>2. CASE p # q
    <3>1. g \in Frames /\ f # g /\ f \notin Tables(m, g)
      BY <1>2, <1>12, <2>2, ProcFrames
    <3> HIDE DEF g
    <3>2. g \in Phys /\ g # 0 /\ g \notin {f} /\ Tables(m, g) \cap {f} = {}
      BY <3>1, Constants
    <3>3. UserSame(m, m2, g)
      BY <1>1, <1>7, <1>8, <3>2, SameFrom
    <3> QED
      BY <3>3 DEF g
  <2> QED
    BY <2>1, <2>2
<1>13. \A p \in Using(s) : s[p].pdt_paddr # 0 => UserSame(m, m2, s[p].pdt_paddr)
  BY <1>12
<1> DEFINE B == {}
<1>14. /\ Kept(m, m2, B)
       /\ \A p \in Using(s) : s[p].pdt_paddr \notin B /\ s[p].kernel_stack_paddr \notin B
       /\ \A d \in Callers : cl[d].at \in {"code_read", "copy_data"} => Hold(cl[d]) \cap B = {}
  BY <1>11
<1> HIDE DEF B
<1> QED
  BY <1>7, <1>10, <1>13, <1>14, MemStepSame

\* The directory of q, the child of c, gets a new table.
NewTable(m, s, q, m2, S) ==
    /\ m2 \in Mem /\ S \in SUBSET m.free /\ m2.free = m.free \ S
    /\ Kept(m, m2, {}) /\ KernelTables(m2) = KernelTables(m)
    /\ \A p \in Using(s) : p # q /\ s[p].pdt_paddr # 0 => UserSame(m, m2, s[p].pdt_paddr)
    /\ Tables(m2, s[q].pdt_paddr) = Tables(m, s[q].pdt_paddr) \cup S

LEMMA NewTableLedger ==
    ASSUME NEW m, NEW s, NEW cl, NEW h, NEW o, NEW fl, Inv(m, s, cl, h, o, fl),
           NEW q \in Using(s), NEW m2, NEW S, NewTable(m, s, q, m2, S)
    PROVE  /\ Typed(m2, s, cl, h, o)
           /\ Ledger(Uses(m2, s, cl, h, o), m2.free, ~fl)
<1> DEFINE u == Uses(m, s, cl, h, o)
           T == Tables(m2, s[q].pdt_paddr)
<1>1. /\ Typed(m, s, cl, h, o) /\ m \in Mem /\ q \in Procs /\ s[q] \in PsTypes
      /\ u \in Own /\ Ledger(u, m.free, ~fl) /\ m.free \in SUBSET Frames /\ (~fl) \in BOOLEAN
  BY InvTyped DEF Typed, Using
<1>2. /\ m2 \in Mem /\ S \in SUBSET m.free /\ m2.free = m.free \ S
      /\ KernelTables(m2) = KernelTables(m)
      /\ T = Tables(m, s[q].pdt_paddr) \cup S
  BY DEF NewTable
<1>3. \A p \in Using(s) : p # q => Tables(m2, s[p].pdt_paddr) = Tables(m, s[p].pdt_paddr)
  <2> SUFFICES ASSUME NEW p \in Using(s), p # q
               PROVE  Tables(m2, s[p].pdt_paddr) = Tables(m, s[p].pdt_paddr)
    OBVIOUS
  <2>1. CASE s[p].pdt_paddr = 0
    BY <2>1 DEF Tables
  <2>2. CASE s[p].pdt_paddr # 0
    BY <2>2, SameTables DEF NewTable
  <2> QED
    BY <2>1, <2>2
<1>4. /\ Typed(m2, s, cl, h, o)
      /\ Uses(m2, s, cl, h, o) = Put(u, q, "table", T)
  <2>1. Typed(m, s, cl, h, o) /\ m2 \in Mem /\ KernelTables(m2) = KernelTables(m)
    BY <1>1, <1>2
  <2> QED
    BY <1>3, <2>1, UsesTable
<1>5. u[q]["table"] = Tables(m, s[q].pdt_paddr) /\ q \in Callers /\ "table" \in Kinds
  <2>1. u[q]["table"] = Tables(m, s[q].pdt_paddr)
    BY UsesIs
  <2> QED
    BY <1>1, <2>1, Constants DEF Kinds
<1>6. T \in SUBSET Nat
  <2>1. s[q].pdt_paddr \in Phys
    BY <1>1 DEF PsTypes
  <2>2. T \in SUBSET Phys
    BY <1>2, <2>1, TablesNat
  <2>3. Phys \subseteq Nat
    BY Constants
  <2> QED
    BY <2>2, <2>3
<1>7. T = u[q]["table"] \cup S
  BY <1>2, <1>5
<1> HIDE DEF u, T
<1>8. Ledger(Put(u, q, "table", T), m.free \ S, ~fl)
  BY <1>1, <1>2, <1>5, <1>6, <1>7, LedgerTake
<1> QED
  BY <1>2, <1>4, <1>8

\* The frames of the call go to the struct.
LEMMA GiveStep ==
    ASSUME NEW m, NEW s, NEW cl, NEW h, NEW o, NEW fl, Inv(m, s, cl, h, o, fl),
           NEW c \in Callers, cl[c].at # "idle", NEW q, q = cl[c].child,
           NEW m2, NEW S, NewTable(m, s, q, m2, S),
           NEW x \in PsTypes, x.st = "loading", Paired(x), PsMapped(m2, x),
           NEW k \in {"pdt", "kernel_stack", "stack", "code"},
           PsUse(m2, s[q], k) = {}, PsUse(m2, x, k) = Hold(cl[c]),
           \A l \in PsKinds \ {k} : PsUse(m2, x, l) = PsUse(m2, s[q], l),
           NEW e \in CallTypes, e.child = q, e.op = cl[c].op,
           e.at \notin {"idle", "delete", "loop", "code_read", "copy_data"}, e.paddr = 0,
           CallOK(e, fl), Shape(m2, x, Level(e))
    PROVE  Inv(m2, [s EXCEPT ![q] = x], [cl EXCEPT ![c] = e], h, o, fl)
<1> DEFINE cl2 == [cl EXCEPT ![c] = e]
           s2 == [s EXCEPT ![q] = x]
           u == Uses(m2, s, cl, h, o)
           v == Uses(m2, s, cl2, h, o)
           w == Uses(m2, s2, cl2, h, o)
           H == Hold(cl[c])
           ex == ~fl
<1>1. /\ Typed(m, s, cl, h, o) /\ m.free \in SUBSET Frames /\ (~fl) \in BOOLEAN /\ fl \in BOOLEAN
      /\ q \in Using(s) /\ q \in Procs /\ q \in Callers
  BY InvTyped, ChildFacts, Constants
<1>2. /\ Typed(m2, s, cl, h, o) /\ Ledger(u, m2.free, ex) /\ m2 \in Mem /\ u \in Own
      /\ m2.free \in SUBSET Frames
  <2>1. Typed(m2, s, cl, h, o) /\ Ledger(u, m2.free, ex) /\ m2 \in Mem
    BY <1>1, NewTableLedger DEF NewTable
  <2> QED
    BY <2>1, UsesOwn, MemFacts
<1>3. Hold(e) = {}
  BY DEF Hold, Block
<1>4. Typed(m2, s, cl2, h, o) /\ v = Put(u, c, "call", {})
  BY <1>2, <1>3, UsesCall, SMTT(30)
<1>5. k \in PsKinds /\ k \in Kinds /\ k # "call" /\ "call" \in Kinds /\ k # "kernel"
  BY DEF PsKinds, Kinds
<1>6. w = Put(v, q, k, H)
  <2>1. x.st \in {"loading", "live"}
    OBVIOUS
  <2>2. Uses(m2, [s EXCEPT ![q] = x], cl2, h, o) = Put(Uses(m2, s, cl2, h, o), q, k, PsUse(m2, x, k))
    <3> HIDE DEF cl2
    <3> QED
      BY <1>1, <1>4, <1>5, <2>1, UsesPs
  <2> QED
    BY <2>2
<1>7. u[c]["call"] = H
  BY UsesIs
<1>8. u[q][k] = {}
  <2>1. boot # q /\ "call" # k
    BY <1>1, <1>5, Constants
  <2>2. u[q][k] = UseOf(m2, s, cl, h, o, q, k)
    BY <1>1, <1>5, UsesAt
  <2> QED
    BY <1>1, <2>1, <2>2 DEF UseOf
<1>9. H \in SUBSET Nat
  <2>1. H \subseteq Frames
    BY CallFrames
  <2> QED
    BY <2>1, Constants
<1>10. Ledger(w, m2.free, ex)
  <2>1. H = u[q][k] \cup u[c]["call"] /\ "call" # "kernel" /\ ex \in BOOLEAN
    BY <1>1, <1>7, <1>8
  <2> HIDE DEF u, v, w, H, ex
  <2>2. Ledger(Put(Put(u, c, "call", {}), q, k, H), m2.free, ex)
    BY <1>1, <1>2, <1>5, <1>9, <2>1, LedgerMove
  <2> QED
    BY <1>4, <1>6, <2>2
<1>11. Ledger(Uses(m2, [s EXCEPT ![q] = x], [cl EXCEPT ![c] = e], h, o), m2.free, ~fl)
  BY <1>10
<1>12. CallMapped(m2, e)
  BY DEF CallMapped
<1>13. /\ Kept(m, m2, {})
       /\ \A p \in Using(s) : p # q /\ s[p].pdt_paddr # 0 => UserSame(m, m2, s[p].pdt_paddr)
  BY DEF NewTable
<1> HIDE DEF cl2, s2, u, v, w, H, ex
<1>14. e.at # "idle" /\ (e.at \notin {"delete", "loop"} => Shape(m2, x, Level(e))) /\ (fl => fl)
  OBVIOUS
<1> QED
  BY <1>1, <1>2, <1>11, <1>12, <1>13, <1>14, CallerStep

\* The mapping has been made and the call fails.
LEMMA TableFailStep ==
    ASSUME NEW m, NEW s, NEW cl, NEW h, NEW o, NEW fl, Inv(m, s, cl, h, o, fl),
           NEW c \in Callers, cl[c].at # "idle", NEW q, q = cl[c].child,
           NEW m2, NEW S, NewTable(m, s, q, m2, S)
    PROVE  Inv(m2, s, [cl EXCEPT ![c] = Moved(cl[c], "delete", 0, 0)], h, o, TRUE)
<1> DEFINE e == Moved(cl[c], "delete", 0, 0)
           cl2 == [cl EXCEPT ![c] = e]
           x == s[q]
           u == Uses(m2, s, cl, h, o)
<1>1. /\ Typed(m, s, cl, h, o) /\ fl \in BOOLEAN /\ cl[c] \in CallTypes
      /\ q \in Using(s) /\ q \in Procs /\ q \in Callers
      /\ x \in PsTypes /\ x.st = "loading" /\ Paired(x) /\ PsMapped(m, x)
  BY InvTyped, ChildFacts, Constants
<1>2. /\ e \in CallTypes /\ e.at = "delete" /\ e.paddr = 0 /\ e.vaddr = 0
      /\ e.child = q /\ e.op = cl[c].op
  <2>1. "delete" \in Steps
    BY DEF Steps
  <2> QED
    BY <1>1, <2>1, MovedFree
<1> HIDE DEF e
<1>3. CallOK(e, TRUE) /\ CallMapped(m2, e) /\ Hold(e) = {}
  <2>1. VIRTUAL_TO_PT_IDX(0) = 0
    BY PagingAssumption DEF VIRTUAL_TO_PT_IDX
  <2> QED
    BY <1>2, <2>1, SizeNat, Constants DEF CallOK, CallMapped, Hold, Block, Holding
<1>4. /\ Typed(m2, s, cl, h, o) /\ Ledger(u, m2.free, ~fl) /\ m2 \in Mem /\ u \in Own
      /\ m2.free \in SUBSET Frames /\ (~fl) \in BOOLEAN
  <2>1. Typed(m2, s, cl, h, o) /\ Ledger(u, m2.free, ~fl) /\ m2 \in Mem
    BY <1>1, NewTableLedger DEF NewTable
  <2> QED
    BY <1>1, <2>1, UsesOwn, MemFacts
<1>5. Uses(m2, s, cl2, h, o) = Put(u, c, "call", {})
  BY <1>2, <1>3, <1>4, UsesCall
<1>6. Ledger(Put(u, c, "call", {}), m2.free, FALSE)
  <2>1. "call" \in Kinds
    BY DEF Kinds
  <2> HIDE DEF u
  <2> QED
    BY <1>4, <2>1, LedgerDrop
<1>7. [s EXCEPT ![q] = x] = s
  BY <1>1 DEF Typed
<1>8. Ledger(Uses(m2, [s EXCEPT ![q] = x], [cl EXCEPT ![c] = e], h, o), m2.free, ~TRUE)
  BY <1>5, <1>6, <1>7
<1>9. /\ Kept(m, m2, {})
      /\ \A p \in Using(s) : p # q /\ s[p].pdt_paddr # 0 => UserSame(m, m2, s[p].pdt_paddr)
  BY DEF NewTable
<1>10. PsMapped(m2, x)
  <2> DEFINE B == {}
  <2>1. Kept(m, m2, B) /\ x.pdt_paddr \notin B /\ x.kernel_stack_paddr \notin B
    BY <1>9
  <2> HIDE DEF B, x
  <2> QED
    BY <1>1, <2>1, PsMappedKept
<1> HIDE DEF cl2, u, x
<1>11. TRUE \in BOOLEAN /\ (fl => TRUE) /\ e.at # "idle" /\ e.at \in {"delete", "loop"}
  BY <1>2
<1>12. Inv(m2, [s EXCEPT ![q] = x], [cl EXCEPT ![c] = e], h, o, TRUE)
  BY <1>1, <1>2, <1>3, <1>4, <1>8, <1>9, <1>10, <1>11, CallerStep
<1> QED
  BY <1>7, <1>12 DEF e

\* Where the code and the stack of a process begin.
LEMMA StartFacts ==
    ASSUME NEW list \in Lists
    PROVE  /\ Start(list) \in Pages
           /\ VIRTUAL_TO_PDT_IDX(Start(list)) = IF list = "code" THEN 0 ELSE KERNEL_PDT_IDX - 1
           /\ VIRTUAL_TO_PT_IDX(Start(list)) = IF list = "code" THEN 0 ELSE NUM_ENTRIES - 1
           /\ VIRTUAL_TO_PT_IDX(Start(list)) + Count(list) <= NUM_ENTRIES
           /\ Count(list) \in Nat /\ Count(list) > 0
<1> DEFINE N == NUM_ENTRIES
           K == KERNEL_PDT_IDX
<1>1. N \in Nat /\ N > 3 /\ K \in Nat /\ K = N - 2 /\ K > 1 /\ CODE_PAGES \in Nat /\ CODE_PAGES > 0 /\ CODE_PAGES < N
  BY Constants DEF KERNEL_PDT_IDX
<1>2. CASE list = "code"
  <2>1. Start(list) = 0 /\ Count(list) = CODE_PAGES
    BY <1>2 DEF Start, CODE_VADDR, Count
  <2>2. VIRTUAL_TO_PDT_IDX(0) = 0 /\ VIRTUAL_TO_PT_IDX(0) = 0
    BY <1>1 DEF VIRTUAL_TO_PDT_IDX, VIRTUAL_TO_PT_IDX
  <2> QED
    BY <1>1, <1>2, <2>1, <2>2, Constants
<1>3. CASE list = "stack"
  <2>1. Start(list) = STACK_VADDR /\ Count(list) = 1
    BY <1>3 DEF Start, Count
  <2>2. K - 1 \in Entries /\ N - 1 \in Entries
    BY <1>1 DEF Entries
  <2>3. STACK_VADDR = (K - 1) * N + (N - 1)
    <3>1. STACK_VADDR = K * N - 1
      BY DEF STACK_VADDR
    <3>2. (K - 1) * N = K * N - N /\ K * N \in Nat
      <4> HIDE DEF K, N
      <4> QED
        BY <1>1
    <3> HIDE DEF K, N
    <3> QED
      BY <1>1, <3>1, <3>2
  <2>4. /\ STACK_VADDR \in Pages
        /\ VIRTUAL_TO_PDT_IDX(STACK_VADDR) = K - 1
        /\ VIRTUAL_TO_PT_IDX(STACK_VADDR) = N - 1
    BY <2>2, <2>3, PageOf
  <2> QED
    BY <1>1, <1>3, <2>1, <2>4
<1> QED
  BY <1>2, <1>3 DEF Lists

\* A directory with the code only.
LEMMA ShapeTwo ==
    ASSUME NEW m, NEW e, Shape(m, e, 2)
    PROVE  e.pdt_paddr # 0 /\ UserHalf(m, e.pdt_paddr) = {0} /\ e.stack = 0
<1>1. 2 >= 1 /\ 2 >= 2 /\ ~(2 >= 3)
  OBVIOUS
<1>2. e.pdt_paddr # 0 /\ e.stack = 0
  BY <1>1 DEF Shape
<1>3. UserHalf(m, e.pdt_paddr) = {0} \cup {}
  BY <1>1 DEF Shape
<1> QED
  BY <1>2, <1>3

\* A directory f gets the table pt, for n pages from entry i on.
UserLinks(m, m2, f, d, i, paddr, n, pt) ==
    /\ m2.free = m.free \ {pt}
    /\ DOMAIN m2.at[pt] = i .. (i + n - 1)
    /\ \A j \in 0 .. (n - 1) : m2.at[pt][i + j] = paddr + j
    /\ m2.at[f] = With(m.at[f], d, pt)
    /\ \A g \in Phys : g # pt /\ g # f => m2.at[g] = m.at[g]

\* UserMap with names for the indices and the result.
LEMMA UserMapAt ==
    ASSUME NEW m \in Mem, NEW f \in Phys, f \notin m.free, NEW paddr \in Phys,
           NEW page \in Pages, NEW n \in Nat, n > 0,
           VIRTUAL_TO_PT_IDX(page) + n <= NUM_ENTRIES,
           \A j \in 0 .. (n - 1) : paddr + j \in Phys,
           VIRTUAL_TO_PDT_IDX(page) \notin DOMAIN m.at[f],
           VIRTUAL_TO_PDT_IDX(page) # KERNEL_PDT_IDX,
           NEW d, d = VIRTUAL_TO_PDT_IDX(page), NEW i, i = VIRTUAL_TO_PT_IDX(page),
           NEW r, r = pdt_map_memory(m, f, paddr, page, n)
    PROVE  /\ r.m \in Mem /\ r.ok \in BOOLEAN
           /\ ~r.ok => r.m = m
           /\ r.ok => \E pt \in m.free : UserLinks(m, r.m, f, d, i, paddr, n, pt)
<1>1. /\ r.m \in Mem /\ r.ok \in BOOLEAN
      /\ ~r.ok => r.m = m
      /\ r.ok => \E pt \in m.free :
            /\ r.m.free = m.free \ {pt}
            /\ DOMAIN r.m.at[pt] = i .. (i + n - 1)
            /\ \A j \in 0 .. (n - 1) : r.m.at[pt][i + j] = paddr + j
            /\ r.m.at[f] = With(m.at[f], d, pt)
            /\ \A g \in Phys : g # pt /\ g # f => r.m.at[g] = m.at[g]
  BY UserMap, SMTT(30)
<1> QED
  BY <1>1, Zenon DEF UserLinks

\* The directory f of q gets the table pt.
TableFilled(m, f, d, i, paddr, n, m2, pt) ==
    /\ DOMAIN m2.at[pt] = i .. (i + n - 1)
    /\ \A j \in 0 .. (n - 1) : m2.at[pt][i + j] = paddr + j
    /\ UserHalf(m2, f) = UserHalf(m, f) \cup {d}
    /\ m2.at[f][d] = pt
    /\ \A e \in UserHalf(m, f) : /\ e # d /\ m2.at[f][e] = m.at[f][e]
                                 /\ m2.at[m.at[f][e]] = m.at[m.at[f][e]]
TableMade(m, s, q, f, d, i, paddr, n, m2, pt) ==
    NewTable(m, s, q, m2, {pt}) /\ TableFilled(m, f, d, i, paddr, n, m2, pt)

\* The directory g and its tables are neither free nor the directory f.
Elsewhere(m, f, g) == /\ g \in Frames /\ g \notin m.free /\ f # g /\ f \notin Tables(m, g)
                      /\ Tables(m, g) \cap m.free = {}
OthersElsewhere(m, s, q, f) ==
    \A p \in Using(s) : p # q /\ s[p].pdt_paddr # 0 => Elsewhere(m, f, s[p].pdt_paddr)

\* What UserLinks says, for the directory of q.
LEMMA UserLinked ==
    ASSUME NEW m \in Mem, NEW m2 \in Mem, KernelOK(m), NEW s, NEW q, NEW f \in Phys, f = s[q].pdt_paddr, f # 0,
           f \in Frames, f \notin KernelTables(m), f \notin Tables(m, f),
           Tables(m, f) \subseteq Frames, Tables(m, f) \cap m.free = {},
           f \notin m.free, NEW d \in Entries, d < KERNEL_PDT_IDX, d \notin UserHalf(m, f),
           NEW i, NEW paddr, NEW n, NEW pt \in m.free, UserLinks(m, m2, f, d, i, paddr, n, pt),
           OthersElsewhere(m, s, q, f)
    PROVE  TableMade(m, s, q, f, d, i, paddr, n, m2, pt)
<1>0. m.at \in [Phys -> PageTables] /\ m.free \in SUBSET Frames
  BY MemFacts
<1>1. /\ m2.free = m.free \ {pt}
      /\ DOMAIN m2.at[pt] = i .. (i + n - 1)
      /\ \A j \in 0 .. (n - 1) : m2.at[pt][i + j] = paddr + j
      /\ m2.at[f] = With(m.at[f], d, pt)
      /\ \A g \in Phys : g # pt /\ g # f => m2.at[g] = m.at[g]
  BY DEF UserLinks
<1> DEFINE W == {pt, f}
<1>2. /\ pt \in Frames /\ pt \in Phys /\ pt # f /\ pt \notin Tables(m, f) /\ pt \notin KernelTables(m)
      /\ {pt} \in SUBSET m.free
  BY <1>0, Constants DEF KernelOK
<1>3. /\ DOMAIN m2.at[f] = DOMAIN m.at[f] \cup {d} /\ m2.at[f][d] = pt
      /\ \A j \in DOMAIN m.at[f] : j # d => m2.at[f][j] = m.at[f][j]
  <2>1. m.at[f] \in PageTables
    BY <1>0
  <2> DEFINE t == m.at[f]
  <2>2. t \in PageTables /\ m2.at[f] = With(t, d, pt)
    BY <1>1, <2>1
  <2> HIDE DEF t
  <2>3. /\ DOMAIN With(t, d, pt) = DOMAIN t \cup {d} /\ With(t, d, pt)[d] = pt
        /\ \A j \in DOMAIN t : j # d => With(t, d, pt)[j] = t[j]
    BY <1>2, <2>2, WithFacts DEF With
  <2>4. /\ DOMAIN m2.at[f] = DOMAIN t \cup {d} /\ m2.at[f][d] = pt
        /\ \A j \in DOMAIN t : j # d => m2.at[f][j] = t[j]
    BY <2>2, <2>3, Zenon
  <2> QED
    BY <2>4 DEF t
<1>4. \A g \in Phys : g \notin W => m2.at[g] = m.at[g]
  BY <1>1
<1>6. m2.at[kernel_pdt] = m.at[kernel_pdt] /\ \A g \in KernelTables(m) : m2.at[g] = m.at[g]
  <2>1. kernel_pdt \in Phys /\ kernel_pdt \notin W
    BY <1>2, Constants
  <2>2. \A g \in KernelTables(m) : g \in Phys /\ g \notin W
    BY <1>2, Constants DEF KernelOK
  <2> QED
    BY <1>4, <2>1, <2>2
<1>7. KernelTables(m2) = KernelTables(m)
  BY <1>6 DEF KernelTables
<1>8. Kept(m, m2, {})
  BY <1>6, KeptEntries
<1>9. ASSUME NEW p \in Using(s), p # q, s[p].pdt_paddr # 0 PROVE UserSame(m, m2, s[p].pdt_paddr)
  <2> DEFINE g == s[p].pdt_paddr
  <2>1. Elsewhere(m, f, g) /\ g # 0
    BY <1>9 DEF OthersElsewhere
  <2> HIDE DEF g
  <2>2. g \in Phys /\ g # 0 /\ g \notin W /\ Tables(m, g) \cap W = {}
    BY <2>1, Constants DEF Elsewhere
  <2> HIDE DEF W
  <2>3. UserSame(m, m2, g)
    BY <1>0, <1>4, <2>2, SameFrom
  <2> QED
    BY <2>3 DEF g
<1>10. UserHalf(m2, f) = UserHalf(m, f) \cup {d}
  BY <1>3 DEF UserHalf
<1>11. /\ Tables(m2, f) = {m2.at[f][e] : e \in UserHalf(m2, f)}
       /\ Tables(m, f) = {m.at[f][e] : e \in UserHalf(m, f)}
  BY DEF Tables, UserHalf
<1>12. \A e \in UserHalf(m, f) : e # d /\ m2.at[f][e] = m.at[f][e]
  BY <1>3 DEF UserHalf
<1>13. Tables(m2, f) = Tables(m, f) \cup {pt}
  <2> DEFINE t == m.at[f]
             t2 == m2.at[f]
             H == UserHalf(m, f)
             H2 == UserHalf(m2, f)
  <2>1. H2 = H \cup {d} /\ t2[d] = pt /\ \A e \in H : t2[e] = t[e]
    BY <1>3, <1>10, <1>12
  <2> HIDE DEF t, t2, H, H2
  <2>2. {t2[e] : e \in H2} = {t[e] : e \in H} \cup {pt}
    BY <2>1
  <2> QED
    BY <1>11, <2>2 DEF t, t2, H, H2
<1>14. ASSUME NEW e \in UserHalf(m, f)
       PROVE  m2.at[m.at[f][e]] = m.at[m.at[f][e]]
  <2>1. m.at[f][e] \in Tables(m, f)
    BY <1>11
  <2>2. m.at[f][e] \in Phys /\ m.at[f][e] \notin W
    BY <1>2, <2>1, Constants
  <2> QED
    BY <1>4, <2>2
<1>15. NewTable(m, s, q, m2, {pt})
  BY <1>1, <1>2, <1>7, <1>8, <1>9, <1>13 DEF NewTable
<1> QED
  BY <1>1, <1>3, <1>10, <1>12, <1>14, <1>15, Zenon DEF TableMade, TableFilled

\* Mapping the code or the stack in the directory of the child gives it a table.
LEMMA UserTable ==
    ASSUME NEW m, NEW s, NEW cl, NEW h, NEW o, NEW fl, Inv(m, s, cl, h, o, fl),
           NEW c \in Callers, cl[c].at \in {"code_map", "copy_map"},
           NEW q, q = cl[c].child, NEW list, list = cl[c].list,
           NEW f, f = s[q].pdt_paddr, NEW paddr, paddr = cl[c].paddr, NEW n, n = Count(list),
           NEW d, d = VIRTUAL_TO_PDT_IDX(Start(list)), NEW i, i = VIRTUAL_TO_PT_IDX(Start(list)),
           NEW r, r = pdt_map_memory(m, f, paddr, Start(list), n)
    PROVE  /\ r.m \in Mem /\ r.ok \in BOOLEAN /\ f \in Phys /\ f # 0 /\ list \in Lists
           /\ Shape(m, s[q], IF list = "code" THEN 1 ELSE 2)
           /\ ~r.ok => r.m = m
           /\ r.ok => \E pt \in m.free : TableMade(m, s, q, f, d, i, paddr, n, r.m, pt)
<1>1. /\ m \in Mem /\ KernelOK(m) /\ m.at \in [Phys -> PageTables] /\ m.free \in SUBSET Frames
  BY InvTyped, MemFacts DEF Typed
<1>2. /\ cl[c].at # "idle" /\ cl[c] \in CallTypes /\ CallOK(cl[c], fl) /\ q \in Using(s)
      /\ s[q] \in PsTypes /\ Shape(m, s[q], Level(cl[c]))
  BY ChildFacts
<1>3. /\ list \in Lists /\ paddr \in Phys /\ f \in Phys /\ paddr # 0
      /\ cl[c].at = "code_map" => list = "code"
  BY <1>2 DEF CallTypes, PsTypes, CallOK, Holding
<1>4. Shape(m, s[q], IF list = "code" THEN 1 ELSE 2)
  <2>1. Level(cl[c]) = IF list = "code" THEN 1 ELSE 2
    BY <1>3 DEF Level
  <2> QED
    BY <1>2, <2>1
<1>5. f # 0 /\ UserHalf(m, f) = IF list = "code" THEN {} ELSE {0}
  <2>1. CASE list = "code"
    <3>1. Shape(m, s[q], 1)
      BY <1>4, <2>1
    <3> QED
      BY <2>1, <3>1 DEF Shape
  <2>2. CASE list # "code"
    <3>1. Shape(m, s[q], 2)
      BY <1>4, <2>2
    <3>2. s[q].pdt_paddr # 0 /\ UserHalf(m, s[q].pdt_paddr) = {0}
      BY <3>1, ShapeTwo
    <3> QED
      BY <2>2, <3>2
  <2> QED
    BY <2>1, <2>2
<1>6. /\ f \in Frames /\ f \notin m.free /\ f \notin KernelTables(m) /\ f \notin Tables(m, f)
      /\ Tables(m, f) \subseteq Frames /\ Tables(m, f) \cap m.free = {}
      /\ \A p \in Using(s) : p # q => f # s[p].pdt_paddr /\ f \notin Tables(m, s[p].pdt_paddr)
  BY <1>2, <1>5, ProcFrames
<1>7. /\ Start(list) \in Pages /\ n \in Nat /\ n > 0 /\ i + n <= NUM_ENTRIES
      /\ d = (IF list = "code" THEN 0 ELSE KERNEL_PDT_IDX - 1)
      /\ VIRTUAL_TO_PT_IDX(Start(list)) + n <= NUM_ENTRIES
  BY <1>3, StartFacts
<1>8. d \in Entries /\ d < KERNEL_PDT_IDX /\ d \in Nat /\ d \notin UserHalf(m, f) /\ d # KERNEL_PDT_IDX
  BY <1>5, <1>7, Constants DEF Entries
<1>9. d \notin DOMAIN m.at[f]
  BY <1>8 DEF UserHalf
<1>10. ASSUME NEW j \in 0 .. (n - 1) PROVE paddr + j \in Phys
  <2>1. Hold(cl[c]) \subseteq Frames
    BY CallFrames
  <2>2. Size(cl[c]) = n
    BY DEF Size
  <2>3. Hold(cl[c]) = paddr .. (paddr + n - 1)
    BY <1>3, <2>2 DEF Hold, Block
  <2>4. paddr \in Nat /\ Frames \subseteq Phys
    BY <1>3, Constants
  <2>5. paddr + j \in paddr .. (paddr + n - 1)
    BY <1>7, <2>4
  <2> QED
    BY <2>1, <2>3, <2>4, <2>5
<1>11. /\ r.m \in Mem /\ r.ok \in BOOLEAN
       /\ ~r.ok => r.m = m
       /\ r.ok => \E pt \in m.free : UserLinks(m, r.m, f, d, i, paddr, n, pt)
  <2> DEFINE page == Start(list)
  <2>1. /\ page \in Pages /\ VIRTUAL_TO_PT_IDX(page) + n <= NUM_ENTRIES
        /\ VIRTUAL_TO_PDT_IDX(page) \notin DOMAIN m.at[f]
        /\ VIRTUAL_TO_PDT_IDX(page) # KERNEL_PDT_IDX
        /\ \A j \in 0 .. (n - 1) : paddr + j \in Phys
    BY <1>7, <1>8, <1>9, <1>10
  <2>2. d = VIRTUAL_TO_PDT_IDX(page) /\ i = VIRTUAL_TO_PT_IDX(page) /\ r = pdt_map_memory(m, f, paddr, page, n)
    OBVIOUS
  <2> HIDE DEF page
  <2>3. m \in Mem /\ f \in Phys /\ f \notin m.free /\ paddr \in Phys /\ n \in Nat /\ n > 0
    BY <1>1, <1>3, <1>6, <1>7
  <2> QED
    BY <2>1, <2>2, <2>3, UserMapAt
<1>12. ASSUME r.ok
       PROVE  \E pt \in m.free : TableMade(m, s, q, f, d, i, paddr, n, r.m, pt)
  <2>0. PICK pt \in m.free : UserLinks(m, r.m, f, d, i, paddr, n, pt)
    BY <1>11, <1>12
  <2>1. OthersElsewhere(m, s, q, f)
    <3> SUFFICES ASSUME NEW p \in Using(s), p # q, s[p].pdt_paddr # 0
                 PROVE  Elsewhere(m, f, s[p].pdt_paddr)
      BY DEF OthersElsewhere
    <3>1. /\ s[p].pdt_paddr \in Frames /\ s[p].pdt_paddr \notin m.free
          /\ Tables(m, s[p].pdt_paddr) \cap m.free = {}
      BY ProcFrames
    <3> QED
      BY <1>6, <3>1 DEF Elsewhere
  <2>2. TableMade(m, s, q, f, d, i, paddr, n, r.m, pt)
    BY <1>1, <1>3, <1>5, <1>6, <1>8, <1>11, <2>0, <2>1, UserLinked, Zenon
  <2> QED
    BY <2>2
<1> QED
  BY <1>3, <1>4, <1>5, <1>11, <1>12

\* A struct with another list.
Listed(y, list, v) == [y EXCEPT ![list] = v]
LEMMA ListSet ==
    ASSUME NEW y \in PsTypes, NEW v \in Phys, NEW list \in Lists
    PROVE  /\ Listed(y, list, v) \in PsTypes /\ Listed(y, list, v).st = y.st
           /\ Listed(y, list, v).pdt = y.pdt /\ Listed(y, list, v).pdt_paddr = y.pdt_paddr
           /\ Listed(y, list, v).kernel_stack = y.kernel_stack
           /\ Listed(y, list, v).kernel_stack_paddr = y.kernel_stack_paddr
           /\ Listed(y, list, v).code = IF list = "code" THEN v ELSE y.code
           /\ Listed(y, list, v).stack = IF list = "code" THEN y.stack ELSE v
<1>1. CASE list = "code"
  BY <1>1 DEF PsTypes, Listed
<1>2. CASE list = "stack"
  BY <1>2 DEF PsTypes, Listed
<1> QED
  BY <1>1, <1>2 DEF Lists

\* A table of the code at a, and one of the stack at a.
CodeTable(t, a) == DOMAIN t = 0 .. (CODE_PAGES - 1) /\ \A i \in DOMAIN t : t[i] = a + i
StackTable(t, a) == DOMAIN t = {NUM_ENTRIES - 1} /\ \A i \in DOMAIN t : t[i] = a

\* Shape with names for the tables.
LEMMA ShapeTables ==
    ASSUME NEW m, NEW e
    PROVE  /\ Shape(m, e, 1) <=> /\ e.pdt_paddr # 0 /\ e.code = 0 /\ e.stack = 0 /\ e.kernel_stack_paddr = 0
                                 /\ UserHalf(m, e.pdt_paddr) = {}
           /\ Shape(m, e, 2) <=> /\ e.pdt_paddr # 0 /\ e.code # 0 /\ e.stack = 0 /\ e.kernel_stack_paddr = 0
                                 /\ UserHalf(m, e.pdt_paddr) = {0}
                                 /\ CodeTable(m.at[m.at[e.pdt_paddr][0]], e.code)
           /\ Shape(m, e, 3) <=> /\ e.pdt_paddr # 0 /\ e.code # 0 /\ e.stack # 0 /\ e.kernel_stack_paddr = 0
                                 /\ UserHalf(m, e.pdt_paddr) = {0} \cup {KERNEL_PDT_IDX - 1}
                                 /\ CodeTable(m.at[m.at[e.pdt_paddr][0]], e.code)
                                 /\ StackTable(m.at[m.at[e.pdt_paddr][KERNEL_PDT_IDX - 1]], e.stack)
<1> DEFINE f == e.pdt_paddr
           H == UserHalf(m, f)
           c == m.at[m.at[f][0]]
           k == m.at[m.at[f][KERNEL_PDT_IDX - 1]]
           L == KERNEL_PDT_IDX - 1
<1>1. \A n : Shape(m, e, n) <=>
          /\ f # 0 <=> n >= 1
          /\ e.code # 0 <=> n >= 2
          /\ e.stack # 0 <=> n >= 3
          /\ e.kernel_stack_paddr # 0 <=> n >= 4
          /\ n >= 1 => H = (IF n >= 2 THEN {0} ELSE {}) \cup (IF n >= 3 THEN {L} ELSE {})
          /\ n >= 2 => CodeTable(c, e.code)
          /\ n >= 3 => StackTable(k, e.stack)
  BY Zenon DEF Shape, CodeTable, StackTable
<1>2. {} \cup {} = {} /\ {0} \cup {} = {0}
  OBVIOUS
<1> HIDE DEF f, H, c, k, L
<1>3. Shape(m, e, 1) <=> f # 0 /\ e.code = 0 /\ e.stack = 0 /\ e.kernel_stack_paddr = 0 /\ H = {}
  BY <1>1, <1>2
<1>4. Shape(m, e, 2) <=> f # 0 /\ e.code # 0 /\ e.stack = 0 /\ e.kernel_stack_paddr = 0 /\ H = {0} /\ CodeTable(c, e.code)
  BY <1>1, <1>2
<1>5. Shape(m, e, 3) <=> /\ f # 0 /\ e.code # 0 /\ e.stack # 0 /\ e.kernel_stack_paddr = 0
                         /\ H = {0} \cup {L} /\ CodeTable(c, e.code) /\ StackTable(k, e.stack)
  BY <1>1
<1> QED
  BY <1>3, <1>4, <1>5 DEF f, H, c, k, L

\* A table filled with the code or the stack, and nothing else that changes in the half of the user.
LEMMA ShapeFilled ==
    ASSUME NEW m, NEW m2, NEW y, NEW x, NEW f, NEW pt, NEW list, NEW paddr, NEW d, NEW i, NEW n,
           paddr \in Phys /\ paddr # 0 /\ paddr \in Nat,
           /\ d = (IF list = "code" THEN 0 ELSE KERNEL_PDT_IDX - 1)
           /\ i = (IF list = "code" THEN 0 ELSE NUM_ENTRIES - 1)
           /\ n = (IF list = "code" THEN CODE_PAGES ELSE 1),
           /\ Shape(m, y, IF list = "code" THEN 1 ELSE 2) /\ f = y.pdt_paddr /\ x.pdt_paddr = f
           /\ x.code = (IF list = "code" THEN paddr ELSE y.code)
           /\ x.stack = (IF list = "code" THEN y.stack ELSE paddr)
           /\ x.kernel_stack_paddr = y.kernel_stack_paddr,
           TableFilled(m, f, d, i, paddr, n, m2, pt)
    PROVE  Shape(m2, x, IF list = "code" THEN 2 ELSE 3)
<1>0. CODE_PAGES \in Nat /\ NUM_ENTRIES \in Nat
  BY Constants
<1> DEFINE t == m2.at[pt]
<1>1. /\ DOMAIN t = i .. (i + n - 1)
      /\ \A j \in 0 .. (n - 1) : t[i + j] = paddr + j
      /\ UserHalf(m2, f) = UserHalf(m, f) \cup {d}
      /\ m2.at[f][d] = pt
      /\ \A e \in UserHalf(m, f) : /\ e # d /\ m2.at[f][e] = m.at[f][e]
                                   /\ m2.at[m.at[f][e]] = m.at[m.at[f][e]]
  BY DEF TableFilled
<1>2. CASE list = "code"
  <2>1. Shape(m, y, 1) /\ d = 0 /\ i = 0 /\ n = CODE_PAGES /\ x.code = paddr /\ x.stack = y.stack
    BY <1>2, Zenon
  <2>2. f # 0 /\ y.stack = 0 /\ y.kernel_stack_paddr = 0 /\ UserHalf(m, f) = {}
    BY <2>1, ShapeTables, Zenon
  <2>3. CodeTable(t, paddr)
    <3> HIDE DEF t
    <3> QED
      BY <1>0, <1>1, <2>1 DEF CodeTable
  <2>4. UserHalf(m2, x.pdt_paddr) = {0} /\ m2.at[m2.at[x.pdt_paddr][0]] = t
    <3>1. {} \cup {0} = {0}
      OBVIOUS
    <3> QED
      BY <1>1, <2>1, <2>2, <3>1, Zenon
  <2>5. Shape(m2, x, 2)
    BY <2>1, <2>2, <2>3, <2>4, ShapeTables, Zenon
  <2> QED
    BY <1>2, <2>5, Zenon
<1>3. CASE list # "code"
  <2>1. /\ Shape(m, y, 2) /\ d = KERNEL_PDT_IDX - 1 /\ i = NUM_ENTRIES - 1 /\ n = 1
        /\ x.code = y.code /\ x.stack = paddr
    BY <1>3, Zenon
  <2>2. /\ f # 0 /\ y.code # 0 /\ y.kernel_stack_paddr = 0 /\ UserHalf(m, f) = {0}
        /\ CodeTable(m.at[m.at[f][0]], y.code)
    BY <2>1, ShapeTables, Zenon
  <2>3. StackTable(t, paddr)
    <3> HIDE DEF t
    <3>1. i \in Int /\ i .. (i + n - 1) = {i} /\ 0 \in 0 .. (n - 1) /\ i + 0 = i /\ paddr + 0 = paddr
      BY <1>0, <2>1
    <3>2. DOMAIN t = {i} /\ t[i] = paddr
      BY <1>1, <3>1
    <3> QED
      BY <2>1, <3>2 DEF StackTable
  <2>4. /\ UserHalf(m2, f) = {0} \cup {KERNEL_PDT_IDX - 1} /\ m2.at[m2.at[f][KERNEL_PDT_IDX - 1]] = t
        /\ m2.at[m2.at[f][0]] = m.at[m.at[f][0]]
    <3>1. 0 \in UserHalf(m, f)
      BY <2>2
    <3> QED
      BY <1>1, <2>1, <2>2, <3>1, Zenon
  <2>5. Shape(m2, x, 3)
    BY <2>1, <2>2, <2>3, <2>4, ShapeTables, ZenonT(60)
  <2> QED
    BY <1>3, <2>5, Zenon
<1> QED
  BY <1>2, <1>3

\* The code or the stack is mapped in the directory of the child and entered in its struct.
LEMMA FillStep ==
    ASSUME NEW m, NEW s, NEW cl, NEW h, NEW o, NEW fl, Inv(m, s, cl, h, o, fl),
           NEW c \in Callers, cl[c].at \in {"code_map", "copy_map"},
           NEW q, q = cl[c].child, NEW list, list = cl[c].list,
           NEW r, r = pdt_map_memory(m, s[q].pdt_paddr, cl[c].paddr, Start(list), Count(list)), r.ok,
           NEW x \in PsTypes, x.st = "loading", x.pdt = s[q].pdt, x.pdt_paddr = s[q].pdt_paddr,
           x.kernel_stack = s[q].kernel_stack, x.kernel_stack_paddr = s[q].kernel_stack_paddr,
           x.code = (IF list = "code" THEN cl[c].paddr ELSE s[q].code),
           x.stack = (IF list = "code" THEN s[q].stack ELSE cl[c].paddr),
           NEW e \in CallTypes, e.child = q, e.op = cl[c].op,
           e.at \notin {"idle", "delete", "loop", "code_read", "copy_data"}, e.paddr = 0,
           CallOK(e, fl), Level(e) = IF list = "code" THEN 2 ELSE 3
    PROVE  Inv(r.m, [s EXCEPT ![q] = x], [cl EXCEPT ![c] = e], h, o, fl)
<1> DEFINE f == s[q].pdt_paddr
           paddr == cl[c].paddr
           n == Count(list)
           d == VIRTUAL_TO_PDT_IDX(Start(list))
           i == VIRTUAL_TO_PT_IDX(Start(list))
           m2 == r.m
<1>1. /\ m2 \in Mem /\ f \in Phys /\ f # 0 /\ list \in Lists
      /\ Shape(m, s[q], IF list = "code" THEN 1 ELSE 2)
      /\ \E pt \in m.free : TableMade(m, s, q, f, d, i, paddr, n, m2, pt)
  BY UserTable
<1>2. /\ d = (IF list = "code" THEN 0 ELSE KERNEL_PDT_IDX - 1)
      /\ i = (IF list = "code" THEN 0 ELSE NUM_ENTRIES - 1)
      /\ n = (IF list = "code" THEN CODE_PAGES ELSE 1)
  BY <1>1, StartFacts DEF Count
<1>0. PICK pt \in m.free : TableMade(m, s, q, f, d, i, paddr, n, m2, pt)
  BY <1>1
<1> HIDE DEF m2, f, paddr, n, d, i
<1>3. /\ NewTable(m, s, q, m2, {pt})
      /\ DOMAIN m2.at[pt] = i .. (i + n - 1)
      /\ \A j \in 0 .. (n - 1) : m2.at[pt][i + j] = paddr + j
      /\ UserHalf(m2, f) = UserHalf(m, f) \cup {d}
      /\ m2.at[f][d] = pt
      /\ \A b \in UserHalf(m, f) : /\ b # d /\ m2.at[f][b] = m.at[f][b]
                                   /\ m2.at[m.at[f][b]] = m.at[m.at[f][b]]
  BY <1>0 DEF TableMade, TableFilled
<1>4. /\ cl[c].at # "idle" /\ cl[c] \in CallTypes /\ CallOK(cl[c], fl) /\ q \in Using(s)
      /\ s[q] \in PsTypes /\ s[q].st = "loading" /\ Paired(s[q]) /\ PsMapped(m, s[q])
  BY ChildFacts
<1>5. paddr \in Phys /\ paddr # 0 /\ paddr \in Nat
  <2>1. paddr \in Phys /\ paddr # 0
    BY <1>4 DEF CallTypes, CallOK, Holding, paddr
  <2> QED
    BY <2>1, Constants
<1>6. /\ x.pdt_paddr = f
      /\ x.code = IF list = "code" THEN paddr ELSE s[q].code
      /\ x.stack = IF list = "code" THEN s[q].stack ELSE paddr
  BY DEF f, paddr
<1>7. Paired(x) /\ PsMapped(m2, x)
  <2> DEFINE B == {}
  <2>1. Kept(m, m2, B) /\ s[q].pdt_paddr \notin B /\ s[q].kernel_stack_paddr \notin B
    BY <1>3 DEF NewTable
  <2> HIDE DEF B
  <2>2. PsMapped(m2, s[q])
    BY <1>4, <2>1, PsMappedKept
  <2> QED
    BY <1>4, <2>2 DEF Paired, PsMapped
<1>8. Shape(m2, x, Level(e))
  <2> DEFINE y == s[q]
  <2>1. /\ Shape(m, y, IF list = "code" THEN 1 ELSE 2) /\ f = y.pdt_paddr /\ x.pdt_paddr = f
        /\ x.code = (IF list = "code" THEN paddr ELSE y.code)
        /\ x.stack = (IF list = "code" THEN y.stack ELSE paddr)
        /\ x.kernel_stack_paddr = y.kernel_stack_paddr
    BY <1>1, <1>6, Zenon DEF f
  <2> HIDE DEF y
  <2> QED
    <3>1. TableFilled(m, f, d, i, paddr, n, m2, pt)
      BY <1>0 DEF TableMade
    <3>2. Shape(m2, x, IF list = "code" THEN 2 ELSE 3)
      BY <1>2, <1>5, <2>1, <3>1, ShapeFilled, ZenonT(60)
    <3> QED
      BY <3>2, Zenon
<1>9. /\ list \in PsKinds /\ list \in {"pdt", "kernel_stack", "stack", "code"}
      /\ PsUse(m2, s[q], list) = {} /\ PsUse(m2, x, list) = Hold(cl[c])
      /\ \A l \in PsKinds \ {list} : PsUse(m2, x, l) = PsUse(m2, s[q], l)
  <2>1. Hold(cl[c]) = Block(paddr, n)
    BY DEF Hold, Size, paddr, n
  <2>2. CASE list = "code"
    <3>1. s[q].code = 0
      <4>1. Shape(m, s[q], 1)
        BY <1>1, <2>2
      <4> QED
        BY <4>1 DEF Shape
    <3> QED
      BY <1>2, <1>6, <2>1, <2>2, <3>1 DEF PsUse, Block, PsKinds, f
  <2>3. CASE list = "stack"
    <3>1. s[q].stack = 0
      <4>1. Shape(m, s[q], 2)
        BY <1>1, <2>3
      <4> QED
        BY <4>1, ShapeTwo
    <3> QED
      BY <1>2, <1>6, <2>1, <2>3, <3>1 DEF PsUse, Block, PsKinds, f
  <2> QED
    BY <1>1, <2>2, <2>3 DEF Lists
<1>10. NewTable(m, s, q, m2, {pt}) /\ x \in PsTypes /\ x.st = "loading" /\ cl[c].at # "idle"
  BY <1>3, <1>4, <1>6
<1>11. Inv(m2, [s EXCEPT ![q] = x], [cl EXCEPT ![c] = e], h, o, fl)
  BY <1>7, <1>8, <1>9, <1>10, GiveStep
<1> QED
  BY <1>11 DEF m2

-----------------------------------------------------------------------------
(***************************************************************************)
(* The actions: what the steps above say of each of them.                  *)
(***************************************************************************)
\* Frames are allocated and kernel pages looked for: the step that maps them comes next.
Mapping(step) ==
    CASE step = "pdt" -> "pdt_map" [] step = "code" -> "code_map"
      [] step = "kernel_stack" -> "kernel_stack_map" [] OTHER -> "copy_map"

LEMMA FindStep ==
    ASSUME NEW m, NEW s, NEW cl, NEW h, NEW o, NEW fl, Inv(m, s, cl, h, o, fl),
           NEW c \in Callers, cl[c].at \in {"pdt", "code", "kernel_stack", "copy"},
           NEW b, b = Mapping(cl[c].at),
           NEW n, n = (IF cl[c].at \in {"code", "copy"} THEN Count(cl[c].list) ELSE 1),
           NEW f, f = pfa_allocate(m, n), NEW m2, m2 = Taken(m, f, n),
           NEW v, v = pdt_kernel_find_next_vaddr(m2, n),
           b = "pdt_map" \/ (f # 0 /\ v # 0)
    PROVE  Inv(m2, s, [cl EXCEPT ![c] = Moved(cl[c], b, f, v)], h, o, fl)
<1> DEFINE e == Moved(cl[c], b, f, v)
<1>1. /\ cl[c] \in CallTypes /\ CallOK(cl[c], fl) /\ cl[c].at # "idle"
      /\ Shape(m, s[cl[c].child], Level(cl[c]))
  BY ChildFacts
<1>2. m \in Mem
  BY DEF Inv
<1>3. b \in {"pdt_map", "code_map", "kernel_stack_map", "copy_map"} /\ b \in Steps
  BY DEF Mapping, Steps
<1>4. n \in Nat /\ n > 0 /\ n < NUM_ENTRIES
  BY Constants DEF Count
<1>5. f \in Phys
  BY <1>2, <1>4, AllocFacts
<1>6. v \in Pages /\ VIRTUAL_TO_PT_IDX(v) + n <= NUM_ENTRIES
  BY <1>4, FindFacts
<1>7. /\ e \in CallTypes /\ e.at = b /\ e.paddr = f /\ e.vaddr = v
      /\ e.child = cl[c].child /\ e.op = cl[c].op /\ e.list = cl[c].list
  BY <1>1, <1>3, <1>5, <1>6, MovedFacts
<1> HIDE DEF e
<1>8. n = Size(e)
  BY <1>7 DEF Size, Mapping
<1>9. CallOK(e, fl)
  <2>1. cl[c].at \in {"pdt", "code"} => cl[c].list = "code"
    BY <1>1 DEF CallOK
  <2>2. e.at \in {"idle", "pdt", "pdt_map", "code", "code_map", "code_read"} => e.list = "code"
    BY <1>7, <2>1 DEF Mapping
  <2>3. VIRTUAL_TO_PT_IDX(e.vaddr) + Size(e) <= NUM_ENTRIES
    BY <1>6, <1>7, <1>8
  <2> QED
    BY <1>3, <1>7, <2>2, <2>3 DEF CallOK, Holding
<1>10. Level(e) = Level(cl[c])
  BY <1>7 DEF Level, Mapping
<1>11. cl[c].paddr = 0
  BY <1>1 DEF CallOK, Holding
<1>12. Shape(m, s[e.child], Level(e)) /\ e.at \in {"pdt_map", "code_map", "copy_map", "kernel_stack_map"}
  BY <1>1, <1>3, <1>7, <1>10
<1>13. Inv(m2, s, [cl EXCEPT ![c] = e], h, o, fl)
  BY <1>1, <1>4, <1>7, <1>8, <1>9, <1>11, <1>12, TakeStep
<1> QED
  BY <1>13 DEF e

LEMMA PdtCreateInv ==
    ASSUME Inv(mem, ps, call, heap, orphans, failed), NEW c \in Callers, pdt_create(c)
    PROVE  Inv(mem', ps', call', heap', orphans', failed')
<1> DEFINE f == pfa_allocate(mem, 1)
           m2 == Taken(mem, f, 1)
           v == pdt_kernel_find_next_vaddr(m2, 1)
           n == 1
<1>1. /\ call[c].at = "pdt" /\ mem' = m2 /\ ps' = ps /\ failed' = failed
      /\ heap' = heap /\ orphans' = orphans
      /\ call' = Went(call, c, "pdt_map", f, v)
  BY DEF pdt_create, At, Go, Keep, Went
<1>2. /\ n = (IF call[c].at \in {"code", "copy"} THEN Count(call[c].list) ELSE 1)
      /\ f = pfa_allocate(mem, n) /\ m2 = Taken(mem, f, n) /\ v = pdt_kernel_find_next_vaddr(m2, n)
      /\ "pdt_map" = Mapping(call[c].at)
  BY <1>1 DEF Mapping
<1> HIDE DEF f, m2, v, n
<1>3. call \in [Callers -> CallTypes]
  BY DEF Inv
<1>4. call' = [call EXCEPT ![c] = Moved(call[c], "pdt_map", f, v)]
  BY <1>1, <1>3, WentMoves
<1>5. Inv(m2, ps, [call EXCEPT ![c] = Moved(call[c], "pdt_map", f, v)], heap, orphans, failed)
  BY <1>1, <1>2, FindStep
<1> QED
  BY <1>1, <1>4, <1>5

\* A call that fails.
LEMMA Fails ==
    ASSUME call \in [Callers -> CallTypes], NEW c \in Callers, Fail(c)
    PROVE  /\ call' = [call EXCEPT ![c] = Moved(call[c], "delete", 0, 0)]
           /\ failed' = TRUE /\ ps' = ps
<1>1. call' = Went(call, c, "delete", 0, 0) /\ failed' = TRUE /\ ps' = ps
  BY DEF Fail, Go, Went
<1> QED
  BY <1>1, WentMoves

LEMMA CodeFindInv ==
    ASSUME Inv(mem, ps, call, heap, orphans, failed), NEW c \in Callers, process_load_code_find(c)
    PROVE  Inv(mem', ps', call', heap', orphans', failed')
<1> DEFINE n == CODE_PAGES
           f == pfa_allocate(mem, n)
           m2 == Taken(mem, f, n)
           v == pdt_kernel_find_next_vaddr(m2, n)
<1>1. /\ call[c].at = "code" /\ heap' = heap /\ orphans' = orphans
      /\ \/ mem' = mem /\ Fail(c)
         \/ mem' = m2 /\ Fail(c)
         \/ /\ mem' = m2 /\ f # 0 /\ v # 0 /\ ps' = ps /\ failed' = failed
            /\ call' = Went(call, c, "code_map", f, v)
  BY DEF process_load_code_find, At, Go, Keep, Went
<1>2. call \in [Callers -> CallTypes] /\ call[c].at # "idle" /\ "delete" \in {"delete", "loop"}
  BY <1>1 DEF Inv
<1>3. call[c].list = "code"
  <2>1. CallOK(call[c], failed)
    BY <1>2, ChildFacts
  <2> QED
    BY <1>1, <2>1 DEF CallOK
<1>4. /\ n = (IF call[c].at \in {"code", "copy"} THEN Count(call[c].list) ELSE 1)
      /\ f = pfa_allocate(mem, n) /\ m2 = Taken(mem, f, n) /\ v = pdt_kernel_find_next_vaddr(m2, n)
      /\ "code_map" = Mapping(call[c].at) /\ n \in Nat /\ n > 0
  BY <1>1, <1>3, Constants DEF Mapping, Count
<1> HIDE DEF n, f, m2, v
<1>5. CASE mem' = mem /\ Fail(c)
  <2>1. Inv(mem, ps, [call EXCEPT ![c] = Moved(call[c], "delete", 0, 0)], heap, orphans, TRUE)
    BY <1>2, FailStep
  <2> QED
    BY <1>1, <1>2, <1>5, <2>1, Fails
<1>6. CASE mem' = m2 /\ Fail(c)
  <2>1. Inv(m2, ps, call, heap, orphans, TRUE)
    BY <1>4, LeakStep
  <2>2. Inv(m2, ps, [call EXCEPT ![c] = Moved(call[c], "delete", 0, 0)], heap, orphans, TRUE)
    BY <1>2, <2>1, FailStep
  <2> QED
    BY <1>1, <1>2, <1>6, <2>2, Fails
<1>7. CASE mem' = m2 /\ f # 0 /\ v # 0 /\ ps' = ps /\ failed' = failed
           /\ call' = Went(call, c, "code_map", f, v)
  <2>1. call' = [call EXCEPT ![c] = Moved(call[c], "code_map", f, v)]
    BY <1>2, <1>7, WentMoves
  <2>2. Inv(m2, ps, [call EXCEPT ![c] = Moved(call[c], "code_map", f, v)], heap, orphans, failed)
    BY <1>1, <1>4, <1>7, FindStep
  <2> QED
    BY <1>1, <1>7, <2>1, <2>2
<1> QED
  BY <1>1, <1>5, <1>6, <1>7

LEMMA KernelStackFindInv ==
    ASSUME Inv(mem, ps, call, heap, orphans, failed), NEW c \in Callers, process_load_kernel_stack_find(c)
    PROVE  Inv(mem', ps', call', heap', orphans', failed')
<1> DEFINE n == 1
           f == pfa_allocate(mem, n)
           m2 == Taken(mem, f, n)
           v == pdt_kernel_find_next_vaddr(m2, n)
<1>1. /\ call[c].at = "kernel_stack" /\ heap' = heap /\ orphans' = orphans
      /\ \/ mem' = m2 /\ Fail(c)
         \/ /\ mem' = m2 /\ f # 0 /\ v # 0 /\ ps' = ps /\ failed' = failed
            /\ call' = Went(call, c, "kernel_stack_map", f, v)
  BY DEF process_load_kernel_stack_find, At, Go, Keep, Went
<1>2. call \in [Callers -> CallTypes] /\ call[c].at # "idle" /\ "delete" \in {"delete", "loop"}
  BY <1>1 DEF Inv
<1>4. /\ n = (IF call[c].at \in {"code", "copy"} THEN Count(call[c].list) ELSE 1)
      /\ f = pfa_allocate(mem, n) /\ m2 = Taken(mem, f, n) /\ v = pdt_kernel_find_next_vaddr(m2, n)
      /\ "kernel_stack_map" = Mapping(call[c].at) /\ n \in Nat /\ n > 0
  BY <1>1 DEF Mapping
<1> HIDE DEF n, f, m2, v
<1>6. CASE mem' = m2 /\ Fail(c)
  <2>1. Inv(m2, ps, call, heap, orphans, TRUE)
    BY <1>4, LeakStep
  <2>2. Inv(m2, ps, [call EXCEPT ![c] = Moved(call[c], "delete", 0, 0)], heap, orphans, TRUE)
    BY <1>2, <2>1, FailStep
  <2> QED
    BY <1>1, <1>2, <1>6, <2>2, Fails
<1>7. CASE mem' = m2 /\ f # 0 /\ v # 0 /\ ps' = ps /\ failed' = failed
           /\ call' = Went(call, c, "kernel_stack_map", f, v)
  <2>1. call' = [call EXCEPT ![c] = Moved(call[c], "kernel_stack_map", f, v)]
    BY <1>2, <1>7, WentMoves
  <2>2. Inv(m2, ps, [call EXCEPT ![c] = Moved(call[c], "kernel_stack_map", f, v)], heap, orphans, failed)
    BY <1>1, <1>4, <1>7, FindStep
  <2> QED
    BY <1>1, <1>7, <2>1, <2>2
<1> QED
  BY <1>1, <1>6, <1>7

LEMMA CopyFindInv ==
    ASSUME Inv(mem, ps, call, heap, orphans, failed), NEW c \in Callers, copy_find(c)
    PROVE  Inv(mem', ps', call', heap', orphans', failed')
<1> DEFINE n == Count(call[c].list)
           f == pfa_allocate(mem, n)
           m2 == Taken(mem, f, n)
           v == pdt_kernel_find_next_vaddr(m2, n)
           m3 == pfa_free_cont(m2, f, n)
<1>1. /\ call[c].at = "copy" /\ heap' = heap /\ orphans' = orphans
      /\ \/ mem' = mem /\ Fail(c)
         \/ mem' = m3 /\ f # 0 /\ Fail(c)
         \/ /\ mem' = m2 /\ f # 0 /\ v # 0 /\ ps' = ps /\ failed' = failed
            /\ call' = Went(call, c, "copy_map", f, v)
  BY DEF copy_find, At, Go, Keep, Went
<1>2. /\ call \in [Callers -> CallTypes] /\ call[c].at # "idle" /\ "delete" \in {"delete", "loop"}
      /\ mem \in Mem
  BY <1>1 DEF Inv
<1>4. /\ n = (IF call[c].at \in {"code", "copy"} THEN Count(call[c].list) ELSE 1)
      /\ f = pfa_allocate(mem, n) /\ m2 = Taken(mem, f, n) /\ v = pdt_kernel_find_next_vaddr(m2, n)
      /\ "copy_map" = Mapping(call[c].at) /\ n \in Nat /\ n > 0
      /\ m3 = pfa_free_cont(m2, f, n)
  BY <1>1, Constants DEF Mapping, Count
<1> HIDE DEF n, f, m2, v, m3
<1>5. CASE mem' = mem /\ Fail(c)
  <2>1. Inv(mem, ps, [call EXCEPT ![c] = Moved(call[c], "delete", 0, 0)], heap, orphans, TRUE)
    BY <1>2, FailStep
  <2> QED
    BY <1>1, <1>2, <1>5, <2>1, Fails
<1>6. CASE mem' = m3 /\ f # 0 /\ Fail(c)
  <2>0. f \in Phys /\ Block(f, n) \in SUBSET mem.free
    BY <1>2, <1>4, AllocFacts
  <2>1. m2 \in Mem /\ m2.at = mem.at /\ m2.free = mem.free \ Block(f, n)
    BY <1>2, <1>4, <2>0, TakenFacts
  <2>2. Block(f, n) \subseteq Frames /\ Block(f, n) \cap m2.free = {}
    <3>1. mem.free \in SUBSET Frames
      BY <1>2, MemFacts, SMTT(30)
    <3> QED
      BY <2>0, <2>1, <3>1
  <2>3. m3 \in Mem /\ m3.at = m2.at /\ m3.free = m2.free \cup Block(f, n)
    BY <1>4, <1>6, <2>0, <2>1, <2>2, FreeFacts
  <2>4. m3.at = mem.at /\ m3.free = mem.free
    BY <2>0, <2>1, <2>3
  <2>5. m3 = mem
    BY <1>2, <2>3, <2>4 DEF Mem
  <2>6. Inv(mem, ps, [call EXCEPT ![c] = Moved(call[c], "delete", 0, 0)], heap, orphans, TRUE)
    BY <1>2, FailStep
  <2> QED
    BY <1>1, <1>2, <1>6, <2>5, <2>6, Fails
<1>7. CASE mem' = m2 /\ f # 0 /\ v # 0 /\ ps' = ps /\ failed' = failed
           /\ call' = Went(call, c, "copy_map", f, v)
  <2>1. call' = [call EXCEPT ![c] = Moved(call[c], "copy_map", f, v)]
    BY <1>2, <1>7, WentMoves
  <2>2. Inv(m2, ps, [call EXCEPT ![c] = Moved(call[c], "copy_map", f, v)], heap, orphans, failed)
    BY <1>1, <1>4, <1>7, FindStep
  <2> QED
    BY <1>1, <1>7, <2>1, <2>2
<1> QED
  BY <1>1, <1>5, <1>6, <1>7

\* What a call asks pdt_map_memory for.
LEMMA MapArguments ==
    ASSUME NEW m, NEW s, NEW cl, NEW h, NEW o, NEW fl, Inv(m, s, cl, h, o, fl),
           NEW c \in Callers, cl[c].at # "idle", NEW n, n = Size(cl[c])
    PROVE  /\ cl[c].paddr \in Phys /\ cl[c].vaddr \in Pages /\ n \in Nat /\ n > 0
           /\ VIRTUAL_TO_PT_IDX(cl[c].vaddr) + n <= NUM_ENTRIES
           /\ \A j \in 0 .. (n - 1) : cl[c].paddr # 0 => cl[c].paddr + j \in Phys
           /\ cl[c].paddr # 0 => cl[c].paddr .. (cl[c].paddr + n - 1) = Hold(cl[c])
<1>1. cl[c] \in CallTypes /\ CallOK(cl[c], fl)
  BY ChildFacts
<1>2. cl[c].paddr \in Phys /\ cl[c].vaddr \in Pages
  BY <1>1 DEF CallTypes
<1>3. n \in Nat /\ n > 0
  BY SizeNat
<1>4. VIRTUAL_TO_PT_IDX(cl[c].vaddr) + n <= NUM_ENTRIES
  BY <1>1 DEF CallOK
<1>5. cl[c].paddr # 0 => cl[c].paddr .. (cl[c].paddr + n - 1) = Hold(cl[c])
  BY DEF Hold, Block
<1>6. Hold(cl[c]) \subseteq Frames
  BY CallFrames
<1>7. \A j \in 0 .. (n - 1) : cl[c].paddr # 0 => cl[c].paddr + j \in Phys
  <2> SUFFICES ASSUME NEW j \in 0 .. (n - 1), cl[c].paddr # 0 PROVE cl[c].paddr + j \in Phys
    OBVIOUS
  <2>1. cl[c].paddr \in Nat
    BY <1>2, Constants
  <2>2. cl[c].paddr + j \in cl[c].paddr .. (cl[c].paddr + n - 1)
    BY <1>3, <2>1
  <2> QED
    BY <1>5, <1>6, <2>2, Constants
<1> QED
  BY <1>2, <1>3, <1>4, <1>5, <1>7

LEMMA MapCall ==
    ASSUME NEW m, NEW s, NEW cl, NEW h, NEW o, NEW fl, Inv(m, s, cl, h, o, fl),
           NEW c \in Callers, cl[c].at # "idle", cl[c].paddr # 0, NEW n, n = Size(cl[c]),
           NEW v, v = cl[c].vaddr, NEW f, f = cl[c].paddr,
           NEW r, r = pdt_map_memory(m, kernel_pdt, f, v, n),
           NEW fl2 \in BOOLEAN, fl => fl2, ~r.ok => fl2
    PROVE  Inv(r.m, s, cl, h, o, fl2)
<1>1. /\ f \in Phys /\ v \in Pages /\ n \in Nat /\ n > 0
      /\ VIRTUAL_TO_PT_IDX(v) + n <= NUM_ENTRIES
      /\ \A j \in 0 .. (n - 1) : f + j \in Phys
  BY MapArguments
<1> QED
  BY <1>1, KernelMapStep

LEMMA MapPages ==
    ASSUME NEW m, NEW s, NEW cl, NEW h, NEW o, NEW fl, Inv(m, s, cl, h, o, fl),
           NEW c \in Callers, cl[c].at # "idle", cl[c].paddr # 0, NEW n, n = Size(cl[c]),
           NEW v, v = cl[c].vaddr, NEW f, f = cl[c].paddr,
           NEW r, r = pdt_map_memory(m, kernel_pdt, f, v, n)
    PROVE  /\ r.ok => \A j \in 0 .. (n - 1) : Translate(r.m, kernel_pdt, v + j) = f + j
           /\ \A j \in 0 .. (n - 1) : Translate(m, kernel_pdt, v + j) = NotMapped =>
                 Translate(r.m, kernel_pdt, v + j) \in Hold(cl[c]) \cup {NotMapped}
<1>1. /\ f \in Phys /\ v \in Pages /\ n \in Nat /\ n > 0
      /\ VIRTUAL_TO_PT_IDX(v) + n <= NUM_ENTRIES
      /\ \A j \in 0 .. (n - 1) : f + j \in Phys
      /\ f .. (f + n - 1) = Hold(cl[c])
  BY MapArguments
<1>2. m \in Mem /\ KernelOK(m)
  BY InvTyped DEF Inv
<1>3. r.ok => \A j \in 0 .. (n - 1) : Translate(r.m, kernel_pdt, v + j) = f + j
  BY <1>1, <1>2, KernelMap
<1>4. \A j \in 0 .. (n - 1) : Translate(m, kernel_pdt, v + j) = NotMapped =>
         Translate(r.m, kernel_pdt, v + j) \in (f .. (f + n - 1)) \cup {NotMapped}
  BY <1>1, <1>2, KernelMap
<1> QED
  BY <1>1, <1>3, <1>4

\* The pages are mapped: the next step uses them.
LEMMA MappedStep ==
    ASSUME NEW m, NEW s, NEW cl, NEW h, NEW o, NEW fl, Inv(m, s, cl, h, o, fl),
           NEW c \in Callers, cl[c].at \in {"code_map", "copy_map"},
           NEW n, n = Count(cl[c].list),
           NEW r, r = pdt_map_memory(m, kernel_pdt, cl[c].paddr, cl[c].vaddr, n), r.ok,
           NEW b, b = (IF cl[c].at = "code_map" THEN "code_read" ELSE "copy_data")
    PROVE  Inv(r.m, s, [cl EXCEPT ![c] = Moved(cl[c], b, cl[c].paddr, cl[c].vaddr)], h, o, fl)
<1> DEFINE e == Moved(cl[c], b, cl[c].paddr, cl[c].vaddr)
<1>1. cl[c] \in CallTypes /\ CallOK(cl[c], fl) /\ cl[c].at # "idle" /\ fl \in BOOLEAN /\ n = Size(cl[c])
  <2>1. fl \in BOOLEAN
    BY DEF Inv
  <2> QED
    BY <2>1, ChildFacts DEF Size
<1>2. cl[c].paddr # 0 /\ cl[c].vaddr # 0 /\ cl[c].paddr \in Phys /\ cl[c].vaddr \in Pages
  BY <1>1 DEF CallOK, Holding, CallTypes
<1>3. /\ e \in CallTypes /\ e.at = b /\ e.paddr = cl[c].paddr /\ e.vaddr = cl[c].vaddr
      /\ e.child = cl[c].child /\ e.op = cl[c].op /\ e.list = cl[c].list
  <2>1. b \in Steps
    BY DEF Steps
  <2> QED
    BY <1>1, <1>2, <2>1, MovedFacts
<1> HIDE DEF e
<1>4. Inv(r.m, s, cl, h, o, fl)
  BY <1>1, <1>2, MapCall
<1>5. \A j \in 0 .. (n - 1) : Translate(r.m, kernel_pdt, cl[c].vaddr + j) = cl[c].paddr + j
  BY <1>1, <1>2, MapPages
<1>6. CallMapped(r.m, e)
  BY <1>3, <1>5 DEF CallMapped
<1>7. Size(e) = Size(cl[c]) /\ Hold(e) = Hold(cl[c]) /\ Level(e) = Level(cl[c])
  BY <1>3 DEF Size, Hold, Level
<1>8. CallOK(e, fl)
  BY <1>1, <1>2, <1>3, <1>7 DEF CallOK, Holding
<1>9. Shape(r.m, s[e.child], Level(e)) /\ e.at # "idle"
  BY <1>1, <1>3, <1>4, <1>7, ChildFacts
<1>10. Inv(r.m, s, [cl EXCEPT ![c] = e], h, o, fl)
  BY <1>1, <1>3, <1>4, <1>6, <1>7, <1>8, <1>9, AdvanceStep
<1> QED
  BY <1>10 DEF e

\* Pages that map frames of a call are unmapped.
LEMMA UnmapCall ==
    ASSUME NEW m, NEW s, NEW cl, NEW h, NEW o, NEW fl, Inv(m, s, cl, h, o, fl),
           NEW c \in Callers, cl[c].at \in {"code_map", "copy_map"},
           NEW n, n = Size(cl[c]), NEW v, v = cl[c].vaddr,
           \A j \in 0 .. (n - 1) : Translate(m, kernel_pdt, v + j) \in Hold(cl[c]) \cup {NotMapped},
           VIRTUAL_TO_PDT_IDX(v) \in DOMAIN m.at[kernel_pdt],
           NEW m2, m2 = pdt_unmap_kernel_memory(m, v, n)
    PROVE  Inv(m2, s, cl, h, o, fl)
<1> DEFINE B == Hold(cl[c])
<1>1. v \in Pages /\ n \in Nat /\ n > 0 /\ VIRTUAL_TO_PT_IDX(v) + n <= NUM_ENTRIES
  BY MapArguments
<1>2. \A j \in 0 .. (n - 1) : Translate(m, kernel_pdt, v + j) \in B \cup {NotMapped}
  OBVIOUS
<1>3. \A p \in Using(s) : s[p].pdt_paddr \notin B /\ s[p].kernel_stack_paddr \notin B
  BY CallFrames
<1>4. \A d \in Callers : cl[d].at \in {"code_read", "copy_data"} => Hold(cl[d]) \cap B = {}
  <2> SUFFICES ASSUME NEW d \in Callers, cl[d].at \in {"code_read", "copy_data"} PROVE Hold(cl[d]) \cap B = {}
    OBVIOUS
  <2>1. d # c
    OBVIOUS
  <2> QED
    BY <2>1, CallFrames
<1> HIDE DEF B
<1> QED
  BY <1>1, <1>2, <1>3, <1>4, UnmapStep

\* What was mapped of them is unmapped again: these pages were free before, so that they
\* map frames of the call.
LEMMA UndoneStep ==
    ASSUME NEW m, NEW s, NEW cl, NEW h, NEW o, NEW fl, Inv(m, s, cl, h, o, fl),
           NEW c \in Callers, cl[c].at \in {"code_map", "copy_map"},
           NEW n, n = Count(cl[c].list), NEW v, v = cl[c].vaddr,
           NEW r, r = pdt_map_memory(m, kernel_pdt, cl[c].paddr, v, n),
           \A j \in 0 .. (n - 1) : Translate(m, kernel_pdt, v + j) = NotMapped,
           NEW m1, m1 = r.m, ~UnmapLoops(m1, v), NEW m2, m2 = pdt_unmap_kernel_memory(m1, v, n)
    PROVE  Inv(m2, s, cl, h, o, TRUE)
<1>1. cl[c].at # "idle" /\ fl \in BOOLEAN /\ TRUE \in BOOLEAN /\ n = Size(cl[c]) /\ cl[c].paddr # 0
  <2>1. fl \in BOOLEAN
    BY DEF Inv
  <2>2. CallOK(cl[c], fl)
    BY ChildFacts
  <2> QED
    BY <2>1, <2>2 DEF Size, CallOK, Holding
<1>2. Inv(m1, s, cl, h, o, TRUE)
  BY <1>1, MapCall
<1>3. \A j \in 0 .. (n - 1) : Translate(m1, kernel_pdt, v + j) \in Hold(cl[c]) \cup {NotMapped}
  <2>1. \A j \in 0 .. (n - 1) : Translate(m, kernel_pdt, v + j) = NotMapped =>
           Translate(r.m, kernel_pdt, v + j) \in Hold(cl[c]) \cup {NotMapped}
    BY <1>1, MapPages
  <2> QED
    BY <2>1
<1>4. VIRTUAL_TO_PDT_IDX(v) \in DOMAIN m1.at[kernel_pdt]
  BY DEF UnmapLoops, IS_ENTRY_PRESENT
<1> QED
  BY <1>1, <1>2, <1>3, <1>4, UnmapCall

LEMMA CodeMapInv ==
    ASSUME Inv(mem, ps, call, heap, orphans, failed), NEW c \in Callers, process_load_code_map(c), ~wild'
    PROVE  Inv(mem', ps', call', heap', orphans', failed')
<1> DEFINE n == CODE_PAGES
           v == call[c].vaddr
           r == pdt_map_memory(mem, kernel_pdt, call[c].paddr, v, n)
           m1 == r.m
           m2 == pdt_unmap_kernel_memory(m1, v, n)
<1>1. /\ call[c].at = "code_map" /\ heap' = heap /\ orphans' = orphans
      /\ \/ /\ r.ok /\ mem' = r.m /\ ps' = ps /\ failed' = failed
            /\ call' = Went(call, c, "code_read", call[c].paddr, call[c].vaddr)
         \/ /\ ~r.ok /\ mem' = r.m /\ ps' = ps /\ failed' = TRUE
            /\ call' = Went(call, c, "loop", 0, 0)
         \/ ~UnmapLoops(m1, v) /\ mem' = m2 /\ ~Stale(c, n) /\ Fail(c)
  BY DEF process_load_code_map, At, Go, Keep, Went, Touch
<1>2. /\ call \in [Callers -> CallTypes] /\ call[c].at # "idle"
      /\ "delete" \in {"delete", "loop"} /\ "loop" \in {"delete", "loop"}
      /\ failed \in BOOLEAN /\ TRUE \in BOOLEAN
  BY <1>1 DEF Inv
<1>3. /\ call[c].paddr # 0 /\ n = Count(call[c].list) /\ n = Size(call[c])
      /\ call[c].at \in {"code_map", "copy_map"}
  <2>1. CallOK(call[c], failed)
    BY <1>2, ChildFacts
  <2> QED
    BY <1>1, <2>1 DEF CallOK, Holding, Count, Size
<1>4. /\ r = pdt_map_memory(mem, kernel_pdt, call[c].paddr, v, n) /\ v = call[c].vaddr
      /\ m1 = r.m /\ m2 = pdt_unmap_kernel_memory(m1, v, n)
  OBVIOUS
<1>5. Stale(c, n) <=> \E j \in 0 .. (n - 1) : Translate(mem, kernel_pdt, v + j) # NotMapped
  BY DEF Stale
<1> HIDE DEF n, v, r, m1, m2
<1>6. CASE /\ r.ok /\ mem' = r.m /\ ps' = ps /\ failed' = failed
           /\ call' = Went(call, c, "code_read", call[c].paddr, call[c].vaddr)
  <2> DEFINE b == "code_read"
  <2>1. b = (IF call[c].at = "code_map" THEN "code_read" ELSE "copy_data")
    BY <1>1
  <2>2. call' = [call EXCEPT ![c] = Moved(call[c], b, call[c].paddr, call[c].vaddr)]
    <3> DEFINE f == call[c].paddr
               w == call[c].vaddr
    <3>1. call' = Went(call, c, b, f, w)
      BY <1>6
    <3> HIDE DEF b, f, w
    <3>2. call' = [call EXCEPT ![c] = Moved(call[c], b, f, w)]
      BY <1>2, <3>1, WentMoves
    <3> QED
      BY <3>2 DEF f, w
  <2> HIDE DEF b
  <2>3. r.ok /\ r = pdt_map_memory(mem, kernel_pdt, call[c].paddr, call[c].vaddr, n)
    BY <1>4, <1>6
  <2>4. Inv(r.m, ps, [call EXCEPT ![c] = Moved(call[c], b, call[c].paddr, call[c].vaddr)], heap, orphans, failed)
    BY <1>3, <2>1, <2>3, MappedStep
  <2> QED
    BY <1>1, <1>6, <2>2, <2>4
<1>7. CASE /\ ~r.ok /\ mem' = r.m /\ ps' = ps /\ failed' = TRUE
           /\ call' = Went(call, c, "loop", 0, 0)
  <2>1. call' = [call EXCEPT ![c] = Moved(call[c], "loop", 0, 0)]
    BY <1>2, <1>7, WentMoves
  <2>2. Inv(m1, ps, call, heap, orphans, TRUE)
    BY <1>2, <1>3, <1>4, MapCall
  <2>3. Inv(m1, ps, [call EXCEPT ![c] = Moved(call[c], "loop", 0, 0)], heap, orphans, TRUE)
    BY <1>2, <2>2, FailStep
  <2> QED
    BY <1>1, <1>4, <1>7, <2>1, <2>3
<1>8. CASE ~UnmapLoops(m1, v) /\ mem' = m2 /\ ~Stale(c, n) /\ Fail(c)
  <2>1. \A j \in 0 .. (n - 1) : Translate(mem, kernel_pdt, v + j) = NotMapped
    BY <1>5, <1>8
  <2>2. Inv(m2, ps, call, heap, orphans, TRUE)
    BY <1>3, <1>4, <1>8, <2>1, UndoneStep
  <2>3. Inv(m2, ps, [call EXCEPT ![c] = Moved(call[c], "delete", 0, 0)], heap, orphans, TRUE)
    BY <1>2, <2>2, FailStep
  <2> QED
    BY <1>1, <1>2, <1>8, <2>3, Fails
<1> QED
  BY <1>1, <1>6, <1>7, <1>8

LEMMA CopyMapInv ==
    ASSUME Inv(mem, ps, call, heap, orphans, failed), NEW c \in Callers, copy_map(c), ~wild'
    PROVE  Inv(mem', ps', call', heap', orphans', failed')
<1> DEFINE n == Count(call[c].list)
           v == call[c].vaddr
           r == pdt_map_memory(mem, kernel_pdt, call[c].paddr, v, n)
           m1 == r.m
           m2 == pdt_unmap_kernel_memory(m1, v, n)
           m3 == pfa_free_cont(m2, call[c].paddr, n)
<1>1. /\ call[c].at = "copy_map" /\ heap' = heap /\ orphans' = orphans
      /\ \/ /\ r.ok /\ mem' = r.m /\ ps' = ps /\ failed' = failed
            /\ call' = Went(call, c, "copy_data", call[c].paddr, call[c].vaddr)
         \/ /\ ~r.ok /\ mem' = r.m /\ ps' = ps /\ failed' = TRUE
            /\ call' = Went(call, c, "loop", 0, 0)
         \/ ~UnmapLoops(m1, v) /\ mem' = m3 /\ ~Stale(c, n) /\ Fail(c)
  BY DEF copy_map, At, Go, Keep, Went, Touch
<1>2. /\ call \in [Callers -> CallTypes] /\ call[c].at # "idle"
      /\ "delete" \in {"delete", "loop"} /\ "loop" \in {"delete", "loop"}
      /\ failed \in BOOLEAN /\ TRUE \in BOOLEAN
  BY <1>1 DEF Inv
<1>3. /\ call[c].paddr # 0 /\ n = Count(call[c].list) /\ n = Size(call[c])
      /\ call[c].at \in {"code_map", "copy_map"}
  <2>1. CallOK(call[c], failed)
    BY <1>2, ChildFacts
  <2> QED
    BY <1>1, <2>1 DEF CallOK, Holding, Count, Size
<1>4. /\ r = pdt_map_memory(mem, kernel_pdt, call[c].paddr, v, n) /\ v = call[c].vaddr
      /\ m1 = r.m /\ m2 = pdt_unmap_kernel_memory(m1, v, n) /\ m3 = pfa_free_cont(m2, call[c].paddr, n)
  OBVIOUS
<1>5. Stale(c, n) <=> \E j \in 0 .. (n - 1) : Translate(mem, kernel_pdt, v + j) # NotMapped
  BY DEF Stale
<1> HIDE DEF n, v, r, m1, m2, m3
<1>6. CASE /\ r.ok /\ mem' = r.m /\ ps' = ps /\ failed' = failed
           /\ call' = Went(call, c, "copy_data", call[c].paddr, call[c].vaddr)
  <2> DEFINE b == "copy_data"
  <2>1. b = (IF call[c].at = "code_map" THEN "code_read" ELSE "copy_data")
    BY <1>1
  <2>2. call' = [call EXCEPT ![c] = Moved(call[c], b, call[c].paddr, call[c].vaddr)]
    <3> DEFINE f == call[c].paddr
               w == call[c].vaddr
    <3>1. call' = Went(call, c, b, f, w)
      BY <1>6
    <3> HIDE DEF b, f, w
    <3>2. call' = [call EXCEPT ![c] = Moved(call[c], b, f, w)]
      BY <1>2, <3>1, WentMoves
    <3> QED
      BY <3>2 DEF f, w
  <2> HIDE DEF b
  <2>3. r.ok /\ r = pdt_map_memory(mem, kernel_pdt, call[c].paddr, call[c].vaddr, n)
    BY <1>4, <1>6
  <2>4. Inv(r.m, ps, [call EXCEPT ![c] = Moved(call[c], b, call[c].paddr, call[c].vaddr)], heap, orphans, failed)
    BY <1>3, <2>1, <2>3, MappedStep
  <2> QED
    BY <1>1, <1>6, <2>2, <2>4
<1>7. CASE /\ ~r.ok /\ mem' = r.m /\ ps' = ps /\ failed' = TRUE
           /\ call' = Went(call, c, "loop", 0, 0)
  <2>1. call' = [call EXCEPT ![c] = Moved(call[c], "loop", 0, 0)]
    BY <1>2, <1>7, WentMoves
  <2>2. Inv(m1, ps, call, heap, orphans, TRUE)
    BY <1>2, <1>3, <1>4, MapCall
  <2>3. Inv(m1, ps, [call EXCEPT ![c] = Moved(call[c], "loop", 0, 0)], heap, orphans, TRUE)
    BY <1>2, <2>2, FailStep
  <2> QED
    BY <1>1, <1>4, <1>7, <2>1, <2>3
<1>8. CASE ~UnmapLoops(m1, v) /\ mem' = m3 /\ ~Stale(c, n) /\ Fail(c)
  <2>1. \A j \in 0 .. (n - 1) : Translate(mem, kernel_pdt, v + j) = NotMapped
    BY <1>5, <1>8
  <2>2. Inv(m2, ps, call, heap, orphans, TRUE)
    BY <1>3, <1>4, <1>8, <2>1, UndoneStep
  <2>3. Inv(m3, ps, [call EXCEPT ![c] = Moved(call[c], "delete", 0, 0)], heap, orphans, TRUE)
    BY <1>2, <1>3, <1>4, <2>2, FreeStep
  <2> QED
    BY <1>1, <1>2, <1>8, <2>3, Fails
<1> QED
  BY <1>1, <1>6, <1>7, <1>8

\* A call that is set twice.
LEMMA SetTwice ==
    ASSUME NEW cl \in [Callers -> CallTypes], NEW c \in Callers, NEW e, NEW g, NEW cl1,
           cl1 = [cl EXCEPT ![c] = e]
    PROVE  cl1[c] = e /\ [cl1 EXCEPT ![c] = g] = [cl EXCEPT ![c] = g]
OBVIOUS

LEMMA MovedTwice ==
    ASSUME NEW e \in CallTypes, NEW step, NEW paddr, NEW vaddr, NEW x, x = Moved(e, step, paddr, vaddr),
           NEW step2, NEW paddr2, NEW vaddr2
    PROVE  Moved(x, step2, paddr2, vaddr2) = Moved(e, step2, paddr2, vaddr2)
BY DEF Moved, CallTypes

\* The code or the stack is mapped in the child's directory, or is not, and the call fails.
UserMapped(m, s, e) == pdt_map_memory(m, s[e.child].pdt_paddr, e.paddr, Start(e.list), Count(e.list))

LEMMA UserMapFail ==
    ASSUME NEW m, NEW s, NEW cl, NEW h, NEW o, NEW fl, Inv(m, s, cl, h, o, fl),
           NEW c \in Callers, cl[c].at \in {"code_map", "copy_map"}
    PROVE  Inv(UserMapped(m, s, cl[c]).m, s, [cl EXCEPT ![c] = Moved(cl[c], "delete", 0, 0)], h, o, TRUE)
<1> DEFINE q == cl[c].child
           list == cl[c].list
           r == UserMapped(m, s, cl[c])
           m2 == r.m
           f == s[q].pdt_paddr
           paddr == cl[c].paddr
           n == Count(list)
           d == VIRTUAL_TO_PDT_IDX(Start(list))
           i == VIRTUAL_TO_PT_IDX(Start(list))
<1>1. /\ r.ok \in BOOLEAN
      /\ ~r.ok => r.m = m
      /\ r.ok => \E pt \in m.free : TableMade(m, s, q, f, d, i, paddr, n, r.m, pt)
  BY UserTable DEF UserMapped
<1>5. q = cl[c].child /\ list = cl[c].list /\ m2 = r.m
  OBVIOUS
<1> HIDE DEF q, list, r, m2, f, paddr, n, d, i
<1>2. cl[c].at # "idle" /\ "delete" \in {"delete", "loop"}
  OBVIOUS
<1>3. CASE ~r.ok
  <2>1. m2 = m
    BY <1>1, <1>3, <1>5
  <2>2. Inv(m, s, [cl EXCEPT ![c] = Moved(cl[c], "delete", 0, 0)], h, o, TRUE)
    BY <1>2, FailStep
  <2> QED
    BY <2>1, <2>2 DEF m2, r
<1>4. CASE r.ok
  <2>1. PICK pt \in m.free : TableMade(m, s, q, f, d, i, paddr, n, m2, pt)
    BY <1>1, <1>4, <1>5
  <2>2. NewTable(m, s, q, m2, {pt})
    BY <2>1 DEF TableMade
  <2>3. Inv(m2, s, [cl EXCEPT ![c] = Moved(cl[c], "delete", 0, 0)], h, o, TRUE)
    BY <1>2, <1>5, <2>2, TableFailStep
  <2> QED
    BY <2>3 DEF m2, r
<1> QED
  BY <1>1, <1>3, <1>4

\* The pages of the kernel that were used for the copy are unmapped.
LEMMA ReadStep ==
    ASSUME NEW m, NEW s, NEW cl, NEW h, NEW o, NEW fl, Inv(m, s, cl, h, o, fl),
           NEW c \in Callers, cl[c].at \in {"code_read", "copy_data"},
           NEW n, n = Count(cl[c].list), NEW b, b = (IF cl[c].at = "code_read" THEN "code_map" ELSE "copy_map"),
           NEW e, e = Moved(cl[c], b, cl[c].paddr, cl[c].vaddr),
           NEW v, v = cl[c].vaddr, NEW m1, m1 = pdt_unmap_kernel_memory(m, v, n)
    PROVE  Inv(m1, s, [cl EXCEPT ![c] = e], h, o, fl)
<1>1. /\ cl[c] \in CallTypes /\ CallOK(cl[c], fl) /\ CallMapped(m, cl[c]) /\ cl[c].at # "idle"
      /\ Shape(m, s[cl[c].child], Level(cl[c])) /\ cl[c].at \notin {"delete", "loop"}
  BY ChildFacts
<1>2. /\ cl[c].paddr # 0 /\ cl[c].vaddr # 0 /\ cl[c].paddr \in Phys /\ cl[c].vaddr \in Pages
      /\ m \in Mem /\ cl \in [Callers -> CallTypes]
  BY <1>1 DEF CallOK, Holding, CallTypes, Inv
<1>3. b \in Steps /\ b \in {"code_map", "copy_map"}
  BY DEF Steps
<1>4. /\ e \in CallTypes /\ e.at = b /\ e.paddr = cl[c].paddr /\ e.vaddr = v
      /\ e.child = cl[c].child /\ e.op = cl[c].op /\ e.list = cl[c].list
  BY <1>1, <1>2, <1>3, MovedFacts
<1>5. Size(e) = n /\ Size(cl[c]) = n /\ Hold(e) = Hold(cl[c]) /\ Level(e) = Level(cl[c])
  BY <1>4 DEF Size, Hold, Level
<1>6. CallMapped(m, e) /\ e.at # "idle" /\ Shape(m, s[e.child], Level(e))
  BY <1>1, <1>3, <1>4, <1>5 DEF CallMapped
<1>7. CallOK(e, fl)
  BY <1>1, <1>2, <1>4, <1>5, SMTT(30) DEF CallOK, Holding
<1> DEFINE cl1 == [cl EXCEPT ![c] = e]
<1>8. Inv(m, s, [cl EXCEPT ![c] = e], h, o, fl)
  BY <1>1, <1>4, <1>5, <1>6, <1>7, AdvanceStep
<1>9. cl1[c] = e
  BY <1>2, SetTwice
<1>10. \A j \in 0 .. (n - 1) : Translate(m, kernel_pdt, v + j) = cl[c].paddr + j
  BY <1>1 DEF CallMapped
<1>11. n \in Nat /\ n > 0 /\ cl[c].paddr .. (cl[c].paddr + n - 1) = Hold(cl[c]) /\ cl[c].paddr \in Nat /\ v \in Nat
  BY <1>1, <1>2, <1>5, MapArguments, Constants
<1>12. \A j \in 0 .. (n - 1) : Translate(m, kernel_pdt, v + j) \in Hold(e) \cup {NotMapped}
  BY <1>5, <1>10, <1>11
<1>13. VIRTUAL_TO_PDT_IDX(v) \in DOMAIN m.at[kernel_pdt]
  <2>1. 0 \in 0 .. (n - 1) /\ v + 0 = v /\ cl[c].paddr + 0 = cl[c].paddr
    BY <1>11
  <2>2. Translate(m, kernel_pdt, v) = cl[c].paddr
    BY <1>10, <2>1
  <2>3. Translate(m, kernel_pdt, v) # NotMapped
    BY <1>11, <2>2, NotMappedFacts
  <2>4. kernel_pdt \in Phys
    BY Constants
  <2> QED
    BY <1>2, <1>11, <2>3, <2>4, TranslateFacts
<1>14. /\ Inv(m, s, cl1, h, o, fl) /\ cl1[c].at \in {"code_map", "copy_map"} /\ n = Size(cl1[c])
       /\ v = cl1[c].vaddr
  BY <1>3, <1>4, <1>5, <1>8, <1>9
<1>15. \A j \in 0 .. (n - 1) : Translate(m, kernel_pdt, v + j) \in Hold(cl1[c]) \cup {NotMapped}
  BY <1>9, <1>12
<1> HIDE DEF cl1
<1>16. Inv(m1, s, cl1, h, o, fl)
  BY <1>13, <1>14, <1>15, UnmapCall
<1> QED
  BY <1>16 DEF cl1

\* The state once they are unmapped.
Rewound(cl, c) ==
    [cl EXCEPT ![c] = Moved(cl[c], IF cl[c].at = "code_read" THEN "code_map" ELSE "copy_map",
                            cl[c].paddr, cl[c].vaddr)]

Resets(cl1, cl, c) == \A g : [cl1 EXCEPT ![c] = g] = [cl EXCEPT ![c] = g]

LEMMA ReadFacts ==
    ASSUME NEW m, NEW s, NEW cl, NEW h, NEW o, NEW fl, Inv(m, s, cl, h, o, fl),
           NEW c \in Callers, cl[c].at \in {"code_read", "copy_data"},
           NEW n, n = Count(cl[c].list), NEW v, v = cl[c].vaddr,
           NEW m1, m1 = pdt_unmap_kernel_memory(m, v, n), NEW cl1, cl1 = Rewound(cl, c)
    PROVE  /\ Inv(m1, s, cl1, h, o, fl)
           /\ cl1[c].at \in {"code_map", "copy_map"} /\ cl1[c].at # "idle"
           /\ cl1[c].child = cl[c].child /\ cl1[c].list = cl[c].list
           /\ cl1[c].paddr = cl[c].paddr /\ cl1[c].op = cl[c].op
           /\ cl1[c].paddr # 0 /\ n = Size(cl1[c])
           /\ Moved(cl1[c], "delete", 0, 0) = Moved(cl[c], "delete", 0, 0)
           /\ Resets(cl1, cl, c)
<1> DEFINE b == IF cl[c].at = "code_read" THEN "code_map" ELSE "copy_map"
           e == Moved(cl[c], b, cl[c].paddr, cl[c].vaddr)
<1>1. cl[c] \in CallTypes /\ CallOK(cl[c], fl)
  BY ChildFacts
<1>2. cl[c].paddr # 0 /\ cl[c].paddr \in Phys /\ cl[c].vaddr \in Pages /\ cl \in [Callers -> CallTypes]
  BY <1>1 DEF CallOK, Holding, CallTypes, Inv
<1>3. b \in Steps /\ b \in {"code_map", "copy_map"}
  BY DEF Steps
<1>4. /\ e \in CallTypes /\ e.at = b /\ e.paddr = cl[c].paddr
      /\ e.child = cl[c].child /\ e.op = cl[c].op /\ e.list = cl[c].list
  BY <1>1, <1>2, <1>3, MovedFacts
<1>5. cl1 = [cl EXCEPT ![c] = e] /\ b = (IF cl[c].at = "code_read" THEN "code_map" ELSE "copy_map")
      /\ e = Moved(cl[c], b, cl[c].paddr, cl[c].vaddr)
  BY DEF Rewound
<1> HIDE DEF b, e
<1>6. cl1[c] = e
  BY <1>2, <1>5, SetTwice
<1>7. Resets(cl1, cl, c)
  BY <1>2, <1>5, SetTwice DEF Resets
<1>8. Inv(m1, s, [cl EXCEPT ![c] = e], h, o, fl)
  BY <1>5, ReadStep
<1>9. n = Size(e)
  BY <1>3, <1>4 DEF Size
<1>10. Moved(e, "delete", 0, 0) = Moved(cl[c], "delete", 0, 0)
  BY <1>1, <1>5, MovedTwice
<1>11. e.at # "idle"
  BY <1>3, <1>4
<1>12. Inv(m1, s, cl1, h, o, fl)
  BY <1>5, <1>8
<1>13. cl1[c].at \in {"code_map", "copy_map"} /\ cl1[c].at # "idle"
  BY <1>3, <1>4, <1>6, <1>11, SMTT(30)
<1> QED
  BY <1>2, <1>4, <1>6, <1>7, <1>9, <1>10, <1>12, <1>13

\* The call fails once they are unmapped.
Failing(m, s, cl, h, o, c) == Inv(m, s, [cl EXCEPT ![c] = Moved(cl[c], "delete", 0, 0)], h, o, TRUE)
LEMMA ReadFails ==
    ASSUME NEW m, NEW s, NEW cl, NEW h, NEW o, NEW fl, Inv(m, s, cl, h, o, fl),
           NEW c \in Callers, cl[c].at \in {"code_read", "copy_data"},
           NEW q, q = cl[c].child, NEW list, list = cl[c].list, NEW f, f = cl[c].paddr,
           NEW n, n = Count(list), NEW v, v = cl[c].vaddr,
           NEW m1, m1 = pdt_unmap_kernel_memory(m, v, n),
           NEW r, r = pdt_map_memory(m1, s[q].pdt_paddr, f, Start(list), n),
           NEW m2, m2 = r.m, NEW m3, m3 = pfa_free_cont(m1, f, n)
    PROVE  /\ Failing(m1, s, cl, h, o, c)
           /\ Failing(m2, s, cl, h, o, c)
           /\ Failing(m3, s, cl, h, o, c)
<1> DEFINE cl1 == Rewound(cl, c)
           g == Moved(cl[c], "delete", 0, 0)
<1>1. n = Count(cl[c].list) /\ cl1 = Rewound(cl, c) /\ "delete" \in {"delete", "loop"}
  OBVIOUS
<1> HIDE DEF cl1
<1>2. /\ Inv(m1, s, cl1, h, o, fl)
      /\ cl1[c].at \in {"code_map", "copy_map"} /\ cl1[c].at # "idle"
      /\ q = cl1[c].child /\ list = cl1[c].list
      /\ f = cl1[c].paddr /\ cl1[c].paddr # 0 /\ n = Size(cl1[c])
  BY <1>1, ReadFacts
<1>3. Moved(cl1[c], "delete", 0, 0) = g /\ Resets(cl1, cl, c)
  BY <1>1, ReadFacts
<1>9. [cl1 EXCEPT ![c] = g] = [cl EXCEPT ![c] = g]
  BY <1>3 DEF Resets
<1>4. Inv(m1, s, [cl1 EXCEPT ![c] = Moved(cl1[c], "delete", 0, 0)], h, o, TRUE)
  BY <1>1, <1>2, FailStep
<1>5. r = pdt_map_memory(m1, s[q].pdt_paddr, cl1[c].paddr, Start(list), Count(list))
  BY <1>2
<1>6. Inv(m2, s, [cl1 EXCEPT ![c] = Moved(cl1[c], "delete", 0, 0)], h, o, TRUE)
  <2>1. r = UserMapped(m1, s, cl1[c])
    BY <1>2, <1>5 DEF UserMapped
  <2>2. Inv(UserMapped(m1, s, cl1[c]).m, s, [cl1 EXCEPT ![c] = Moved(cl1[c], "delete", 0, 0)], h, o, TRUE)
    BY <1>2, UserMapFail
  <2> QED
    BY <2>1, <2>2
<1>7. m3 = pfa_free_cont(m1, cl1[c].paddr, n)
  BY <1>2
<1>8. Inv(m3, s, [cl1 EXCEPT ![c] = Moved(cl1[c], "delete", 0, 0)], h, o, TRUE)
  BY <1>2, <1>7, FreeStep
<1> QED
  BY <1>3, <1>4, <1>6, <1>8, <1>9 DEF Failing

\* The code or the stack goes to the child.
LEMMA ReadFills ==
    ASSUME NEW m, NEW s, NEW cl, NEW h, NEW o, NEW fl, Inv(m, s, cl, h, o, fl),
           NEW c \in Callers, cl[c].at \in {"code_read", "copy_data"},
           NEW q, q = cl[c].child, NEW list, list = cl[c].list, NEW f, f = cl[c].paddr,
           NEW n, n = Count(list), NEW v, v = cl[c].vaddr,
           NEW m1, m1 = pdt_unmap_kernel_memory(m, v, n),
           NEW r, r = pdt_map_memory(m1, s[q].pdt_paddr, f, Start(list), n), r.ok,
           NEW m2, m2 = r.m,
           NEW e \in CallTypes, e.child = q, e.op = cl[c].op,
           e.at \notin {"idle", "delete", "loop", "code_read", "copy_data"}, e.paddr = 0,
           CallOK(e, fl), Level(e) = IF list = "code" THEN 2 ELSE 3
    PROVE  Inv(m2, [s EXCEPT ![q] = Listed(s[q], list, f)], [cl EXCEPT ![c] = e], h, o, fl)
<1> DEFINE cl1 == Rewound(cl, c)
           x == Listed(s[q], list, f)
<1>1. n = Count(cl[c].list) /\ cl1 = Rewound(cl, c)
  OBVIOUS
<1>2. /\ s[q] \in PsTypes /\ s[q].st = "loading" /\ cl[c] \in CallTypes
  BY ChildFacts
<1>3. f \in Phys /\ list \in Lists
  BY <1>2 DEF CallTypes
<1>4. /\ x \in PsTypes /\ x.st = "loading" /\ x.pdt = s[q].pdt /\ x.pdt_paddr = s[q].pdt_paddr
      /\ x.kernel_stack = s[q].kernel_stack /\ x.kernel_stack_paddr = s[q].kernel_stack_paddr
      /\ x.code = (IF list = "code" THEN f ELSE s[q].code)
      /\ x.stack = (IF list = "code" THEN s[q].stack ELSE f)
  BY <1>2, <1>3, ListSet
<1> HIDE DEF cl1, x
<1>5. /\ Inv(m1, s, cl1, h, o, fl)
      /\ cl1[c].at \in {"code_map", "copy_map"}
      /\ q = cl1[c].child /\ list = cl1[c].list
      /\ f = cl1[c].paddr /\ e.op = cl1[c].op
  BY <1>1, ReadFacts
<1>6. [cl1 EXCEPT ![c] = e] = [cl EXCEPT ![c] = e]
  <2>1. Resets(cl1, cl, c)
    BY <1>1, ReadFacts
  <2> QED
    BY <2>1 DEF Resets
<1>7. /\ r = pdt_map_memory(m1, s[q].pdt_paddr, cl1[c].paddr, Start(list), Count(list))
      /\ x.code = (IF list = "code" THEN cl1[c].paddr ELSE s[q].code)
      /\ x.stack = (IF list = "code" THEN s[q].stack ELSE cl1[c].paddr)
  BY <1>4, <1>5, SMTT(30)
<1>8. Inv(r.m, [s EXCEPT ![q] = x], [cl1 EXCEPT ![c] = e], h, o, fl)
  BY <1>4, <1>5, <1>7, FillStep
<1> QED
  BY <1>6, <1>8 DEF x

\* A call between two of its parts.
LEMMA FreshOK ==
    ASSUME NEW e, NEW fl, e.at \in {"pdt", "code", "copy", "stack", "kernel_stack", "descriptors", "done"},
           e.paddr = 0, e.vaddr = 0, e.at \in {"pdt", "code"} => e.list = "code"
    PROVE  CallOK(e, fl)
<1>1. VIRTUAL_TO_PT_IDX(0) = 0
  <2>1. 0 \in Nat /\ NUM_ENTRIES \in Nat \ {0} /\ 0 \in 0 .. (NUM_ENTRIES - 1)
    BY Constants
  <2>2. (0 * NUM_ENTRIES + 0) % NUM_ENTRIES = 0
    BY <2>1, DivMod
  <2>3. 0 * NUM_ENTRIES + 0 = 0
    BY <2>1
  <2> QED
    BY <2>2, <2>3 DEF VIRTUAL_TO_PT_IDX
<1>2. Size(e) = 1
  BY DEF Size
<1>3. VIRTUAL_TO_PT_IDX(e.vaddr) + Size(e) <= NUM_ENTRIES
  BY <1>1, <1>2, Constants
<1> QED
  BY <1>3 DEF CallOK, Holding

LEMMA CodeReadInv ==
    ASSUME Inv(mem, ps, call, heap, orphans, failed), NEW c \in Callers, process_load_code_read(c)
    PROVE  Inv(mem', ps', call', heap', orphans', failed')
<1> DEFINE f == call[c].paddr
           v == call[c].vaddr
           n == CODE_PAGES
           list == "code"
           q == call[c].child
           m1 == pdt_unmap_kernel_memory(mem, v, n)
           r == pdt_map_memory(m1, ps[q].pdt_paddr, f, Start(list), n)
           m2 == r.m
           m3 == pfa_free_cont(m1, f, n)
           e == Moved(call[c], "stack", 0, 0)
<1>1. /\ call[c].at = "code_read" /\ heap' = heap /\ orphans' = orphans
      /\ \/ mem' = m1 /\ Fail(c)
         \/ mem' = m2 /\ Fail(c)
         \/ /\ r.ok /\ mem' = m2 /\ failed' = failed
            /\ ps' = [ps EXCEPT ![q].code = f]
            /\ call' = Went(call, c, "stack", 0, 0)
  BY DEF process_load_code_read, At, Go, Keep, Went, Child, Start
<1>2. /\ call \in [Callers -> CallTypes] /\ call[c].at # "idle"
      /\ call[c].at \in {"code_read", "copy_data"} /\ ps \in [Procs -> PsTypes]
  BY <1>1 DEF Inv
<1>3. call[c] \in CallTypes /\ CallOK(call[c], failed) /\ q \in Procs
  BY <1>2, ChildFacts
<1>4. /\ list = call[c].list /\ n = Count(list) /\ f = call[c].paddr /\ v = call[c].vaddr
      /\ q = call[c].child /\ m1 = pdt_unmap_kernel_memory(mem, v, n)
      /\ r = pdt_map_memory(m1, ps[q].pdt_paddr, f, Start(list), n) /\ m2 = r.m
      /\ m3 = pfa_free_cont(m1, f, n)
  BY <1>1, <1>3 DEF CallOK, Count
<1>5. ps' = [ps EXCEPT ![q].code = f] => ps' = [ps EXCEPT ![q] = Listed(ps[q], list, f)]
  <2> HIDE DEF q, f
  <2> QED
    BY <1>2, <1>3 DEF Listed, PsTypes
<1>6. /\ e \in CallTypes /\ e.at = "stack" /\ e.paddr = 0 /\ e.vaddr = 0
      /\ e.child = q /\ e.op = call[c].op
  <2>1. "stack" \in Steps
    BY DEF Steps
  <2> QED
    BY <1>3, <2>1, MovedFree
<1>7. CallOK(e, failed) /\ Level(e) = (IF list = "code" THEN 2 ELSE 3)
  BY <1>6, FreshOK DEF Level
<1>8. list = "code"
  OBVIOUS
<1> HIDE DEF f, v, n, list, q, m1, r, m2, m3, e
<1>9. CASE mem' = m1 /\ Fail(c)
  <2>1. Failing(m1, ps, call, heap, orphans, c)
    BY <1>2, <1>4, ReadFails
  <2> QED
    BY <1>1, <1>2, <1>9, <2>1, Fails DEF Failing
<1>10. CASE mem' = m2 /\ Fail(c)
  <2>1. Failing(m2, ps, call, heap, orphans, c)
    BY <1>2, <1>4, ReadFails
  <2> QED
    BY <1>1, <1>2, <1>10, <2>1, Fails DEF Failing
<1>11. CASE /\ r.ok /\ mem' = m2 /\ failed' = failed /\ ps' = [ps EXCEPT ![q].code = f]
            /\ call' = Went(call, c, "stack", 0, 0)
  <2>1. call' = [call EXCEPT ![c] = e]
    BY <1>2, <1>11, WentMoves DEF e
  <2>2. r.ok /\ e.at \notin {"idle", "delete", "loop", "code_read", "copy_data"}
    BY <1>6, <1>11
  <2>3. Inv(m2, [ps EXCEPT ![q] = Listed(ps[q], list, f)], [call EXCEPT ![c] = e], heap, orphans, failed)
    BY <1>2, <1>4, <1>6, <1>7, <2>2, ReadFills, ZenonT(60)
  <2> QED
    BY <1>1, <1>5, <1>11, <2>1, <2>3
<1> QED
  BY <1>1, <1>9, <1>10, <1>11

LEMMA CopyDataInv ==
    ASSUME Inv(mem, ps, call, heap, orphans, failed), NEW c \in Callers, copy_data(c), ~wild'
    PROVE  Inv(mem', ps', call', heap', orphans', failed')
<1> DEFINE f == call[c].paddr
           v == call[c].vaddr
           list == call[c].list
           n == Count(list)
           q == call[c].child
           m1 == pdt_unmap_kernel_memory(mem, v, n)
           r == pdt_map_memory(m1, ps[q].pdt_paddr, f, Start(list), n)
           m2 == r.m
           m3 == pfa_free_cont(m1, f, n)
           e == IF list = "code" THEN [call[c] EXCEPT !.at = "copy", !.list = "stack", !.paddr = 0, !.vaddr = 0]
                ELSE Moved(call[c], "kernel_stack", 0, 0)
<1>1. /\ call[c].at = "copy_data" /\ heap' = heap /\ orphans' = orphans /\ r.ok
      /\ \/ mem' = m3 /\ Fail(c)
         \/ /\ r.ok /\ mem' = m2 /\ failed' = failed
            /\ ps' = [ps EXCEPT ![q][list] = f]
            /\ Copied(c)
  BY DEF copy_data, CopyOver, At, Keep, Child, Touch
<1>2. /\ call \in [Callers -> CallTypes] /\ call[c].at # "idle"
      /\ call[c].at \in {"code_read", "copy_data"} /\ ps \in [Procs -> PsTypes]
  BY <1>1 DEF Inv
<1>3. call[c] \in CallTypes /\ CallOK(call[c], failed) /\ q \in Procs
  BY <1>2, ChildFacts
<1>4. /\ list = call[c].list /\ n = Count(list) /\ f = call[c].paddr /\ v = call[c].vaddr
      /\ q = call[c].child /\ m1 = pdt_unmap_kernel_memory(mem, v, n)
      /\ r = pdt_map_memory(m1, ps[q].pdt_paddr, f, Start(list), n) /\ m2 = r.m
      /\ m3 = pfa_free_cont(m1, f, n)
  OBVIOUS
<1>5. ps' = [ps EXCEPT ![q][list] = f] => ps' = [ps EXCEPT ![q] = Listed(ps[q], list, f)]
  <2> HIDE DEF q, f, list
  <2> QED
    BY <1>2, <1>3 DEF Listed, PsTypes
<1>6. /\ e \in CallTypes /\ e.at = (IF list = "code" THEN "copy" ELSE "kernel_stack")
      /\ e.paddr = 0 /\ e.vaddr = 0 /\ e.child = q /\ e.op = call[c].op
      /\ list = "code" => e.list = "stack"
  <2>1. "copy" \in Steps /\ "kernel_stack" \in Steps /\ "stack" \in Lists /\ 0 \in Phys /\ 0 \in Pages
    BY Constants DEF Steps, Lists
  <2> QED
    BY <1>3, <2>1 DEF CallTypes, Moved
<1>7. CallOK(e, failed) /\ Level(e) = (IF list = "code" THEN 2 ELSE 3)
  <2> HIDE DEF e, list
  <2> QED
    BY <1>6, FreshOK DEF Level
<1>8. Copied(c) => call' = [call EXCEPT ![c] = e]
  <2>1. CASE list = "code"
    <3> HIDE DEF q, f, v
    <3> QED
      BY <1>2, <1>3, <2>1 DEF Copied, CallTypes
  <2>2. CASE list # "code"
    <3>1. Copied(c) => call' = Went(call, c, "kernel_stack", 0, 0)
      BY <2>2 DEF Copied, Go, Went
    <3> QED
      BY <1>2, <2>2, <3>1, WentMoves
  <2> QED
    BY <2>1, <2>2
<1> HIDE DEF f, v, n, list, q, m1, r, m2, m3, e
<1>9. CASE mem' = m3 /\ Fail(c)
  <2>1. Failing(m3, ps, call, heap, orphans, c)
    BY <1>2, <1>4, ReadFails
  <2> QED
    BY <1>1, <1>2, <1>9, <2>1, Fails DEF Failing
<1>11. CASE r.ok /\ mem' = m2 /\ failed' = failed /\ ps' = [ps EXCEPT ![q][list] = f] /\ Copied(c)
  <2>2. r.ok /\ e.at \notin {"idle", "delete", "loop", "code_read", "copy_data"}
    BY <1>6, <1>11
  <2>3. Inv(m2, [ps EXCEPT ![q] = Listed(ps[q], list, f)], [call EXCEPT ![c] = e], heap, orphans, failed)
    BY <1>2, <1>4, <1>6, <1>7, <2>2, ReadFills, ZenonT(60)
  <2> QED
    BY <1>1, <1>5, <1>8, <1>11, <2>3
<1> QED
  BY <1>1, <1>9, <1>11

\* The stack is allocated: as if the call had looked for kernel pages to copy it through.
Stacking(e, f) == [e EXCEPT !.at = "copy_map", !.list = "stack", !.paddr = f, !.vaddr = 1]

LEMMA StackingFacts ==
    ASSUME NEW e \in CallTypes, NEW f \in Phys, f # 0, NEW fl, NEW g, g = Stacking(e, f)
    PROVE  /\ g \in CallTypes /\ g.at = "copy_map" /\ g.list = "stack" /\ g.paddr = f
           /\ g.child = e.child /\ g.op = e.op
           /\ CallOK(g, fl) /\ Size(g) = 1 /\ Level(g) = 2
<1>1. 1 \in Pages /\ VIRTUAL_TO_PT_IDX(1) = 1 /\ "copy_map" \in Steps /\ "stack" \in Lists
  <2>1. 0 \in Entries /\ 1 \in Entries
    BY Constants DEF Entries
  <2>2. 0 * NUM_ENTRIES + 1 \in Pages /\ VIRTUAL_TO_PT_IDX(0 * NUM_ENTRIES + 1) = 1
    BY <2>1, PageOf
  <2>3. 0 * NUM_ENTRIES + 1 = 1
    BY Constants
  <2> QED
    BY <2>2, <2>3 DEF Steps, Lists
<1>2. /\ g \in CallTypes /\ g.at = "copy_map" /\ g.list = "stack" /\ g.paddr = f
      /\ g.child = e.child /\ g.op = e.op /\ g.vaddr = 1
  BY <1>1 DEF Stacking, CallTypes
<1>3. Size(g) = 1 /\ Level(g) = 2
  BY <1>2 DEF Size, Level, Count
<1>4. VIRTUAL_TO_PT_IDX(g.vaddr) + Size(g) <= NUM_ENTRIES
  BY <1>1, <1>2, <1>3, Constants
<1>5. CallOK(g, fl)
  BY <1>2, <1>4 DEF CallOK, Holding
<1> QED
  BY <1>2, <1>3, <1>5

AllStacking(cl, c, f) == [cl EXCEPT ![c] = Stacking(cl[c], f)]

LEMMA StackTaken ==
    ASSUME NEW m, NEW s, NEW cl, NEW h, NEW o, NEW fl, Inv(m, s, cl, h, o, fl),
           NEW c \in Callers, cl[c].at = "stack",
           NEW f, f = pfa_allocate(m, 1), f # 0, NEW m1, m1 = Taken(m, f, 1),
           NEW cl1, cl1 = AllStacking(cl, c, f)
    PROVE  /\ Inv(m1, s, cl1, h, o, fl) /\ f \in Phys
           /\ cl1[c] = Stacking(cl[c], f) /\ Resets(cl1, cl, c)
           /\ cl1[c] \in CallTypes /\ cl1[c].at = "copy_map" /\ cl1[c].list = "stack"
           /\ cl1[c].paddr = f /\ cl1[c].child = cl[c].child /\ cl1[c].op = cl[c].op
<1> DEFINE e == Stacking(cl[c], f)
<1>1. /\ cl[c] \in CallTypes /\ CallOK(cl[c], fl) /\ cl[c].at # "idle"
      /\ Shape(m, s[cl[c].child], Level(cl[c]))
  BY ChildFacts
<1>2. m \in Mem /\ cl \in [Callers -> CallTypes] /\ 1 \in Nat /\ 1 > 0
  BY DEF Inv
<1>3. f \in Phys
  BY <1>2, AllocFacts
<1>4. /\ e \in CallTypes /\ e.at = "copy_map" /\ e.list = "stack" /\ e.paddr = f
      /\ e.child = cl[c].child /\ e.op = cl[c].op
      /\ CallOK(e, fl) /\ 1 = Size(e) /\ Level(e) = 2
  BY <1>1, <1>3, StackingFacts
<1>5. cl1 = [cl EXCEPT ![c] = e] /\ e = Stacking(cl[c], f)
  BY DEF AllStacking
<1> HIDE DEF e
<1>6. cl1[c] = e
  BY <1>2, <1>5, SetTwice
<1>7. Resets(cl1, cl, c)
  BY <1>2, <1>5, SetTwice DEF Resets
<1>8. cl[c].paddr = 0 /\ Level(cl[c]) = 2
  BY <1>1 DEF CallOK, Holding, Level
<1>9. Shape(m, s[e.child], Level(e)) /\ e.at \in {"pdt_map", "code_map", "copy_map", "kernel_stack_map"}
  BY <1>1, <1>4, <1>8
<1>10. Inv(m1, s, [cl EXCEPT ![c] = e], h, o, fl)
  BY <1>1, <1>2, <1>4, <1>8, <1>9, TakeStep
<1>11. Inv(m1, s, cl1, h, o, fl)
  BY <1>5, <1>10
<1> QED
  BY <1>3, <1>4, <1>5, <1>6, <1>7, <1>11

LEMMA StackFails ==
    ASSUME NEW m, NEW s, NEW cl, NEW h, NEW o, NEW fl, Inv(m, s, cl, h, o, fl),
           NEW c \in Callers, cl[c].at = "stack", NEW q, q = cl[c].child,
           NEW f, f = pfa_allocate(m, 1), f # 0, NEW m1, m1 = Taken(m, f, 1),
           NEW r, r = pdt_map_memory(m1, s[q].pdt_paddr, f, STACK_VADDR, 1), NEW m2, m2 = r.m
    PROVE  Failing(m2, s, cl, h, o, c)
<1> DEFINE cl1 == AllStacking(cl, c, f)
           g == Moved(cl1[c], "delete", 0, 0)
           cl2 == [cl1 EXCEPT ![c] = g]
           e == Moved(cl[c], "delete", 0, 0)
<1>1. cl1 = AllStacking(cl, c, f) /\ cl2 = [cl1 EXCEPT ![c] = g]
  OBVIOUS
<1>2. cl[c] \in CallTypes /\ "delete" \in Steps
  BY ChildFacts DEF Steps
<1>3. /\ e \in CallTypes /\ e.at = "delete" /\ e.paddr = 0 /\ e.vaddr = 0 /\ e.child = cl[c].child
      /\ e.op = cl[c].op
  BY <1>2, MovedFree
<1> HIDE DEF cl1
<1>4. /\ Inv(m1, s, cl1, h, o, fl) /\ Resets(cl1, cl, c)
      /\ cl1[c] \in CallTypes /\ cl1[c].at = "copy_map" /\ cl1[c].list = "stack"
      /\ cl1[c].paddr = f /\ cl1[c].child = cl[c].child /\ cl1[c].op = cl[c].op
  BY <1>1, StackTaken
<1>5. r = UserMapped(m1, s, cl1[c])
  BY <1>4 DEF UserMapped, Start, Count
<1>6. /\ g \in CallTypes /\ g.at = "delete" /\ g.paddr = 0 /\ g.vaddr = 0 /\ g.child = cl[c].child
      /\ g.op = cl[c].op
  BY <1>2, <1>4, MovedFree
<1>7. Inv(UserMapped(m1, s, cl1[c]).m, s, [cl1 EXCEPT ![c] = g], h, o, TRUE)
  <2>1. cl1[c].at \in {"code_map", "copy_map"}
    BY <1>4
  <2> QED
    BY <1>4, <2>1, UserMapFail
<1> HIDE DEF g, cl2
<1>8. Inv(m2, s, cl2, h, o, TRUE)
  BY <1>1, <1>5, <1>7
<1>9. cl2[c] = g /\ [cl2 EXCEPT ![c] = e] = [cl1 EXCEPT ![c] = e]
  <2>1. cl1 \in [Callers -> CallTypes]
    BY <1>4 DEF Inv
  <2> QED
    BY <1>1, <2>1, SetTwice
<1>10. [cl2 EXCEPT ![c] = e] = [cl EXCEPT ![c] = e]
  BY <1>4, <1>9, Zenon DEF Resets
<1>11. CallOK(e, TRUE)
  <2>1. CallOK(g, TRUE)
    BY <1>8, <1>9 DEF Inv, Calls
  <2> QED
    BY <1>3, <1>6, <2>1, SMTT(30) DEF CallOK, Holding, Size
<1> HIDE DEF e
<1>12. /\ cl2[c].at # "idle" /\ e.child = cl2[c].child /\ e.op = cl2[c].op /\ e.at # "idle"
       /\ CallMapped(m2, e) /\ Hold(e) = Hold(cl2[c]) /\ ~(e.at \notin {"idle", "delete", "loop"})
  BY <1>3, <1>6, <1>9 DEF CallMapped, Hold, Block
<1>13. Inv(m2, s, [cl2 EXCEPT ![c] = e], h, o, TRUE)
  BY <1>3, <1>8, <1>11, <1>12, AdvanceStep
<1> QED
  BY <1>10, <1>13 DEF Failing, e

LEMMA StackFills ==
    ASSUME NEW m, NEW s, NEW cl, NEW h, NEW o, NEW fl, Inv(m, s, cl, h, o, fl),
           NEW c \in Callers, cl[c].at = "stack", NEW q, q = cl[c].child,
           NEW f, f = pfa_allocate(m, 1), f # 0, NEW m1, m1 = Taken(m, f, 1),
           NEW r, r = pdt_map_memory(m1, s[q].pdt_paddr, f, STACK_VADDR, 1), r.ok, NEW m2, m2 = r.m,
           NEW e, e = Moved(cl[c], "kernel_stack", 0, 0)
    PROVE  Inv(m2, [s EXCEPT ![q] = Listed(s[q], "stack", f)], [cl EXCEPT ![c] = e], h, o, fl)
<1> DEFINE cl1 == AllStacking(cl, c, f)
           list == "stack"
           x == Listed(s[q], list, f)
<1>1. cl1 = AllStacking(cl, c, f)
  OBVIOUS
<1>2. cl[c] \in CallTypes /\ "kernel_stack" \in Steps /\ s[q] \in PsTypes /\ s[q].st = "loading" /\ list \in Lists
  BY ChildFacts DEF Steps, Lists
<1>3. /\ e \in CallTypes /\ e.at = "kernel_stack" /\ e.paddr = 0 /\ e.vaddr = 0 /\ e.child = q
      /\ e.op = cl[c].op
  BY <1>2, MovedFree
<1> HIDE DEF cl1
<1>4. /\ Inv(m1, s, cl1, h, o, fl) /\ Resets(cl1, cl, c) /\ f \in Phys
      /\ cl1[c] \in CallTypes /\ cl1[c].at = "copy_map" /\ cl1[c].list = "stack"
      /\ cl1[c].paddr = f /\ cl1[c].child = cl[c].child /\ cl1[c].op = cl[c].op
  BY <1>1, StackTaken
<1>5. /\ x \in PsTypes /\ x.st = "loading" /\ x.pdt = s[q].pdt /\ x.pdt_paddr = s[q].pdt_paddr
      /\ x.kernel_stack = s[q].kernel_stack /\ x.kernel_stack_paddr = s[q].kernel_stack_paddr
      /\ x.code = (IF list = "code" THEN cl1[c].paddr ELSE s[q].code)
      /\ x.stack = (IF list = "code" THEN s[q].stack ELSE cl1[c].paddr)
  BY <1>2, <1>4, ListSet
<1>6. /\ r = pdt_map_memory(m1, s[q].pdt_paddr, cl1[c].paddr, Start(list), Count(list))
      /\ q = cl1[c].child /\ list = cl1[c].list /\ e.op = cl1[c].op
      /\ cl1[c].at \in {"code_map", "copy_map"}
      /\ e.at \notin {"idle", "delete", "loop", "code_read", "copy_data"}
      /\ CallOK(e, fl) /\ Level(e) = IF list = "code" THEN 2 ELSE 3
  BY <1>3, <1>4, FreshOK DEF Start, Count, Level
<1> HIDE DEF list, x
<1>7. Inv(r.m, [s EXCEPT ![q] = x], [cl1 EXCEPT ![c] = e], h, o, fl)
  BY <1>3, <1>4, <1>5, <1>6, FillStep
<1>8. [cl1 EXCEPT ![c] = e] = [cl EXCEPT ![c] = e]
  BY <1>4 DEF Resets
<1> QED
  BY <1>7, <1>8 DEF x, list

LEMMA LoadStackInv ==
    ASSUME Inv(mem, ps, call, heap, orphans, failed), NEW c \in Callers, process_load_stack(c)
    PROVE  Inv(mem', ps', call', heap', orphans', failed')
<1> DEFINE q == call[c].child
           f == pfa_allocate(mem, 1)
           m1 == Taken(mem, f, 1)
           r == pdt_map_memory(m1, ps[q].pdt_paddr, f, STACK_VADDR, 1)
           m2 == r.m
           e == Moved(call[c], "kernel_stack", 0, 0)
<1>1. /\ call[c].at = "stack" /\ heap' = heap /\ orphans' = orphans
      /\ \/ mem' = mem /\ Fail(c)
         \/ f # 0 /\ mem' = m2 /\ Fail(c)
         \/ /\ f # 0 /\ r.ok /\ mem' = m2 /\ failed' = failed
            /\ ps' = [ps EXCEPT ![q].stack = f]
            /\ call' = Went(call, c, "kernel_stack", 0, 0)
  BY DEF process_load_stack, At, Go, Keep, Went, Child
<1>2. /\ call \in [Callers -> CallTypes] /\ call[c].at # "idle" /\ ps \in [Procs -> PsTypes]
      /\ "delete" \in {"delete", "loop"}
  BY <1>1 DEF Inv
<1>3. q \in Procs
  BY <1>2, ChildFacts
<1>4. /\ q = call[c].child /\ f = pfa_allocate(mem, 1) /\ m1 = Taken(mem, f, 1)
      /\ r = pdt_map_memory(m1, ps[q].pdt_paddr, f, STACK_VADDR, 1) /\ m2 = r.m
      /\ e = Moved(call[c], "kernel_stack", 0, 0)
  OBVIOUS
<1> HIDE DEF q, f, m1, r, m2, e
<1>5. ps' = [ps EXCEPT ![q].stack = f] => ps' = [ps EXCEPT ![q] = Listed(ps[q], "stack", f)]
  BY <1>2, <1>3 DEF Listed, PsTypes
<1>6. CASE mem' = mem /\ Fail(c)
  <2>1. Inv(mem, ps, [call EXCEPT ![c] = Moved(call[c], "delete", 0, 0)], heap, orphans, TRUE)
    BY <1>2, FailStep
  <2> QED
    BY <1>1, <1>2, <1>6, <2>1, Fails
<1>7. CASE f # 0 /\ mem' = m2 /\ Fail(c)
  <2>1. Failing(m2, ps, call, heap, orphans, c)
    BY <1>1, <1>4, <1>7, StackFails
  <2> QED
    BY <1>1, <1>2, <1>7, <2>1, Fails DEF Failing
<1>8. CASE /\ f # 0 /\ r.ok /\ mem' = m2 /\ failed' = failed
           /\ ps' = [ps EXCEPT ![q].stack = f]
           /\ call' = Went(call, c, "kernel_stack", 0, 0)
  <2>1. call' = [call EXCEPT ![c] = e]
    BY <1>2, <1>8, WentMoves DEF e
  <2>2. call[c].at = "stack" /\ f # 0 /\ r.ok
    BY <1>1, <1>8
  <2>3. Inv(m2, [ps EXCEPT ![q] = Listed(ps[q], "stack", f)], [call EXCEPT ![c] = e], heap, orphans, failed)
    BY <1>4, <2>2, StackFills
  <2> QED
    BY <1>1, <1>5, <1>8, <2>1, <2>3
<1> QED
  BY <1>1, <1>6, <1>7, <1>8

\* A frame of the call goes to the struct, and the directory stays as it is.
LEMMA OldTable ==
    ASSUME NEW m \in Mem, NEW s, NEW q
    PROVE  NewTable(m, s, q, m, {})
BY SMTT(30) DEF NewTable, Kept, UserSame

\* The new directory is mapped in the kernel and cleared.
Cleared(m, f) == m.at[f] = Empty

LEMMA PdtCleared ==
    ASSUME NEW m, NEW s, NEW cl, NEW h, NEW o, NEW fl, Inv(m, s, cl, h, o, fl),
           NEW c \in Callers, cl[c].at = "pdt_map", NEW f, f = cl[c].paddr, NEW v, v = cl[c].vaddr,
           NEW r, r = pdt_map_memory(m, kernel_pdt, f, v, 1), r.ok, NEW m1, m1 = r.m,
           NEW m2, m2 = [m1 EXCEPT !.at[f] = Empty]
    PROVE  /\ Inv(m2, s, cl, h, o, fl)
           /\ Translate(m2, kernel_pdt, v) = f
           /\ Cleared(m2, f)
<1>1. /\ cl[c].at # "idle" /\ 1 = Size(cl[c])
  BY DEF Size
<1>2. f \in Phys /\ v \in Pages /\ 1 \in Nat /\ 1 > 0 /\ VIRTUAL_TO_PT_IDX(v) + 1 <= NUM_ENTRIES
  BY <1>1, MapArguments
<1>3. \A j \in 0 .. (1 - 1) : f + j \in Phys
  BY <1>2, Constants
<1>4. fl \in BOOLEAN /\ (fl => fl) /\ (~r.ok => fl)
  BY DEF Inv
<1>5. Inv(m1, s, cl, h, o, fl)
  BY <1>2, <1>3, <1>4, KernelMapStep
<1>6. \A j \in 0 .. (1 - 1) : Translate(m1, kernel_pdt, v + j) = f + j
  <2>1. m \in Mem /\ KernelOK(m)
    BY InvTyped DEF Inv
  <2> QED
    BY <1>2, <1>3, <2>1, KernelMap
<1>7. Translate(m1, kernel_pdt, v) = f
  <2>1. 0 \in 0 .. (1 - 1) /\ v + 0 = v /\ f + 0 = f
    BY <1>2, Constants
  <2> QED
    BY <1>6, <2>1
<1>8. f \in Hold(cl[c]) \cup {0}
  BY <1>1, <1>2, Constants DEF Hold, Block
<1>9. Inv(m2, s, cl, h, o, fl)
  BY <1>5, <1>8, ClearStep
<1>10. m2.at[f] = Empty
  <2>1. m1 \in Mem
    BY <1>5 DEF Inv
  <2> QED
    BY <1>2, <2>1 DEF Mem
<1>11. Kept(m1, m2, {})
  BY <1>5, <1>8, ClearStep
<1>12. Translate(m2, kernel_pdt, v) = f
  <2>1. v \in Nat /\ f # NotMapped
    BY <1>2, Constants, NotMappedFacts
  <2> QED
    BY <1>7, <1>11, <2>1 DEF Kept
<1> QED
  BY <1>9, <1>10, <1>12 DEF Cleared

LEMMA PdtGiven ==
    ASSUME NEW m, NEW s, NEW cl, NEW h, NEW o, NEW fl, Inv(m, s, cl, h, o, fl),
           NEW c \in Callers, cl[c].at = "pdt_map", NEW q, q = cl[c].child,
           NEW f, f = cl[c].paddr, NEW v, v = cl[c].vaddr, f # 0, v # 0,
           Translate(m, kernel_pdt, v) = f, m.at[f] = Empty,
           NEW x \in PsTypes, x.st = "loading", x.pdt = v, x.pdt_paddr = f, x.code = s[q].code,
           x.stack = s[q].stack, x.kernel_stack = s[q].kernel_stack,
           x.kernel_stack_paddr = s[q].kernel_stack_paddr,
           NEW b \in {"copy", "code"}, NEW e, e = Moved(cl[c], b, 0, 0)
    PROVE  Inv(m, [s EXCEPT ![q] = x], [cl EXCEPT ![c] = e], h, o, fl)
<1>1. /\ cl[c] \in CallTypes /\ CallOK(cl[c], fl) /\ cl[c].at # "idle"
      /\ s[q] \in PsTypes /\ Paired(s[q]) /\ PsMapped(m, s[q])
      /\ Shape(m, s[q], Level(cl[c]))
  BY ChildFacts
<1>2. m \in Mem
  BY DEF Inv
<1>3. /\ s[q].pdt_paddr = 0 /\ s[q].code = 0 /\ s[q].stack = 0 /\ s[q].kernel_stack_paddr = 0
  <2>1. Level(cl[c]) = 0
    BY DEF Level
  <2>2. Shape(m, s[q], 0)
    BY <1>1, <2>1
  <2> QED
    BY <2>2 DEF Shape
<1>4. s[q].kernel_stack = 0
  BY <1>1, <1>3 DEF Paired
<1>5. Paired(x) /\ PsMapped(m, x)
  BY <1>3, <1>4 DEF Paired, PsMapped
<1>6. DOMAIN (m.at[f]) = {}
  BY EmptyFacts
<1>7. UserHalf(m, f) = {} /\ Tables(m, f) = {}
  BY <1>6 DEF UserHalf, Tables
<1>8. b \in Steps
  BY DEF Steps
<1>9. /\ e \in CallTypes /\ e.at = b /\ e.paddr = 0 /\ e.vaddr = 0 /\ e.child = q /\ e.op = cl[c].op
      /\ e.list = "code"
  <2>1. cl[c].list = "code"
    BY <1>1 DEF CallOK
  <2> QED
    BY <1>1, <1>8, <2>1, MovedFree
<1>10. e.at \notin {"idle", "delete", "loop", "code_read", "copy_data"} /\ Level(e) = 1
  BY <1>9 DEF Level
<1>11. CallOK(e, fl)
  BY <1>9, FreshOK
<1>12. Shape(m, x, 1)
  BY <1>3, <1>7 DEF Shape
<1>13. Shape(m, x, Level(e))
  BY <1>10, <1>12
<1> DEFINE k == "pdt"
<1>14. /\ k \in {"pdt", "kernel_stack", "stack", "code"}
       /\ PsUse(m, s[q], k) = {}
       /\ PsUse(m, x, k) = Hold(cl[c])
  BY <1>3 DEF PsUse, Block, Hold, Size
<1>15. \A l \in PsKinds \ {k} : PsUse(m, x, l) = PsUse(m, s[q], l)
  <2> SUFFICES ASSUME NEW l \in PsKinds \ {k} PROVE PsUse(m, x, l) = PsUse(m, s[q], l)
    OBVIOUS
  <2>1. l \in {"kernel_stack", "stack", "code", "table"}
    BY DEF PsKinds
  <2>2. CASE l = "table"
    <3>1. Tables(m, 0) = {}
      BY DEF Tables
    <3> QED
      BY <1>3, <1>7, <2>2, <3>1 DEF PsUse
  <2>3. CASE l \in {"kernel_stack", "stack", "code"}
    BY <2>3 DEF PsUse
  <2> QED
    BY <2>1, <2>2, <2>3
<1> DEFINE S == {}
<1>16. NewTable(m, s, q, m, S)
  BY <1>2, OldTable, SMTT(30)
<1> HIDE DEF k, S
<1> QED
  BY <1>1, <1>5, <1>9, <1>10, <1>11, <1>13, <1>14, <1>15, <1>16, GiveStep

\* The child has its kernel stack.
LEMMA ShapeKernelStack ==
    ASSUME NEW m, NEW y, Shape(m, y, 3), NEW x, x.pdt_paddr = y.pdt_paddr, x.code = y.code,
           x.stack = y.stack, x.kernel_stack_paddr # 0
    PROVE  Shape(m, x, 4) /\ y.kernel_stack_paddr = 0
<1>1. /\ y.pdt_paddr # 0 /\ y.code # 0 /\ y.stack # 0 /\ y.kernel_stack_paddr = 0
  BY DEF Shape
<1>2. UserHalf(m, y.pdt_paddr) = {0} \cup {KERNEL_PDT_IDX - 1}
  BY DEF Shape
<1>3. LET t == m.at[m.at[y.pdt_paddr][0]]
      IN  DOMAIN t = 0 .. (CODE_PAGES - 1) /\ \A i \in DOMAIN t : t[i] = y.code + i
  BY DEF Shape
<1>4. LET t == m.at[m.at[y.pdt_paddr][KERNEL_PDT_IDX - 1]]
      IN  DOMAIN t = {NUM_ENTRIES - 1} /\ \A i \in DOMAIN t : t[i] = y.stack
  BY DEF Shape
<1>5. /\ x.pdt_paddr # 0 <=> 4 >= 1
      /\ x.code # 0 <=> 4 >= 2
      /\ x.stack # 0 <=> 4 >= 3
      /\ x.kernel_stack_paddr # 0 <=> 4 >= 4
  BY <1>1
<1>6. UserHalf(m, x.pdt_paddr) = (IF 4 >= 2 THEN {0} ELSE {}) \cup (IF 4 >= 3 THEN {KERNEL_PDT_IDX - 1} ELSE {})
  BY <1>2
<1> QED
  BY <1>1, <1>3, <1>4, <1>5, <1>6 DEF Shape

LEMMA KernelStackGiven ==
    ASSUME NEW m, NEW s, NEW cl, NEW h, NEW o, NEW fl, Inv(m, s, cl, h, o, fl),
           NEW c \in Callers, cl[c].at = "kernel_stack_map", NEW q, q = cl[c].child,
           NEW f, f = cl[c].paddr, NEW v, v = cl[c].vaddr,
           Translate(m, kernel_pdt, v) = f,
           NEW x \in PsTypes, x.st = "loading", x.pdt = s[q].pdt, x.pdt_paddr = s[q].pdt_paddr,
           x.code = s[q].code, x.stack = s[q].stack, x.kernel_stack = v, x.kernel_stack_paddr = f,
           NEW b \in {"done", "descriptors"}, NEW e, e = Moved(cl[c], b, 0, 0)
    PROVE  Inv(m, [s EXCEPT ![q] = x], [cl EXCEPT ![c] = e], h, o, fl)
<1>1. /\ cl[c] \in CallTypes /\ CallOK(cl[c], fl) /\ cl[c].at # "idle"
      /\ s[q] \in PsTypes /\ Paired(s[q]) /\ PsMapped(m, s[q])
      /\ Shape(m, s[q], Level(cl[c]))
  BY ChildFacts
<1>2. m \in Mem /\ f # 0 /\ v # 0
  BY <1>1 DEF Inv, CallOK, Holding
<1>3. Shape(m, s[q], 3)
  <2>1. Level(cl[c]) = 3
    BY DEF Level
  <2> QED
    BY <1>1, <2>1
<1>4. s[q].kernel_stack_paddr = 0
  BY <1>2, <1>3, ShapeKernelStack
<1>5. Paired(x) /\ PsMapped(m, x)
  BY <1>1, <1>2 DEF Paired, PsMapped
<1>8. b \in Steps
  BY DEF Steps
<1>9. /\ e \in CallTypes /\ e.at = b /\ e.paddr = 0 /\ e.vaddr = 0 /\ e.child = q /\ e.op = cl[c].op
  BY <1>1, <1>8, MovedFree
<1>10. e.at \notin {"idle", "delete", "loop", "code_read", "copy_data"} /\ Level(e) = 4
  BY <1>9 DEF Level
<1>11. CallOK(e, fl)
  BY <1>9, FreshOK
<1>12. Shape(m, x, 4)
  BY <1>2, <1>3, ShapeKernelStack
<1>13. Shape(m, x, Level(e))
  BY <1>10, <1>12
<1> DEFINE k == "kernel_stack"
<1>14. /\ k \in {"pdt", "kernel_stack", "stack", "code"}
       /\ PsUse(m, s[q], k) = {}
       /\ PsUse(m, x, k) = Hold(cl[c])
  BY <1>4 DEF PsUse, Block, Hold, Size
<1>15. \A l \in PsKinds \ {k} : PsUse(m, x, l) = PsUse(m, s[q], l)
  BY DEF PsUse, PsKinds
<1> DEFINE S == {}
<1>16. NewTable(m, s, q, m, S)
  BY <1>2, OldTable
<1> HIDE DEF k, S
<1> QED
  BY <1>1, <1>5, <1>9, <1>10, <1>11, <1>13, <1>14, <1>15, <1>16, GiveStep

\* A struct with a directory, and with a kernel stack.
WithPdt(y, v, f) == [y EXCEPT !.pdt = v, !.pdt_paddr = f]
WithKernelStack(y, v, f) == [y EXCEPT !.kernel_stack_paddr = f, !.kernel_stack = v]

LEMMA WithPdtFacts ==
    ASSUME NEW y \in PsTypes, NEW v \in Pages, NEW f \in Phys, NEW x, x = WithPdt(y, v, f)
    PROVE  /\ x \in PsTypes /\ x.st = y.st /\ x.pdt = v /\ x.pdt_paddr = f /\ x.code = y.code
           /\ x.stack = y.stack /\ x.kernel_stack = y.kernel_stack
           /\ x.kernel_stack_paddr = y.kernel_stack_paddr
BY DEF WithPdt, PsTypes

LEMMA WithKernelStackFacts ==
    ASSUME NEW y \in PsTypes, NEW v \in Pages, NEW f \in Phys, NEW x, x = WithKernelStack(y, v, f)
    PROVE  /\ x \in PsTypes /\ x.st = y.st /\ x.pdt = y.pdt /\ x.pdt_paddr = y.pdt_paddr
           /\ x.code = y.code /\ x.stack = y.stack /\ x.kernel_stack = v /\ x.kernel_stack_paddr = f
BY DEF WithKernelStack, PsTypes

LEMMA LoadPdtInv ==
    ASSUME Inv(mem, ps, call, heap, orphans, failed), NEW c \in Callers, process_load_pdt(c), ~wild'
    PROVE  Inv(mem', ps', call', heap', orphans', failed')
<1> DEFINE q == call[c].child
           f == call[c].paddr
           v == call[c].vaddr
           r == pdt_map_memory(mem, kernel_pdt, f, v, 1)
           m1 == r.m
           m2 == [m1 EXCEPT !.at[f] = Empty]
           m3 == pfa_free_cont(m1, f, 1)
           b == IF call[c].op = "clone" THEN "copy" ELSE "code"
           e == Moved(call[c], b, 0, 0)
           x == WithPdt(ps[q], v, f)
<1>1. /\ call[c].at = "pdt_map" /\ heap' = heap /\ orphans' = orphans
      /\ \/ ~r.ok /\ f # 0 /\ mem' = m3 /\ Fail(c)
         \/ r.ok /\ mem' = m2 /\ Fail(c)
         \/ /\ r.ok /\ mem' = m2 /\ f # 0 /\ v # 0 /\ failed' = failed
            /\ ps' = [ps EXCEPT ![q].pdt = v, ![q].pdt_paddr = f]
            /\ call' = Went(call, c, b, 0, 0)
  BY DEF process_load_pdt, At, Go, Keep, Went, Child, Touch
<1>2. /\ call \in [Callers -> CallTypes] /\ call[c].at # "idle" /\ ps \in [Procs -> PsTypes]
      /\ "delete" \in {"delete", "loop"} /\ failed \in BOOLEAN /\ TRUE \in BOOLEAN
  BY <1>1 DEF Inv
<1>3. q \in Procs /\ ps[q] \in PsTypes /\ ps[q].st = "loading" /\ call[c] \in CallTypes
  BY <1>2, ChildFacts
<1>4. /\ q = call[c].child /\ f = call[c].paddr /\ v = call[c].vaddr
      /\ r = pdt_map_memory(mem, kernel_pdt, f, v, 1) /\ m1 = r.m
      /\ m2 = [m1 EXCEPT !.at[f] = Empty] /\ m3 = pfa_free_cont(m1, f, 1)
      /\ b \in {"copy", "code"} /\ e = Moved(call[c], b, 0, 0) /\ x = WithPdt(ps[q], v, f)
  BY Zenon
<1>5. f \in Phys /\ v \in Pages /\ 1 = Size(call[c])
  BY <1>1, <1>3 DEF CallTypes, Size
<1> HIDE DEF q, f, v, r, m1, m2, m3, b, e, x
<1>6. ps' = [ps EXCEPT ![q].pdt = v, ![q].pdt_paddr = f] => ps' = [ps EXCEPT ![q] = x]
  BY <1>2, <1>3, <1>4 DEF WithPdt, PsTypes
<1>7. CASE ~r.ok /\ f # 0 /\ mem' = m3 /\ Fail(c)
  <2>1. Inv(m1, ps, call, heap, orphans, TRUE)
    BY <1>2, <1>4, <1>5, <1>7, MapCall
  <2>2. Inv(m3, ps, [call EXCEPT ![c] = Moved(call[c], "delete", 0, 0)], heap, orphans, TRUE)
    BY <1>2, <1>4, <1>5, <1>7, <2>1, FreeStep
  <2> QED
    BY <1>1, <1>2, <1>7, <2>2, Fails
<1>8. r.ok => /\ Inv(m2, ps, call, heap, orphans, failed)
              /\ Translate(m2, kernel_pdt, v) = f
              /\ m2.at[f] = Empty
  <2> SUFFICES ASSUME r.ok
               PROVE  /\ Inv(m2, ps, call, heap, orphans, failed)
                      /\ Translate(m2, kernel_pdt, v) = f
                      /\ m2.at[f] = Empty
    OBVIOUS
  <2>1. call[c].at = "pdt_map"
    BY <1>1
  <2>2. Inv(m2, ps, call, heap, orphans, failed)
    BY <1>4, <2>1, PdtCleared
  <2>3. Translate(m2, kernel_pdt, v) = f
    BY <1>4, <2>1, PdtCleared
  <2>4. Cleared(m2, f)
    BY <1>4, <2>1, PdtCleared
  <2> QED
    BY <2>2, <2>3, <2>4 DEF Cleared
<1>9. CASE r.ok /\ mem' = m2 /\ Fail(c)
  <2>1. Inv(m2, ps, [call EXCEPT ![c] = Moved(call[c], "delete", 0, 0)], heap, orphans, TRUE)
    BY <1>2, <1>8, <1>9, FailStep
  <2> QED
    BY <1>1, <1>2, <1>9, <2>1, Fails
<1>10. CASE /\ r.ok /\ mem' = m2 /\ f # 0 /\ v # 0 /\ failed' = failed
            /\ ps' = [ps EXCEPT ![q].pdt = v, ![q].pdt_paddr = f]
            /\ call' = Went(call, c, b, 0, 0)
  <2>1. call' = [call EXCEPT ![c] = e]
    BY <1>2, <1>4, <1>10, WentMoves
  <2>2. /\ x \in PsTypes /\ x.st = "loading" /\ x.pdt = v /\ x.pdt_paddr = f /\ x.code = ps[q].code
        /\ x.stack = ps[q].stack /\ x.kernel_stack = ps[q].kernel_stack
        /\ x.kernel_stack_paddr = ps[q].kernel_stack_paddr
    BY <1>3, <1>4, <1>5, WithPdtFacts
  <2>3. /\ Inv(m2, ps, call, heap, orphans, failed) /\ Translate(m2, kernel_pdt, v) = f
        /\ m2.at[f] = Empty /\ call[c].at = "pdt_map" /\ f # 0 /\ v # 0
    BY <1>1, <1>8, <1>10
  <2>4. /\ q = call[c].child /\ f = call[c].paddr /\ v = call[c].vaddr
        /\ b \in {"copy", "code"} /\ e = Moved(call[c], b, 0, 0)
    BY <1>4
  <2>5. Inv(m2, [ps EXCEPT ![q] = x], [call EXCEPT ![c] = e], heap, orphans, failed)
    BY <2>2, <2>3, <2>4, PdtGiven
  <2> QED
    BY <1>1, <1>6, <1>10, <2>1, <2>5
<1> QED
  BY <1>1, <1>7, <1>9, <1>10, SMTT(30)

LEMMA KernelStackMapInv ==
    ASSUME Inv(mem, ps, call, heap, orphans, failed), NEW c \in Callers, process_load_kernel_stack_map(c)
    PROVE  Inv(mem', ps', call', heap', orphans', failed')
<1> DEFINE q == call[c].child
           f == call[c].paddr
           v == call[c].vaddr
           n == 1
           r == pdt_map_memory(mem, kernel_pdt, f, v, n)
           m1 == r.m
           b == IF call[c].op = "create" THEN "done" ELSE "descriptors"
           e == Moved(call[c], b, 0, 0)
           x == WithKernelStack(ps[q], v, f)
<1>1. /\ call[c].at = "kernel_stack_map" /\ heap' = heap /\ orphans' = orphans
      /\ \/ mem' = m1 /\ Fail(c)
         \/ /\ r.ok /\ mem' = m1 /\ failed' = failed
            /\ ps' = [ps EXCEPT ![q].kernel_stack_paddr = f, ![q].kernel_stack = v]
            /\ call' = Went(call, c, b, 0, 0)
  BY DEF process_load_kernel_stack_map, At, Go, Keep, Went, Child
<1>2. /\ call \in [Callers -> CallTypes] /\ call[c].at # "idle" /\ ps \in [Procs -> PsTypes]
      /\ "delete" \in {"delete", "loop"} /\ failed \in BOOLEAN /\ TRUE \in BOOLEAN
  BY <1>1 DEF Inv
<1>3. /\ q \in Procs /\ ps[q] \in PsTypes /\ ps[q].st = "loading" /\ call[c] \in CallTypes
      /\ CallOK(call[c], failed)
  BY <1>2, ChildFacts
<1>4. /\ q = call[c].child /\ f = call[c].paddr /\ v = call[c].vaddr
      /\ r = pdt_map_memory(mem, kernel_pdt, f, v, n) /\ m1 = r.m
      /\ b \in {"done", "descriptors"} /\ e = Moved(call[c], b, 0, 0) /\ x = WithKernelStack(ps[q], v, f)
  OBVIOUS
<1>5. f \in Phys /\ v \in Pages /\ n = Size(call[c]) /\ f # 0
  BY <1>1, <1>3 DEF CallTypes, Size, CallOK, Holding
<1>7. n = 1
  OBVIOUS
<1> HIDE DEF q, f, v, r, m1, b, e, x, n
<1>6. ps' = [ps EXCEPT ![q].kernel_stack_paddr = f, ![q].kernel_stack = v] => ps' = [ps EXCEPT ![q] = x]
  BY <1>2, <1>3, <1>4 DEF WithKernelStack, PsTypes
<1>9. CASE mem' = m1 /\ Fail(c)
  <2>1. Inv(m1, ps, call, heap, orphans, TRUE)
    BY <1>2, <1>4, <1>5, MapCall
  <2>2. Inv(m1, ps, [call EXCEPT ![c] = Moved(call[c], "delete", 0, 0)], heap, orphans, TRUE)
    BY <1>2, <2>1, FailStep
  <2> QED
    BY <1>1, <1>2, <1>9, <2>2, Fails
<1>10. CASE /\ r.ok /\ mem' = m1 /\ failed' = failed
            /\ ps' = [ps EXCEPT ![q].kernel_stack_paddr = f, ![q].kernel_stack = v]
            /\ call' = Went(call, c, b, 0, 0)
  <2>1. call' = [call EXCEPT ![c] = e]
    BY <1>2, <1>4, <1>10, WentMoves
  <2>2. /\ x \in PsTypes /\ x.st = "loading" /\ x.pdt = ps[q].pdt /\ x.pdt_paddr = ps[q].pdt_paddr
        /\ x.code = ps[q].code /\ x.stack = ps[q].stack /\ x.kernel_stack = v /\ x.kernel_stack_paddr = f
    BY <1>3, <1>4, <1>5, WithKernelStackFacts
  <2>3. Inv(m1, ps, call, heap, orphans, failed)
    BY <1>2, <1>4, <1>5, <1>10, MapCall
  <2>4. Translate(m1, kernel_pdt, v) = f
    <3>1. \A j \in 0 .. (n - 1) : Translate(r.m, kernel_pdt, v + j) = f + j
      BY <1>2, <1>4, <1>5, <1>10, MapPages
    <3>2. 0 \in 0 .. (n - 1) /\ v + 0 = v /\ f + 0 = f
      BY <1>5, <1>7, Constants
    <3> QED
      BY <1>4, <3>1, <3>2
  <2>5. /\ q = call[c].child /\ f = call[c].paddr /\ v = call[c].vaddr
        /\ b \in {"done", "descriptors"} /\ e = Moved(call[c], b, 0, 0) /\ call[c].at = "kernel_stack_map"
    BY <1>1, <1>4
  <2>6. Inv(m1, [ps EXCEPT ![q] = x], [call EXCEPT ![c] = e], heap, orphans, failed)
    BY <2>2, <2>3, <2>4, <2>5, KernelStackGiven
  <2> QED
    BY <1>1, <1>6, <1>10, <2>1, <2>6
<1> QED
  BY <1>1, <1>9, <1>10

LEMMA DescriptorsInv ==
    ASSUME Inv(mem, ps, call, heap, orphans, failed), NEW c \in Callers, process_copy_file_descriptors(c)
    PROVE  Inv(mem', ps', call', heap', orphans', failed')
<1> DEFINE e == Moved(call[c], "done", 0, 0)
<1>1. /\ call[c].at = "descriptors" /\ heap' = heap /\ orphans' = orphans /\ mem' = mem
      /\ \/ Fail(c)
         \/ ps' = ps /\ failed' = failed /\ call' = Went(call, c, "done", 0, 0)
  BY DEF process_copy_file_descriptors, At, Go, Keep, Went
<1>2. /\ call \in [Callers -> CallTypes] /\ call[c].at # "idle" /\ "delete" \in {"delete", "loop"}
  BY <1>1 DEF Inv
<1>3. /\ call[c] \in CallTypes /\ CallOK(call[c], failed) /\ "done" \in Steps
      /\ Shape(mem, ps[call[c].child], Level(call[c]))
  BY <1>1, <1>2, ChildFacts DEF Steps
<1>4. /\ e \in CallTypes /\ e.at = "done" /\ e.paddr = 0 /\ e.vaddr = 0 /\ e.child = call[c].child
      /\ e.op = call[c].op
  BY <1>3, MovedFree
<1>5. e = Moved(call[c], "done", 0, 0)
  OBVIOUS
<1> HIDE DEF e
<1>6. CASE Fail(c)
  <2>1. Inv(mem, ps, [call EXCEPT ![c] = Moved(call[c], "delete", 0, 0)], heap, orphans, TRUE)
    BY <1>2, FailStep
  <2> QED
    BY <1>1, <1>2, <1>6, <2>1, Fails
<1>7. CASE ps' = ps /\ failed' = failed /\ call' = Went(call, c, "done", 0, 0)
  <2>1. call' = [call EXCEPT ![c] = e]
    BY <1>2, <1>5, <1>7, WentMoves
  <2>2. CallOK(e, failed)
    BY <1>4, FreshOK
  <2>3. Level(e) = Level(call[c])
    BY <1>1, <1>4 DEF Level
  <2>4. CallMapped(mem, e) /\ e.at # "idle" /\ Shape(mem, ps[e.child], Level(e))
    BY <1>3, <1>4, <2>3 DEF CallMapped
  <2>5. Hold(e) = Hold(call[c])
    <3>1. call[c].paddr = 0
      BY <1>1, <1>3 DEF CallOK, Holding
    <3> QED
      BY <1>4, <3>1 DEF Hold, Block
  <2>6. Inv(mem, ps, [call EXCEPT ![c] = e], heap, orphans, failed)
    BY <1>2, <1>4, <2>2, <2>4, <2>5, AdvanceStep
  <2> QED
    BY <1>1, <1>7, <2>1, <2>6
<1> QED
  BY <1>1, <1>6, <1>7

\* A call begins with an empty struct.
Loading == [Unused EXCEPT !.st = "loading"]
Begun(op, p) == [Idle EXCEPT !.op = op, !.child = p, !.at = "pdt"]

LEMMA LoadingFacts ==
    /\ Loading \in PsTypes /\ Loading.st = "loading" /\ Loading.pdt = 0 /\ Loading.pdt_paddr = 0
    /\ Loading.code = 0 /\ Loading.stack = 0 /\ Loading.kernel_stack = 0 /\ Loading.kernel_stack_paddr = 0
<1>1. 0 \in Phys /\ 0 \in Pages
  BY Constants
<1> QED
  BY <1>1 DEF Loading, Unused, PsTypes

LEMMA BegunFacts ==
    ASSUME NEW op \in {"create", "clone", "replace"}, NEW p \in Procs
    PROVE  /\ Begun(op, p) \in CallTypes /\ Begun(op, p).at = "pdt" /\ Begun(op, p).paddr = 0
           /\ Begun(op, p).vaddr = 0 /\ Begun(op, p).op = op /\ Begun(op, p).child = p
           /\ Begun(op, p).list = "code"
<1>1. 0 \in Phys /\ 0 \in Pages /\ "pdt" \in Steps /\ "code" \in Lists /\ p \in Callers
  BY Constants DEF Steps, Lists
<1> QED
  BY <1>1 DEF Begun, Idle, CallTypes

LEMMA CallBegins ==
    ASSUME NEW m, NEW s, NEW cl, NEW h, NEW o, NEW fl, Inv(m, s, cl, h, o, fl),
           NEW c \in Callers, cl[c].at = "idle", NEW e \in CallTypes, e.at = "pdt", e.paddr = 0,
           e.vaddr = 0, e.list = "code", e.child \in Procs, s[e.child].st = "loading",
           Shape(m, s[e.child], 0), IF c = boot THEN e.op = "create" ELSE s[c].st = "live",
           \A d \in Callers : cl[d].at # "idle" => cl[d].child # e.child
    PROVE  Inv(m, s, [cl EXCEPT ![c] = e], h, o, fl)
<1>1. Typed(m, s, cl, h, o) /\ fl \in BOOLEAN /\ m \in Mem
  BY InvTyped DEF Typed
<1>2. CallOK(e, fl) /\ CallMapped(m, e) /\ Shape(m, s[e.child], Level(e))
  BY FreshOK DEF CallMapped, Level
<1>3. Ledger(Put(Uses(m, s, cl, h, o), c, "call", Hold(e)), m.free, ~fl)
  <2>1. Hold(e) = Hold(cl[c])
    <3>1. cl[c].paddr = 0
      BY DEF Inv, Calls, CallOK, Holding
    <3> QED
      BY <3>1 DEF Hold, Block
  <2>2. Uses(m, s, cl, h, o) \in Own /\ Uses(m, s, cl, h, o)[c]["call"] = Hold(e)
    BY <2>1, InvTyped, UsesIs
  <2>3. "call" \in Kinds
    BY DEF Kinds
  <2>4. Put(Uses(m, s, cl, h, o), c, "call", Hold(e)) = Uses(m, s, cl, h, o)
    BY <2>2, <2>3, PutSame
  <2> QED
    BY <2>4, InvTyped
<1>4. \A d \in Callers : d # c /\ cl[d].at # "idle" => cl[d].child # e.child
  OBVIOUS
<1> QED
  BY <1>1, <1>2, <1>3, <1>4, CallChange

LEMMA BeginStep ==
    ASSUME NEW m, NEW s, NEW cl, NEW h, NEW o, NEW fl, Inv(m, s, cl, h, o, fl),
           NEW c \in Callers, cl[c].at = "idle", NEW p \in Procs, s[p].st = "unused",
           NEW op \in {"create", "clone", "replace"},
           IF c = boot THEN op = "create" ELSE c \in Procs /\ s[c].st = "live"
    PROVE  Inv(m, [s EXCEPT ![p] = Loading], [cl EXCEPT ![c] = Begun(op, p)], h, o, fl)
<1> DEFINE x == Loading
           e == Begun(op, p)
           s2 == [s EXCEPT ![p] = x]
<1>1. /\ m \in Mem /\ s \in [Procs -> PsTypes] /\ cl \in [Callers -> CallTypes] /\ fl \in BOOLEAN
      /\ CallOK(cl[c], fl)
  BY DEF Inv, Calls
<1>2. /\ x \in PsTypes /\ x.st = "loading" /\ x.pdt = 0 /\ x.pdt_paddr = 0
      /\ x.code = 0 /\ x.stack = 0 /\ x.kernel_stack = 0 /\ x.kernel_stack_paddr = 0
  BY LoadingFacts
<1>3. /\ e \in CallTypes /\ e.at = "pdt" /\ e.paddr = 0 /\ e.vaddr = 0 /\ e.op = op /\ e.child = p
      /\ e.list = "code"
  BY BegunFacts
<1> HIDE DEF x, e
<1>4. Inv(m, [s EXCEPT ![p] = x], cl, h, o, fl)
  BY <1>2, NewStep
<1>5. \A d \in Callers : cl[d].at # "idle" => cl[d].child # p
  BY DEF Inv, Calls
<1>6. Shape(m, x, 0)
  BY <1>2, NewStep
<1>7. s2[p] = x /\ (c # boot => s2[c] = s[c])
  BY <1>1
<1>8. Inv(m, s2, cl, h, o, fl)
  BY <1>4
<1> HIDE DEF s2
<1>9. /\ e.child \in Procs /\ s2[e.child].st = "loading" /\ Shape(m, s2[e.child], 0)
      /\ IF c = boot THEN e.op = "create" ELSE s2[c].st = "live"
  BY <1>2, <1>3, <1>6, <1>7
<1>10. \A d \in Callers : cl[d].at # "idle" => cl[d].child # e.child
  BY <1>3, <1>5
<1>13. Inv(m, s2, [cl EXCEPT ![c] = e], h, o, fl)
  BY <1>3, <1>8, <1>9, <1>10, CallBegins
<1> QED
  BY <1>13 DEF s2, e, x

LEMMA BeginInv ==
    ASSUME Inv(mem, ps, call, heap, orphans, failed), NEW c \in Callers,
           NEW op \in {"create", "clone", "replace"}, Begin(c, op),
           IF c = boot THEN op = "create" ELSE c \in Live
    PROVE  Inv(mem', ps', call', heap', orphans', failed')
<1> DEFINE p == CHOOSE q \in Procs : ps[q].st = "unused"
<1>1. /\ call[c].at = "idle" /\ mem' = mem /\ heap' = heap /\ orphans' = orphans /\ failed' = failed
      /\ \E q \in Procs : ps[q].st = "unused"
      /\ ps' = [ps EXCEPT ![p] = Loading]
      /\ call' = [call EXCEPT ![c] = Begun(op, p)]
  BY DEF Begin, At, Loading, Begun
<1>2. p \in Procs /\ ps[p].st = "unused"
  BY <1>1
<1> HIDE DEF p
<1>3. IF c = boot THEN op = "create" ELSE c \in Procs /\ ps[c].st = "live"
  BY DEF Live
<1>4. Inv(mem, [ps EXCEPT ![p] = Loading], [call EXCEPT ![c] = Begun(op, p)], heap, orphans, failed)
  BY <1>1, <1>2, <1>3, BeginStep
<1> QED
  BY <1>1, <1>4

\* A process that is live.
LEMMA LiveFacts ==
    ASSUME NEW m, NEW s, NEW cl, NEW h, NEW o, NEW fl, Inv(m, s, cl, h, o, fl),
           NEW p \in Procs, s[p].st = "live"
    PROVE  /\ p \in Using(s) /\ s[p].pdt_paddr # 0
           /\ \A c \in Callers : cl[c].at # "idle" => cl[c].child # p
<1>1. p \in Using(s)
  BY DEF Using
<1>2. s[p].pdt_paddr # 0
  <2>1. Shape(m, s[p], 4)
    BY DEF Inv, Shapes
  <2> QED
    BY <2>1 DEF Shape
<1>3. \A c \in Callers : cl[c].at # "idle" => cl[c].child # p
  BY DEF Inv, Calls
<1> QED
  BY <1>1, <1>2, <1>3

\* A call ends, and its child is live.
Idled(cl, c) == [cl EXCEPT ![c] = Idle]
Lived(s, p) == [s EXCEPT ![p].st = "live"]

LEMMA IdleFacts ==
    ASSUME NEW m, NEW s, NEW cl, NEW h, NEW o, NEW fl, Inv(m, s, cl, h, o, fl),
           NEW c \in Callers, cl[c].at # "idle", cl[c].paddr = 0, NEW cl1, cl1 = Idled(cl, c)
    PROVE  /\ Inv(m, s, cl1, h, o, fl) /\ cl1[c].at = "idle"
           /\ \A d \in Callers : cl1[d].at # "idle" => cl1[d] = cl[d]
           /\ \A d \in Callers : cl1[d].at # "idle" => cl1[d].child # cl[c].child
<1>1. cl \in [Callers -> CallTypes]
  BY DEF Inv
<1>2. Inv(m, s, [cl EXCEPT ![c] = Idle], h, o, fl)
  BY IdleStep
<1>3. cl1 = [cl EXCEPT ![c] = Idle]
  BY DEF Idled
<1>4. cl1[c].at = "idle"
  BY <1>1, <1>3 DEF Idle
<1>5. \A d \in Callers : d # c => cl1[d] = cl[d]
  BY <1>1, <1>3
<1>6. \A d \in Callers : d # c /\ cl[d].at # "idle" => cl[d].child # cl[c].child
  BY ChildFacts
<1> QED
  BY <1>2, <1>3, <1>4, <1>5, <1>6

LEMMA DoneStep ==
    ASSUME NEW m, NEW s, NEW cl, NEW h, NEW o, NEW fl, Inv(m, s, cl, h, o, fl),
           NEW c \in Callers, cl[c].at = "done", NEW p, p = cl[c].child,
           NEW cl1, cl1 = Idled(cl, c), NEW s2, s2 = Lived(s, p)
    PROVE  /\ Inv(m, s2, cl1, h, o, fl) /\ cl1[c].at = "idle"
           /\ p \in Procs /\ s2[p].st = "live" /\ c # p
           /\ \A q \in Procs : q # p => s2[q] = s[q]
<1>1. /\ cl[c].at # "idle" /\ p \in Procs /\ s[p].st = "loading" /\ CallOK(cl[c], fl) /\ c # p
      /\ Shape(m, s[p], Level(cl[c]))
  BY ChildFacts
<1>2. cl[c].paddr = 0 /\ Level(cl[c]) = 4
  BY <1>1 DEF CallOK, Holding, Level
<1>3. Inv(m, s, cl1, h, o, fl)
  BY <1>1, <1>2, IdleFacts
<1>4. cl1[c].at = "idle"
  BY <1>1, <1>2, IdleFacts
<1>5. \A d \in Callers : cl1[d].at # "idle" => cl1[d].child # p
  BY <1>1, <1>2, IdleFacts
<1>6. Shape(m, s[p], 4)
  BY <1>1, <1>2
<1>7. Inv(m, [s EXCEPT ![p].st = "live"], cl1, h, o, fl)
  BY <1>1, <1>3, <1>5, <1>6, LiveStep
<1>8. s \in [Procs -> PsTypes]
  BY DEF Inv
<1>9. s2[p].st = "live" /\ \A q \in Procs : q # p => s2[q] = s[q]
  BY <1>1, <1>8 DEF Lived, PsTypes
<1> QED
  BY <1>1, <1>4, <1>7, <1>9 DEF Lived

LEMMA ForkDoneInv ==
    ASSUME Inv(mem, ps, call, heap, orphans, failed), NEW c \in Callers, fork_done(c)
    PROVE  Inv(mem', ps', call', heap', orphans', failed')
<1>1. /\ call[c].at = "done" /\ mem' = mem /\ heap' = heap /\ orphans' = orphans /\ failed' = failed
      /\ ps' = Lived(ps, call[c].child) /\ call' = Idled(call, c)
  BY DEF fork_done, At, Keep, Child, Lived, Idled
<1>2. Inv(mem, ps', call', heap, orphans, failed)
  BY <1>1, DoneStep
<1> QED
  BY <1>1, <1>2

LEMMA CreateDoneInv ==
    ASSUME Inv(mem, ps, call, heap, orphans, failed), create_done
    PROVE  Inv(mem', ps', call', heap', orphans', failed')
<1> DEFINE p == call[boot].child
           s2 == Lived(ps, p)
           cl1 == Idled(call, boot)
<1>1. /\ call[boot].at = "done" /\ heap' = heap /\ orphans' = orphans /\ failed' = failed
      /\ ps' = s2 /\ call' = cl1 /\ mem' = pdt_load_process_pdt(mem, s2[p].pdt_paddr)
  BY DEF create_done, At, Child, Lived, Idled, Load
<1>2. p = call[boot].child /\ s2 = Lived(ps, p) /\ cl1 = Idled(call, boot) /\ boot \in Callers
  BY Constants
<1> HIDE DEF p, s2, cl1
<1>3. Inv(mem, s2, cl1, heap, orphans, failed) /\ p \in Procs /\ s2[p].st = "live"
  BY <1>1, <1>2, DoneStep
<1>4. p \in Using(s2) /\ s2[p].pdt_paddr # 0
  BY <1>3, LiveFacts
<1>5. Inv(mem', s2, cl1, heap, orphans, failed)
  BY <1>1, <1>3, <1>4, LoadStep
<1> QED
  BY <1>1, <1>5

LEMMA ScheduleInv ==
    ASSUME Inv(mem, ps, call, heap, orphans, failed), NEW q \in Callers, scheduler_schedule(q)
    PROVE  Inv(mem', ps', call', heap', orphans', failed')
<1>1. /\ heap' = heap /\ orphans' = orphans /\ failed' = failed /\ ps' = ps /\ call' = call
      /\ mem' = pdt_load_process_pdt(mem, ps[q].pdt_paddr) /\ q \in Procs /\ ps[q].st = "live"
  BY DEF scheduler_schedule, Load, Live
<1>2. q \in Using(ps) /\ ps[q].pdt_paddr # 0
  BY <1>1, LiveFacts
<1>3. Inv(mem', ps, call, heap, orphans, failed)
  BY <1>1, <1>2, LoadStep
<1> QED
  BY <1>1, <1>3

LEMMA HeapGrowsInv ==
    ASSUME Inv(mem, ps, call, heap, orphans, failed), heap_grows
    PROVE  Inv(mem', ps', call', heap', orphans', failed')
<1> DEFINE f == pfa_allocate(mem, 1)
           m == Taken(mem, f, 1)
           v == pdt_kernel_find_next_vaddr(m, 1)
           n == 1
           r == pdt_map_memory(m, kernel_pdt, f, v, n)
           h2 == heap \cup {f}
<1>1. /\ f # 0 /\ r.ok /\ mem' = r.m /\ heap' = h2 /\ orphans' = orphans /\ failed' = failed
      /\ ps' = ps /\ call' = call
  BY DEF heap_grows
<1>2. /\ f = pfa_allocate(mem, 1) /\ m = Taken(mem, f, 1) /\ v = pdt_kernel_find_next_vaddr(m, 1)
      /\ r = pdt_map_memory(m, kernel_pdt, f, v, n) /\ h2 = heap \cup {f}
  OBVIOUS
<1>3. n = 1
  OBVIOUS
<1> HIDE DEF f, m, v, r, h2, n
<1>4. Inv(m, ps, call, heap \cup {f}, orphans, failed) /\ f \in Frames
  BY <1>1, <1>2, HeapStep
<1>5. Inv(m, ps, call, h2, orphans, failed)
  BY <1>2, <1>4
<1>6. /\ v \in Pages /\ VIRTUAL_TO_PT_IDX(v) + n <= NUM_ENTRIES /\ n \in Nat /\ n > 0
  <2>1. 1 \in Nat /\ 1 > 0 /\ 1 < NUM_ENTRIES
    BY Constants
  <2> QED
    BY <1>2, <1>3, <2>1, FindFacts
<1>7. f \in Phys /\ \A j \in 0 .. (n - 1) : f + j \in Phys
  BY <1>3, <1>4, Constants
<1>8. failed \in BOOLEAN /\ (failed => failed) /\ (~r.ok => failed)
  BY <1>1 DEF Inv
<1>9. Inv(r.m, ps, call, h2, orphans, failed)
  BY <1>2, <1>5, <1>6, <1>7, <1>8, KernelMapStep
<1> QED
  BY <1>1, <1>9

LEMMA UnusedFacts == Unused \in PsTypes /\ Unused.st \notin {"loading", "live"} /\ Blank(Unused) /\ Paired(Unused)
<1>1. 0 \in Phys /\ 0 \in Pages
  BY Constants
<1> QED
  BY <1>1 DEF Unused, PsTypes, Blank, Paired

\* What the deletion of a process does, in terms of its struct.
LEMMA DeletedIs ==
    ASSUME NEW p
    PROVE  process_delete_resources(mem, p) = Gone(mem, ps[p]) /\ UserTables(p) = Tables(mem, ps[p].pdt_paddr)
BY DEF process_delete_resources, DeleteKernelHalf, Gone, HalfGone, UserTables, Tables

LEMMA DeleteInv ==
    ASSUME Inv(mem, ps, call, heap, orphans, failed), NEW c \in Callers, process_delete_and_free(c)
    PROVE  Inv(mem', ps', call', heap', orphans', failed')
<1> DEFINE p == call[c].child
           cl1 == Idled(call, c)
           m2 == Gone(mem, ps[p])
           o2 == orphans \cup Tables(mem, ps[p].pdt_paddr)
           x == Unused
<1>1. /\ call[c].at = "delete" /\ heap' = heap /\ orphans' = o2 /\ failed' = failed
      /\ mem' = m2 /\ ps' = [ps EXCEPT ![p] = x] /\ call' = cl1
  BY DeletedIs DEF process_delete_and_free, At, Child, Idled
<1>2. /\ p = call[c].child /\ cl1 = Idled(call, c) /\ m2 = Gone(mem, ps[p])
      /\ o2 = orphans \cup Tables(mem, ps[p].pdt_paddr) /\ call[c].at # "idle"
  BY <1>1
<1>3. x \in PsTypes /\ x.st \notin {"loading", "live"} /\ Blank(x) /\ Paired(x)
  BY UnusedFacts
<1> HIDE DEF p, cl1, m2, o2, x
<1>4. p \in Procs /\ ps[p].st = "loading" /\ CallOK(call[c], failed) /\ p \in Using(ps)
  BY <1>2, ChildFacts
<1>5. call[c].paddr = 0
  BY <1>1, <1>4 DEF CallOK, Holding
<1>6. Inv(mem, ps, cl1, heap, orphans, failed)
  BY <1>2, <1>5, IdleFacts
<1>7. \A d \in Callers : cl1[d].at # "idle" => cl1[d].child # p
  BY <1>2, <1>5, IdleFacts
<1>8. cl1[p].at = "idle"
  <2>1. p \in Callers /\ p # boot
    BY <1>4, Constants
  <2>2. \A d \in Callers : cl1[d].at # "idle" => IF d = boot THEN cl1[d].op = "create" ELSE ps[d].st = "live"
    BY <1>6 DEF Inv, Calls
  <2> QED
    BY <1>4, <2>1, <2>2
<1>9. Inv(m2, [ps EXCEPT ![p] = x], cl1, heap, o2, failed)
  BY <1>2, <1>3, <1>4, <1>6, <1>7, <1>8, GoneStep
<1> QED
  BY <1>1, <1>9

LEMMA ExecveDoneInv ==
    ASSUME Inv(mem, ps, call, heap, orphans, failed), NEW c \in Callers, execve_done(c)
    PROVE  Inv(mem', ps', call', heap', orphans', failed')
<1> DEFINE p == call[c].child
           cl1 == Idled(call, c)
           s2 == Lived(ps, p)
           x == Unused
           s3 == [s2 EXCEPT ![c] = x]
           m2 == Gone(mem, s2[c])
           o2 == orphans \cup Tables(mem, s2[c].pdt_paddr)
           state == [ps EXCEPT ![c] = Unused, ![p].st = "live"]
<1>1. /\ call[c].at = "done" /\ call[c].op = "replace" /\ heap' = heap /\ failed' = failed
      /\ orphans' = orphans \cup Tables(mem, ps[c].pdt_paddr)
      /\ ps' = state /\ call' = cl1
      /\ \E q \in Procs : state[q].st = "live" /\ mem' = pdt_load_process_pdt(Gone(mem, ps[c]), state[q].pdt_paddr)
  BY DeletedIs DEF execve_done, At, Child, Idled, Load
<1>2. /\ p = call[c].child /\ cl1 = Idled(call, c) /\ s2 = Lived(ps, p) /\ m2 = Gone(mem, s2[c])
      /\ o2 = orphans \cup Tables(mem, s2[c].pdt_paddr)
  OBVIOUS
<1>3. x \in PsTypes /\ x.st \notin {"loading", "live"} /\ Blank(x) /\ Paired(x)
  BY UnusedFacts
<1>4. c \in Procs /\ ps[c].st = "live" /\ ps \in [Procs -> PsTypes]
  BY <1>1 DEF Inv, Calls, Callers
<1>5. /\ Inv(mem, s2, cl1, heap, orphans, failed) /\ cl1[c].at = "idle" /\ p \in Procs /\ c # p
      /\ s2[p].st = "live"
  <2> HIDE DEF p, s2, cl1
  <2> QED
    BY <1>1, <1>2, DoneStep
<1>6. s2[c] = ps[c]
  BY <1>4, <1>5 DEF Lived
<1>7. state = s3
  <2> HIDE DEF p
  <2> QED
    BY <1>4, <1>5 DEF Lived, PsTypes
<1>8. /\ orphans' = o2 /\ ps' = s3 /\ call' = cl1
  BY <1>1, <1>6, <1>7
<1>9. \E q \in Procs : s3[q].st = "live" /\ mem' = pdt_load_process_pdt(m2, s3[q].pdt_paddr)
  <2>1. m2 = Gone(mem, ps[c])
    BY <1>6
  <2> HIDE DEF state, s3, m2
  <2> QED
    BY <1>1, <1>7, <2>1
<1>10. s3 = [s2 EXCEPT ![c] = x]
  OBVIOUS
<1> HIDE DEF p, cl1, s2, x, s3, m2, o2, state
<1>11. c \in Using(s2) /\ \A d \in Callers : cl1[d].at # "idle" => cl1[d].child # c
  <2>1. s2[c].st = "live"
    BY <1>4, <1>6
  <2> QED
    BY <1>4, <1>5, <2>1, LiveFacts
<1>12. Inv(m2, [s2 EXCEPT ![c] = x], cl1, heap, o2, failed)
  BY <1>2, <1>3, <1>5, <1>11, GoneStep
<1>13. Inv(m2, s3, cl1, heap, o2, failed)
  BY <1>10, <1>12
<1>14. PICK q \in Procs : s3[q].st = "live" /\ mem' = pdt_load_process_pdt(m2, s3[q].pdt_paddr)
  BY <1>9
<1>15. q \in Using(s3) /\ s3[q].pdt_paddr # 0
  BY <1>13, <1>14, LiveFacts
<1>16. Inv(mem', s3, cl1, heap, o2, failed)
  BY <1>13, <1>14, <1>15, LoadStep
<1> QED
  BY <1>1, <1>8, <1>16

LEMMA SysExitInv ==
    ASSUME Inv(mem, ps, call, heap, orphans, failed), NEW c \in Callers, sys_exit(c)
    PROVE  Inv(mem', ps', call', heap', orphans', failed')
<1> DEFINE x == [ps[c] EXCEPT !.st = "zombie"]
           s3 == [ps EXCEPT ![c] = x]
           m2 == Gone(mem, ps[c])
           o2 == orphans \cup Tables(mem, ps[c].pdt_paddr)
           state == [ps EXCEPT ![c].st = "zombie"]
<1>1. /\ c \in Procs /\ ps[c].st = "live" /\ call[c].at = "idle"
      /\ heap' = heap /\ failed' = failed /\ orphans' = o2 /\ ps' = state /\ call' = call
      /\ \/ mem' = m2
         \/ \E q \in Procs : /\ ps[q].st = "live" /\ q # c
                             /\ mem' = pdt_load_process_pdt(m2, state[q].pdt_paddr)
  BY DeletedIs DEF sys_exit, At, Load, Live
<1>2. ps \in [Procs -> PsTypes] /\ \A r \in Procs : Paired(ps[r])
  BY DEF Inv, Calls
<1>3. state = s3 /\ ps[c] \in PsTypes
  BY <1>1, <1>2 DEF PsTypes
<1>4. x \in PsTypes /\ x.st \notin {"loading", "live"} /\ Blank(x) /\ Paired(x)
  <2>1. Paired(ps[c]) /\ ps[c] \in PsTypes
    BY <1>1, <1>2
  <2>2. /\ x \in PsTypes /\ x.st = "zombie" /\ x.pdt = ps[c].pdt /\ x.pdt_paddr = ps[c].pdt_paddr
        /\ x.kernel_stack = ps[c].kernel_stack /\ x.kernel_stack_paddr = ps[c].kernel_stack_paddr
    BY <2>1 DEF PsTypes
  <2> HIDE DEF x
  <2> QED
    BY <2>1, <2>2 DEF Paired, Blank
<1>5. \A q \in Procs : q # c => s3[q] = ps[q]
  BY <1>1, <1>2
<1>6. s3 = [ps EXCEPT ![c] = x] /\ m2 = Gone(mem, ps[c]) /\ o2 = orphans \cup Tables(mem, ps[c].pdt_paddr)
  OBVIOUS
<1>7. /\ orphans' = o2 /\ ps' = s3 /\ call' = call /\ heap' = heap /\ failed' = failed
      /\ \/ mem' = m2
         \/ \E q \in Procs : s3[q].st = "live" /\ mem' = pdt_load_process_pdt(m2, s3[q].pdt_paddr)
  <2> HIDE DEF m2, o2, s3, state
  <2> QED
    BY <1>1, <1>3, <1>5
<1> HIDE DEF x, s3, m2, o2, state
<1>8. c \in Using(ps) /\ \A d \in Callers : call[d].at # "idle" => call[d].child # c
  BY <1>1, LiveFacts
<1>9. Inv(m2, [ps EXCEPT ![c] = x], call, heap, o2, failed)
  BY <1>1, <1>4, <1>6, <1>8, GoneStep
<1>10. Inv(m2, s3, call, heap, o2, failed)
  BY <1>6, <1>9
<1>11. CASE mem' = m2
  BY <1>7, <1>10, <1>11
<1>12. CASE \E q \in Procs : s3[q].st = "live" /\ mem' = pdt_load_process_pdt(m2, s3[q].pdt_paddr)
  <2>1. PICK q \in Procs : s3[q].st = "live" /\ mem' = pdt_load_process_pdt(m2, s3[q].pdt_paddr)
    BY <1>12
  <2>2. q \in Using(s3) /\ s3[q].pdt_paddr # 0
    BY <1>10, <2>1, LiveFacts
  <2>3. Inv(mem', s3, call, heap, o2, failed)
    BY <1>10, <2>1, <2>2, LoadStep
  <2> QED
    BY <1>7, <2>3
<1> QED
  BY <1>7, <1>11, <1>12

-----------------------------------------------------------------------------
(***************************************************************************)
(* The invariant holds initially and every step preserves it.              *)
(***************************************************************************)
\* The memory the boot code leaves.
LEMMA InitialFacts ==
    /\ InitialMemory \in Mem /\ InitialMemory.free = Frames
    /\ KernelTables(InitialMemory) = {kernel_pt}
<1> DEFINE kd == With(Empty, KERNEL_PDT_IDX, kernel_pt)
           k0 == With(Empty, 0, kernel_pdt)
           kt == With(k0, 1, kernel_pt)
           at == [f \in Phys |-> CASE f = kernel_pdt -> kd [] f = kernel_pt -> kt [] OTHER -> Empty]
<1>0. 1 \in Entries
  BY PagingAssumption DEF Entries
<1>1. kd \in PageTables /\ DOMAIN kd = {KERNEL_PDT_IDX} /\ kd[KERNEL_PDT_IDX] = kernel_pt
  <2>1. /\ kd \in PageTables /\ DOMAIN kd = DOMAIN Empty \cup {KERNEL_PDT_IDX}
        /\ kd[KERNEL_PDT_IDX] = kernel_pt
    <3>1. Empty \in PageTables /\ KERNEL_PDT_IDX \in Entries /\ kernel_pt \in Phys
      BY EmptyFacts, Constants
    <3> QED BY <3>1, WithFacts
  <2> HIDE DEF kd
  <2> QED BY <2>1, EmptyFacts
<1>2. k0 \in PageTables
  BY EmptyFacts, WithFacts, Constants
<1>3. kt \in PageTables
  <2> HIDE DEF k0
  <2> QED BY <1>0, <1>2, WithFacts, Constants
<1>4. InitialMemory = [free |-> Frames, at |-> at]
  BY DEF InitialMemory
<1> HIDE DEF kd, k0, kt
<1>5. at \in [Phys -> PageTables]
  BY <1>1, <1>3, EmptyFacts
<1>6. at[kernel_pdt] = kd
  BY Constants
<1> HIDE DEF at
<1>7. InitialMemory \in Mem /\ InitialMemory.free = Frames /\ InitialMemory.at[kernel_pdt] = kd
  BY <1>4, <1>5, <1>6 DEF Mem
<1> QED
  BY <1>1, <1>7 DEF KernelTables

LEMMA InitInv == Init => IInv
<1> SUFFICES ASSUME Init PROVE Inv(mem, ps, call, heap, orphans, failed) /\ Counts(running, calls, switches)
  BY DEF IInv
<1>1. /\ mem = InitialMemory /\ ps = [p \in Procs |-> Unused] /\ call = [c \in Callers |-> Idle]
      /\ heap = {} /\ orphans = {} /\ failed = FALSE
  BY DEF Init
<1>2. /\ Unused \in PsTypes /\ Unused.st = "unused" /\ Unused.pdt = 0 /\ Unused.pdt_paddr = 0
      /\ Unused.kernel_stack = 0 /\ Unused.kernel_stack_paddr = 0
  BY Constants DEF Unused, PsTypes
<1>3. /\ Idle \in CallTypes /\ Idle.at = "idle" /\ Idle.paddr = 0 /\ Idle.vaddr = 0 /\ Idle.list = "code"
  BY Constants DEF Idle, CallTypes, Steps, Lists
<1>4. ps \in [Procs -> PsTypes] /\ call \in [Callers -> CallTypes]
  BY <1>1, <1>2, <1>3
<1>5. \A p \in Procs : ps[p] = Unused
  BY <1>1
<1>6. \A c \in Callers : call[c] = Idle
  BY <1>1
<1>7. Hold(Idle) = {}
  BY <1>3 DEF Hold, Block
<1>8. Using(ps) = {}
  BY <1>2, <1>5 DEF Using
<1>9. \A c \in Callers, k \in Kinds :
          Uses(mem, ps, call, heap, orphans)[c][k] = IF c = boot /\ k = "kernel" THEN {kernel_pt} ELSE {}
  <2> SUFFICES ASSUME NEW c \in Callers, NEW k \in Kinds
               PROVE  UseOf(mem, ps, call, heap, orphans, c, k) = IF c = boot /\ k = "kernel" THEN {kernel_pt} ELSE {}
    BY DEF Uses
  <2>1. Hold(call[c]) = {}
    BY <1>6, <1>7
  <2>2. BootUse(mem, heap, orphans, k) = IF k = "kernel" THEN {kernel_pt} ELSE {}
    BY <1>1, InitialFacts DEF BootUse, Kinds
  <2> QED
    BY <2>1, <2>2, <1>8 DEF UseOf
<1>10. Ledger(Uses(mem, ps, call, heap, orphans), mem.free, ~failed)
  <2> DEFINE own == Uses(mem, ps, call, heap, orphans)
  <2>1. mem.free = Frames
    BY <1>1, InitialFacts
  <2>2. kernel_pt \notin Frames
    BY Constants
  <2>3. \A c \in Callers, k \in Kinds : own[c][k] = IF c = boot /\ k = "kernel" THEN {kernel_pt} ELSE {}
    BY <1>9
  <2> SUFFICES Ledger(own, mem.free, ~failed)
    OBVIOUS
  <2> HIDE DEF own
  <2>4. \A c \in Callers, k \in Kinds : own[c][k] \subseteq (IF k = "kernel" THEN Frames \cup {kernel_pt} ELSE Frames)
    BY <2>3
  <2>5. \A c \in Callers, k \in Kinds : own[c][k] \cap mem.free = {}
    BY <2>1, <2>2, <2>3
  <2>6. \A c, d \in Callers, k, l \in Kinds : (c # d \/ k # l) => own[c][k] \cap own[d][l] = {}
    BY <2>3
  <2>7. \A f \in Frames : f \in mem.free
    BY <2>1
  <2> QED
    BY <2>4, <2>5, <2>6, <2>7 DEF Ledger
<1>11. PsMap(mem, ps) /\ CallMap(mem, call)
  BY <1>3, <1>6, <1>8 DEF PsMap, CallMap, CallMapped
<1>12. Shapes(mem, ps, call)
  BY <1>2, <1>3, <1>5, <1>6 DEF Shapes
<1>13. CallOK(Idle, failed)
  <2>1. VIRTUAL_TO_PT_IDX(0) = 0 /\ Size(Idle) = 1
    BY <1>3, PagingAssumption DEF VIRTUAL_TO_PT_IDX, Size
  <2> QED
    BY <1>3, <2>1, Constants DEF CallOK, Holding
<1>14. Calls(ps, call, failed)
  BY <1>2, <1>3, <1>5, <1>6, <1>13 DEF Calls, Paired
<1>15. Counts(running, calls, switches)
  BY Constants, ProcessAssumption DEF Init, Counts
<1> QED
  BY <1>1, <1>4, <1>10, <1>11, <1>12, <1>14, <1>15, InitialFacts DEF Inv

\* The steps of a caller, and what all of them leave alone or count.
CallSteps(c) ==
    \/ pdt_create(c) \/ process_load_pdt(c)
    \/ process_load_code_find(c) \/ process_load_code_map(c) \/ process_load_code_read(c)
    \/ process_load_stack(c)
    \/ process_load_kernel_stack_find(c) \/ process_load_kernel_stack_map(c)
    \/ copy_find(c) \/ copy_map(c) \/ copy_data(c)
    \/ process_copy_file_descriptors(c)

\* The steps of a call count nothing, and what is wild stays wild.
LEMMA CallStepKeeps ==
    ASSUME NEW c \in Callers, CallSteps(c)
    PROVE  /\ running' = running /\ calls' = calls /\ switches' = switches
           /\ ~wild' => ~wild
<1>1. CASE pdt_create(c)
  BY <1>1 DEF pdt_create, Keep
<1>2. CASE process_load_pdt(c)
  BY <1>2 DEF process_load_pdt, Keep, Touch
<1>3. CASE process_load_code_find(c)
  BY <1>3 DEF process_load_code_find, Keep
<1>4. CASE process_load_code_map(c)
  <2>1. Keep /\ (wild' = wild \/ Touch(~Stale(c, CODE_PAGES)))
    BY <1>4 DEF process_load_code_map
  <2>2. CASE wild' = wild
    BY <2>1, <2>2 DEF Keep
  <2>3. CASE wild' # wild
    BY <2>1, <2>3 DEF Keep, Touch
  <2> QED
    BY <2>2, <2>3
<1>5. CASE process_load_code_read(c)
  BY <1>5 DEF process_load_code_read, Keep, Touch
<1>6. CASE process_load_stack(c)
  <2>1. Keep /\ (wild' = wild \/ Touch(ReachesChild(mem, c)))
    BY <1>6 DEF process_load_stack
  <2>2. CASE wild' = wild
    BY <2>1, <2>2 DEF Keep
  <2>3. CASE wild' # wild
    BY <2>1, <2>3 DEF Keep, Touch
  <2> QED
    BY <2>2, <2>3
<1>7. CASE process_load_kernel_stack_find(c)
  BY <1>7 DEF process_load_kernel_stack_find, Keep
<1>8. CASE process_load_kernel_stack_map(c)
  BY <1>8 DEF process_load_kernel_stack_map, Keep
<1>9. CASE copy_find(c)
  BY <1>9 DEF copy_find, Keep
<1>10. CASE copy_map(c)
  <2>1. Keep /\ (wild' = wild \/ Touch(~Stale(c, Count(call[c].list))))
    BY <1>10 DEF copy_map
  <2>2. CASE wild' = wild
    BY <2>1, <2>2 DEF Keep
  <2>3. CASE wild' # wild
    BY <2>1, <2>3 DEF Keep, Touch
  <2> QED
    BY <2>2, <2>3
<1>11. CASE copy_data(c)
  BY <1>11 DEF copy_data, CopyOver, Keep, Touch
<1>12. CASE process_copy_file_descriptors(c)
  BY <1>12 DEF process_copy_file_descriptors, Keep
<1> QED
  BY <1>1, <1>2, <1>3, <1>4, <1>5, <1>6, <1>7, <1>8, <1>9, <1>10, <1>11, <1>12 DEF CallSteps

\* The steps of a call preserve the invariant.
LEMMA CallStepInv ==
    ASSUME Inv(mem, ps, call, heap, orphans, failed), NEW c \in Callers, CallSteps(c), ~wild'
    PROVE  Inv(mem', ps', call', heap', orphans', failed')
<1>1. CASE pdt_create(c)
  BY <1>1, PdtCreateInv
<1>2. CASE process_load_pdt(c)
  BY <1>2, LoadPdtInv
<1>3. CASE process_load_code_find(c)
  BY <1>3, CodeFindInv
<1>4. CASE process_load_code_map(c)
  BY <1>4, CodeMapInv
<1>5. CASE process_load_code_read(c)
  BY <1>5, CodeReadInv
<1>6. CASE process_load_stack(c)
  BY <1>6, LoadStackInv
<1>7. CASE process_load_kernel_stack_find(c)
  BY <1>7, KernelStackFindInv
<1>8. CASE process_load_kernel_stack_map(c)
  BY <1>8, KernelStackMapInv
<1>9. CASE copy_find(c)
  BY <1>9, CopyFindInv
<1>10. CASE copy_map(c)
  BY <1>10, CopyMapInv
<1>11. CASE copy_data(c)
  BY <1>11, CopyDataInv
<1>12. CASE process_copy_file_descriptors(c)
  BY <1>12, DescriptorsInv
<1> QED
  BY <1>1, <1>2, <1>3, <1>4, <1>5, <1>6, <1>7, <1>8, <1>9, <1>10, <1>11, <1>12 DEF CallSteps

\* The next directory is loaded: what is wild stays wild.
LEMMA LoadKeeps ==
    ASSUME NEW m, NEW q \in Callers, NEW state, Load(m, q, state)
    PROVE  running' \in Callers /\ (~wild' => ~wild)
BY DEF Load, Touch

\* The invariant of a state that has not touched foreign memory.
LEMMA Combine ==
    ASSUME Inv(mem', ps', call', heap', orphans', failed') /\ Counts(running', calls', switches')
    PROVE  IInv'
BY DEF IInv

LEMMA NextInv == IInv /\ [Next]_vars => IInv'
<1> SUFFICES ASSUME IInv, [Next]_vars, ~wild' PROVE IInv'
  BY DEF IInv
<1> DEFINE I == Inv(mem, ps, call, heap, orphans, failed)
           C == Counts(running, calls, switches)
           J == Inv(mem', ps', call', heap', orphans', failed')
           D == Counts(running', calls', switches')
<1>0. ~wild => I /\ C
  BY DEF IInv
<1> SUFFICES J /\ D
  BY Combine
<1> HIDE DEF I, J
<1>1. CASE UNCHANGED vars
  <2>1. /\ mem' = mem /\ ps' = ps /\ call' = call /\ calls' = calls /\ switches' = switches /\ running' = running
        /\ heap' = heap /\ orphans' = orphans /\ failed' = failed /\ wild' = wild
    BY <1>1 DEF vars
  <2>2. I /\ C
    BY <1>0, <2>1
  <2> QED
    BY <2>1, <2>2 DEF I, J
<1>2. CASE process_create
  <2>1. /\ Begin(boot, "create") /\ calls' = calls /\ switches' = switches /\ running' = running /\ wild' = wild
    BY <1>2 DEF process_create, Begin
  <2>2. I /\ C
    BY <1>0, <2>1
  <2>3. J
    <3>1. Inv(mem, ps, call, heap, orphans, failed) /\ boot \in Callers /\ "create" \in {"create", "clone", "replace"}
          /\ (IF boot = boot THEN "create" = "create" ELSE boot \in Live)
      BY <2>2, Constants DEF I
    <3> QED
      BY <2>1, <3>1, BeginInv DEF J
  <2> QED
    BY <2>1, <2>2, <2>3
<1>3. CASE create_done
  <2>1. /\ calls' = calls /\ switches' = switches /\ running' = call[boot].child
        /\ \E s : Load(mem, running', s)
    BY <1>3 DEF create_done, Child, Load
  <2>2. ~wild
    BY <1>3 DEF create_done, Load, Touch
  <2>3. I /\ C
    BY <1>0, <2>2
  <2>4. running' \in Callers
    BY <2>1, <2>3, Constants DEF I, Inv, CallTypes
  <2>5. J
    BY <1>3, <2>3, CreateDoneInv DEF I, J
  <2> QED
    BY <2>1, <2>3, <2>4, <2>5 DEF Counts
<1>4. CASE heap_grows
  <2>1. calls' = calls /\ switches' = switches /\ running' = running
    BY <1>4 DEF heap_grows
  <2>2. ~wild
    BY <1>4 DEF heap_grows, Touch
  <2>3. I /\ C
    BY <1>0, <2>2
  <2>4. J
    BY <1>4, <2>3, HeapGrowsInv DEF I, J
  <2> QED
    BY <2>1, <2>3, <2>4
<1>5. ASSUME NEW c \in Callers, NEW op \in {"clone", "replace"}, Syscall(c, op)
      PROVE  J /\ D
  <2>1. /\ Begin(c, op) /\ c \in Live /\ calls < MAX_CALLS /\ calls' = calls + 1
        /\ switches' = switches /\ running' = running /\ wild' = wild
    BY <1>5 DEF Syscall, Begin
  <2>2. I /\ C
    BY <1>0, <2>1
  <2>3. c # boot
    BY <2>1, Constants DEF Live
  <2>4. J
    <3>1. Inv(mem, ps, call, heap, orphans, failed) /\ op \in {"create", "clone", "replace"}
          /\ (IF c = boot THEN op = "create" ELSE c \in Live)
      BY <2>1, <2>2, <2>3 DEF I
    <3> QED
      BY <2>1, <3>1, BeginInv DEF J
  <2> QED
    BY <2>1, <2>2, <2>4, ProcessAssumption DEF Counts
<1>6. ASSUME NEW c \in Callers, CallSteps(c)
      PROVE  J /\ D
  <2>1. running' = running /\ calls' = calls /\ switches' = switches /\ ~wild
    BY <1>6, CallStepKeeps
  <2>2. I /\ C
    BY <1>0, <2>1
  <2>3. J
    BY <1>6, <2>2, CallStepInv DEF I, J
  <2> QED
    BY <2>1, <2>2, <2>3
<1>7. ASSUME NEW c \in Callers, process_delete_and_free(c)
      PROVE  J /\ D
  <2>1. running' = running /\ calls' = calls /\ switches' = switches /\ wild' = wild
    BY <1>7 DEF process_delete_and_free
  <2>2. I /\ C
    BY <1>0, <2>1
  <2>3. J
    BY <1>7, <2>2, DeleteInv DEF I, J
  <2> QED
    BY <2>1, <2>2, <2>3
<1>8. ASSUME NEW c \in Callers, fork_done(c)
      PROVE  J /\ D
  <2>1. running' = running /\ calls' = calls /\ switches' = switches /\ wild' = wild
    BY <1>8 DEF fork_done, Keep
  <2>2. I /\ C
    BY <1>0, <2>1
  <2>3. J
    BY <1>8, <2>2, ForkDoneInv DEF I, J
  <2> QED
    BY <2>1, <2>2, <2>3
<1>9. ASSUME NEW c \in Callers, execve_done(c)
      PROVE  J /\ D
  <2>1. calls' = calls /\ switches' = switches /\ \E q \in Procs : \E m, s : Load(m, q, s)
    BY <1>9 DEF execve_done
  <2>2. running' \in Callers /\ ~wild
    BY <2>1, LoadKeeps, Constants
  <2>3. I /\ C
    BY <1>0, <2>2
  <2>4. J
    BY <1>9, <2>3, ExecveDoneInv DEF I, J
  <2> QED
    BY <2>1, <2>2, <2>3, <2>4 DEF Counts
<1>10. ASSUME NEW c \in Callers, sys_exit(c)
      PROVE  J /\ D
  <2>1. /\ calls' = calls /\ switches' = switches
        /\ \/ \E q \in Procs : \E m, s : Load(m, q, s)
           \/ running' = running /\ wild' = wild
    BY <1>10 DEF sys_exit, Live
  <2>2. ~wild
    BY <2>1, LoadKeeps, Constants
  <2>3. I /\ C
    BY <1>0, <2>2
  <2>4. running' \in Callers
    BY <2>1, <2>3, LoadKeeps, Constants DEF Counts
  <2>5. J
    BY <1>10, <2>3, SysExitInv DEF I, J
  <2> QED
    BY <2>1, <2>3, <2>4, <2>5 DEF Counts
<1>11. ASSUME NEW q \in Callers, scheduler_schedule(q)
      PROVE  J /\ D
  <2>1. /\ calls' = calls /\ switches < MAX_SWITCHES /\ switches' = switches + 1 /\ Load(mem, q, ps)
    BY <1>11 DEF scheduler_schedule
  <2>2. running' \in Callers /\ ~wild
    BY <2>1, LoadKeeps
  <2>3. I /\ C
    BY <1>0, <2>2
  <2>4. J
    BY <1>11, <2>3, ScheduleInv DEF I, J
  <2> QED
    BY <2>1, <2>2, <2>3, <2>4, ProcessAssumption DEF Counts
<1>12. \/ UNCHANGED vars \/ process_create \/ create_done \/ heap_grows
       \/ \E c \in Callers : \/ \E op \in {"clone", "replace"} : Syscall(c, op)
                             \/ CallSteps(c) \/ process_delete_and_free(c) \/ fork_done(c)
                             \/ execve_done(c) \/ sys_exit(c) \/ scheduler_schedule(c)
  BY DEF Next, CallSteps, process_clone, process_create_replacement
<1> QED
  BY <1>1, <1>2, <1>3, <1>4, <1>5, <1>6, <1>7, <1>8, <1>9, <1>10, <1>11, <1>12

\* The inductive invariant of the memory of processes: until the kernel touches memory
\* that is not its own, every page frame is free or on one account, the kernel's pages
\* map what structs and calls say, directories are as far as their loading has come,
\* and a struct is loaded by one call.
THEOREM Invariance == Spec => []IInv
BY InitInv, NextInv, PTL DEF Spec

-----------------------------------------------------------------------------
(***************************************************************************)
(* What the invariant says of the properties.                              *)
(***************************************************************************)
LEMMA InvTypeOK == IInv => TypeOK
<1> SUFFICES ASSUME IInv, ~wild PROVE TypeOK
  BY DEF TypeOK
<1>1. Inv(mem, ps, call, heap, orphans, failed) /\ Counts(running, calls, switches)
  BY DEF IInv
<1>2. mem \in Mem /\ heap \subseteq Frames /\ orphans \subseteq Frames
  BY <1>1 DEF Inv
<1>3. ps \in [Procs -> PsTypes] /\ call \in [Callers -> CallTypes]
  BY <1>1 DEF Inv
<1>4. mem.free \subseteq Frames /\ \A f \in Phys : mem.at[f] \in PageTables
  BY <1>2 DEF Mem
<1>5. \A f \in Phys : DOMAIN mem.at[f] \subseteq Entries /\ \A i \in DOMAIN mem.at[f] : mem.at[f][i] \in Phys
  BY <1>4, TableFacts
<1> QED
  BY <1>1, <1>2, <1>3, <1>4, <1>5 DEF TypeOK, PsTypes, CallTypes, Counts

\* The types of the memory, the structs and the calls, until the kernel touches foreign
\* memory: what is free is a page frame of the allocator, and entries point to memory
\* there is.
THEOREM TypeCorrect == Spec => []TypeOK
BY Invariance, InvTypeOK, PTL

LEMMA InvKernelMapped == IInv => KernelMapped
<1> SUFFICES ASSUME IInv, ~wild, NEW p \in InUse
             PROVE  /\ ps[p].pdt # 0 => Translate(mem, kernel_pdt, ps[p].pdt) = ps[p].pdt_paddr
                    /\ ps[p].kernel_stack # 0 =>
                          Translate(mem, kernel_pdt, ps[p].kernel_stack) = ps[p].kernel_stack_paddr
  BY DEF KernelMapped
<1>1. PsMap(mem, ps)
  BY DEF IInv, Inv
<1>2. p \in Using(ps)
  BY DEF InUse, Using
<1> QED
  BY <1>1, <1>2 DEF PsMap, PsMapped

\* The kernel finds the directory and the kernel stack of every process at the pages the
\* struct names, whatever the other calls have found, mapped and unmapped meanwhile.
THEOREM KernelFindsProcesses == Spec => []KernelMapped
BY Invariance, InvKernelMapped, PTL

\* The account of the kind k of the caller c.
Account(c, k) == Uses(mem, ps, call, heap, orphans)[c][k]

\* The ledger, said of the accounts.
LEMMA Accounts ==
    ASSUME Inv(mem, ps, call, heap, orphans, failed)
    PROVE  /\ \A c \in Callers, k \in Kinds : Account(c, k) \cap mem.free = {} /\ 0 \notin Account(c, k)
           /\ \A c, d \in Callers, k, l \in Kinds : (c # d \/ k # l) => Account(c, k) \cap Account(d, l) = {}
           /\ ~failed => \A f \in Frames : f \in mem.free \/ \E c \in Callers, k \in Kinds : f \in Account(c, k)
<1> DEFINE own == Uses(mem, ps, call, heap, orphans)
<1>1. Ledger(own, mem.free, ~failed)
  BY DEF Inv
<1>2. \A c \in Callers, k \in Kinds : Account(c, k) = own[c][k]
  BY DEF Account
<1> HIDE DEF own
<1>3. \A c \in Callers, k \in Kinds : own[c][k] \subseteq Frames \cup {kernel_pt} /\ own[c][k] \cap mem.free = {}
  BY <1>1 DEF Ledger
<1>4. 0 \notin Frames \cup {kernel_pt}
  BY Constants
<1>5. \A c, d \in Callers, k, l \in Kinds : (c # d \/ k # l) => own[c][k] \cap own[d][l] = {}
  BY <1>1 DEF Ledger
<1>6. ~failed => \A f \in Frames : f \in mem.free \/ \E c \in Callers, k \in Kinds : f \in own[c][k]
  BY <1>1 DEF Ledger
<1>7. \A c \in Callers, k \in Kinds : Account(c, k) \cap mem.free = {} /\ 0 \notin Account(c, k)
  BY <1>2, <1>3, <1>4
<1>8. \A c, d \in Callers, k, l \in Kinds : (c # d \/ k # l) => Account(c, k) \cap Account(d, l) = {}
  BY <1>2, <1>5
<1>9. ~failed => \A f \in Frames : f \in mem.free \/ \E c \in Callers, k \in Kinds : f \in Account(c, k)
  BY <1>2, <1>6
<1> QED
  BY <1>7, <1>8, <1>9

\* The structs in use, and what they and the calls have in their accounts.
LEMMA AccountsAre ==
    /\ InUse = Using(ps) /\ InUse \subseteq Procs /\ InUse \subseteq Callers /\ boot \in Callers
    /\ \A p \in InUse : /\ Account(p, "pdt") = Block(ps[p].pdt_paddr, 1)
                        /\ Account(p, "kernel_stack") = Block(ps[p].kernel_stack_paddr, 1)
                        /\ Account(p, "stack") = Block(ps[p].stack, 1)
                        /\ Account(p, "code") = Block(ps[p].code, CODE_PAGES)
                        /\ Account(p, "table") = UserTables(p)
    /\ \A c \in Callers : Account(c, "call") = Block(call[c].paddr, PagesOf(c))
    /\ Account(boot, "heap") = heap /\ Account(boot, "orphan") = orphans
    /\ Account(boot, "kernel") = {mem.at[kernel_pdt][d] : d \in DOMAIN mem.at[kernel_pdt]}
<1>1. InUse = Using(ps) /\ InUse \subseteq Procs /\ InUse \subseteq Callers /\ boot \in Callers
  BY Constants DEF InUse, Using
<1>2. \A p \in InUse : /\ Account(p, "pdt") = Block(ps[p].pdt_paddr, 1)
                       /\ Account(p, "kernel_stack") = Block(ps[p].kernel_stack_paddr, 1)
                       /\ Account(p, "stack") = Block(ps[p].stack, 1)
                       /\ Account(p, "code") = Block(ps[p].code, CODE_PAGES)
                       /\ Account(p, "table") = Tables(mem, ps[p].pdt_paddr)
  BY <1>1, UsesIs DEF Account
<1>3. \A p \in InUse : Tables(mem, ps[p].pdt_paddr) = UserTables(p)
  BY DeletedIs
<1>4. \A c \in Callers : PagesOf(c) = Size(call[c])
  BY DEF PagesOf, Size
<1>5. \A c \in Callers : Account(c, "call") = Block(call[c].paddr, Size(call[c]))
  BY UsesIs DEF Account, Hold
<1>6. /\ Account(boot, "heap") = heap /\ Account(boot, "orphan") = orphans
      /\ Account(boot, "kernel") = KernelTables(mem)
  BY UsesIs DEF Account
<1> QED
  BY <1>1, <1>2, <1>3, <1>4, <1>5, <1>6 DEF KernelTables

\* No other accounts have frames.
LEMMA OtherAccounts ==
    ASSUME NEW c \in Callers, NEW k \in Kinds, Account(c, k) # {}
    PROVE  \/ c \in InUse /\ k \in PsKinds
           \/ k = "call"
           \/ c = boot /\ k \in {"heap", "kernel", "orphan"}
<1>1. Account(c, k) = UseOf(mem, ps, call, heap, orphans, c, k)
  BY UsesAt DEF Account
<1>2. c = boot /\ k # "call" => k \in {"heap", "kernel", "orphan"}
  BY <1>1 DEF UseOf, BootUse
<1>3. c # boot /\ k # "call" => c \in Using(ps) /\ PsUse(mem, ps[c], k) # {}
  BY <1>1 DEF UseOf
<1>4. PsUse(mem, ps[c], k) # {} => k \in PsKinds
  <2> SUFFICES ASSUME k \notin PsKinds PROVE PsUse(mem, ps[c], k) = {}
    OBVIOUS
  <2> QED
    BY DEF PsUse, PsKinds
<1>5. InUse = Using(ps)
  BY AccountsAre
<1> QED
  BY <1>2, <1>3, <1>4, <1>5

\* A claim that holds a frame is in its account.
LEMMA HeldInAccount ==
    ASSUME Inv(mem, ps, call, heap, orphans, failed), NEW a \in Held
    PROVE  \E c \in Callers, k \in Kinds : \E f \in Account(c, k) : a = <<c, k, f>>
<1> DEFINE Goal == \E c \in Callers, k \in Kinds : \E f \in Account(c, k) : a = <<c, k, f>>
<1>1. ps \in [Procs -> PsTypes] /\ call \in [Callers -> CallTypes]
  BY DEF Inv
<1>2. \A p \in InUse : /\ ps[p].pdt_paddr \in Nat /\ ps[p].kernel_stack_paddr \in Nat
                       /\ ps[p].stack \in Nat /\ ps[p].code \in Nat
  BY <1>1, Constants, AccountsAre DEF PsTypes
<1>3. a[3] # 0 /\ a \in Claims
  BY DEF Held
<1>4. /\ "pdt" \in Kinds /\ "kernel_stack" \in Kinds /\ "stack" \in Kinds /\ "code" \in Kinds /\ "table" \in Kinds
      /\ "call" \in Kinds /\ "heap" \in Kinds /\ "kernel" \in Kinds
  BY DEF Kinds
<1>5. ASSUME NEW p \in InUse, a = <<p, "pdt", ps[p].pdt_paddr>> PROVE Goal
  <2>1. ps[p].pdt_paddr \in Account(p, "pdt")
    BY <1>2, <1>3, <1>5, AccountsAre, BlockOne
  <2> QED
    BY <1>4, <1>5, <2>1, AccountsAre
<1>6. ASSUME NEW p \in InUse, a = <<p, "kernel_stack", ps[p].kernel_stack_paddr>> PROVE Goal
  <2>1. ps[p].kernel_stack_paddr \in Account(p, "kernel_stack")
    BY <1>2, <1>3, <1>6, AccountsAre, BlockOne
  <2> QED
    BY <1>4, <1>6, <2>1, AccountsAre
<1>7. ASSUME NEW p \in InUse, a = <<p, "stack", ps[p].stack>> PROVE Goal
  <2>1. ps[p].stack \in Account(p, "stack")
    BY <1>2, <1>3, <1>7, AccountsAre, BlockOne
  <2> QED
    BY <1>4, <1>7, <2>1, AccountsAre
<1>8. ASSUME NEW p \in InUse, NEW i \in 0 .. (CODE_PAGES - 1),
             a = <<p, "code", IF ps[p].code = 0 THEN 0 ELSE ps[p].code + i>> PROVE Goal
  <2>1. ps[p].code # 0 /\ a = <<p, "code", ps[p].code + i>>
    BY <1>3, <1>8
  <2>2. ps[p].code + i \in Block(ps[p].code, CODE_PAGES)
    BY <1>2, <2>1, Constants DEF Block
  <2>3. ps[p].code + i \in Account(p, "code")
    BY <2>2, AccountsAre
  <2> QED
    BY <1>4, <2>1, <2>3, AccountsAre
<1>9. ASSUME NEW p \in InUse, NEW f \in UserTables(p), a = <<p, "table", f>> PROVE Goal
  BY <1>4, <1>9, AccountsAre
<1>10. ASSUME NEW c \in Callers, call[c].paddr # 0, NEW i \in 0 .. (PagesOf(c) - 1),
              a = <<c, "call", call[c].paddr + i>> PROVE Goal
  <2>1. call[c].paddr \in Nat /\ PagesOf(c) \in Nat
    BY <1>1, Constants DEF CallTypes, PagesOf, Count
  <2>2. call[c].paddr + i \in Block(call[c].paddr, PagesOf(c))
    BY <1>10, <2>1 DEF Block
  <2>3. call[c].paddr + i \in Account(c, "call")
    BY <2>2, AccountsAre
  <2> QED
    BY <1>4, <1>10, <2>3
<1>11. ASSUME NEW f \in heap, a = <<boot, "heap", f>> PROVE Goal
  BY <1>4, <1>11, AccountsAre
<1>12. ASSUME NEW d \in DOMAIN mem.at[kernel_pdt], a = <<boot, "kernel", mem.at[kernel_pdt][d]>> PROVE Goal
  <2>1. mem.at[kernel_pdt][d] \in Account(boot, "kernel")
    BY AccountsAre
  <2> QED
    BY <1>4, <1>12, <2>1, AccountsAre
<1> HIDE DEF Goal
<1>13. \/ \E p \in InUse : a = <<p, "pdt", ps[p].pdt_paddr>>
       \/ \E p \in InUse : a = <<p, "kernel_stack", ps[p].kernel_stack_paddr>>
       \/ \E p \in InUse : a = <<p, "stack", ps[p].stack>>
       \/ \E p \in InUse, i \in 0 .. (CODE_PAGES - 1) :
              a = <<p, "code", IF ps[p].code = 0 THEN 0 ELSE ps[p].code + i>>
       \/ \E p \in InUse : \E f \in UserTables(p) : a = <<p, "table", f>>
       \/ \E c \in Callers : call[c].paddr # 0 /\ \E i \in 0 .. (PagesOf(c) - 1) : a = <<c, "call", call[c].paddr + i>>
       \/ \E f \in heap : a = <<boot, "heap", f>>
       \/ \E d \in DOMAIN mem.at[kernel_pdt] : a = <<boot, "kernel", mem.at[kernel_pdt][d]>>
  <2> DEFINE S1 == {<<p, "pdt", ps[p].pdt_paddr>> : p \in InUse}
             S2 == {<<p, "kernel_stack", ps[p].kernel_stack_paddr>> : p \in InUse}
             S3 == {<<p, "stack", ps[p].stack>> : p \in InUse}
             S4 == UNION {{<<p, "code", IF ps[p].code = 0 THEN 0 ELSE ps[p].code + i>> :
                              i \in 0 .. (CODE_PAGES - 1)} : p \in InUse}
             S5 == UNION {{<<p, "table", f>> : f \in UserTables(p)} : p \in InUse}
             S6 == UNION {{<<c, "call", call[c].paddr + i>> : i \in 0 .. (PagesOf(c) - 1)} :
                              c \in {d \in Callers : call[d].paddr # 0}}
             S7 == {<<boot, "heap", f>> : f \in heap}
             S8 == {<<boot, "kernel", mem.at[kernel_pdt][d]>> : d \in DOMAIN mem.at[kernel_pdt]}
  <2>1. a \in S1 \cup S2 \cup S3 \cup S4 \cup S5 \cup S6 \cup S7 \cup S8
    BY <1>3, Zenon DEF Claims
  <2>2. a \in S4 => \E p \in InUse, i \in 0 .. (CODE_PAGES - 1) :
              a = <<p, "code", IF ps[p].code = 0 THEN 0 ELSE ps[p].code + i>>
    OBVIOUS
  <2>3. a \in S5 => \E p \in InUse : \E f \in UserTables(p) : a = <<p, "table", f>>
    OBVIOUS
  <2>4. a \in S6 => \E c \in Callers : call[c].paddr # 0 /\ \E i \in 0 .. (PagesOf(c) - 1) : a = <<c, "call", call[c].paddr + i>>
    OBVIOUS
  <2>5. /\ a \in S1 => \E p \in InUse : a = <<p, "pdt", ps[p].pdt_paddr>>
        /\ a \in S2 => \E p \in InUse : a = <<p, "kernel_stack", ps[p].kernel_stack_paddr>>
        /\ a \in S3 => \E p \in InUse : a = <<p, "stack", ps[p].stack>>
        /\ a \in S7 => \E f \in heap : a = <<boot, "heap", f>>
        /\ a \in S8 => \E d \in DOMAIN mem.at[kernel_pdt] : a = <<boot, "kernel", mem.at[kernel_pdt][d]>>
    OBVIOUS
  <2> HIDE DEF S1, S2, S3, S4, S5, S6, S7, S8
  <2>6. a \in S1 \/ a \in S2 \/ a \in S3 \/ a \in S4 \/ a \in S5 \/ a \in S6 \/ a \in S7 \/ a \in S8
    BY <2>1
  <2> QED
    BY <2>2, <2>3, <2>4, <2>5, <2>6
<1>14. Goal
  BY <1>5, <1>6, <1>7, <1>8, <1>9, <1>10, <1>11, <1>12, <1>13
<1> QED
  BY <1>14 DEF Goal

\* A frame of an account is held by a claim, unless it is lost.
LEMMA AccountHeld ==
    ASSUME Inv(mem, ps, call, heap, orphans, failed), NEW c \in Callers, NEW k \in Kinds, k # "orphan",
           NEW f \in Account(c, k)
    PROVE  <<c, k, f>> \in Held
<1> DEFINE a == <<c, k, f>>
           S1 == {<<p, "pdt", ps[p].pdt_paddr>> : p \in InUse}
           S2 == {<<p, "kernel_stack", ps[p].kernel_stack_paddr>> : p \in InUse}
           S3 == {<<p, "stack", ps[p].stack>> : p \in InUse}
           S4 == UNION {{<<p, "code", IF ps[p].code = 0 THEN 0 ELSE ps[p].code + i>> :
                            i \in 0 .. (CODE_PAGES - 1)} : p \in InUse}
           S5 == UNION {{<<p, "table", g>> : g \in UserTables(p)} : p \in InUse}
           S6 == UNION {{<<d, "call", call[d].paddr + i>> : i \in 0 .. (PagesOf(d) - 1)} :
                            d \in {e \in Callers : call[e].paddr # 0}}
           S7 == {<<boot, "heap", g>> : g \in heap}
           S8 == {<<boot, "kernel", mem.at[kernel_pdt][d]>> : d \in DOMAIN mem.at[kernel_pdt]}
           S == S1 \cup S2 \cup S3 \cup S4 \cup S5 \cup S6 \cup S7 \cup S8
<1>1. f # 0
  BY Accounts
<1>2. Claims = S
  BY Zenon DEF Claims
<1> SUFFICES a \in S
  BY <1>1, <1>2 DEF Held
<1>3. ps \in [Procs -> PsTypes] /\ call \in [Callers -> CallTypes]
  BY DEF Inv
<1>4. \A p \in InUse : /\ ps[p].pdt_paddr \in Nat /\ ps[p].kernel_stack_paddr \in Nat
                       /\ ps[p].stack \in Nat /\ ps[p].code \in Nat
  BY <1>3, Constants, AccountsAre DEF PsTypes
<1>5. CASE c \in InUse /\ k = "pdt"
  <2>1. f = ps[c].pdt_paddr
    BY <1>4, <1>5, AccountsAre DEF Block
  <2>2. a \in S1
    BY <1>5, <2>1
  <2> QED BY <2>2
<1>6. CASE c \in InUse /\ k = "kernel_stack"
  <2>1. f = ps[c].kernel_stack_paddr
    BY <1>4, <1>6, AccountsAre DEF Block
  <2>2. a \in S2
    BY <1>6, <2>1
  <2> QED BY <2>2
<1>7. CASE c \in InUse /\ k = "stack"
  <2>1. f = ps[c].stack
    BY <1>4, <1>7, AccountsAre DEF Block
  <2>2. a \in S3
    BY <1>7, <2>1
  <2> QED BY <2>2
<1>8. CASE c \in InUse /\ k = "code"
  <2>1. ps[c].code # 0 /\ f \in ps[c].code .. (ps[c].code + CODE_PAGES - 1)
    BY <1>4, <1>8, AccountsAre DEF Block
  <2>2. f - ps[c].code \in 0 .. (CODE_PAGES - 1) /\ f = ps[c].code + (f - ps[c].code)
    BY <1>4, <1>8, <2>1, Constants
  <2>3. PICK i \in 0 .. (CODE_PAGES - 1) : f = ps[c].code + i
    BY <2>2
  <2>4. a = <<c, "code", IF ps[c].code = 0 THEN 0 ELSE ps[c].code + i>>
    BY <1>8, <2>1, <2>3
  <2>5. a \in S4
    BY <1>8, <2>4
  <2> QED BY <2>5
<1>9. CASE c \in InUse /\ k = "table"
  <2>1. f \in UserTables(c)
    BY <1>9, AccountsAre
  <2>2. a \in S5
    BY <1>9, <2>1
  <2> QED BY <2>2
<1>10. CASE k = "call"
  <2>0. Account(c, "call") = Block(call[c].paddr, PagesOf(c)) /\ call[c].paddr \in Nat /\ PagesOf(c) \in Nat
    BY <1>3, AccountsAre, Constants DEF CallTypes, PagesOf, Count
  <2>1. call[c].paddr # 0 /\ f \in call[c].paddr .. (call[c].paddr + PagesOf(c) - 1)
    BY <1>10, <2>0 DEF Block
  <2>2. f - call[c].paddr \in 0 .. (PagesOf(c) - 1) /\ f = call[c].paddr + (f - call[c].paddr)
    BY <2>0, <2>1
  <2>3. PICK i \in 0 .. (PagesOf(c) - 1) : f = call[c].paddr + i
    BY <2>2
  <2>4. a = <<c, "call", call[c].paddr + i>>
    BY <1>10, <2>3
  <2>5. a \in S6
    BY <2>1, <2>4
  <2> QED BY <2>5
<1>11. CASE c = boot /\ k = "heap"
  <2>1. f \in heap
    BY <1>11, AccountsAre
  <2>2. a \in S7
    BY <1>11, <2>1
  <2> QED BY <2>2
<1>12. CASE c = boot /\ k = "kernel"
  <2>1. PICK d \in DOMAIN mem.at[kernel_pdt] : f = mem.at[kernel_pdt][d]
    BY <1>12, AccountsAre
  <2>2. a \in S8
    BY <1>12, <2>1
  <2> QED BY <2>2
<1> HIDE DEF S, a
<1>13. \/ c \in InUse /\ k \in PsKinds
       \/ k = "call"
       \/ c = boot /\ k \in {"heap", "kernel", "orphan"}
  BY OtherAccounts
<1> QED
  BY <1>5, <1>6, <1>7, <1>8, <1>9, <1>10, <1>11, <1>12, <1>13 DEF PsKinds

LEMMA InvOneUse == IInv => OneUse
<1> SUFFICES ASSUME IInv, ~wild
             PROVE  /\ \A a, b \in Held : a[3] = b[3] => a = b
                    /\ \A a \in Held : a[3] \notin mem.free
  BY DEF OneUse
<1>1. Inv(mem, ps, call, heap, orphans, failed)
  BY DEF IInv
<1>2. ASSUME NEW a \in Held, NEW b \in Held, a[3] = b[3] PROVE a = b
  <2>1. PICK c \in Callers, k \in Kinds : \E f \in Account(c, k) : a = <<c, k, f>>
    BY <1>1, HeldInAccount
  <2>2. PICK f \in Account(c, k) : a = <<c, k, f>>
    BY <2>1
  <2>3. PICK d \in Callers, l \in Kinds : \E g \in Account(d, l) : b = <<d, l, g>>
    BY <1>1, HeldInAccount
  <2>4. PICK g \in Account(d, l) : b = <<d, l, g>>
    BY <2>3
  <2>5. f = g
    BY <1>2, <2>2, <2>4
  <2>6. c = d /\ k = l
    BY <1>1, <2>5, Accounts
  <2> QED
    BY <2>2, <2>4, <2>5, <2>6
<1>3. ASSUME NEW a \in Held PROVE a[3] \notin mem.free
  <2>1. PICK c \in Callers, k \in Kinds : \E f \in Account(c, k) : a = <<c, k, f>>
    BY <1>1, HeldInAccount
  <2>2. PICK f \in Account(c, k) : a = <<c, k, f>>
    BY <2>1
  <2>3. a[3] = f
    BY <2>2
  <2> QED
    BY <1>1, <2>3, Accounts
<1> QED
  BY <1>2, <1>3

\* A page frame has one use until the kernel goes wild: however the calls of processes
\* interleave and wherever one fails, but for the mapping of a fork (process.c:451), no two
\* directories, tables, stacks or programs share a frame, and none is free.
THEOREM FramesHaveOneUse == Spec => []OneUse
BY Invariance, InvOneUse, PTL

LEMMA InvOnlyTablesLost == IInv => OnlyTablesLost
<1> SUFFICES ASSUME IInv, ~wild, ~failed
             PROVE  Frames \ mem.free = ({a[3] : a \in Held} \cap Frames) \cup orphans
  BY DEF OnlyTablesLost
<1>1. Inv(mem, ps, call, heap, orphans, failed)
  BY DEF IInv
<1>2. orphans \subseteq Frames
  BY <1>1 DEF Inv
<1>3. ASSUME NEW f \in Frames, f \notin mem.free, f \notin orphans PROVE \E a \in Held : f = a[3]
  <2>1. PICK c \in Callers, k \in Kinds : f \in Account(c, k)
    BY <1>1, <1>3, Accounts
  <2>2. k # "orphan"
    <3> SUFFICES ASSUME k = "orphan" PROVE FALSE
      OBVIOUS
    <3>1. c = boot
      BY <2>1, OtherAccounts DEF PsKinds
    <3> QED
      BY <1>3, <2>1, <3>1, AccountsAre
  <2>3. <<c, k, f>> \in Held
    BY <1>1, <2>1, <2>2, AccountHeld
  <2> QED
    BY <2>3
<1>4. ASSUME NEW a \in Held PROVE a[3] \notin mem.free
  BY <1>4, InvOneUse DEF OneUse
<1>5. ASSUME NEW f \in orphans PROVE f \notin mem.free
  <2>1. f \in Account(boot, "orphan") /\ boot \in Callers /\ "orphan" \in Kinds
    <3>1. Account(boot, "orphan") = orphans /\ boot \in Callers
      BY AccountsAre, Zenon
    <3> QED
      BY <3>1, Zenon DEF Kinds
  <2> QED
    BY <1>1, <2>1, Accounts
<1> QED
  BY <1>2, <1>3, <1>4, <1>5

\* As long as no call has failed the page tables of deleted processes are all that is
\* lost: every other frame is free or in use.
THEOREM NothingElseIsLost == Spec => []OnlyTablesLost
BY Invariance, InvOnlyTablesLost, PTL

\* What a table of consecutive frames leads to.
LEMMA TableImage ==
    ASSUME NEW t, NEW a \in Nat, NEW k \in Nat, DOMAIN t = 0 .. (k - 1), \A i \in DOMAIN t : t[i] = a + i
    PROVE  {t[i] : i \in DOMAIN t} = a .. (a + k - 1)
<1>1. ASSUME NEW x \in {t[i] : i \in DOMAIN t} PROVE x \in a .. (a + k - 1)
  BY <1>1
<1>2. ASSUME NEW x \in a .. (a + k - 1) PROVE x \in {t[i] : i \in DOMAIN t}
  <2>1. x - a \in 0 .. (k - 1) /\ x = a + (x - a)
    OBVIOUS
  <2> QED
    BY <2>1
<1> QED
  BY <1>1, <1>2

LEMMA InvIsolation == IInv => Isolation
<1> SUFFICES ASSUME IInv, ~wild, NEW p \in Live
             PROVE  UNION {{mem.at[pt][i] : i \in DOMAIN mem.at[pt]} : pt \in UserTables(p)}
                        = (ps[p].code .. (ps[p].code + CODE_PAGES - 1)) \cup {ps[p].stack}
  BY DEF Isolation
<1> DEFINE pdt == ps[p].pdt_paddr
           L == KERNEL_PDT_IDX - 1
           pc == mem.at[pdt][0]
           pk == mem.at[pdt][L]
           at(pt) == {mem.at[pt][i] : i \in DOMAIN mem.at[pt]}
<1>1. p \in Procs /\ ps[p].st = "live" /\ Inv(mem, ps, call, heap, orphans, failed)
  BY DEF Live, IInv
<1>2. ps[p].code \in Nat /\ ps[p].stack \in Nat
  BY <1>1, Constants DEF Inv, PsTypes
<1>3. Shape(mem, ps[p], 4)
  BY <1>1 DEF Inv, Shapes
<1>4. pdt # 0 /\ UserHalf(mem, pdt) = {0} \cup {L}
  <2>1. 4 >= 1 /\ 4 >= 2 /\ 4 >= 3
    OBVIOUS
  <2>2. /\ pdt # 0
        /\ UserHalf(mem, pdt) = (IF 4 >= 2 THEN {0} ELSE {}) \cup (IF 4 >= 3 THEN {KERNEL_PDT_IDX - 1} ELSE {})
    BY <1>3, <2>1, Zenon DEF Shape
  <2> QED
    BY <2>1, <2>2, Zenon
<1>5. DOMAIN mem.at[pc] = 0 .. (CODE_PAGES - 1) /\ \A i \in DOMAIN mem.at[pc] : mem.at[pc][i] = ps[p].code + i
  <2>1. 4 >= 2
    BY SMTT(30)
  <2> QED
    BY <1>3, <2>1, Zenon DEF Shape
<1>6. DOMAIN mem.at[pk] = {NUM_ENTRIES - 1} /\ \A i \in DOMAIN mem.at[pk] : mem.at[pk][i] = ps[p].stack
  <2>1. LET t == mem.at[mem.at[ps[p].pdt_paddr][KERNEL_PDT_IDX - 1]]
        IN  DOMAIN t = {NUM_ENTRIES - 1} /\ \A i \in DOMAIN t : t[i] = ps[p].stack
    <3>1. 4 >= 3
      OBVIOUS
    <3> QED BY <1>3, <3>1, Zenon DEF Shape
  <2> QED
    BY <2>1
<1>7. UserTables(p) = {mem.at[pdt][d] : d \in UserHalf(mem, pdt)}
  BY <1>4 DEF UserTables, UserHalf
<1>8. UserTables(p) = {pc, pk}
  <2> DEFINE H == UserHalf(mem, pdt)
  <2>1. H = {0} \cup {L} /\ UserTables(p) = {mem.at[pdt][d] : d \in H}
    BY <1>4, <1>7
  <2> HIDE DEF H
  <2> QED
    BY <2>1
<1>9. at(pc) = ps[p].code .. (ps[p].code + CODE_PAGES - 1)
  <2> DEFINE t == mem.at[pc]
             a == ps[p].code
             k == CODE_PAGES
  <2>1. a \in Nat /\ k \in Nat /\ DOMAIN t = 0 .. (k - 1) /\ \A i \in DOMAIN t : t[i] = a + i
    BY <1>2, <1>5, Constants, Zenon
  <2> HIDE DEF t, a, k
  <2>2. {t[i] : i \in DOMAIN t} = a .. (a + k - 1)
    BY <2>1, TableImage, Zenon
  <2> QED
    BY <2>2, Zenon DEF t, a, k
<1>10. at(pk) = {ps[p].stack}
  BY <1>6, Zenon
<1>11. UNION {at(pt) : pt \in {pc, pk}} = at(pc) \cup at(pk)
  <2> HIDE DEF pc, pk, at
  <2> QED OBVIOUS
<1>12. UNION {{mem.at[pt][i] : i \in DOMAIN mem.at[pt]} : pt \in UserTables(p)} = UNION {at(pt) : pt \in {pc, pk}}
  BY <1>8, Zenon
<1> QED
  BY <1>9, <1>10, <1>11, <1>12, Zenon

\* A process that has been loaded reaches its own code and its own stack below the kernel,
\* all of it and nothing else.
THEOREM ProcessesAreIsolated == Spec => []Isolation
BY Invariance, InvIsolation, PTL
=============================================================================
