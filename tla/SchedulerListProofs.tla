------------------------- MODULE SchedulerListProofs -------------------------
(***************************************************************************)
(* Proofs about the run queue of Scheduler, for every finite set of        *)
(* processes: as long as no reschedule strikes the boot thread or the      *)
(* stores of scheduler_add_process, the queue is a well formed list that   *)
(* loses nobody.                                                           *)
(***************************************************************************)
EXTENDS SchedulerProofs, WellFoundedInduction, FiniteSetTheorems

-----------------------------------------------------------------------------
(***************************************************************************)
(* Lists.                                                                  *)
(***************************************************************************)
Members(q, n) == {q[i] : i \in 1..n}

Injective(q, n) == \A i, j \in 1..n : q[i] = q[j] => i = j

\* The fields of L spell the n elements of q, and its end is at position e.
Chain(L, q, n, e) ==
    /\ L.start = IF n = 0 THEN NULL ELSE q[1]
    /\ \A i \in 1..n : L.next[q[i]] = IF i = n THEN NULL ELSE q[i + 1]
    /\ L.end = IF e = 0 THEN NULL ELSE q[e]

\* L is a list of the processes Q.
Listed(L, Q) ==
    \E n \in Nat : \E q \in [1..n -> Ps] :
        Injective(q, n) /\ Chain(L, q, n, n) /\ Q = Members(q, n)

\* p is linked behind the other processes of Q, but the end of L is not set yet.
HalfListed(L, Q, p) ==
    \E n \in Nat : \E q \in [1..n -> Ps] :
        /\ Injective(q, n) /\ n >= 1 /\ Chain(L, q, n, n - 1)
        /\ Q = Members(q, n) /\ q[n] = p

\* What a walk over L visits.
Reach(L) == {p \in Ps : \A S \in SUBSET Ps :
                (/\ L.start \in S \cup {NULL}
                 /\ \A r \in S : L.next[r] \in S \cup {NULL}) => p \in S}

\* Every set of natural numbers has a smallest element.
LEMMA Smallest ==
    ASSUME NEW T \in SUBSET Nat, T # {}
    PROVE  \E n \in T : \A m \in T : n <= m
<1> DEFINE R == OpToRel(<, Nat)
<1>1. \A m, n \in Nat : m < n => <<m, n>> \in R
  BY DEF OpToRel
<1>2. IsWellFoundedOn(R, Nat)
  BY NatLessThanWellFounded
<1> HIDE DEF R
<1>3. PICK n \in T : \A m \in T : ~(<<m, n>> \in R)
  BY <1>2, WFMin
<1>4. \A m \in T : ~(m < n)
  BY <1>1, <1>3
<1>5. \A m \in T : n <= m
  BY <1>4
<1> QED
  BY <1>5

\* A list has a first element if and only if it is not empty.
LEMMA ListedStart ==
    ASSUME NEW L, NEW Q, Listed(L, Q)
    PROVE  /\ Q \subseteq Ps
           /\ L.start = NULL <=> Q = {}
           /\ L.start # NULL => L.start \in Q
<1>1. PICK n \in Nat : \E q \in [1..n -> Ps] :
          Injective(q, n) /\ Chain(L, q, n, n) /\ Q = Members(q, n)
  BY DEF Listed
<1>2. PICK q \in [1..n -> Ps] : Chain(L, q, n, n) /\ Q = Members(q, n)
  BY <1>1
<1>3. CASE n = 0
  BY <1>2, <1>3 DEF Chain, Members
<1>4. CASE n # 0
  <2>1. 1 \in 1..n
    BY <1>4
  <2>2. L.start = q[1] /\ q[1] \in Ps /\ q[1] \in Q
    BY <1>2, <1>4, <2>1 DEF Chain, Members
  <2> QED
    BY <1>2, <2>2, NULLAssumption DEF Members
<1> QED
  BY <1>3, <1>4

\* The walks over a list of Q, complete or not, visit Q.
LEMMA ChainReach ==
    ASSUME NEW L, NEW n \in Nat, NEW q \in [1..n -> Ps], NEW e, Chain(L, q, n, e)
    PROVE  Reach(L) = Members(q, n)
<1> DEFINE Walk(S) == /\ L.start \in S \cup {NULL}
                      /\ \A r \in S : L.next[r] \in S \cup {NULL}
<1>1. Reach(L) \subseteq Members(q, n)
  <2>1. Members(q, n) \in SUBSET Ps
    BY DEF Members
  <2>2. Walk(Members(q, n))
    <3>1. L.start \in Members(q, n) \cup {NULL}
      BY DEF Chain, Members
    <3>2. ASSUME NEW r \in Members(q, n) PROVE L.next[r] \in Members(q, n) \cup {NULL}
      <4>1. PICK i \in 1..n : r = q[i]
        BY DEF Members
      <4>2. CASE i = n
        BY <4>1, <4>2 DEF Chain
      <4>3. CASE i # n
        <5>1. i + 1 \in 1..n
          BY <4>3
        <5> QED
          BY <4>1, <4>3, <5>1 DEF Chain, Members
      <4> QED
        BY <4>2, <4>3
    <3> QED
      BY <3>1, <3>2
  <2> QED
    BY <2>1, <2>2 DEF Reach
<1>2. ASSUME NEW S \in SUBSET Ps, Walk(S), NEW k \in 1..n
      PROVE  q[k] \in S
  <2> DEFINE T == {i \in 1..n : q[i] \notin S}
  <2>1. SUFFICES ASSUME q[k] \notin S PROVE FALSE
    OBVIOUS
  <2>2. T \in SUBSET Nat /\ T # {}
    BY <2>1
  <2>3. PICK i \in T : \A m \in T : i <= m
    <3> HIDE DEF T
    <3> QED
      BY <2>2, Smallest
  <2>4. i \in 1..n /\ q[i] \notin S /\ q[i] \in Ps
    BY <2>3
  <2>5. CASE i = 1
    BY <1>2, <2>4, <2>5, NULLAssumption DEF Chain
  <2>6. CASE i # 1
    <3>1. i - 1 \in 1..n /\ i - 1 # n /\ i - 1 + 1 = i
      BY <2>4, <2>6
    <3>2. i - 1 \notin T
      BY <2>3, <2>4
    <3>3. q[i - 1] \in S
      BY <3>1, <3>2
    <3>4. L.next[q[i - 1]] = q[i]
      BY <3>1 DEF Chain
    <3> QED
      BY <1>2, <2>4, <3>3, <3>4, NULLAssumption
  <2> QED
    BY <2>5, <2>6
<1>3. ASSUME NEW k \in 1..n PROVE q[k] \in Reach(L)
  <2>1. \A S \in SUBSET Ps : Walk(S) => q[k] \in S
    BY <1>2
  <2> QED
    BY <2>1 DEF Reach
<1>4. Members(q, n) \subseteq Reach(L)
  BY <1>3 DEF Members
<1> QED
  BY <1>1, <1>4

LEMMA ListedReach ==
    ASSUME NEW L, NEW Q, Listed(L, Q) \/ \E p : HalfListed(L, Q, p)
    PROVE  Reach(L) = Q
  BY ChainReach DEF Listed, HalfListed

\* scheduler_remove_process takes the head out of a list.
LEMMA RemoveListed ==
    ASSUME NEW L, NEW Q, Listed(L, Q), L.start # NULL
    PROVE  Listed(RemoveHead(L), Q \ {L.start})
<1>1. PICK n \in Nat : \E q \in [1..n -> Ps] :
          Injective(q, n) /\ Chain(L, q, n, n) /\ Q = Members(q, n)
  BY DEF Listed
<1>2. PICK q \in [1..n -> Ps] : Injective(q, n) /\ Chain(L, q, n, n) /\ Q = Members(q, n)
  BY <1>1
<1>3. n - 1 \in Nat /\ 1 \in 1..n /\ n \in 1..n /\ L.start = q[1]
  BY <1>2 DEF Chain
<1> DEFINE r == [i \in 1..(n - 1) |-> q[i + 1]]
<1>4. r \in [1..(n - 1) -> Ps] /\ \A i \in 1..(n - 1) : i + 1 \in 1..n /\ r[i] = q[i + 1]
  BY <1>3
<1> HIDE DEF r
<1>5. Injective(r, n - 1)
  BY <1>2, <1>3, <1>4 DEF Injective
<1>6. Members(r, n - 1) = Q \ {L.start}
  <2>1. ASSUME NEW i \in 1..(n - 1) PROVE r[i] \in Q \ {L.start}
    BY <1>2, <1>3, <1>4 DEF Injective, Members
  <2>2. ASSUME NEW i \in 1..n, q[i] # L.start PROVE q[i] \in Members(r, n - 1)
    <3>1. i - 1 \in 1..(n - 1) /\ q[i] = r[i - 1]
      BY <1>3, <1>4, <2>2
    <3> QED
      BY <3>1 DEF Members
  <2> QED
    BY <1>2, <2>1, <2>2 DEF Members
<1>7. Chain(RemoveHead(L), r, n - 1, n - 1)
  <2>1. RemoveHead(L).next = L.next /\ RemoveHead(L).start = L.next[q[1]]
    BY <1>3 DEF RemoveHead
  <2>2. RemoveHead(L).start = IF n - 1 = 0 THEN NULL ELSE r[1]
    BY <1>2, <1>3, <1>4, <2>1 DEF Chain
  <2>3. ASSUME NEW i \in 1..(n - 1)
        PROVE  L.next[r[i]] = IF i = n - 1 THEN NULL ELSE r[i + 1]
    <3>1. i + 1 \in 1..n /\ L.next[r[i]] = IF i + 1 = n THEN NULL ELSE q[i + 2]
      BY <1>2, <1>3, <1>4 DEF Chain
    <3>2. i # n - 1 => i + 1 \in 1..(n - 1)
      BY <1>3
    <3> QED
      BY <1>3, <1>4, <3>1, <3>2
  <2>4. RemoveHead(L).end = IF n - 1 = 0 THEN NULL ELSE r[n - 1]
    <3>1. L.end = q[n]
      BY <1>2, <1>3 DEF Chain
    <3>2. CASE n = 1
      BY <1>3, <3>1, <3>2 DEF RemoveHead
    <3>3. CASE n # 1
      <4>1. q[n] # q[1]
        BY <1>2, <1>3, <3>3 DEF Injective
      <4>2. r[n - 1] = q[n]
        BY <1>3, <1>4, <3>3
      <4> QED
        BY <1>3, <3>1, <3>3, <4>1, <4>2 DEF RemoveHead
    <3> QED
      BY <3>2, <3>3
  <2> QED
    BY <2>1, <2>2, <2>3, <2>4 DEF Chain
<1> QED
  BY <1>3, <1>4, <1>5, <1>6, <1>7 DEF Listed

\* q with p behind its n elements.
Longer(q, n, p) == [i \in 1..(n + 1) |-> IF i = n + 1 THEN p ELSE q[i]]

LEMMA LongerLemma ==
    ASSUME NEW n \in Nat, NEW q \in [1..n -> Ps], NEW p \in Ps,
           Injective(q, n), p \notin Members(q, n)
    PROVE  /\ Longer(q, n, p) \in [1..(n + 1) -> Ps]
           /\ Injective(Longer(q, n, p), n + 1)
           /\ Members(Longer(q, n, p), n + 1) = Members(q, n) \cup {p}
           /\ Longer(q, n, p)[n + 1] = p
           /\ \A i \in 1..n : Longer(q, n, p)[i] = q[i]
<1> DEFINE r == Longer(q, n, p)
<1>1. /\ r \in [1..(n + 1) -> Ps]
      /\ r[n + 1] = p
      /\ \A i \in 1..n : i \in 1..(n + 1) /\ r[i] = q[i]
  BY DEF Longer
<1>2. \A i \in 1..(n + 1) : i = n + 1 \/ i \in 1..n
  OBVIOUS
<1>3. \A i \in 1..n : q[i] # p
  BY DEF Members
<1> HIDE DEF r
<1>4. Injective(r, n + 1)
  BY <1>1, <1>2, <1>3 DEF Injective
<1>5. Members(r, n + 1) = Members(q, n) \cup {p}
  <2>1. n + 1 \in 1..(n + 1)
    OBVIOUS
  <2> QED
    BY <1>1, <1>2, <2>1 DEF Members
<1> QED
  BY <1>1, <1>4, <1>5 DEF r

\* The next fields after p has been linked behind q.
LEMMA LinkLemma ==
    ASSUME NEW n \in Nat, NEW q \in [1..n -> Ps], NEW p \in Ps,
           Injective(q, n), p \notin Members(q, n), n >= 1,
           NEW next \in [Ps -> Ptr], next[p] = NULL,
           \A i \in 1..n : next[q[i]] = IF i = n THEN NULL ELSE q[i + 1]
    PROVE  \A i \in 1..(n + 1) :
              Store(next, q[n], p)[Longer(q, n, p)[i]]
                = IF i = n + 1 THEN NULL ELSE Longer(q, n, p)[i + 1]
<1> DEFINE r == Longer(q, n, p)
<1> DEFINE s == Store(next, q[n], p)
<1>1. /\ r[n + 1] = p
      /\ \A i \in 1..n : r[i] = q[i]
  BY LongerLemma
<1>2. n \in 1..n /\ q[n] \in Ps /\ q[n] # p /\ q[n] # NULL
  BY NULLAssumption DEF Members
<1>3. s[q[n]] = p /\ \A x \in Ps : x # q[n] => s[x] = next[x]
  BY <1>2 DEF Store
<1> HIDE DEF r, s
<1> SUFFICES ASSUME NEW i \in 1..(n + 1)
             PROVE  s[r[i]] = IF i = n + 1 THEN NULL ELSE r[i + 1]
  BY DEF r, s
<1>4. CASE i = n + 1
  BY <1>1, <1>2, <1>3, <1>4
<1>5. CASE i = n
  BY <1>1, <1>2, <1>3, <1>5
<1>6. CASE i # n /\ i # n + 1
  <2>1. i \in 1..n /\ i + 1 \in 1..n /\ q[i] # q[n] /\ q[i] \in Ps
    BY <1>2, <1>6 DEF Injective
  <2> QED
    BY <1>1, <1>3, <1>6, <2>1
<1> QED
  BY <1>4, <1>5, <1>6

\* scheduler_add_process, uninterrupted, appends a process.
LEMMA AddListed ==
    ASSUME NEW L \in Lists, NEW Q, Listed(L, Q), NEW p \in Ps, p \notin Q
    PROVE  Listed(AddProcess(L, p), Q \cup {p})
<1>1. PICK n \in Nat : \E q \in [1..n -> Ps] :
          Injective(q, n) /\ Chain(L, q, n, n) /\ Q = Members(q, n)
  BY DEF Listed
<1>2. PICK q \in [1..n -> Ps] : Injective(q, n) /\ Chain(L, q, n, n) /\ Q = Members(q, n)
  BY <1>1
<1> DEFINE r == Longer(q, n, p)
<1> DEFINE fresh == [L.next EXCEPT ![p] = NULL]
<1>3. /\ r \in [1..(n + 1) -> Ps] /\ Injective(r, n + 1)
      /\ Members(r, n + 1) = Q \cup {p} /\ r[n + 1] = p
      /\ \A i \in 1..n : r[i] = q[i]
  BY <1>2, LongerLemma
<1>4. /\ fresh \in [Ps -> Ptr] /\ fresh[p] = NULL
      /\ \A x \in Ps : x # p => fresh[x] = L.next[x]
  BY DEF Lists, Ptr
<1>5. \A i \in 1..n : q[i] \in Ps /\ q[i] # p
  BY <1>2 DEF Members
<1>6. \A i \in 1..n : fresh[q[i]] = IF i = n THEN NULL ELSE q[i + 1]
  BY <1>2, <1>4, <1>5 DEF Chain
<1> DEFINE A == AddProcess(L, p)
<1>7. /\ A.start = IF L.start = NULL THEN p ELSE L.start
      /\ A.end = p
      /\ A.next = IF L.start = NULL THEN fresh ELSE Store(fresh, L.end, p)
  BY DEF AddProcess
<1> HIDE DEF r, fresh, A
<1>8. Chain(A, r, n + 1, n + 1)
  <2>1. CASE n = 0
    BY <1>2, <1>3, <1>4, <1>7, <2>1 DEF Chain
  <2>2. CASE n # 0
    <3>1. n \in 1..n /\ 1 \in 1..n
      BY <2>2
    <3>2. L.start = q[1] /\ L.end = q[n] /\ L.start # NULL
      BY <1>2, <1>5, <2>2, <3>1, NULLAssumption DEF Chain
    <3>3. \A i \in 1..(n + 1) : A.next[r[i]] = IF i = n + 1 THEN NULL ELSE r[i + 1]
      <4>1. \A i \in 1..(n + 1) :
                Store(fresh, q[n], p)[r[i]] = IF i = n + 1 THEN NULL ELSE r[i + 1]
        <5>1. p \notin Members(q, n) /\ n >= 1
          BY <1>2, <2>2
        <5> QED
          BY <1>2, <1>4, <1>6, <5>1, LinkLemma DEF r
      <4> QED
        BY <1>7, <3>2, <4>1
    <3>4. A.start = r[1] /\ A.end = r[n + 1]
      BY <1>3, <1>7, <3>1, <3>2
    <3> QED
      BY <3>3, <3>4 DEF Chain
  <2> QED
    BY <2>1, <2>2
<1> QED
  BY <1>3, <1>8 DEF Listed, A

\* A next field of a process that is not in the list does not matter.
LEMMA UnlinkedListed ==
    ASSUME NEW L \in Lists, NEW Q, Listed(L, Q), NEW p \in Ps, p \notin Q, NEW v
    PROVE  Listed([L EXCEPT !.next[p] = v], Q)
<1>1. PICK n \in Nat : \E q \in [1..n -> Ps] :
          Injective(q, n) /\ Chain(L, q, n, n) /\ Q = Members(q, n)
  BY DEF Listed
<1>2. PICK q \in [1..n -> Ps] : Injective(q, n) /\ Chain(L, q, n, n) /\ Q = Members(q, n)
  BY <1>1
<1> DEFINE M == [L EXCEPT !.next[p] = v]
<1>3. M.start = L.start /\ M.end = L.end /\ \A x \in Ps : x # p => M.next[x] = L.next[x]
  BY DEF Lists
<1>4. \A i \in 1..n : q[i] \in Ps /\ q[i] # p
  BY <1>2 DEF Members
<1> HIDE DEF M
<1>5. Chain(M, q, n, n)
  BY <1>2, <1>3, <1>4 DEF Chain
<1> QED
  BY <1>2, <1>5 DEF Listed, M

\* The store to start of scheduler_add_process, when the list is empty.
LEMMA FirstListed ==
    ASSUME NEW L \in Lists, NEW Q, Listed(L, Q), NEW p \in Ps, L.start = NULL,
           L.next[p] = NULL
    PROVE  HalfListed([L EXCEPT !.start = p], Q \cup {p}, p)
<1> DEFINE M == [L EXCEPT !.start = p]
<1> DEFINE r == [i \in 1..1 |-> p]
<1>1. Q = {} /\ L.end = NULL
  <2>1. PICK n \in Nat : \E q \in [1..n -> Ps] : Chain(L, q, n, n) /\ Q = Members(q, n)
    BY DEF Listed
  <2>2. PICK q \in [1..n -> Ps] : Chain(L, q, n, n) /\ Q = Members(q, n)
    BY <2>1
  <2>3. n = 0
    BY <2>2, NULLAssumption DEF Chain
  <2> QED
    BY <2>2, <2>3 DEF Chain, Members
<1>2. M.start = p /\ M.end = NULL /\ M.next = L.next
  BY <1>1 DEF Lists
<1>3. r \in [1..1 -> Ps] /\ r[1] = p
  OBVIOUS
<1> HIDE DEF M, r
<1>4. Injective(r, 1) /\ Members(r, 1) = Q \cup {p}
  BY <1>1, <1>3 DEF Injective, Members
<1>5. Chain(M, r, 1, 1 - 1)
  BY <1>2, <1>3 DEF Chain
<1>6. \E q \in [1..1 -> Ps] :
          /\ Injective(q, 1) /\ 1 >= 1 /\ Chain(M, q, 1, 1 - 1)
          /\ Q \cup {p} = Members(q, 1) /\ q[1] = p
  BY <1>3, <1>4, <1>5
<1>7. HalfListed(M, Q \cup {p}, p)
  BY <1>6 DEF HalfListed
<1> QED
  BY <1>7 DEF M

\* The store to end->next of scheduler_add_process.
LEMMA LinkListed ==
    ASSUME NEW L \in Lists, NEW Q, Listed(L, Q), NEW p \in Ps, p \notin Q, L.start # NULL,
           L.next[p] = NULL
    PROVE  HalfListed([L EXCEPT !.next = Store(@, L.end, p)], Q \cup {p}, p)
<1>1. PICK n \in Nat : \E q \in [1..n -> Ps] :
          Injective(q, n) /\ Chain(L, q, n, n) /\ Q = Members(q, n)
  BY DEF Listed
<1>2. PICK q \in [1..n -> Ps] : Injective(q, n) /\ Chain(L, q, n, n) /\ Q = Members(q, n)
  BY <1>1
<1>3. n >= 1 /\ 1 \in 1..n /\ n \in 1..n /\ L.start = q[1] /\ L.end = q[n]
  BY <1>2 DEF Chain
<1> DEFINE M == [L EXCEPT !.next = Store(@, L.end, p)]
<1> DEFINE r == Longer(q, n, p)
<1>4. M.start = q[1] /\ M.end = q[n] /\ M.next = Store(L.next, q[n], p)
  BY <1>3 DEF Lists
<1>5. /\ r \in [1..(n + 1) -> Ps] /\ Injective(r, n + 1)
      /\ Members(r, n + 1) = Q \cup {p} /\ r[n + 1] = p
      /\ \A i \in 1..n : r[i] = q[i]
  BY <1>2, LongerLemma
<1>6. \A i \in 1..(n + 1) : M.next[r[i]] = IF i = n + 1 THEN NULL ELSE r[i + 1]
  <2>1. L.next \in [Ps -> Ptr]
    BY DEF Lists
  <2>2. \A i \in 1..n : L.next[q[i]] = IF i = n THEN NULL ELSE q[i + 1]
    BY <1>2 DEF Chain
  <2> QED
    BY <1>2, <1>3, <1>4, <2>1, <2>2, LinkLemma
<1> HIDE DEF M, r
<1>7. Chain(M, r, n + 1, (n + 1) - 1)
  BY <1>3, <1>4, <1>5, <1>6 DEF Chain
<1> QED
  BY <1>3, <1>5, <1>7 DEF HalfListed, M

\* The store to end of scheduler_add_process.
LEMMA EndListed ==
    ASSUME NEW L \in Lists, NEW Q, NEW p, HalfListed(L, Q, p)
    PROVE  Listed([L EXCEPT !.end = p], Q)
<1>1. PICK n \in Nat : \E q \in [1..n -> Ps] :
        /\ Injective(q, n) /\ n >= 1 /\ Chain(L, q, n, n - 1)
        /\ Q = Members(q, n) /\ q[n] = p
  BY DEF HalfListed
<1>2. PICK q \in [1..n -> Ps] :
        /\ Injective(q, n) /\ n >= 1 /\ Chain(L, q, n, n - 1)
        /\ Q = Members(q, n) /\ q[n] = p
  BY <1>1
<1> DEFINE M == [L EXCEPT !.end = p]
<1>3. M.start = L.start /\ M.end = p /\ M.next = L.next
  BY DEF Lists
<1> HIDE DEF M
<1>4. Chain(M, q, n, n)
  BY <1>2, <1>3 DEF Chain
<1> QED
  BY <1>2, <1>4 DEF Listed, M

\* scheduler_get_and_rotate_runnable_process keeps the processes of the list.
LEMMA RotateListed ==
    ASSUME NEW L \in Lists, NEW Q, Listed(L, Q)
    PROVE  Listed(Rotate(L), Q)
<1>1. CASE L.start = NULL \/ L.next[L.start] = NULL
  BY <1>1 DEF Rotate
<1>2. CASE L.start # NULL /\ L.next[L.start] # NULL
  <2>1. PICK n \in Nat : \E q \in [1..n -> Ps] :
            Injective(q, n) /\ Chain(L, q, n, n) /\ Q = Members(q, n)
    BY DEF Listed
  <2>2. PICK q \in [1..n -> Ps] : Injective(q, n) /\ Chain(L, q, n, n) /\ Q = Members(q, n)
    BY <2>1
  <2>3. n >= 1 /\ 1 \in 1..n /\ n \in 1..n /\ L.start = q[1] /\ L.end = q[n]
    BY <1>2, <2>2 DEF Chain
  <2>4. n >= 2 /\ 2 \in 1..n /\ L.next[q[1]] = q[2]
    BY <1>2, <2>2, <2>3 DEF Chain
  <2> DEFINE r == [i \in 1..n |-> IF i = n THEN q[1] ELSE q[i + 1]]
  <2> DEFINE R == Rotate(L)
  <2> DEFINE cut == [L.next EXCEPT ![q[1]] = NULL]
  <2>5. /\ r \in [1..n -> Ps] /\ r[n] = q[1]
        /\ \A i \in 1..n : i # n => i + 1 \in 1..n /\ r[i] = q[i + 1]
    BY <2>3
  <2>6. R.start = q[2] /\ R.end = q[1] /\ R.next = Store(cut, q[n], q[1])
    BY <1>2, <2>3, <2>4 DEF Rotate
  <2>7. /\ q[n] # q[1] /\ q[n] \in Ps /\ q[1] \in Ps /\ q[n] # NULL
        /\ L.next \in [Ps -> Ptr]
    BY <2>2, <2>3, <2>4, NULLAssumption DEF Injective, Lists
  <2>8. /\ R.next[q[1]] = NULL /\ R.next[q[n]] = q[1]
        /\ \A x \in Ps : x # q[1] /\ x # q[n] => R.next[x] = L.next[x]
    BY <2>6, <2>7 DEF Store
  <2> HIDE DEF r, R, cut
  <2>9. Injective(r, n)
    BY <2>2, <2>3, <2>5 DEF Injective
  <2>10. Members(r, n) = Q
    <3>1. ASSUME NEW i \in 1..n PROVE r[i] \in Members(q, n)
      BY <2>3, <2>5 DEF Members
    <3>2. ASSUME NEW i \in 1..n PROVE q[i] \in Members(r, n)
      <4>1. CASE i = 1
        BY <2>3, <2>5, <4>1 DEF Members
      <4>2. CASE i # 1
        <5>1. i - 1 \in 1..n /\ i - 1 # n /\ r[i - 1] = q[i]
          BY <2>5, <4>2
        <5> QED
          BY <5>1 DEF Members
      <4> QED
        BY <4>1, <4>2
    <3> QED
      BY <2>2, <3>1, <3>2 DEF Members
  <2>11. Chain(R, r, n, n)
    <3>1. R.start = r[1] /\ R.end = r[n] /\ n # 0
      BY <2>3, <2>4, <2>5, <2>6
    <3>2. ASSUME NEW i \in 1..n PROVE R.next[r[i]] = IF i = n THEN NULL ELSE r[i + 1]
      <4>1. CASE i = n
        BY <2>5, <2>8, <4>1
      <4>2. CASE i = n - 1
        <5>1. r[i] = q[n] /\ r[i + 1] = q[1]
          BY <2>3, <2>5, <4>2
        <5> QED
          BY <2>8, <4>2, <5>1
      <4>3. CASE i # n /\ i # n - 1
        <5>1. i + 1 \in 1..n /\ i + 1 # n /\ i + 2 \in 1..n
          BY <4>3
        <5>2. r[i] = q[i + 1] /\ r[i + 1] = q[i + 2]
          BY <2>5, <4>3, <5>1
        <5>3. q[i + 1] \in Ps /\ q[i + 1] # q[1] /\ q[i + 1] # q[n]
          BY <2>2, <2>3, <5>1 DEF Injective
        <5>4. L.next[q[i + 1]] = q[i + 2]
          BY <2>2, <5>1 DEF Chain
        <5> QED
          BY <2>8, <4>3, <5>2, <5>3, <5>4
      <4> QED
        BY <4>1, <4>2, <4>3
    <3> QED
      BY <3>1, <3>2 DEF Chain
  <2> QED
    BY <2>5, <2>9, <2>10, <2>11 DEF Listed, R
<1> QED
  BY <1>1, <1>2

-----------------------------------------------------------------------------
(***************************************************************************)
(* The inductive invariant.                                                *)
(***************************************************************************)
Clean == windows \cap {"add", "boot"} = {}

\* Where a process is about to be queued, and where the boot thread is before the
\* first process runs.
PendingLabels == {"add", "add_first", "add_link", "switch_execve"}
BootPhase == {"start_init", "add", "add_first", "add_end", "boot_schedule"}

AboutToQueue(r) == r.cs = "kernel" /\ r.eip \in PendingLabels

\* The kernel stacks of the contexts that are about to queue a process: the running
\* one, and those of the processes that wait for the CPU.
RunningHolder == IF AboutToQueue(cpu) THEN {cpu.esp} ELSE {}
SavedHolders == {p \in Queued \ {cr3} : AboutToQueue(current[p])}
Holders == RunningHolder \cup SavedHolders
Awaited == {kstack[p].new : p \in Holders}

\* Every ps_t is queued, a zombie, lost or awaited, and only one of these; no two
\* calls queue the same one, and one that is not queued yet is in user mode.
Accounted ==
    /\ allocated = Queued \cup zombie_pss \cup lost \cup Awaited
    /\ Queued \cap zombie_pss = {}
    /\ (Queued \cup zombie_pss) \cap lost = {}
    /\ (Queued \cup zombie_pss \cup lost) \cap Awaited = {}
    /\ \A p, q \in Holders : kstack[p].new = kstack[q].new => p = q
    /\ \A p \in Holders : current[kstack[p].new].cs = "user"

\* No saved context is the boot thread's, or in the middle of the stores.
SavedOK ==
    \A p \in Ps : current[p].cs = "kernel" =>
                     current[p].esp = p /\ current[p].eip \notin {"add_link", "add_end"}

\* Before the first process runs there is at most one, and when there is none left the
\* boot stack is back in use.
BootOK ==
    (cpu.cs = "kernel" /\ cpu.esp = NULL) =>
        /\ cpu.eip # "add_link"
        /\ cpu.eip \in BootPhase => cr3 = NULL /\ zombie_pss = {}
        /\ cpu.eip \notin {"add_end", "boot_schedule"} => runnable_pss.start = NULL
        /\ cpu.eip = "start_init" => allocated = {}
        /\ runnable_pss.start # NULL => runnable_pss.next[runnable_pss.start] = NULL

\* What scheduler_add_process has done and loaded before its stores.
AddOK ==
    cpu.cs = "kernel" =>
        /\ cpu.eip \in {"add_first", "add_link"} => runnable_pss.next[My.new] = NULL
        /\ cpu.eip = "add_link" => My.end = runnable_pss.end

Shape == IF At("add_end") THEN HalfListed(runnable_pss, Queued, My.new)
                          ELSE Listed(runnable_pss, Queued)

Orderly == SavedOK /\ BootOK /\ AddOK /\ Shape /\ Accounted

ListInv == Clean => Orderly

-----------------------------------------------------------------------------
\* The queue is what can be reached from start.
LEMMA QueuedReach ==
    Queued = Reach(runnable_pss) /\ Queued' = Reach(runnable_pss')
  BY DEF Queued, Closed, Reach

LEMMA HalfListedStart ==
    ASSUME NEW L, NEW Q, NEW p, HalfListed(L, Q, p)
    PROVE  Q \subseteq Ps /\ L.start \in Q
  BY DEF HalfListed, Chain, Members

\* What the invariant says of a state.
LEMMA OrderlyFacts ==
    ASSUME Inv, Orderly
    PROVE  /\ Queued \subseteq Ps
           /\ cr3 \in Ptr
           /\ Busy(cpu) => cr3 \in Queued
           /\ AboutToQueue(cpu) => /\ My.new \in Ps
                                   /\ My.new \notin Queued \cup zombie_pss \cup lost
                                   /\ My.new \in allocated
                                   /\ cpu.esp \notin SavedHolders
                                   /\ cpu.esp \in Ptr
           /\ SavedHolders \subseteq Ps
           /\ \A p \in Holders : /\ kstack[p].new \in Ps
                                 /\ kstack[p].new \notin Queued \cup zombie_pss \cup lost
                                 /\ p \in Ptr
<1>1. Queued \subseteq Ps
  BY DEF Queued
<1>2. cr3 \in Ptr /\ cpu \in Registers /\ cpu.esp \in Ptr
  BY DEF Inv, TypeOK, Registers, UserContexts, KernelContexts, Ptr
<1>3. Busy(cpu) => cr3 \in Queued
  <2> SUFFICES ASSUME Busy(cpu) PROVE cr3 \in Queued
    OBVIOUS
  <2>1. cr3 \in Ps /\ runnable_pss.start = cr3
    BY DEF Inv, HeadOK
  <2>2. CASE At("add_end")
    BY <2>1, <2>2, HalfListedStart DEF Orderly, Shape
  <2>3. CASE ~At("add_end")
    BY <2>1, <2>3, ListedStart, NULLAssumption DEF Orderly, Shape
  <2> QED
    BY <2>2, <2>3
<1>4. AboutToQueue(cpu) => cpu.esp \notin SavedHolders /\ My.new \in Ps
  <2> SUFFICES ASSUME AboutToQueue(cpu) PROVE cpu.esp \notin SavedHolders /\ My.new \in Ps
    OBVIOUS
  <2>1. cpu.esp # NULL => cr3 = cpu.esp
    BY CallContext DEF AboutToQueue
  <2>2. cpu.esp \notin SavedHolders
    BY <1>1, <2>1, NULLAssumption DEF SavedHolders
  <2>3. My.new \in Ps
    BY WhoseLabel DEF AboutToQueue, PendingLabels, NewLabels
  <2> QED
    BY <2>2, <2>3
<1>5. \A p \in SavedHolders : kstack[p].new \in Ps
  <2> SUFFICES ASSUME NEW p \in SavedHolders PROVE kstack[p].new \in Ps
    OBVIOUS
  <2>1. p \in Ps /\ current[p].cs = "kernel" /\ current[p].eip \in PendingLabels
    BY <1>1 DEF SavedHolders, AboutToQueue
  <2>2. current[p].esp = p
    BY <2>1 DEF Orderly, SavedOK
  <2>3. WellFormed(current[p], p)
    BY <2>1 DEF Inv, ContextsOK
  <2> QED
    BY <2>1, <2>2, <2>3 DEF WellFormed, PendingLabels, NewLabels
<1>6. \A p \in Holders : kstack[p].new \in Ps /\ kstack[p].new \in Awaited /\ p \in Ptr
  BY <1>1, <1>2, <1>4, <1>5 DEF Holders, RunningHolder, SavedHolders, Awaited, My, Ptr
<1>7. AboutToQueue(cpu) => cpu.esp \in Holders
  BY DEF Holders, RunningHolder
<1> QED
  BY <1>1, <1>2, <1>3, <1>4, <1>6, <1>7 DEF Orderly, Accounted, My, SavedHolders

\* A step that neither queues a process nor comes to know of one.
LEMMA QuietList ==
    ASSUME Orderly,
           UNCHANGED <<runnable_pss, zombie_pss, lost, allocated, current, cr3>>,
           ~AboutToQueue(cpu), ~AboutToQueue(cpu'), ~At("add_end"), ~At("add_end")',
           \A q \in Ptr : kstack'[q].new = kstack[q].new,
           BootOK'
    PROVE  Orderly'
<1>1. Queued' = Queued
  BY QueuedReach
<1>2. SavedHolders' = SavedHolders /\ RunningHolder = {} /\ RunningHolder' = {}
  BY <1>1 DEF SavedHolders, RunningHolder
<1>3. Holders' = Holders /\ \A p \in Holders : p \in Ptr /\ kstack'[p].new = kstack[p].new
  BY <1>2 DEF Holders, SavedHolders, Queued, Ptr
<1>4. Awaited' = Awaited
  BY <1>3 DEF Awaited
<1>5. Accounted'
  BY <1>1, <1>3, <1>4 DEF Orderly, Accounted
<1>6. SavedOK' /\ Shape'
  BY <1>1 DEF Orderly, SavedOK, Shape
<1>7. AddOK'
  BY DEF AddOK, AboutToQueue, PendingLabels
<1> QED
  BY <1>5, <1>6, <1>7 DEF Orderly

\* A step that changes nothing the invariant mentions.
LEMMA SameList ==
    ASSUME ListInv,
           UNCHANGED <<runnable_pss, zombie_pss, lost, allocated, current, cr3, cpu, kstack,
                       windows>>
    PROVE  ListInv'
<1>1. Queued' = Queued
  BY QueuedReach
<1>2. SavedHolders' = SavedHolders /\ RunningHolder' = RunningHolder
  BY <1>1 DEF SavedHolders, RunningHolder
<1>3. Holders' = Holders /\ Awaited' = Awaited
  BY <1>2 DEF Holders, Awaited
<1>4. Accounted' <=> Accounted
  BY <1>1, <1>3 DEF Accounted
<1>5. (SavedOK' <=> SavedOK) /\ (BootOK' <=> BootOK) /\ (AddOK' <=> AddOK)
  BY DEF SavedOK, BootOK, AddOK, My
<1>6. Shape' <=> Shape
  BY <1>1 DEF Shape, At, My
<1>7. Clean' <=> Clean
  BY DEF Clean
<1> QED
  BY <1>4, <1>5, <1>6, <1>7 DEF ListInv, Orderly

-----------------------------------------------------------------------------
(***************************************************************************)
(* Every step preserves it.                                                *)
(***************************************************************************)

\* At boot there is no process and no queue.
LEMMA InitList == Init => ListInv
<1> SUFFICES ASSUME Init PROVE Orderly
  BY DEF ListInv
<1>1. Listed(runnable_pss, {})
  <2> DEFINE q == [i \in 1..0 |-> NULL]
  <2>1. q \in [1..0 -> Ps] /\ \A i \in 1..0 : FALSE
    OBVIOUS
  <2> HIDE DEF q
  <2>2. Injective(q, 0) /\ Members(q, 0) = {}
    BY <2>1 DEF Injective, Members
  <2>3. Chain(runnable_pss, q, 0, 0)
    BY <2>1 DEF Init, Chain
  <2> QED
    BY <2>1, <2>2, <2>3 DEF Listed
<1>2. Queued = {}
  BY <1>1, QueuedReach, ListedReach
<1>3. cpu.cs = "kernel" /\ cpu.eip = "start_init" /\ cpu.esp = NULL
  BY DEF Init, KernelRegisters
<1>4. Holders = {} /\ Awaited = {}
  BY <1>2, <1>3 DEF Holders, RunningHolder, SavedHolders, Awaited, AboutToQueue, PendingLabels
<1>5. SavedOK
  BY DEF Init, SavedOK, UserRegisters
<1>6. BootOK /\ AddOK
  BY <1>3 DEF Init, BootOK, AddOK
<1>7. Shape
  BY <1>1, <1>2, <1>3 DEF Shape, At
<1>8. Accounted
  BY <1>2, <1>4 DEF Init, Accounted
<1> QED
  BY <1>5, <1>6, <1>7, <1>8 DEF Orderly

\* The return from a system call leads to user mode.
LEMMA ReturnUser ==
    ASSUME Inv, cpu.cs = "kernel", cpu.esp # NULL, NEW eax \in Int, Return(eax)
    PROVE  cpu' \in UserContexts /\ cpu'.cs = "user"
<1>1. My.ps \in Ps
  BY CallContext
<1>2. user_mode[My.ps] \in UserContexts
  BY <1>1 DEF Inv, TypeOK
<1>3. cpu' \in UserContexts
  BY <1>2, ContextTypes DEF Return
<1> QED
  BY <1>3 DEF UserContexts

\* User mode instructions.
LEMMA UserStepList ==
    ASSUME Inv, ListInv, UserStep PROVE ListInv'
<1>1. cpu.cs = "user" /\ cpu'.cs = "user"
  BY DEF UserStep, UserRegisters
<1>2. Clean' <=> Clean
  BY DEF UserStep, Clean, history
<1>3. BootOK' /\ ~AboutToQueue(cpu) /\ ~AboutToQueue(cpu') /\ ~At("add_end") /\ ~At("add_end")'
  BY <1>1 DEF BootOK, AboutToQueue, At
<1> QED
  BY <1>2, <1>3, QuietList DEF UserStep, ListInv, list, procs, history

\* The entry into a system call.
LEMMA handle_syscallList ==
    ASSUME Inv, ListInv, handle_syscall PROVE ListInv'
<1>1. cpu.cs = "user" /\ cr3 \in Ps
  BY UserContext DEF handle_syscall
<1>2. PICK syscall \in Calls : cpu' = KernelRegisters(syscall, cr3, cpu.iflag)
  BY DEF handle_syscall
<1>3. cpu'.cs = "kernel" /\ cpu'.esp # NULL /\ cpu'.eip \in Syscalls
  BY <1>1, <1>2, CallsAssumption, NULLAssumption DEF KernelRegisters
<1>4. Clean' <=> Clean
  BY DEF handle_syscall, Clean
<1>5. BootOK' /\ ~AboutToQueue(cpu) /\ ~AboutToQueue(cpu') /\ ~At("add_end") /\ ~At("add_end")'
  BY <1>1, <1>3 DEF BootOK, AboutToQueue, At, Syscalls, PendingLabels
<1>6. \A q \in Ptr : kstack'[q].new = kstack[q].new
  BY <1>1 DEF Inv, TypeOK, handle_syscall, Locals, Ptr
<1> QED
  BY <1>4, <1>5, <1>6, QuietList DEF handle_syscall, ListInv, list, procs

\* The steps of a system call that only return, or only go on.
LEMMA ReturnsList ==
    ASSUME Inv, ListInv,
           sys_other \/ process_clone_fails \/ sys_execve_fails \/ sys_wait_returns
    PROVE  ListInv'
<1>1. /\ cpu.cs = "kernel" /\ cpu.eip \notin BootLabels
      /\ ~AboutToQueue(cpu) /\ ~At("add_end")
  BY DEF sys_other, process_clone_fails, sys_execve_fails, sys_wait_returns, At, BootLabels,
     AboutToQueue, PendingLabels
<1>2. cpu.esp # NULL
  BY <1>1, WhoseLabel
<1>3. PICK eax \in Int : Return(eax)
  BY DEF sys_other, process_clone_fails, sys_execve_fails, sys_wait_returns
<1>4. cpu'.cs = "user"
  BY <1>1, <1>2, <1>3, ReturnUser
<1>5. UNCHANGED <<list, procs, current, cr3, kstack, ms, oom, history>>
  BY DEF sys_other, process_clone_fails, sys_execve_fails, sys_wait_returns
<1>6. Clean' <=> Clean
  BY <1>5 DEF Clean, history
<1>7. BootOK' /\ ~AboutToQueue(cpu') /\ ~At("add_end")'
  BY <1>4 DEF BootOK, AboutToQueue, At
<1> QED
  BY <1>1, <1>5, <1>6, <1>7, QuietList DEF ListInv, list, procs, history

\* scheduler_next_pid
LEMMA sys_forkList ==
    ASSUME Inv, ListInv, sys_fork PROVE ListInv'
<1>1. cpu.cs = "kernel" /\ cpu.eip = "sys_fork"
  BY DEF sys_fork, At
<1>2. cpu.esp # NULL /\ cpu.esp \in Ptr /\ cpu \in KernelContexts
  BY <1>1, WhoseLabel DEF BootLabels, KernelContexts
<1>3. cpu'.cs = "kernel" /\ cpu'.eip = "process_clone" /\ cpu'.esp = cpu.esp
  BY <1>2 DEF sys_fork, Goto, KernelContexts
<1>4. \A q \in Ptr : kstack'[q].new = kstack[q].new
  BY <1>2 DEF Inv, TypeOK, sys_fork, Locals
<1>5. BootOK' /\ ~AboutToQueue(cpu) /\ ~AboutToQueue(cpu') /\ ~At("add_end") /\ ~At("add_end")'
  BY <1>1, <1>2, <1>3 DEF BootOK, AboutToQueue, At, PendingLabels
<1>6. Clean' <=> Clean
  BY DEF sys_fork, Clean, history
<1> QED
  BY <1>4, <1>5, <1>6, QuietList DEF sys_fork, ListInv, list, procs, history

\* The test of sys_wait.
LEMMA sys_waitList ==
    ASSUME Inv, ListInv, sys_wait PROVE ListInv'
<1>1. cpu.cs = "kernel" /\ cpu.eip = "sys_wait"
  BY DEF sys_wait, At
<1>2. cpu.esp # NULL /\ cpu.esp \in Ptr /\ cpu \in KernelContexts
  BY <1>1, WhoseLabel DEF BootLabels, KernelContexts
<1>3. \/ cpu'.cs = "user"
      \/ cpu'.cs = "kernel" /\ cpu'.eip = "wait_loop" /\ cpu'.esp = cpu.esp
  <2>1. Return(-1) \/ Goto("wait_loop")
    BY DEF sys_wait
  <2>2. CASE Return(-1)
    BY <1>1, <1>2, <2>2, ReturnUser
  <2>3. CASE Goto("wait_loop")
    BY <1>2, <2>3 DEF Goto, KernelContexts
  <2> QED
    BY <2>1, <2>2, <2>3
<1>4. \A q \in Ptr : kstack'[q].new = kstack[q].new
  BY <1>2, TornLemma DEF Inv, TypeOK, sys_wait
<1>5. BootOK' /\ ~AboutToQueue(cpu) /\ ~AboutToQueue(cpu') /\ ~At("add_end") /\ ~At("add_end")'
  BY <1>1, <1>2, <1>3 DEF BootOK, AboutToQueue, At, PendingLabels
<1>6. Clean' <=> Clean
  BY DEF sys_wait, Clean, history
<1> QED
  BY <1>4, <1>5, <1>6, QuietList DEF sys_wait, ListInv, list, procs, history

\* init could not be created.
LEMMA start_init_failsList ==
    ASSUME Inv, ListInv, start_init_fails PROVE ListInv'
<1>1. cpu.cs = "kernel" /\ cpu.eip = "start_init"
  BY DEF start_init_fails, At
<1>2. cpu \in KernelContexts /\ cpu.esp = NULL
  BY <1>1, WhoseLabel DEF CallLabels, Syscalls
<1>3. cpu'.cs = "kernel" /\ cpu'.eip = "hang" /\ cpu'.esp = NULL
  BY <1>2 DEF start_init_fails, Goto, KernelContexts
<1>4. ~AboutToQueue(cpu) /\ ~AboutToQueue(cpu') /\ ~At("add_end") /\ ~At("add_end")'
  BY <1>1, <1>3 DEF AboutToQueue, At, PendingLabels
<1>5. Orderly => BootOK'
  BY <1>1, <1>2, <1>3 DEF start_init_fails, Orderly, BootOK, BootPhase, list
<1>6. Clean' <=> Clean
  BY DEF start_init_fails, Clean, history
<1> QED
  BY <1>4, <1>5, <1>6, QuietList DEF start_init_fails, ListInv, list, procs, history

\* A process is created, and a fork, an execve or the boot thread is to queue it.
LEMMA BirthList ==
    ASSUME Inv, Orderly, NEW new \in Ps, new \notin allocated,
           cpu.cs = "kernel", ~AboutToQueue(cpu), ~At("add_end"),
           cpu'.cs = "kernel", cpu'.eip \in {"add", "switch_execve"}, cpu'.esp = cpu.esp,
           allocated' = allocated \cup {new},
           kstack'[cpu.esp].new = new,
           \A q \in Ptr : q # cpu.esp => kstack'[q].new = kstack[q].new,
           current'[new].cs = "user",
           \A p \in Ps : p # new => current'[p] = current[p],
           UNCHANGED <<runnable_pss, zombie_pss, lost, cr3>>,
           BootOK'
    PROVE  Orderly'
<1>1. Queued' = Queued /\ Queued \subseteq allocated /\ Queued \subseteq Ps
  BY QueuedReach, OrderlyFacts DEF Orderly, Accounted
<1>2. AboutToQueue(cpu') /\ RunningHolder' = {cpu.esp} /\ RunningHolder = {}
  BY DEF AboutToQueue, RunningHolder, PendingLabels
<1>3. SavedHolders' = SavedHolders
  BY <1>1 DEF SavedHolders
<1>4. Holders' = SavedHolders \cup {cpu.esp} /\ Holders = SavedHolders
  BY <1>2, <1>3 DEF Holders
<1>5. cpu.esp \notin SavedHolders /\ cpu.esp \in Ptr
  <2>1. cpu.esp # NULL => cpu.esp = cr3
    BY CallContext
  <2>2. cpu.esp \in Ptr
    BY WhoseLabel DEF KernelContexts
  <2> QED
    BY <1>1, <2>1, <2>2, NULLAssumption DEF SavedHolders
<1>6. \A p \in SavedHolders : /\ p \in Ptr /\ kstack'[p].new = kstack[p].new
                              /\ kstack[p].new \in allocated
  BY <1>4, <1>5, OrderlyFacts DEF Orderly, Accounted, Awaited
<1>7. Awaited' = Awaited \cup {new}
  BY <1>4, <1>6 DEF Awaited
<1>8. Accounted'
  <2>1. /\ allocated' = Queued' \cup zombie_pss' \cup lost' \cup Awaited'
        /\ Queued' \cap zombie_pss' = {}
        /\ (Queued' \cup zombie_pss') \cap lost' = {}
        /\ (Queued' \cup zombie_pss' \cup lost') \cap Awaited' = {}
    BY <1>1, <1>7 DEF Orderly, Accounted
  <2>2. \A p, q \in Holders' : kstack'[p].new = kstack'[q].new => p = q
    BY <1>4, <1>6 DEF Orderly, Accounted
  <2>3. \A p \in Holders' : current'[kstack'[p].new].cs = "user"
    <3>1. \A p \in SavedHolders : kstack[p].new \in Ps /\ current[kstack[p].new].cs = "user"
      BY <1>4, OrderlyFacts DEF Orderly, Accounted
    <3> QED
      BY <1>4, <1>6, <3>1
  <2> QED
    BY <2>1, <2>2, <2>3 DEF Accounted
<1>9. SavedOK'
  BY DEF Orderly, SavedOK
<1>10. Shape' /\ AddOK'
  BY <1>1 DEF Orderly, Shape, AddOK, At
<1> QED
  BY <1>8, <1>9, <1>10 DEF Orderly

\* process_clone
LEMMA process_cloneList ==
    ASSUME Inv, ListInv, NEW new \in Ps, process_clone(new) PROVE ListInv'
<1>1. cpu.cs = "kernel" /\ cpu.eip = "process_clone"
  BY DEF process_clone, At
<1>2. cpu.esp # NULL /\ cpu \in KernelContexts
  BY <1>1, WhoseLabel DEF BootLabels
<1>3. cpu'.cs = "kernel" /\ cpu'.eip = "add" /\ cpu'.esp = cpu.esp /\ cpu.esp \in Ptr
  BY <1>2 DEF process_clone, Goto, KernelContexts
<1>4. /\ kstack'[cpu.esp].new = new
      /\ \A q \in Ptr : q # cpu.esp => kstack'[q].new = kstack[q].new
  BY <1>3 DEF Inv, TypeOK, process_clone, Locals
<1>5. /\ current'[new].cs = "user"
      /\ \A p \in Ps : p # new => current'[p] = current[p]
  <2> DEFINE child == [user_mode[My.ps] EXCEPT !.eax = 0]
  <2>1. child.cs = "user"
    BY <1>1, <1>2, CallContext DEF Inv, TypeOK, UserContexts
  <2>2. current' = [current EXCEPT ![new] = child]
    BY DEF process_clone
  <2> HIDE DEF child
  <2> QED
    BY <2>1, <2>2 DEF Inv, TypeOK
<1>6. ~AboutToQueue(cpu) /\ ~At("add_end") /\ BootOK'
  BY <1>1, <1>2, <1>3 DEF AboutToQueue, At, PendingLabels, BootOK
<1>7. Clean' <=> Clean
  BY DEF process_clone, Clean
<1>8. /\ UNCHANGED <<runnable_pss, zombie_pss, lost, cr3>>
      /\ new \notin allocated /\ allocated' = allocated \cup {new}
  BY DEF process_clone, list
<1> QED
  BY <1>1, <1>3, <1>4, <1>5, <1>6, <1>7, <1>8, BirthList DEF ListInv

\* process_create_replacement
LEMMA sys_execveList ==
    ASSUME Inv, ListInv, NEW new \in Ps, sys_execve(new) PROVE ListInv'
<1>1. cpu.cs = "kernel" /\ cpu.eip = "sys_execve"
  BY DEF sys_execve, At
<1>2. cpu.esp # NULL /\ cpu \in KernelContexts
  BY <1>1, WhoseLabel DEF BootLabels
<1>3. cpu'.cs = "kernel" /\ cpu'.eip = "switch_execve" /\ cpu'.esp = cpu.esp /\ cpu.esp \in Ptr
  BY <1>2 DEF sys_execve, Goto, KernelContexts
<1>4. /\ kstack'[cpu.esp].new = new
      /\ \A q \in Ptr : q # cpu.esp => kstack'[q].new = kstack[q].new
  BY <1>3 DEF Inv, TypeOK, sys_execve, Locals
<1>5. /\ current'[new].cs = "user"
      /\ \A p \in Ps : p # new => current'[p] = current[p]
  BY DEF Inv, TypeOK, sys_execve, UserRegisters
<1>6. ~AboutToQueue(cpu) /\ ~At("add_end") /\ BootOK'
  BY <1>1, <1>2, <1>3 DEF AboutToQueue, At, PendingLabels, BootOK
<1>7. Clean' <=> Clean
  BY DEF sys_execve, Clean
<1>8. /\ UNCHANGED <<runnable_pss, zombie_pss, lost, cr3>>
      /\ new \notin allocated /\ allocated' = allocated \cup {new}
  BY DEF sys_execve, list
<1> QED
  BY <1>1, <1>3, <1>4, <1>5, <1>6, <1>7, <1>8, BirthList DEF ListInv

\* process_init for init
LEMMA start_initList ==
    ASSUME Inv, ListInv, NEW init \in Ps, start_init(init) PROVE ListInv'
<1>1. cpu.cs = "kernel" /\ cpu.eip = "start_init"
  BY DEF start_init, At
<1>2. cpu.esp = NULL /\ cpu \in KernelContexts
  BY <1>1, WhoseLabel DEF CallLabels, Syscalls
<1>3. cpu'.cs = "kernel" /\ cpu'.eip = "add" /\ cpu'.esp = cpu.esp /\ cpu.esp \in Ptr
  BY <1>2 DEF start_init, Goto, KernelContexts
<1>4. /\ kstack'[cpu.esp].new = init
      /\ \A q \in Ptr : q # cpu.esp => kstack'[q].new = kstack[q].new
  BY <1>2, <1>3 DEF Inv, TypeOK, start_init, Locals
<1>5. /\ current'[init].cs = "user"
      /\ \A p \in Ps : p # init => current'[p] = current[p]
  BY DEF Inv, TypeOK, start_init, UserRegisters
<1>6. ~AboutToQueue(cpu) /\ ~At("add_end")
  BY <1>1 DEF AboutToQueue, At, PendingLabels
<1>7. Clean' <=> Clean
  BY DEF start_init, Clean
<1>8. /\ UNCHANGED <<runnable_pss, zombie_pss, lost, cr3>>
      /\ allocated' = allocated \cup {init}
  BY DEF start_init, list
<1>9. Orderly => BootOK' /\ init \notin allocated
  BY <1>1, <1>2, <1>3, <1>8 DEF Orderly, BootOK, BootPhase
<1> QED
  BY <1>1, <1>3, <1>4, <1>5, <1>6, <1>7, <1>8, <1>9, BirthList DEF ListInv

\* Whose queueing is awaited does not change.
LEMMA SameHolders ==
    ASSUME Inv, Orderly,
           Queued' = Queued,
           UNCHANGED <<zombie_pss, lost, allocated, current, cr3>>,
           \A q \in Ptr : kstack'[q].new = kstack[q].new,
           AboutToQueue(cpu') <=> AboutToQueue(cpu),
           AboutToQueue(cpu) => cpu'.esp = cpu.esp
    PROVE  Accounted'
<1>1. SavedHolders' = SavedHolders /\ RunningHolder' = RunningHolder
  BY DEF SavedHolders, RunningHolder
<1>2. Holders' = Holders /\ \A p \in Holders : p \in Ptr /\ kstack'[p].new = kstack[p].new
  BY <1>1, OrderlyFacts DEF Holders
<1>3. Awaited' = Awaited
  BY <1>2 DEF Awaited
<1> QED
  BY <1>2, <1>3 DEF Orderly, Accounted

\* The running call has queued its process, or lost it.
LEMMA HolderDone ==
    ASSUME Inv, Orderly, AboutToQueue(cpu), ~AboutToQueue(cpu'),
           \/ Queued' = Queued \cup {My.new} /\ lost' = lost
           \/ Queued' = Queued /\ lost' = lost \cup {My.new},
           UNCHANGED <<zombie_pss, allocated, current, cr3, kstack>>
    PROVE  Accounted'
<1>1. /\ My.new \notin Queued \cup zombie_pss \cup lost /\ My.new \in allocated
      /\ cpu.esp \notin SavedHolders /\ My.new \in Ps
  BY OrderlyFacts
<1>2. Holders = SavedHolders \cup {cpu.esp} /\ current[My.new].cs = "user"
  BY DEF Holders, RunningHolder, Orderly, Accounted, My
<1>3. SavedHolders' = SavedHolders
  BY <1>2 DEF SavedHolders, AboutToQueue
<1>4. Holders' = SavedHolders
  BY <1>3 DEF Holders, RunningHolder
<1>5. \A p \in SavedHolders : kstack[p].new # My.new
  BY <1>1, <1>2 DEF Orderly, Accounted, My
<1>6. Awaited = Awaited' \cup {My.new} /\ My.new \notin Awaited'
  BY <1>2, <1>4, <1>5 DEF Awaited, My
<1>7. \A p \in Holders' : p \in Holders
  BY <1>2, <1>4
<1>8. /\ \A p, q \in Holders' : kstack'[p].new = kstack'[q].new => p = q
      /\ \A p \in Holders' : current'[kstack'[p].new].cs = "user"
  BY <1>7 DEF Orderly, Accounted
<1> QED
  BY <1>1, <1>6, <1>8 DEF Orderly, Accounted

\* Where scheduler_add_process returns to.
LEMMA AddReturnsContext ==
    ASSUME Inv, cpu.cs = "kernel", AddReturns
    PROVE  \/ cpu'.cs = "user" /\ cpu' \in UserContexts /\ cpu.esp # NULL
           \/ /\ cpu'.cs = "kernel" /\ cpu'.eip = "boot_schedule"
              /\ cpu'.esp = NULL /\ cpu.esp = NULL
<1>1. cpu \in KernelContexts
  BY WhoseLabel
<1>2. CASE cpu.esp = NULL
  BY <1>1, <1>2 DEF AddReturns, Goto, KernelContexts
<1>3. CASE cpu.esp # NULL
  <2>1. kstack[cpu.esp] \in Locals
    BY <1>3, CallContext DEF Inv, TypeOK, Ptr
  <2>2. My.pid \in Int /\ Return(My.pid)
    BY <1>3, <2>1 DEF My, Locals, AddReturns
  <2> QED
    BY <1>3, <2>2, ReturnUser
<1> QED
  BY <1>2, <1>3

\* What the three steps of scheduler_add_process do to the queue: nothing while the new
\* element is filled in ...
LEMMA AddStartQueue ==
    ASSUME Inv, Orderly, scheduler_add_process
    PROVE  Listed(runnable_pss', Queued) /\ Queued' = Queued
<1>1. AboutToQueue(cpu) /\ ~At("add_end")
  BY DEF scheduler_add_process, At, AboutToQueue, PendingLabels
<1>2. My.new \in Ps /\ My.new \notin Queued
  BY <1>1, OrderlyFacts
<1>3. runnable_pss \in Lists /\ runnable_pss' = [runnable_pss EXCEPT !.next[My.new] = NULL]
  BY DEF Inv, TypeOK, scheduler_add_process
<1>4. Listed(runnable_pss', Queued)
  BY <1>1, <1>2, <1>3, UnlinkedListed DEF Orderly, Shape
<1> QED
  BY <1>4, QueuedReach, ListedReach

\* ... the new process comes in with the store to start or to end->next ...
LEMMA AddLinkQueue ==
    ASSUME Inv, Orderly, add_first \/ add_link
    PROVE  HalfListed(runnable_pss', Queued', My.new) /\ Queued' = Queued \cup {My.new}
<1>1. cpu.cs = "kernel" /\ AboutToQueue(cpu) /\ ~At("add_end")
  BY DEF add_first, add_link, At, AboutToQueue, PendingLabels
<1>2. My.new \in Ps /\ My.new \notin Queued
  BY <1>1, OrderlyFacts
<1>3. runnable_pss \in Lists /\ Listed(runnable_pss, Queued)
  BY <1>1 DEF Inv, TypeOK, Orderly, Shape
<1>4. runnable_pss.next[My.new] = NULL
  BY DEF Orderly, AddOK, add_first, add_link, At
<1>5. HalfListed(runnable_pss', Queued \cup {My.new}, My.new)
  <2>1. CASE add_first
    <3>1. cpu.eip = "add_first" /\ runnable_pss' = [runnable_pss EXCEPT !.start = My.new]
      BY <2>1 DEF add_first, At
    <3>2. cpu.esp = NULL
      BY <1>1, <3>1, WhoseLabel DEF CallLabels, Syscalls
    <3>3. runnable_pss.start = NULL
      BY <1>1, <3>1, <3>2 DEF Orderly, BootOK
    <3> QED
      BY <1>2, <1>3, <1>4, <3>1, <3>3, FirstListed
  <2>2. CASE add_link
    <3>1. cpu.eip = "add_link" /\ My.end = runnable_pss.end /\ cpu.esp # NULL
      BY <1>1, <2>2 DEF add_link, At, Orderly, AddOK, BootOK
    <3>2. runnable_pss' = [runnable_pss EXCEPT !.next = Store(@, runnable_pss.end, My.new)]
      BY <2>2, <3>1 DEF add_link
    <3>3. runnable_pss.start # NULL
      BY <1>1, <3>1, CallContext, NULLAssumption
    <3> QED
      BY <1>2, <1>3, <1>4, <3>2, <3>3, LinkListed
  <2> QED
    BY <2>1, <2>2
<1> QED
  BY <1>5, QueuedReach, ListedReach

\* ... and the store to end completes the list.
LEMMA AddEndQueue ==
    ASSUME Inv, Orderly, add_end
    PROVE  Listed(runnable_pss', Queued) /\ Queued' = Queued
<1>1. HalfListed(runnable_pss, Queued, My.new)
  BY DEF Orderly, Shape, add_end
<1>2. runnable_pss \in Lists /\ runnable_pss' = [runnable_pss EXCEPT !.end = My.new]
  BY DEF Inv, TypeOK, add_end
<1>3. Listed(runnable_pss', Queued)
  BY <1>1, <1>2, EndListed
<1> QED
  BY <1>3, QueuedReach, ListedReach

\* scheduler_add_process up to the load of pss->end: the new element is not linked.
LEMMA scheduler_add_processList ==
    ASSUME Inv, ListInv, scheduler_add_process PROVE ListInv'
<1>1. cpu.cs = "kernel" /\ cpu.eip = "add" /\ AboutToQueue(cpu)
  BY DEF scheduler_add_process, At, AboutToQueue, PendingLabels
<1>2. cpu \in KernelContexts /\ cpu.esp \in Ptr
  BY <1>1, WhoseLabel DEF KernelContexts
<1> DEFINE label == IF runnable_pss.start = NULL THEN "add_first" ELSE "add_link"
<1>3. /\ cpu'.cs = "kernel" /\ cpu'.eip = label /\ cpu'.esp = cpu.esp
      /\ AboutToQueue(cpu')
  BY <1>2 DEF scheduler_add_process, Goto, KernelContexts, AboutToQueue, PendingLabels
<1>4. /\ \A q \in Ptr : kstack'[q].new = kstack[q].new
      /\ My'.new = My.new /\ My'.end = runnable_pss.end
  BY <1>2, <1>3 DEF Inv, TypeOK, scheduler_add_process, Locals, My
<1>5. Clean' <=> Clean
  BY DEF scheduler_add_process, Clean, history
<1> SUFFICES ASSUME Orderly PROVE Orderly'
  BY <1>5 DEF ListInv
<1>6. My.new \in Ps
  BY <1>1, OrderlyFacts
<1>7. runnable_pss \in Lists /\ runnable_pss' = [runnable_pss EXCEPT !.next[My.new] = NULL]
  BY DEF Inv, TypeOK, scheduler_add_process
<1>8. /\ runnable_pss'.start = runnable_pss.start /\ runnable_pss'.end = runnable_pss.end
      /\ runnable_pss'.next[My.new] = NULL
  BY <1>6, <1>7 DEF Lists
<1>10. Listed(runnable_pss', Queued) /\ Queued' = Queued
  BY AddStartQueue
<1>11. UNCHANGED <<zombie_pss, lost, allocated, current, cr3>>
  BY DEF scheduler_add_process, procs, history
<1>12. Accounted'
  BY <1>1, <1>3, <1>4, <1>10, <1>11, SameHolders
<1>13. BootOK'
  BY <1>1, <1>3, <1>8, <1>11 DEF Orderly, BootOK, BootPhase
<1>14. AddOK'
  BY <1>4, <1>8 DEF AddOK
<1>15. Shape' /\ SavedOK'
  BY <1>3, <1>10, <1>11 DEF Shape, At, Orderly, SavedOK
<1> QED
  BY <1>12, <1>13, <1>14, <1>15 DEF Orderly

\* The kmalloc of scheduler_add_process fails.
LEMMA scheduler_add_process_failsList ==
    ASSUME Inv, ListInv, scheduler_add_process_fails PROVE ListInv'
<1>1. cpu.cs = "kernel" /\ cpu.eip = "add" /\ AboutToQueue(cpu)
  BY DEF scheduler_add_process_fails, At, AboutToQueue, PendingLabels
<1>2. \/ cpu'.cs = "user"
      \/ /\ cpu'.cs = "kernel" /\ cpu'.eip = "boot_schedule"
         /\ cpu'.esp = NULL /\ cpu.esp = NULL
  BY <1>1, AddReturnsContext DEF scheduler_add_process_fails
<1>3. Clean' <=> Clean
  BY DEF scheduler_add_process_fails, Clean
<1> SUFFICES ASSUME Orderly PROVE Orderly'
  BY <1>3 DEF ListInv
<1>4. UNCHANGED <<runnable_pss, zombie_pss, allocated, current, cr3, kstack>>
  BY DEF scheduler_add_process_fails, procs, list
<1>5. Queued' = Queued /\ lost' = lost \cup {My.new}
  BY <1>4, QueuedReach DEF scheduler_add_process_fails
<1>6. ~AboutToQueue(cpu') /\ ~At("add_end") /\ ~At("add_end")'
  BY <1>1, <1>2 DEF AboutToQueue, PendingLabels, At
<1>7. Accounted'
  BY <1>1, <1>4, <1>5, <1>6, HolderDone
<1>8. BootOK' /\ AddOK'
  BY <1>1, <1>2, <1>4 DEF Orderly, BootOK, BootPhase, AddOK
<1>9. Shape' /\ SavedOK'
  BY <1>4, <1>5, <1>6 DEF Shape, Orderly, SavedOK
<1> QED
  BY <1>7, <1>8, <1>9 DEF Orderly

\* pss->start = ele
LEMMA add_firstList ==
    ASSUME Inv, ListInv, add_first PROVE ListInv'
<1>1. cpu.cs = "kernel" /\ cpu.eip = "add_first" /\ AboutToQueue(cpu)
  BY DEF add_first, At, AboutToQueue, PendingLabels
<1>2. cpu \in KernelContexts /\ cpu.esp = NULL
  BY <1>1, WhoseLabel DEF CallLabels, Syscalls
<1>3. cpu'.cs = "kernel" /\ cpu'.eip = "add_end" /\ cpu'.esp = NULL
  BY <1>2 DEF add_first, Goto, KernelContexts
<1>4. Clean' <=> Clean
  BY DEF add_first, Clean, history
<1> SUFFICES ASSUME Orderly PROVE Orderly'
  BY <1>4 DEF ListInv
<1>5. UNCHANGED <<zombie_pss, lost, allocated, current, cr3, kstack>>
  BY DEF add_first, procs, history
<1>6. My'.new = My.new
  BY <1>1, <1>2, <1>3, <1>5 DEF My
<1>7. runnable_pss'.start = My.new /\ runnable_pss'.next[My.new] = NULL
  BY <1>1 DEF Inv, TypeOK, Lists, add_first, Orderly, AddOK
<1>9. HalfListed(runnable_pss', Queued', My.new) /\ Queued' = Queued \cup {My.new}
  BY AddLinkQueue
<1>10. ~AboutToQueue(cpu')
  BY <1>3 DEF AboutToQueue, PendingLabels
<1>11. Accounted'
  BY <1>1, <1>5, <1>9, <1>10, HolderDone
<1>12. BootOK' /\ AddOK'
  BY <1>1, <1>2, <1>3, <1>5, <1>7 DEF Orderly, BootOK, BootPhase, AddOK
<1>13. Shape' /\ SavedOK'
  BY <1>3, <1>5, <1>6, <1>9 DEF Shape, At, Orderly, SavedOK
<1> QED
  BY <1>11, <1>12, <1>13 DEF Orderly

\* pss->end->next = ele
LEMMA add_linkList ==
    ASSUME Inv, ListInv, add_link PROVE ListInv'
<1>1. cpu.cs = "kernel" /\ cpu.eip = "add_link" /\ AboutToQueue(cpu)
  BY DEF add_link, At, AboutToQueue, PendingLabels
<1>2. cpu \in KernelContexts
  BY <1>1, WhoseLabel
<1>3. cpu'.cs = "kernel" /\ cpu'.eip = "add_end" /\ cpu'.esp = cpu.esp
  BY <1>2 DEF add_link, Goto, KernelContexts
<1>4. Clean' <=> Clean
  BY DEF add_link, Clean, history
<1> SUFFICES ASSUME Orderly PROVE Orderly'
  BY <1>4 DEF ListInv
<1>5. UNCHANGED <<zombie_pss, lost, allocated, current, cr3, kstack>>
  BY DEF add_link, procs, history
<1>6. My'.new = My.new
  BY <1>3, <1>5 DEF My
<1>7. cpu.esp # NULL
  BY <1>1 DEF Orderly, BootOK
<1>10. HalfListed(runnable_pss', Queued', My.new) /\ Queued' = Queued \cup {My.new}
  BY AddLinkQueue
<1>11. ~AboutToQueue(cpu')
  BY <1>3 DEF AboutToQueue, PendingLabels
<1>12. Accounted'
  BY <1>1, <1>5, <1>10, <1>11, HolderDone
<1>13. BootOK' /\ AddOK'
  BY <1>3, <1>7 DEF BootOK, AddOK
<1>14. Shape' /\ SavedOK'
  BY <1>3, <1>5, <1>6, <1>10 DEF Shape, At, Orderly, SavedOK
<1> QED
  BY <1>12, <1>13, <1>14 DEF Orderly

\* pss->end = ele
LEMMA add_endList ==
    ASSUME Inv, ListInv, add_end PROVE ListInv'
<1>1. cpu.cs = "kernel" /\ cpu.eip = "add_end" /\ ~AboutToQueue(cpu) /\ At("add_end")
  BY DEF add_end, At, AboutToQueue, PendingLabels
<1>2. \/ cpu'.cs = "user"
      \/ /\ cpu'.cs = "kernel" /\ cpu'.eip = "boot_schedule"
         /\ cpu'.esp = NULL /\ cpu.esp = NULL
  BY <1>1, AddReturnsContext DEF add_end
<1>3. Clean' <=> Clean
  BY DEF add_end, Clean, history
<1> SUFFICES ASSUME Orderly PROVE Orderly'
  BY <1>3 DEF ListInv
<1>4. UNCHANGED <<zombie_pss, lost, allocated, current, cr3, kstack>>
  BY DEF add_end, procs, history
<1>5. ~AboutToQueue(cpu') /\ ~At("add_end")'
  BY <1>2 DEF AboutToQueue, PendingLabels, At
<1>6. runnable_pss'.start = runnable_pss.start /\ runnable_pss'.next = runnable_pss.next
  BY DEF Inv, TypeOK, Lists, add_end
<1>7. Listed(runnable_pss', Queued) /\ Queued' = Queued
  BY AddEndQueue
<1>8. Accounted'
  BY <1>1, <1>4, <1>5, <1>7, SameHolders
<1>9. BootOK' /\ AddOK'
  BY <1>1, <1>2, <1>4, <1>6 DEF Orderly, BootOK, BootPhase, AddOK
<1>10. Shape' /\ SavedOK'
  BY <1>4, <1>5, <1>7 DEF Shape, Orderly, SavedOK
<1> QED
  BY <1>8, <1>9, <1>10 DEF Orderly

\* scheduler_schedule on a list of Q: the queue is Q, and the calls that are about to
\* queue a process are those that were saved.
LEMMA ScheduleList ==
    ASSUME Inv', SavedOK', NEW L \in Lists, NEW Q, Listed(L, Q), NEW back, Schedule(L, back),
           L.start = NULL => /\ back.cs = "kernel" /\ back.esp = NULL
                             /\ back.eip \in {"hang", "halt"}
    PROVE  /\ Queued' = Q
           /\ BootOK' /\ AddOK' /\ Shape'
           /\ Holders' = {p \in Q : AboutToQueue(current'[p])}
<1> DEFINE R == Rotate(L)
<1>1. Listed(R, Q) /\ runnable_pss' = R
  BY RotateListed DEF Schedule
<1>2. Queued' = Q
  BY <1>1, QueuedReach, ListedReach
<1>3. CASE L.start = NULL
  <2>1. cpu' = back /\ Q = {} /\ R.start = NULL
    BY <1>3, ListedStart, RotateType DEF Schedule
  <2>2. BootOK' /\ AddOK'
    BY <1>1, <1>3, <2>1 DEF BootOK, AddOK, BootPhase
  <2>3. Shape'
    BY <1>1, <1>2, <1>3, <2>1 DEF Shape, At
  <2>4. Holders' = {}
    BY <1>2, <1>3, <2>1
       DEF Holders, RunningHolder, SavedHolders, AboutToQueue, PendingLabels
  <2> QED
    BY <1>2, <2>1, <2>2, <2>3, <2>4
<1>4. CASE L.start # NULL
  <2>1. R.start \in Q /\ Q \subseteq Ps /\ R.start # NULL
    BY <1>1, <1>4, RotateType, ListedStart
  <2>2. cpu' = current'[R.start] /\ cr3' = R.start
    BY <2>1 DEF Schedule
  <2>3. cpu'.cs = "kernel" => /\ cpu'.esp = cr3' /\ cpu'.esp # NULL
                              /\ cpu'.eip \notin {"add_link", "add_end"}
    BY <2>1, <2>2 DEF SavedOK
  <2>4. cpu'.cs = "kernel" => cpu'.eip # "add_first"
    BY <2>3 DEF Inv, ContextsOK, WellFormed, CallLabels, Syscalls
  <2>5. BootOK' /\ AddOK'
    BY <2>3, <2>4 DEF BootOK, AddOK
  <2>6. Shape'
    BY <1>1, <1>2, <2>3 DEF Shape, At
  <2>7. Holders' = {p \in Q : AboutToQueue(current'[p])}
    <3>1. RunningHolder' = IF AboutToQueue(current'[cr3']) THEN {cr3'} ELSE {}
      BY <2>2, <2>3 DEF RunningHolder, AboutToQueue
    <3>2. SavedHolders' = {p \in Q \ {cr3'} : AboutToQueue(current'[p])}
      BY <1>2 DEF SavedHolders
    <3> QED
      BY <2>1, <2>2, <3>1, <3>2 DEF Holders
  <2> QED
    BY <1>2, <2>5, <2>6, <2>7
<1> QED
  BY <1>3, <1>4

\* A reschedule that changes nothing but the order of the queue and the context of the
\* process it takes the CPU from.
LEMMA RescheduleList ==
    ASSUME Inv, Inv', Orderly, SavedOK', ~At("add_end"), NEW back, Schedule(runnable_pss, back),
           runnable_pss.start = NULL => /\ back.cs = "kernel" /\ back.esp = NULL
                                        /\ back.eip \in {"hang", "halt"},
           UNCHANGED <<zombie_pss, lost, allocated>>,
           \A q \in Ptr : kstack'[q].new = kstack[q].new,
           \A p \in Ps : p \notin Queued => current'[p] = current[p],
           Holders = {p \in Queued : AboutToQueue(current'[p])}
    PROVE  Orderly'
<1>1. Listed(runnable_pss, Queued) /\ runnable_pss \in Lists
  BY DEF Orderly, Shape, Inv, TypeOK
<1>2. /\ Queued' = Queued /\ BootOK' /\ AddOK' /\ Shape'
      /\ Holders' = {p \in Queued : AboutToQueue(current'[p])}
  BY <1>1, ScheduleList
<1>3. Holders' = Holders
  BY <1>2
<1>4. \A p \in Holders : /\ kstack'[p].new = kstack[p].new
                         /\ current'[kstack'[p].new] = current[kstack[p].new]
  BY OrderlyFacts
<1>5. Awaited' = Awaited
  BY <1>3, <1>4 DEF Awaited
<1>6. Accounted'
  BY <1>2, <1>3, <1>4, <1>5 DEF Orderly, Accounted
<1> QED
  BY <1>2, <1>6 DEF Orderly

\* The PIT interrupt: it preempts a process, outside the stores to the list, or it
\* strikes a window.
LEMMA PitList ==
    ASSUME Inv, ListInv, scheduler_handle_pit_interrupt PROVE ListInv'
<1>1. CASE ~(ms + SCHEDULER_PIT_INTERVAL >= SCHEDULER_TIME_SLICE)
  BY <1>1, SameList DEF scheduler_handle_pit_interrupt, list, procs, history
<1>2. CASE ms + SCHEDULER_PIT_INTERVAL >= SCHEDULER_TIME_SLICE
  <2>1. scheduler_schedule_on_interrupt
    BY <1>2 DEF scheduler_handle_pit_interrupt
  <2> SUFFICES ASSUME Clean' PROVE Orderly'
    BY DEF ListInv
  <2>2. Window \cap {"add", "boot"} = {} /\ Clean
    BY <2>1 DEF scheduler_schedule_on_interrupt, Clean
  <2>3. Orderly /\ Inv'
    BY <2>2, PitInv DEF ListInv
  <2>4. Busy(cpu) /\ ~(cpu.cs = "kernel" /\ cpu.eip \in {"add_link", "add_end"})
    BY <2>2 DEF Window, Busy, AddWindow
  <2>5. /\ cr3 \in Ps /\ runnable_pss.start = cr3 /\ cr3 # NULL
        /\ cr3 \in Queued
    BY <2>3, <2>4, OrderlyFacts, NULLAssumption DEF Inv, HeadOK
  <2>6. cpu \in Registers /\ (cpu.cs = "kernel" => cpu.esp = cr3) /\ cpu.esp \in Ptr
    BY <2>4, CallContext DEF Inv, TypeOK, Busy, Registers, UserContexts, KernelContexts, Ptr
  <2>7. /\ current' = [current EXCEPT ![cr3] = cpu]
        /\ Schedule(runnable_pss, cpu)
        /\ kstack' = IF cpu.eip \in {"sys_fork", "sys_wait"}
                     THEN [kstack EXCEPT ![cpu.esp].torn = TRUE] ELSE kstack
        /\ UNCHANGED <<zombie_pss, lost, allocated>>
    BY <2>1, <2>5
       DEF scheduler_schedule_on_interrupt, SaveRegisters, scheduler_get_current_process, procs
  <2>8. /\ current'[cr3] = cpu
        /\ \A p \in Ps : p # cr3 => current'[p] = current[p]
    BY <2>5, <2>7 DEF Inv, TypeOK
  <2>9. SavedOK'
    BY <2>3, <2>4, <2>6, <2>8 DEF Orderly, SavedOK
  <2>10. \A q \in Ptr : kstack'[q].new = kstack[q].new
    BY <2>6, <2>7, TornLemma DEF Inv, TypeOK
  <2>11. Holders = {p \in Queued : AboutToQueue(current'[p])}
    <3>1. RunningHolder = IF AboutToQueue(current'[cr3]) THEN {cr3} ELSE {}
      BY <2>6, <2>8 DEF RunningHolder, AboutToQueue
    <3>2. SavedHolders = {p \in Queued \ {cr3} : AboutToQueue(current'[p])}
      BY <2>8 DEF SavedHolders, Queued
    <3> QED
      BY <2>5, <3>1, <3>2 DEF Holders
  <2>12. ~At("add_end")
    BY <2>4 DEF At
  <2> QED
    BY <2>3, <2>5, <2>7, <2>8, <2>9, <2>10, <2>11, <2>12, RescheduleList
<1> QED
  BY <1>1, <1>2

\* sys_yield, and the loop of sys_wait: the context that is saved does not queue.
LEMMA GiveUpList ==
    ASSUME Inv, ListInv, sys_yield \/ snapshot_and_schedule PROVE ListInv'
<1>1. /\ cpu.cs = "kernel" /\ cpu.eip \in {"sys_yield", "wait_loop"}
      /\ ~AboutToQueue(cpu) /\ ~At("add_end")
  BY DEF sys_yield, snapshot_and_schedule, At, AboutToQueue, PendingLabels
<1>2. cpu.esp # NULL
  BY <1>1, WhoseLabel DEF BootLabels
<1>3. cpu.esp \in Ps /\ cr3 = cpu.esp /\ runnable_pss.start = cr3 /\ My.ps = cr3
  BY <1>1, <1>2, CallContext
<1>4. Clean' <=> Clean
  BY DEF sys_yield, snapshot_and_schedule, Clean, history
<1> SUFFICES ASSUME Orderly PROVE Orderly'
  BY <1>4 DEF ListInv
<1>5. Inv'
  BY sys_yieldInv, snapshot_and_scheduleInv
<1>6. /\ UNCHANGED <<zombie_pss, lost, allocated, kstack>>
      /\ \E back : Schedule(runnable_pss, back)
  BY DEF sys_yield, snapshot_and_schedule, procs, history
<1>7. /\ ~AboutToQueue(current'[cr3])
      /\ current'[cr3].cs = "kernel" => /\ current'[cr3].esp = cr3
                                        /\ current'[cr3].eip = "wait_loop"
      /\ \A p \in Ps : p # cr3 => current'[p] = current[p]
  <2>1. CASE sys_yield
    <3>1. /\ user_mode' = [user_mode EXCEPT ![cr3].eax = 0]
          /\ current' = [current EXCEPT ![cr3] = user_mode'[cr3]]
      BY <1>3, <2>1 DEF sys_yield, scheduler_get_current_process
    <3>2. user_mode'[cr3].cs = "user"
      BY <1>3, <3>1 DEF Inv, TypeOK, UserContexts
    <3> QED
      BY <1>3, <3>1, <3>2 DEF Inv, TypeOK, AboutToQueue
  <2>2. CASE snapshot_and_schedule
    <3>1. current' = [current EXCEPT ![cr3] = KernelRegisters("wait_loop", cr3, FALSE)]
      BY <1>3, <2>2 DEF snapshot_and_schedule
    <3> QED
      BY <1>3, <3>1 DEF Inv, TypeOK, KernelRegisters, AboutToQueue, PendingLabels
  <2> QED
    BY <2>1, <2>2
<1>8. SavedOK'
  BY <1>7 DEF Orderly, SavedOK
<1>9. Holders = {p \in Queued : AboutToQueue(current'[p])}
  <2>1. RunningHolder = {} /\ Queued \subseteq Ps
    BY <1>1, OrderlyFacts DEF RunningHolder
  <2> QED
    BY <1>7, <2>1 DEF Holders, SavedHolders
<1>10. cr3 \in Queued
  BY <1>2, OrderlyFacts DEF Busy
<1>11. \A p \in Ps : p \notin Queued => current'[p] = current[p]
  BY <1>7, <1>10
<1>12. runnable_pss.start # NULL
  BY <1>3, NULLAssumption
<1> QED
  BY <1>1, <1>5, <1>6, <1>8, <1>9, <1>11, <1>12, RescheduleList

\* The boot thread starts the first process.
LEMMA boot_scheduleList ==
    ASSUME Inv, ListInv, boot_schedule PROVE ListInv'
<1>1. /\ cpu.cs = "kernel" /\ cpu.eip = "boot_schedule"
      /\ ~AboutToQueue(cpu) /\ ~At("add_end")
  BY DEF boot_schedule, At, AboutToQueue, PendingLabels
<1>2. cpu.esp = NULL
  BY <1>1, WhoseLabel DEF CallLabels, Syscalls
<1>3. Clean' <=> Clean
  BY DEF boot_schedule, Clean, history
<1> SUFFICES ASSUME Orderly PROVE Orderly'
  BY <1>3 DEF ListInv
<1> DEFINE back == KernelRegisters("hang", NULL, TRUE)
<1>4. /\ UNCHANGED <<zombie_pss, lost, allocated, kstack, current>>
      /\ Schedule(runnable_pss, back) /\ Inv'
  BY boot_scheduleInv DEF boot_schedule, procs, history
<1>5. back.cs = "kernel" /\ back.esp = NULL /\ back.eip = "hang"
  BY DEF KernelRegisters
<1> HIDE DEF back
<1>6. SavedOK'
  BY <1>4 DEF Orderly, SavedOK
<1>7. Holders = {p \in Queued : AboutToQueue(current'[p])}
  <2>1. cr3 = NULL
    BY <1>1, <1>2 DEF Orderly, BootOK, BootPhase
  <2>2. RunningHolder = {} /\ cr3 \notin Queued
    BY <1>1, <2>1, NULLAssumption DEF RunningHolder, Queued
  <2> QED
    BY <1>4, <2>2 DEF Holders, SavedHolders
<1> QED
  BY <1>1, <1>4, <1>5, <1>6, <1>7, RescheduleList

\* sys_exit: the head leaves the queue, and becomes a zombie or is lost.
LEMMA sys_exitList ==
    ASSUME Inv, ListInv, sys_exit PROVE ListInv'
<1>1. cpu.cs = "kernel" /\ cpu.eip = "sys_exit" /\ ~AboutToQueue(cpu) /\ ~At("add_end")
  BY DEF sys_exit, At, AboutToQueue, PendingLabels
<1>2. cpu.esp # NULL
  BY <1>1, WhoseLabel DEF BootLabels
<1>3. cr3 \in Ps /\ runnable_pss.start = cr3 /\ cr3 # NULL
  BY <1>1, <1>2, CallContext, NULLAssumption
<1>4. Clean' <=> Clean
  BY DEF sys_exit, Clean
<1> SUFFICES ASSUME Orderly PROVE Orderly'
  BY <1>4 DEF ListInv
<1>5. cr3 \in Queued
  BY <1>2, OrderlyFacts DEF Busy
<1>6. /\ UNCHANGED <<allocated, kstack, current>>
      /\ Schedule(RemoveHead(runnable_pss), Halt) /\ Inv'
      /\ \/ zombie_pss' = zombie_pss \cup {cr3} /\ lost' = lost
         \/ zombie_pss' = zombie_pss /\ lost' = lost \cup {cr3}
  BY <1>3, sys_exitInv DEF sys_exit, procs, scheduler_get_current_process
<1>7. Halt.cs = "kernel" /\ Halt.esp = NULL /\ Halt.eip = "halt"
  BY DEF Halt, KernelRegisters
<1>8. Listed(RemoveHead(runnable_pss), Queued \ {cr3}) /\ RemoveHead(runnable_pss) \in Lists
  BY <1>1, <1>3, RemoveListed, RemoveHeadType DEF Orderly, Shape, Inv, TypeOK
<1>9. SavedOK'
  BY <1>6 DEF Orderly, SavedOK
<1>10. /\ Queued' = Queued \ {cr3} /\ BootOK' /\ AddOK' /\ Shape'
       /\ Holders' = {p \in Queued \ {cr3} : AboutToQueue(current'[p])}
  BY <1>6, <1>7, <1>8, <1>9, ScheduleList
<1>11. Holders' = Holders
  BY <1>1, <1>6, <1>10 DEF Holders, RunningHolder, SavedHolders
<1>12. Awaited' = Awaited
  BY <1>6, <1>11 DEF Awaited
<1>13. Accounted'
  BY <1>5, <1>6, <1>10, <1>11, <1>12 DEF Orderly, Accounted
<1> QED
  BY <1>9, <1>10, <1>13 DEF Orderly

\* continue_execve: the replacement is queued in place of the head, or is lost.
LEMMA continue_execveList ==
    ASSUME Inv, ListInv, continue_execve PROVE ListInv'
<1>1. cpu.cs = "kernel" /\ cpu.eip = "switch_execve" /\ AboutToQueue(cpu) /\ ~At("add_end")
  BY DEF continue_execve, At, AboutToQueue, PendingLabels
<1>2. cpu.esp # NULL
  BY <1>1, WhoseLabel DEF BootLabels
<1>3. cr3 \in Ps /\ runnable_pss.start = cr3 /\ cr3 # NULL /\ cpu.esp = cr3
  BY <1>1, <1>2, CallContext, NULLAssumption
<1>4. Clean' <=> Clean
  BY DEF continue_execve, Clean
<1> SUFFICES ASSUME Orderly PROVE Orderly'
  BY <1>4 DEF ListInv
<1>5. /\ cr3 \in Queued /\ My.new \in Ps /\ My.new \notin Queued \cup zombie_pss \cup lost
      /\ My.new \in allocated
  BY <1>1, <1>2, OrderlyFacts DEF Busy
<1>6. Holders = SavedHolders \cup {cpu.esp} /\ current[My.new].cs = "user"
  BY <1>1 DEF Holders, RunningHolder, Orderly, Accounted, My
<1>7. UNCHANGED <<zombie_pss, kstack, current>> /\ allocated' = allocated \ {cr3} /\ Inv'
  BY <1>3, continue_execveInv DEF continue_execve, scheduler_get_current_process
<1>8. Halt.cs = "kernel" /\ Halt.esp = NULL /\ Halt.eip = "halt"
  BY DEF Halt, KernelRegisters
<1> DEFINE L == RemoveHead(runnable_pss)
<1>9. Listed(L, Queued \ {cr3}) /\ L \in Lists
  BY <1>1, <1>3, RemoveListed, RemoveHeadType DEF Orderly, Shape, Inv, TypeOK
<1>10. /\ Listed(AddProcess(L, My.new), (Queued \ {cr3}) \cup {My.new})
       /\ AddProcess(L, My.new) \in Lists
  <2> HIDE DEF L
  <2> QED
    BY <1>5, <1>9, AddListed, AddProcessType
<1>11. SavedOK'
  BY <1>7 DEF Orderly, SavedOK
<1>12. PICK M, Q : /\ M \in Lists /\ Listed(M, Q) /\ Schedule(M, Halt)
                   /\ \/ Q = (Queued \ {cr3}) \cup {My.new} /\ lost' = lost
                      \/ Q = Queued \ {cr3} /\ lost' = lost \cup {My.new}
  BY <1>9, <1>10 DEF continue_execve
<1>13. /\ Queued' = Q /\ BootOK' /\ AddOK' /\ Shape'
       /\ Holders' = {p \in Q : AboutToQueue(current'[p])}
  BY <1>7, <1>8, <1>11, <1>12, ScheduleList
<1>14. Holders' = SavedHolders
  BY <1>6, <1>7, <1>12, <1>13 DEF SavedHolders, AboutToQueue
<1>15. cpu.esp \notin SavedHolders
  BY <1>3 DEF SavedHolders
<1>16. \A p \in SavedHolders : kstack[p].new # My.new
  BY <1>6, <1>15 DEF Orderly, Accounted, My
<1>17. Awaited = Awaited' \cup {My.new} /\ My.new \notin Awaited'
  BY <1>6, <1>7, <1>14, <1>16 DEF Awaited, My
<1>18. Accounted'
  <2>1. \A p \in Holders' : p \in Holders
    BY <1>6, <1>14
  <2>2. /\ \A p, q \in Holders' : kstack'[p].new = kstack'[q].new => p = q
        /\ \A p \in Holders' : current'[kstack'[p].new].cs = "user"
    BY <1>7, <2>1 DEF Orderly, Accounted
  <2> QED
    BY <1>5, <1>7, <1>12, <1>13, <1>17, <2>2 DEF Orderly, Accounted
<1> QED
  BY <1>11, <1>13, <1>18 DEF Orderly

\* A step, or a stutter, preserves the invariant.
LEMMA NextList == Inv /\ ListInv /\ [Next]_vars => ListInv'
<1> SUFFICES ASSUME Inv, ListInv, [Next]_vars PROVE ListInv'
  OBVIOUS
<1>1. CASE UNCHANGED vars
  BY <1>1, SameList DEF vars
<1>2. CASE Spin
  BY <1>2, SameList DEF Spin, vars
<1>3. CASE scheduler_handle_pit_interrupt
  BY <1>3, PitList
<1>4. CASE UserStep
  BY <1>4, UserStepList
<1>5. CASE handle_syscall
  BY <1>5, handle_syscallList
<1>6. CASE KernelStep
  BY <1>6, ReturnsList, sys_forkList, process_cloneList, scheduler_add_processList,
     scheduler_add_process_failsList, add_firstList, add_linkList, add_endList, sys_execveList,
     continue_execveList, sys_exitList, GiveUpList, sys_waitList, start_initList,
     start_init_failsList, boot_scheduleList
     DEF KernelStep
<1> QED
  BY <1>1, <1>2, <1>3, <1>4, <1>5, <1>6 DEF Next

\* The invariant is one of every behaviour of the scheduler.
THEOREM ListInvariance == Spec => [](Inv /\ ListInv)
  BY InitInv, NextInv, InitList, NextList, PTL DEF Spec

-----------------------------------------------------------------------------
(***************************************************************************)
(* The run queue.                                                          *)
(***************************************************************************)

\* A list without repetitions is no longer than there are processes.
LEMMA QueueBound ==
    ASSUME NEW n \in Nat, NEW q \in [1..n -> Ps], Injective(q, n)
    PROVE  n \in 0..Cardinality(Ps)
<1>1. IsFiniteSet(1..n) /\ Cardinality(1..n) = n
  BY FS_Interval
<1>2. q \in Injection(1..n, Ps)
  BY DEF Injective, Injection, IsInjective
<1>3. Cardinality(1..n) <= Cardinality(Ps) /\ Cardinality(Ps) \in Nat
  BY <1>2, PsAssumption, FS_Injection, FS_CardinalityType
<1> QED
  BY <1>1, <1>3

\* The processes that the contexts are about to queue are the awaited ones.
LEMMA PendingAwaited ==
    ASSUME Inv, Orderly PROVE Pending = Awaited
<1>1. \A p \in Queued : p \in Ps /\ (AboutToQueue(current[p]) => current[p].esp = p)
  BY DEF Queued, Orderly, SavedOK, AboutToQueue
<1>2. \A r \in Contexts : AboutToQueue(r) => r.esp \in Holders
  BY <1>1 DEF Contexts, Holders, RunningHolder, SavedHolders
<1>3. \A p \in Holders : \E r \in Contexts : AboutToQueue(r) /\ r.esp = p
  BY <1>1 DEF Contexts, Holders, RunningHolder, SavedHolders
<1>4. Pending = {kstack[r.esp].new : r \in {c \in Contexts : AboutToQueue(c)}}
  BY DEF Pending, AboutToQueue, PendingLabels
<1> QED
  BY <1>2, <1>3, <1>4 DEF Awaited

\* The run queue is well formed and loses nobody, for any number of processes, unless
\* a reschedule strikes the boot thread or the stores of scheduler_add_process.
THEOREM QueueIntact == Spec => []ListIntact
<1>1. Inv /\ ListInv => ListIntact
  <2> SUFFICES ASSUME Inv, Orderly
               PROVE  \E q \in Queues :
                         /\ Spells(q)
                         /\ LET Q == {q[i] : i \in DOMAIN q} IN
                            /\ allocated = Q \cup zombie_pss \cup lost \cup Pending
                            /\ Q \cap zombie_pss = {} /\ (Q \cup zombie_pss) \cap lost = {}
                            /\ (Q \cup zombie_pss \cup lost) \cap Pending = {}
    BY DEF ListInv, Clean, ListIntact
  <2>1. PICK n \in Nat : \E q \in [1..n -> Ps] :
            /\ Injective(q, n) /\ Queued = Members(q, n)
            /\ Chain(runnable_pss, q, n, IF At("add_end") THEN n - 1 ELSE n)
            /\ At("add_end") => n >= 1 /\ q[n] = My.new
    <3>1. CASE At("add_end")
      BY <3>1 DEF Orderly, Shape, HalfListed
    <3>2. CASE ~At("add_end")
      BY <3>2 DEF Orderly, Shape, Listed
    <3> QED
      BY <3>1, <3>2
  <2>2. PICK q \in [1..n -> Ps] :
            /\ Injective(q, n) /\ Queued = Members(q, n)
            /\ Chain(runnable_pss, q, n, IF At("add_end") THEN n - 1 ELSE n)
            /\ At("add_end") => n >= 1 /\ q[n] = My.new
    BY <2>1
  <2>3. q \in Queues
    <3>1. n \in 0..Cardinality(Ps)
      BY <2>2, QueueBound
    <3>2. q \in {r \in [1..n -> Ps] : \A i, j \in 1..n : r[i] = r[j] => i = j}
      BY <2>2 DEF Injective
    <3> QED
      BY <3>1, <3>2 DEF Queues
  <2>4. DOMAIN q = 1..n /\ Len(q) = n /\ (q = <<>> <=> n = 0)
    OBVIOUS
  <2>5. Spells(q)
    <3> DEFINE e == IF At("add_end") THEN n - 1 ELSE n
    <3>1. runnable_pss.start = IF q = <<>> THEN NULL ELSE q[1]
      BY <2>2, <2>4 DEF Chain
    <3>2. \A i \in DOMAIN q : runnable_pss.next[q[i]] = IF i = Len(q) THEN NULL ELSE q[i + 1]
      BY <2>2, <2>4 DEF Chain
    <3>3. e \in Nat /\ runnable_pss.end = IF e < 1 THEN NULL ELSE q[e]
      BY <2>2 DEF Chain
    <3>4. At("add_end") => Len(q) >= 1 /\ q[Len(q)] = My.new
      BY <2>2, <2>4
    <3> QED
      BY <2>4, <3>1, <3>2, <3>3, <3>4 DEF Spells
  <2>6. {q[i] : i \in DOMAIN q} = Queued /\ Pending = Awaited
    BY <2>2, <2>4, PendingAwaited DEF Members
  <2> QED
    BY <2>3, <2>5, <2>6 DEF Orderly, Accounted
<1> QED
  BY <1>1, ListInvariance, PTL
=============================================================================
