---------------------------- MODULE Topo_proofs -----------------------------
(***************************************************************************)
(* Proofs about the topology, for every set of machines: any number of     *)
(* CPUs, SMBIOS structures, PCI devices and bridges, in any order of the   *)
(* directories.                                                            *)
(***************************************************************************)
EXTENDS Topo, FiniteSetTheorems, SequenceTheorems, WellFoundedInduction, TLAPS

-----------------------------------------------------------------------------
(* Loops: the recursive functions of Topo exist, and what every round      *)
(* keeps holds at the end.                                                 *)

\* What stands for induction: a set of naturals that is not empty has a least one.
LEMMA LeastNat ==
  ASSUME NEW T \in SUBSET Nat, T # {}
  PROVE  \E x \in T : \A y \in T : x <= y
<1>1. PICK R : R = OpToRel(<, Nat)
  OBVIOUS
<1>2. IsWellFoundedOn(R, Nat)
  BY <1>1, NatLessThanWellFounded
<1>3. PICK x \in T : \A y \in T : ~ (<<y, x>> \in R)
  BY <1>2, WFMin
<1>4. \A y \in T : <<y, x>> \in R <=> y < x
  BY <1>1 DEF OpToRel
<1>5. \A y \in T : ~ (y < x)
  BY <1>3, <1>4, Zenon
<1>6. \A y \in T : y \in Nat
  OBVIOUS
<1>7. \A y \in T : x <= y
  BY <1>5, <1>6
<1>8. QED
  BY <1>7, Zenon

\* What holds before the first round and is kept by every round holds after each:
\* I[n] is the set of the states a loop may be in after n rounds.
LEMMA Rounds ==
  ASSUME NEW N \in Nat, NEW f, NEW I, f[0] \in I[0],
         \A n \in 1..N : f[n - 1] \in I[n - 1] => f[n] \in I[n]
  PROVE  \A n \in 0..N : f[n] \in I[n]
<1>1. SUFFICES ASSUME NEW z \in 0..N, f[z] \notin I[z] PROVE FALSE
  OBVIOUS
<1>2. PICK T : T = {n \in 0..N : f[n] \notin I[n]}
  OBVIOUS
<1>3. T \in SUBSET Nat /\ z \in T
  BY <1>1, <1>2
<1>4. PICK n \in T : \A k \in T : n <= k
  BY <1>3, LeastNat
<1>5. n \in 0..N /\ f[n] \notin I[n]
  BY <1>2
<1>6. n # 0
  BY <1>5
<1>7. PICK k \in 0..N : k = n - 1
  BY <1>5, <1>6
<1>8. n \in 1..N /\ ~ (n <= k)
  BY <1>5, <1>6, <1>7
<1>9. f[k] \in I[k]
  BY <1>2, <1>4, <1>8, Zenon
<1>10. f[n] \in I[n]
  BY <1>7, <1>8, <1>9
<1>11. QED
  BY <1>5, <1>10

\* A loop of N rounds over states of S: f gives the state after each round.
IsLoop(f, N, S, a, G) ==
  f \in [0..N -> S] /\ f[0] = a /\ \A n \in 1..N : f[n] = G[<<f[n - 1], n>>]

LEMMA LoopExists ==
  ASSUME NEW N \in Nat, NEW S, NEW a \in S, NEW G \in [S \X (1..N) -> S]
  PROVE  \E f : IsLoop(f, N, S, a, G)
<1> DEFINE Good(k) == \E f \in [0..k -> S] : f[0] = a /\ \A n \in 1..k : f[n] = G[<<f[n - 1], n>>]
<1>1. SUFFICES ASSUME ~Good(N) PROVE FALSE
  BY DEF IsLoop
<1>2. PICK T : T = {k \in 0..N : ~Good(k)}
  OBVIOUS
<1>3. Good(0)
  <2>1. PICK f : f = [i \in 0..0 |-> a]
    OBVIOUS
  <2>2. f \in [0..0 -> S] /\ f[0] = a /\ \A n \in 1..0 : f[n] = G[<<f[n - 1], n>>]
    BY <2>1
  <2>3. QED
    BY <2>2
<1> HIDE DEF Good
<1>4. T \in SUBSET Nat /\ N \in T
  BY <1>1, <1>2
<1>5. PICK k \in T : \A l \in T : k <= l
  BY <1>4, LeastNat
<1>6. k \in 0..N /\ ~Good(k)
  BY <1>2
<1>7. k # 0
  BY <1>3, <1>6
<1>8. PICK l \in 0..N : l = k - 1
  BY <1>6, <1>7
<1>9. Good(l)
  <2>1. ~ (k <= l)
    BY <1>6, <1>8
  <2>2. QED
    BY <1>2, <1>5, <2>1, Zenon
<1>10. PICK f \in [0..l -> S] : f[0] = a /\ \A n \in 1..l : f[n] = G[<<f[n - 1], n>>]
  BY <1>9 DEF Good
<1>11. k \in 1..N /\ l \in 0..l /\ l \in 0..k /\ k \in 0..k /\ 0 \in 0..l /\ 0 \in 0..k /\ 0 # k /\ l # k
  BY <1>6, <1>7, <1>8
<1>12. PICK z : z = G[<<f[l], k>>]
  OBVIOUS
<1>13. z \in S
  BY <1>10, <1>11, <1>12
<1>14. PICK h : h = [i \in 0..k |-> IF i = k THEN z ELSE f[i]]
  OBVIOUS
<1>15. h \in [0..k -> S]
  BY <1>8, <1>10, <1>13, <1>14, <1>6
<1>16. h[0] = a
  BY <1>10, <1>11, <1>14
<1>17. ASSUME NEW n \in 1..k PROVE h[n] = G[<<h[n - 1], n>>]
  <2>1. CASE n = k
    <3>1. n - 1 = l
      BY <1>8, <2>1
    <3>2. h[k] = z /\ h[l] = f[l]
      BY <1>11, <1>14
    <3>3. QED
      BY <1>12, <2>1, <3>1, <3>2, Zenon
  <2>2. CASE n # k
    <3>1. n \in 1..l /\ n \in 0..k /\ n - 1 \in 0..k /\ n - 1 # k
      BY <1>6, <1>8, <1>17, <2>2
    <3>2. h[n] = f[n] /\ h[n - 1] = f[n - 1]
      BY <1>14, <2>2, <3>1
    <3>3. f[n] = G[<<f[n - 1], n>>]
      BY <1>10, <3>1
    <3>4. QED
      BY <3>2, <3>3, Zenon
  <2>3. QED
    BY <2>1, <2>2
<1>18. Good(k)
  BY <1>15, <1>16, <1>17 DEF Good
<1>19. QED
  BY <1>6, <1>18


-----------------------------------------------------------------------------
(* Lists, least elements and low bytes.                                    *)

LEMMA MinIs ==
  ASSUME NEW T \in SUBSET Nat, T # {}
  PROVE  Min(T) \in T /\ \A y \in T : Min(T) <= y
<1>1. \E x \in T : \A y \in T : x <= y
  BY LeastNat
<1>2. QED
  BY <1>1, Zenon DEF Min

LEMMA LowByte == \A n \in Nat : n % 256 \in 0..255 /\ (n < 256 => n % 256 = n)
  OBVIOUS

\* list_add puts an element in front.
LEMMA ListAdd ==
  ASSUME NEW S, NEW e \in S, NEW l \in Seq(S), NEW r, r = <<e>> \o l
  PROVE  /\ r \in Seq(S) /\ DOMAIN l = 1..Len(l) /\ Len(l) \in Nat
         /\ DOMAIN r = 1..(Len(l) + 1)
         /\ r[1] = e
         /\ \A i \in DOMAIN l : i + 1 \in DOMAIN r /\ r[i + 1] = l[i]
         /\ \A i \in DOMAIN r : i = 1 \/ (i - 1 \in DOMAIN l /\ r[i] = l[i - 1])
<1>1. PICK h : h = <<e>>
  OBVIOUS
<1>2. h \in Seq(S) /\ Len(h) = 1 /\ h[1] = e
  BY <1>1
<1>3. r = h \o l
  BY <1>1
<1>4. /\ r \in Seq(S) /\ Len(r) = Len(h) + Len(l)
      /\ \A i \in 1..Len(h) + Len(l) : r[i] = IF i <= Len(h) THEN h[i] ELSE l[i - Len(h)]
  BY <1>2, <1>3, ConcatProperties
<1>5. Len(l) \in Nat /\ DOMAIN l = 1..Len(l) /\ DOMAIN r = 1..(Len(l) + 1)
  BY <1>2, <1>4, LenProperties
<1>6. QED
  BY <1>2, <1>4, <1>5

-----------------------------------------------------------------------------
(* CPUs.                                                                   *)

\* What a node, socket and core of list_cpu may be, P being the processors.
CpuRec(P) ==
  [processor : P, chassis : 0..255, socket : 0..255, core : 0..255, thread : {0, 1}, flag : {0, 1}]

\* Two entries of the same CPU.
SameCpu(e, f) ==
  /\ e.processor = f.processor
  /\ e.chassis = f.chassis /\ e.socket = f.socket /\ e.core = f.core

\* CPU i leaves the list alone, or it is paired with j, u being the upper of the two.
Alone(N, l, i) == l[i].flag = 1 \/ \A j \in 1..N : j # i => ~Sibling(l[i], l[j])
WithSibling(N, l, i, j, u, r) ==
  /\ l[i].flag # 1 /\ j # i /\ Sibling(l[i], l[j])
  /\ u = IF l[j].processor > l[i].processor THEN j ELSE i
  /\ r = [k \in 1..N |->
            IF k \notin {i, j} THEN l[k]
            ELSE [l[k] EXCEPT !.flag = 1, !.thread = IF k = u THEN 1 ELSE @]]

\* One round of the outer loop.
LEMMA PairIs ==
  ASSUME NEW N \in Nat, NEW P \in SUBSET Nat, NEW l \in [1..N -> CpuRec(P)], NEW i \in 1..N
  PROVE  \/ PairCpu(l, i) = l /\ Alone(N, l, i)
         \/ \E j \in 1..N, u \in 1..N : WithSibling(N, l, i, j, u, PairCpu(l, i))
<1>1. PICK sib : sib = {j \in DOMAIN l \ {i} : Sibling(l[i], l[j])}
  OBVIOUS
<1>2. DOMAIN l = 1..N
  OBVIOUS
<1>3. CASE l[i].flag = 1 \/ sib = {}
  <2>1. PairCpu(l, i) = l
    BY <1>1, <1>3, Zenon DEF PairCpu
  <2>2. QED
    BY <1>1, <1>2, <1>3, <2>1 DEF Alone
<1>4. CASE l[i].flag # 1 /\ sib # {}
  <2>1. sib \in SUBSET Nat
    BY <1>1, <1>2
  <2>2. PICK j : j = Min(sib)
    OBVIOUS
  <2>3. j \in sib
    BY <1>4, <2>1, <2>2, MinIs
  <2>4. j \in 1..N /\ j # i /\ Sibling(l[i], l[j])
    BY <1>1, <1>2, <2>3
  <2>5. PICK u : u = IF l[j].processor > l[i].processor THEN j ELSE i
    OBVIOUS
  <2>6. u \in 1..N
    BY <2>4, <2>5
  <2>7. PairCpu(l, i) = [k \in 1..N |->
                           IF k \notin {i, j} THEN l[k]
                           ELSE [l[k] EXCEPT !.flag = 1, !.thread = IF k = u THEN 1 ELSE @]]
    BY <1>1, <1>2, <1>4, <2>2, <2>5, Zenon DEF PairCpu
  <2>8. QED
    BY <1>4, <2>4, <2>5, <2>6, <2>7, Zenon DEF WithSibling
<1>5. QED
  BY <1>3, <1>4

LEMMA PairedRec ==
  ASSUME NEW P, NEW e \in CpuRec(P), NEW t \in {0, 1}, NEW r, r = [e EXCEPT !.flag = 1, !.thread = t]
  PROVE  r \in CpuRec(P) /\ SameCpu(r, e) /\ r.flag = 1 /\ r.thread = t
<1>1. PICK B : B = 0..255
  OBVIOUS
<1>2. e \in [processor : P, chassis : B, socket : B, core : B, thread : {0, 1}, flag : {0, 1}]
  BY <1>1, Zenon DEF CpuRec
<1>3. r \in [processor : P, chassis : B, socket : B, core : B, thread : {0, 1}, flag : {0, 1}]
  BY <1>2
<1>4. r \in CpuRec(P)
  BY <1>1, <1>3, Zenon DEF CpuRec
<1>5. SameCpu(r, e) /\ r.flag = 1 /\ r.thread = t
  BY <1>2 DEF SameCpu
<1>6. QED
  BY <1>4, <1>5

\* A round keeps the list a list of the same CPUs.
LEMMA PairKeeps ==
  ASSUME NEW N \in Nat, NEW P \in SUBSET Nat, NEW l \in [1..N -> CpuRec(P)], NEW i \in 1..N
  PROVE  /\ PairCpu(l, i) \in [1..N -> CpuRec(P)]
         /\ \A k \in 1..N : SameCpu(PairCpu(l, i)[k], l[k])
<1>1. PICK r : r = PairCpu(l, i)
  OBVIOUS
<1>2. CASE r = l
  BY <1>1, <1>2 DEF SameCpu
<1>3. ASSUME NEW j \in 1..N, NEW u \in 1..N, WithSibling(N, l, i, j, u, r)
      PROVE  r \in [1..N -> CpuRec(P)] /\ \A k \in 1..N : SameCpu(r[k], l[k])
  <2>1. ASSUME NEW k \in 1..N PROVE r[k] \in CpuRec(P) /\ SameCpu(r[k], l[k])
    <3>1. PICK e \in CpuRec(P) : e = l[k]
      OBVIOUS
    <3>2. CASE k \notin {i, j}
      BY <1>3, <3>1, <3>2 DEF SameCpu, WithSibling
    <3>3. CASE k \in {i, j}
      <4>1. PICK t \in {0, 1} : t = IF k = u THEN 1 ELSE e.thread
        BY <3>1 DEF CpuRec
      <4>2. r[k] = [e EXCEPT !.flag = 1, !.thread = t]
        BY <1>3, <3>1, <3>3, <4>1 DEF WithSibling
      <4>3. r[k] \in CpuRec(P) /\ SameCpu(r[k], e)
        BY <4>2, PairedRec
      <4>4. QED
        BY <3>1, <4>3
    <3>4. QED
      BY <3>2, <3>3
  <2>2. QED
    BY <1>3, <2>1 DEF WithSibling
<1>4. QED
  BY <1>1, <1>2, <1>3, PairIs

\* The outer loop: list_cpu after every round.
LEMMA PairLoop ==
  ASSUME NEW N \in Nat, NEW P \in SUBSET Nat, list_cpu \in [1..N -> CpuRec(P)]
  PROVE  \E g : /\ g[0] = list_cpu /\ Paired = g[N]
                /\ \A n \in 1..N : g[n] = PairCpu(g[n - 1], n)
<1>1. PICK S : S = [1..N -> CpuRec(P)]
  OBVIOUS
<1>2. PICK G : G = [x \in S \X (1..N) |-> PairCpu(x[1], x[2])]
  OBVIOUS
<1>3. G \in [S \X (1..N) -> S]
  <2>1. ASSUME NEW l \in S, NEW n \in 1..N PROVE PairCpu(l, n) \in S
    BY <1>1, PairKeeps
  <2>2. QED
    BY <1>2, <2>1
<1>4. PICK a \in S : a = list_cpu
  BY <1>1
<1>5. PICK f : IsLoop(f, N, S, a, G)
  BY <1>3, LoopExists
<1> USE DEF IsLoop
<1>6. ASSUME NEW n \in 0..N PROVE f[n] = IF n = 0 THEN list_cpu ELSE PairCpu(f[n - 1], n)
  <2>1. CASE n = 0
    BY <1>4, <1>5, <2>1
  <2>2. CASE n # 0
    <3>1. n \in 1..N /\ n - 1 \in 0..N
      BY <1>6, <2>2
    <3>2. f[n - 1] \in S
      BY <1>5, <3>1
    <3>3. f[n] = G[<<f[n - 1], n>>] /\ <<f[n - 1], n>> \in S \X (1..N)
      BY <1>5, <3>1, <3>2
    <3>4. f[n] = PairCpu(f[n - 1], n)
      BY <1>2, <3>3
    <3>5. QED
      BY <2>2, <3>4
  <2>3. QED
    BY <2>1, <2>2
<1>7. f = [n \in 0..N |-> IF n = 0 THEN list_cpu ELSE PairCpu(f[n - 1], n)]
  BY <1>5, <1>6
<1>8. Len(list_cpu) = N
  OBVIOUS
<1>9. PICK g : g = CHOOSE h : h = [i \in 0..Len(list_cpu) |-> IF i = 0 THEN list_cpu ELSE PairCpu(h[i - 1], i)]
  OBVIOUS
<1>10. g = [i \in 0..N |-> IF i = 0 THEN list_cpu ELSE PairCpu(g[i - 1], i)]
  BY <1>7, <1>8, <1>9, Zenon
<1>11. Paired = g[N]
  BY <1>8, <1>9, Zenon DEF Paired
<1>12. 0 \in 0..N /\ \A n \in 1..N : n \in 0..N /\ n # 0
  OBVIOUS
<1>13. g[0] = list_cpu
  BY <1>10, <1>12
<1>14. \A n \in 1..N : g[n] = PairCpu(g[n - 1], n)
  BY <1>10, <1>12
<1>15. QED
  BY <1>11, <1>13, <1>14


\* The loop keeps the list a list of the same CPUs.
LEMMA PairedSame ==
  ASSUME NEW N \in Nat, NEW P \in SUBSET Nat, list_cpu \in [1..N -> CpuRec(P)]
  PROVE  Paired \in [1..N -> CpuRec(P)] /\ \A k \in 1..N : SameCpu(Paired[k], list_cpu[k])
<1>1. PICK g : /\ g[0] = list_cpu /\ Paired = g[N]
               /\ \A n \in 1..N : g[n] = PairCpu(g[n - 1], n)
  BY PairLoop
<1>2. PICK S : S = {l \in [1..N -> CpuRec(P)] : \A k \in 1..N : SameCpu(l[k], list_cpu[k])}
  OBVIOUS
<1>3. PICK I : I = [n \in 0..N |-> S]
  OBVIOUS
<1>4. 0 \in 0..N /\ N \in 0..N /\ \A n \in 1..N : n \in 0..N /\ n - 1 \in 0..N
  OBVIOUS
<1>5. g[0] \in I[0]
  BY <1>1, <1>2, <1>3, <1>4 DEF SameCpu
<1>6. ASSUME NEW n \in 1..N, g[n - 1] \in I[n - 1] PROVE g[n] \in I[n]
  <2>1. PICK l \in S : l = g[n - 1]
    BY <1>3, <1>4, <1>6
  <2>2. PICK r : r = PairCpu(l, n)
    OBVIOUS
  <2>3. r \in [1..N -> CpuRec(P)] /\ \A k \in 1..N : SameCpu(r[k], l[k])
    BY <1>2, <2>1, <2>2, PairKeeps
  <2>4. r \in S
    BY <1>2, <2>1, <2>3 DEF SameCpu
  <2>5. QED
    BY <1>1, <1>3, <1>4, <2>1, <2>2, <2>4
<1>7. g[N] \in I[N]
  BY <1>4, <1>5, <1>6, Rounds
<1>8. QED
  BY <1>1, <1>2, <1>3, <1>4, <1>7

\* After n rounds over the list o, a CPU is paired when it or its sibling has had
\* its round.
Met(N, o, k, n) == \E j \in 1..N : j # k /\ Sibling(o[k], o[j]) /\ (k <= n \/ j <= n)

\* The CPU has a sibling with a smaller processor number.
Upper(N, o, k) == \E j \in 1..N : Sibling(o[k], o[j]) /\ o[j].processor < o[k].processor

\* No three CPUs of the list on one core.
Pairwise(N, o) ==
  \A i, j, k \in 1..N : Sibling(o[i], o[j]) /\ Sibling(o[i], o[k]) => i = j \/ i = k \/ j = k

PairState(N, P, o, n) ==
  {l \in [1..N -> CpuRec(P)] :
     \A k \in 1..N :
       /\ SameCpu(l[k], o[k])
       /\ l[k].flag = 1 <=> Met(N, o, k, n)
       /\ l[k].thread = 1 <=> Met(N, o, k, n) /\ Upper(N, o, k)}

\* A round that pairs nobody: everybody whose turn it is has met.
LEMMA RoundAlone ==
  ASSUME NEW N \in Nat, NEW P \in SUBSET Nat, NEW o \in [1..N -> CpuRec(P)], NEW n \in 1..N,
         NEW l \in PairState(N, P, o, n - 1), Pairwise(N, o), Alone(N, l, n)
  PROVE  l \in PairState(N, P, o, n)
<1>1. /\ l \in [1..N -> CpuRec(P)]
      /\ \A k \in 1..N : /\ SameCpu(l[k], o[k])
                         /\ l[k].flag = 1 <=> Met(N, o, k, n - 1)
                         /\ l[k].thread = 1 <=> Met(N, o, k, n - 1) /\ Upper(N, o, k)
  BY DEF PairState
<1>2. \A j, k \in 1..N : Sibling(l[k], l[j]) <=> Sibling(o[k], o[j])
  BY <1>1 DEF SameCpu, Sibling
<1>3. n - 1 \in Nat /\ \A k \in 1..N : k <= n - 1 <=> k < n
  OBVIOUS
<1>4. ASSUME NEW k \in 1..N PROVE Met(N, o, k, n) <=> Met(N, o, k, n - 1)
  <2>1. Met(N, o, k, n - 1) => Met(N, o, k, n)
    BY <1>3 DEF Met
  <2>2. ASSUME NEW j \in 1..N, j # k, Sibling(o[k], o[j]), k <= n \/ j <= n
        PROVE  Met(N, o, k, n - 1)
    <3>1. CASE k < n \/ j < n
      BY <1>3, <2>2, <3>1 DEF Met
    <3>2. CASE ~ (k < n \/ j < n)
      <4>1. n = k \/ n = j
        BY <2>2, <3>2
      <4>2. Sibling(o[n], o[k]) /\ Sibling(o[n], o[j])
        BY <2>2, <4>1 DEF Sibling
      <4>3. Met(N, o, n, n - 1)
        BY <1>1, <1>2, <2>2, <4>1, <4>2 DEF Alone
      <4>4. PICK i \in 1..N : i # n /\ Sibling(o[n], o[i]) /\ i < n
        BY <1>3, <4>3 DEF Met
      <4>5. i = j \/ i = k
        BY <2>2, <4>1, <4>2, <4>4 DEF Pairwise
      <4>6. QED
        BY <3>2, <4>4, <4>5
    <3>3. QED
      BY <3>1, <3>2
  <2>3. QED
    BY <2>1, <2>2 DEF Met
<1>5. QED
  BY <1>1, <1>4 DEF PairState

\* A round that pairs n with j.
LEMMA RoundPairs ==
  ASSUME NEW N \in Nat, NEW P \in SUBSET Nat, NEW o \in [1..N -> CpuRec(P)], NEW n \in 1..N,
         NEW l \in PairState(N, P, o, n - 1), Pairwise(N, o),
         \A i, k \in 1..N : o[i].processor = o[k].processor => i = k,
         NEW j \in 1..N, NEW u \in 1..N, NEW r, WithSibling(N, l, n, j, u, r),
         r \in [1..N -> CpuRec(P)], \A k \in 1..N : SameCpu(r[k], l[k])
  PROVE  r \in PairState(N, P, o, n)
<1>1. /\ l \in [1..N -> CpuRec(P)]
      /\ \A k \in 1..N : /\ SameCpu(l[k], o[k])
                         /\ l[k].flag = 1 <=> Met(N, o, k, n - 1)
                         /\ l[k].thread = 1 <=> Met(N, o, k, n - 1) /\ Upper(N, o, k)
  BY DEF PairState
<1>2. n - 1 \in Nat /\ \A k \in 1..N : k <= n - 1 <=> k < n
  OBVIOUS
<1>3. n # j /\ Sibling(o[n], o[j]) /\ Sibling(o[j], o[n]) /\ l[n].flag # 1
  BY <1>1 DEF WithSibling, Sibling, SameCpu
<1>4. ~Met(N, o, n, n - 1)
  BY <1>1, <1>3
<1>5. \A i \in 1..N : Sibling(o[n], o[i]) => i = n \/ i = j
  BY <1>3 DEF Pairwise
<1>6. \A i \in 1..N : Sibling(o[j], o[i]) => i = n \/ i = j
  BY <1>3, <1>5 DEF Sibling
<1>7. ~Met(N, o, j, n - 1)
  <2>1. SUFFICES ASSUME NEW i \in 1..N, i # j, Sibling(o[j], o[i]), j < n \/ i < n PROVE FALSE
    BY <1>2 DEF Met
  <2>2. i = n
    BY <1>6, <2>1
  <2>3. QED
    BY <1>2, <1>3, <1>4, <2>1, <2>2 DEF Met
<1>8. Met(N, o, n, n) /\ Met(N, o, j, n)
  BY <1>3 DEF Met
<1>9. o[n].processor \in Nat /\ o[j].processor \in Nat /\ o[n].processor # o[j].processor
  <2>1. o[n] \in CpuRec(P) /\ o[j] \in CpuRec(P)
    OBVIOUS
  <2>2. o[n].processor \in P /\ o[j].processor \in P
    BY <2>1 DEF CpuRec
  <2>3. QED
    BY <1>3, <2>2
<1>10. u = IF o[j].processor > o[n].processor THEN j ELSE n
  BY <1>1 DEF WithSibling, SameCpu
<1>11. (Upper(N, o, n) <=> u = n) /\ (Upper(N, o, j) <=> u = j)
  <2>1. Upper(N, o, n) <=> o[j].processor < o[n].processor
    BY <1>3, <1>5, <1>9 DEF Upper
  <2>2. Upper(N, o, j) <=> o[n].processor < o[j].processor
    BY <1>3, <1>6, <1>9 DEF Upper
  <2>3. QED
    BY <1>3, <1>9, <1>10, <2>1, <2>2
<1>12. ASSUME NEW k \in 1..N
       PROVE  /\ SameCpu(r[k], o[k])
              /\ r[k].flag = 1 <=> Met(N, o, k, n)
              /\ r[k].thread = 1 <=> Met(N, o, k, n) /\ Upper(N, o, k)
  <2>1. SameCpu(r[k], o[k])
    BY <1>1 DEF SameCpu
  <2>2. CASE k \notin {n, j}
    <3>1. r[k] = l[k]
      BY <2>2 DEF WithSibling
    <3>2. ASSUME NEW i \in 1..N, i # k, Sibling(o[k], o[i]), k <= n \/ i <= n
          PROVE  k < n \/ i < n
      <4>1. i # n
        <5>1. i = n => Sibling(o[n], o[k])
          BY <3>2 DEF Sibling
        <5>2. QED
          BY <1>5, <2>2, <5>1
      <4>2. QED
        BY <2>2, <3>2, <4>1
    <3>3. Met(N, o, k, n) <=> Met(N, o, k, n - 1)
      BY <1>2, <3>2 DEF Met
    <3>4. QED
      BY <1>1, <2>1, <3>1, <3>3
  <2>3. CASE k \in {n, j}
    <3>1. PICK e \in CpuRec(P) : e = l[k]
      BY <1>1
    <3>2. PICK t \in {0, 1} : t = IF k = u THEN 1 ELSE e.thread
      BY <3>1 DEF CpuRec
    <3>3. r[k] = [e EXCEPT !.flag = 1, !.thread = t]
      BY <2>3, <3>1, <3>2 DEF WithSibling
    <3>4. r[k].flag = 1 /\ r[k].thread = t
      <4>1. PICK q : q = [e EXCEPT !.flag = 1, !.thread = t]
        OBVIOUS
      <4>2. q.flag = 1 /\ q.thread = t
        BY <4>1, PairedRec, Zenon
      <4>3. QED
        BY <3>3, <4>1, <4>2, Zenon
    <3>5. ~Met(N, o, k, n - 1) /\ Met(N, o, k, n)
      BY <1>4, <1>7, <1>8, <2>3
    <3>6. e.thread # 1
      BY <1>1, <3>1, <3>5
    <3>7. t = 1 <=> k = u
      BY <3>2, <3>6
    <3>8. k = u <=> Upper(N, o, k)
      BY <1>11, <2>3
    <3>9. QED
      BY <2>1, <3>4, <3>5, <3>7, <3>8
  <2>4. QED
    BY <2>2, <2>3
<1>13. QED
  BY <1>12 DEF PairState

\* At the end of the loop the thread number says which CPU of a pair is the upper one.
LEMMA PairedThreads ==
  ASSUME NEW N \in Nat, NEW P \in SUBSET Nat, list_cpu \in [1..N -> CpuRec(P)], Pairwise(N, list_cpu),
         \A i, k \in 1..N : list_cpu[i].processor = list_cpu[k].processor => i = k,
         \A k \in 1..N : list_cpu[k].flag = 0 /\ list_cpu[k].thread = 0
  PROVE  \A k \in 1..N : Paired[k].thread = 1 <=> Upper(N, list_cpu, k)
<1>1. PICK g : /\ g[0] = list_cpu /\ Paired = g[N]
               /\ \A n \in 1..N : g[n] = PairCpu(g[n - 1], n)
  BY PairLoop
<1>2. PICK o \in [1..N -> CpuRec(P)] :
        /\ o = list_cpu /\ Pairwise(N, o)
        /\ \A i, k \in 1..N : o[i].processor = o[k].processor => i = k
        /\ \A k \in 1..N : o[k].flag = 0 /\ o[k].thread = 0
  OBVIOUS
<1>3. PICK I : I = [n \in 0..N |-> PairState(N, P, o, n)]
  OBVIOUS
<1>4. 0 \in 0..N /\ N \in 0..N /\ \A n \in 1..N : n \in 0..N /\ n - 1 \in 0..N
  OBVIOUS
<1>5. g[0] \in I[0]
  <2>1. \A k \in 1..N : ~Met(N, o, k, 0)
    BY DEF Met
  <2>2. o \in PairState(N, P, o, 0)
    BY <1>2, <2>1 DEF PairState, SameCpu
  <2>3. QED
    BY <1>1, <1>2, <1>3, <1>4, <2>2
<1>6. ASSUME NEW n \in 1..N, g[n - 1] \in I[n - 1] PROVE g[n] \in I[n]
  <2>1. PICK l \in PairState(N, P, o, n - 1) : l = g[n - 1]
    BY <1>3, <1>4, <1>6
  <2>2. PICK r : r = PairCpu(l, n)
    OBVIOUS
  <2>3. l \in [1..N -> CpuRec(P)]
    BY <2>1 DEF PairState
  <2>4. ASSUME r = l, Alone(N, l, n) PROVE r \in PairState(N, P, o, n)
    BY <1>2, <2>1, <2>4, RoundAlone
  <2>5. ASSUME NEW j \in 1..N, NEW u \in 1..N, WithSibling(N, l, n, j, u, r)
        PROVE  r \in PairState(N, P, o, n)
    <3>1. r \in [1..N -> CpuRec(P)] /\ \A k \in 1..N : SameCpu(r[k], l[k])
      BY <2>2, <2>3, PairKeeps
    <3>2. QED
      BY <1>2, <2>1, <2>5, <3>1, RoundPairs
  <2>6. r \in PairState(N, P, o, n)
    BY <2>2, <2>3, <2>4, <2>5, PairIs
  <2>7. QED
    BY <1>1, <1>3, <1>4, <2>1, <2>2, <2>6
<1>7. g[N] \in I[N]
  BY <1>4, <1>5, <1>6, Rounds
<1>8. Paired \in PairState(N, P, o, N)
  BY <1>1, <1>3, <1>4, <1>7
<1>9. ASSUME NEW k \in 1..N PROVE Upper(N, o, k) => Met(N, o, k, N)
  <2>1. SUFFICES ASSUME NEW j \in 1..N, Sibling(o[k], o[j]), o[j].processor < o[k].processor
                 PROVE  Met(N, o, k, N)
    BY DEF Upper
  <2>2. o[k] \in CpuRec(P)
    BY <1>2
  <2>3. o[k].processor \in Nat
    BY <2>2 DEF CpuRec
  <2>4. j # k
    BY <2>1, <2>3
  <2>5. QED
    BY <2>1, <2>4 DEF Met
<1>10. QED
  BY <1>2, <1>8, <1>9 DEF PairState


-----------------------------------------------------------------------------
(* The walk over the CPUs.                                                 *)

\* An entry says what sysfs says of its CPU.
Right(e) ==
  /\ e.chassis = NodeOf(e.processor) % 256
  /\ e.socket = m.cpu[e.processor].socket % 256
  /\ e.core = m.cpu[e.processor].core % 256

\* list_cpu has at most one entry for a CPU, and one for every CPU that is online and
\* has been read; threads are numbered after the walk.
Listed == \A c \in online : (pc = "cpu" /\ c \in todo) \/ \E i \in DOMAIN list_cpu : list_cpu[i].processor = c

ThreadsRight ==
  \A i \in DOMAIN list_cpu :
    list_cpu[i].thread = 1 <=> \E j \in DOMAIN list_cpu :
                                 /\ Sibling(list_cpu[i], list_cpu[j])
                                 /\ list_cpu[j].processor < list_cpu[i].processor

CpuType ==
  /\ m \in Machines
  /\ pc \in {"cpu", "dmi", "pci", "tree", "print", "exit", "undefined"}
  /\ online \subseteq DOMAIN m.cpu
  /\ list_cpu \in Seq(CpuRec(DOMAIN m.cpu))

Fresh ==
  pc = "cpu" => /\ todo \subseteq DOMAIN m.cpu
                /\ \A i \in DOMAIN list_cpu : /\ list_cpu[i].processor \notin todo
                                              /\ list_cpu[i].flag = 0 /\ list_cpu[i].thread = 0

CpuInv ==
  /\ CpuType
  /\ \A i \in DOMAIN list_cpu : Right(list_cpu[i])
  /\ \A i, j \in DOMAIN list_cpu : list_cpu[i].processor = list_cpu[j].processor => i = j
  /\ Listed
  /\ Fresh
  /\ pc # "cpu" => (TwoThreads => ThreadsRight)

\* A CPU's processor number and ids are natural.
LEMMA CpuNumbers ==
  ASSUME m \in Machines
  PROVE  /\ DOMAIN m.cpu \in SUBSET Nat
         /\ \A c \in DOMAIN m.cpu : /\ m.cpu[c].node \in Nat /\ m.cpu[c].socket \in Nat
                                    /\ m.cpu[c].core \in Nat /\ NodeOf(c) \in Nat
  BY TopoAssumption DEF TopoAssumption, NodeOf

LEMMA EntryIs ==
  ASSUME m \in Machines, NEW c \in DOMAIN m.cpu
  PROVE  /\ CpuEntry(c) \in CpuRec(DOMAIN m.cpu) /\ Right(CpuEntry(c))
         /\ CpuEntry(c).processor = c /\ CpuEntry(c).flag = 0 /\ CpuEntry(c).thread = 0
<1>1. PICK B : B = 0..255
  OBVIOUS
<1>2. PICK x \in B, y \in B, z \in B :
        x = NodeOf(c) % 256 /\ y = m.cpu[c].socket % 256 /\ z = m.cpu[c].core % 256
  BY <1>1, CpuNumbers, LowByte
<1>3. CpuEntry(c) = [processor |-> c, chassis |-> x, socket |-> y, core |-> z, thread |-> 0, flag |-> 0]
  BY <1>2, Zenon DEF CpuEntry
<1>4. CpuEntry(c) \in [processor : DOMAIN m.cpu, chassis : B, socket : B, core : B, thread : {0, 1}, flag : {0, 1}]
  BY <1>3
<1>5. CpuEntry(c) \in CpuRec(DOMAIN m.cpu)
  BY <1>1, <1>4, Zenon DEF CpuRec
<1>6. CpuEntry(c).processor = c /\ CpuEntry(c).flag = 0 /\ CpuEntry(c).thread = 0
  BY <1>3
<1>7. CpuEntry(c).chassis = x /\ CpuEntry(c).socket = y /\ CpuEntry(c).core = z
  BY <1>3
<1>8. Right(CpuEntry(c))
  BY <1>2, <1>6, <1>7, Zenon DEF Right
<1>9. QED
  BY <1>5, <1>6, <1>8

LEMMA CpuInit == Init => CpuInv
<1> SUFFICES ASSUME Init PROVE CpuInv
  OBVIOUS
<1>1. PICK S : S = CpuRec(DOMAIN m.cpu)
  OBVIOUS
<1>2. <<>> \in Seq(S) /\ DOMAIN <<>> = {}
  OBVIOUS
<1>3. list_cpu \in Seq(CpuRec(DOMAIN m.cpu)) /\ DOMAIN list_cpu = {}
  BY <1>1, <1>2 DEF Init
<1>4. CpuType
  BY <1>3 DEF Init, CpuType
<1>5. QED
  BY <1>3, <1>4 DEF Init, CpuInv, Listed, Fresh

\* What a step that leaves m alone leaves alone.
LEMMA SameMachine ==
  ASSUME m' = m
  PROVE  /\ \A c : NodeOf(c)' = NodeOf(c)
         /\ TwoThreads' <=> TwoThreads
         /\ \A e : Right(e)' <=> Right(e)
  BY DEF NodeOf, TwoThreads, Right, CpuEntry, Sibling

LEMMA ReadCpuInv ==
  ASSUME CpuInv, NEW c \in DOMAIN m.cpu, ReadCpu(c)
  PROVE  CpuInv'
<1>1. m' = m /\ pc = "cpu" /\ pc' = "cpu" /\ online' = online /\ todo' = todo \ {c} /\ c \in todo
  BY DEF ReadCpu
<1>2. CASE c \notin online
  <2>1. list_cpu' = list_cpu
    BY <1>2 DEF ReadCpu
  <2>2. QED
    BY <1>1, <1>2, <2>1, SameMachine DEF CpuInv, CpuType, Listed, Fresh
<1>3. CASE c \in online
  <2>1. PICK S : S = CpuRec(DOMAIN m.cpu)
    OBVIOUS
  <2>2. PICK l \in Seq(S) : l = list_cpu
    BY <2>1 DEF CpuInv, CpuType
  <2>3. PICK e \in S : e = CpuEntry(c)
    BY <2>1, EntryIs DEF CpuInv, CpuType
  <2>4. Right(e) /\ e.processor = c /\ e.flag = 0 /\ e.thread = 0
    BY <2>3, EntryIs DEF CpuInv, CpuType
  <2>5. PICK r : r = <<e>> \o l
    OBVIOUS
  <2>6. list_cpu' = r
    BY <1>3, <2>2, <2>3, <2>5 DEF ReadCpu
  <2>7. /\ r \in Seq(S) /\ DOMAIN l = 1..Len(l) /\ Len(l) \in Nat
        /\ DOMAIN r = 1..(Len(l) + 1)
        /\ r[1] = e
        /\ \A i \in DOMAIN l : i + 1 \in DOMAIN r /\ r[i + 1] = l[i]
        /\ \A i \in DOMAIN r : i = 1 \/ (i - 1 \in DOMAIN l /\ r[i] = l[i - 1])
    BY <2>5, ListAdd
  <2>8. \A i \in DOMAIN l : l[i].processor # c /\ Right(l[i]) /\ l[i].flag = 0 /\ l[i].thread = 0
    BY <1>1, <2>2 DEF CpuInv, Fresh
  <2>9. CpuType'
    BY <1>1, <2>1, <2>6, <2>7 DEF CpuInv, CpuType
  <2>10. \A i \in DOMAIN r : Right(r[i])
    BY <2>4, <2>7, <2>8
  <2>11. ASSUME NEW i \in DOMAIN r, NEW j \in DOMAIN r, r[i].processor = r[j].processor PROVE i = j
    <3>1. \A k, n \in DOMAIN l : l[k].processor = l[n].processor => k = n
      BY <2>2 DEF CpuInv
    <3>2. i \in Int /\ j \in Int
      BY <2>7
    <3>3. CASE i # 1 /\ j # 1
      <4>1. i - 1 = j - 1
        BY <2>7, <2>11, <3>1, <3>3
      <4>2. QED
        BY <3>2, <4>1
    <3>4. QED
      BY <2>4, <2>7, <2>8, <2>11, <3>3
  <2>12. Listed'
    <3>1. ASSUME NEW d \in online', d \notin todo' PROVE \E i \in DOMAIN r : r[i].processor = d
      <4>1. CASE d = c
        <5>1. 1 \in DOMAIN r
          BY <2>7
        <5>2. QED
          BY <2>4, <2>7, <4>1, <5>1
      <4>2. CASE d # c
        <5>1. PICK i \in DOMAIN l : l[i].processor = d
          BY <1>1, <2>2, <3>1, <4>2 DEF CpuInv, Listed
        <5>2. QED
          BY <2>7, <5>1
      <4>3. QED
        BY <4>1, <4>2
    <3>2. QED
      BY <1>1, <2>6, <3>1 DEF Listed
  <2>13. Fresh'
    <3>1. \A i \in DOMAIN l : l[i].processor \notin todo
      BY <1>1, <2>2 DEF CpuInv, Fresh
    <3>2. \A i \in DOMAIN r : r[i].processor \notin todo \ {c} /\ r[i].flag = 0 /\ r[i].thread = 0
      BY <2>4, <2>7, <2>8, <3>1
    <3>3. QED
      BY <1>1, <2>6, <3>2 DEF CpuInv, Fresh
  <2>14. QED
    BY <1>1, <2>6, <2>9, <2>10, <2>11, <2>12, <2>13, SameMachine DEF CpuInv
<1>4. QED
  BY <1>2, <1>3

LEMMA SetThreadsInv ==
  ASSUME CpuInv, SetThreads
  PROVE  CpuInv'
<1>1. m' = m /\ pc = "cpu" /\ pc' = "dmi" /\ online' = online /\ todo = {} /\ list_cpu' = Paired
  BY DEF SetThreads
<1>2. PICK P \in SUBSET Nat : P = DOMAIN m.cpu
  BY CpuNumbers DEF CpuInv, CpuType
<1>3. PICK N \in Nat : N = Len(list_cpu)
  BY LenProperties DEF CpuInv, CpuType
<1>4. list_cpu \in [1..N -> CpuRec(P)] /\ DOMAIN list_cpu = 1..N
  BY <1>2, <1>3, LenProperties DEF CpuInv, CpuType
<1>5. PICK r : r = Paired
  OBVIOUS
<1>6. r \in [1..N -> CpuRec(P)] /\ \A k \in 1..N : SameCpu(r[k], list_cpu[k])
  BY <1>4, <1>5, PairedSame
<1>7. r \in Seq(CpuRec(P)) /\ DOMAIN r = 1..N
  BY <1>6, IsASeq
<1>8. CpuType'
  BY <1>1, <1>2, <1>5, <1>7 DEF CpuInv, CpuType
<1>9. \A i \in 1..N : Right(r[i])
  BY <1>4, <1>6 DEF CpuInv, Right, SameCpu
<1>10. \A i, j \in 1..N : r[i].processor = r[j].processor => i = j
  BY <1>4, <1>6 DEF CpuInv, SameCpu
<1>11. Listed'
  <2>1. \A c \in online : \E i \in 1..N : r[i].processor = c
    BY <1>1, <1>4, <1>6 DEF CpuInv, Listed, SameCpu
  <2>2. QED
    BY <1>1, <1>5, <1>7, <2>1 DEF Listed
<1>12. ASSUME TwoThreads
       PROVE  \A i \in 1..N : r[i].thread = 1 <=> \E j \in 1..N : /\ Sibling(r[i], r[j])
                                                                  /\ r[j].processor < r[i].processor
  <2>1. \A i \in 1..N : list_cpu[i] \in CpuRec(P)
    BY <1>4
  <2>2. \A i \in 1..N : list_cpu[i].processor \in DOMAIN m.cpu
    BY <1>2, <2>1 DEF CpuRec
  <2>3. ASSUME NEW i \in 1..N
        PROVE  LET e == CpuEntry(list_cpu[i].processor)
               IN e.chassis = list_cpu[i].chassis /\ e.socket = list_cpu[i].socket /\ e.core = list_cpu[i].core
    <3>1. PICK c \in DOMAIN m.cpu : c = list_cpu[i].processor
      BY <2>2
    <3>2. PICK e : e = CpuEntry(c)
      OBVIOUS
    <3>3. Right(e) /\ e.processor = c
      BY <3>2, EntryIs DEF CpuInv, CpuType
    <3>4. Right(list_cpu[i])
      BY <1>4 DEF CpuInv
    <3>5. QED
      BY <3>1, <3>2, <3>3, <3>4 DEF Right
  <2>4. Pairwise(N, list_cpu)
    <3>1. SUFFICES ASSUME NEW i \in 1..N, NEW j \in 1..N, NEW k \in 1..N,
                          Sibling(list_cpu[i], list_cpu[j]), Sibling(list_cpu[i], list_cpu[k])
                   PROVE  i = j \/ i = k \/ j = k
      BY DEF Pairwise
    <3>2. PICK a \in DOMAIN m.cpu, b \in DOMAIN m.cpu, c \in DOMAIN m.cpu :
            a = list_cpu[i].processor /\ b = list_cpu[j].processor /\ c = list_cpu[k].processor
      BY <2>2
    <3>3. Sibling(CpuEntry(a), CpuEntry(b)) /\ Sibling(CpuEntry(a), CpuEntry(c))
      BY <2>3, <3>1, <3>2 DEF Sibling
    <3>4. a = b \/ a = c \/ b = c
      BY <1>12, <3>3, Zenon DEF TwoThreads
    <3>5. QED
      BY <1>4, <3>2, <3>4 DEF CpuInv
  <2>5. \A k \in 1..N : r[k].thread = 1 <=> Upper(N, list_cpu, k)
    <3>1. \A i, k \in 1..N : list_cpu[i].processor = list_cpu[k].processor => i = k
      BY <1>4 DEF CpuInv
    <3>2. \A k \in 1..N : list_cpu[k].flag = 0 /\ list_cpu[k].thread = 0
      BY <1>1, <1>4 DEF CpuInv, Fresh
    <3>3. QED
      BY <1>4, <1>5, <2>4, <3>1, <3>2, PairedThreads
  <2>6. QED
    BY <1>6, <2>5 DEF Upper, SameCpu, Sibling
<1>13. TwoThreads' => ThreadsRight'
  BY <1>1, <1>5, <1>7, <1>12, SameMachine DEF ThreadsRight
<1>14. QED
  BY <1>1, <1>5, <1>7, <1>8, <1>9, <1>10, <1>11, <1>13, SameMachine DEF CpuInv, Fresh

\* Every step keeps what is known of the CPUs.
LEMMA CpuNext == CpuInv /\ [Next]_vars => CpuInv'
<1> SUFFICES ASSUME CpuInv, [Next]_vars PROVE CpuInv'
  OBVIOUS
<1>1. ASSUME NEW c \in DOMAIN m.cpu, ReadCpu(c) PROVE CpuInv'
  BY <1>1, ReadCpuInv
<1>2. ASSUME NEW c \in DOMAIN m.cpu, Offline(c) PROVE CpuInv'
  BY <1>2, SameMachine DEF Offline, lists, CpuInv, CpuType, Listed, Fresh
<1>3. CASE SetThreads
  BY <1>3, SetThreadsInv
<1>4. ASSUME m' = m, online' = online, list_cpu' = list_cpu, pc # "cpu",
             pc' \in {"dmi", "pci", "tree", "print", "exit", "undefined"}
      PROVE  CpuInv'
  <2>1. pc' # "cpu" /\ (TwoThreads' => ThreadsRight')
    BY <1>4, SameMachine DEF CpuInv, ThreadsRight
  <2>2. CpuType' /\ Listed' /\ Fresh'
    BY <1>4 DEF CpuInv, CpuType, Listed, Fresh
  <2>3. QED
    BY <1>4, <2>1, <2>2, SameMachine DEF CpuInv
<1>5. CASE UNCHANGED vars
  <2>1. ThreadsRight' <=> ThreadsRight
    BY <1>5 DEF vars, ThreadsRight
  <2>2. QED
    BY <1>5, <2>1, SameMachine DEF vars, CpuInv, CpuType, Listed, Fresh
<1>6. CASE WalkMem
  BY <1>4, <1>6 DEF WalkMem
<1>7. CASE DmiFails
  BY <1>4, <1>7 DEF DmiFails, lists
<1>8. ASSUME NEW d \in DOMAIN m.pci, WalkPci(d) PROVE CpuInv'
  BY <1>4, <1>8 DEF WalkPci
<1>9. CASE WalkNet
  BY <1>4, <1>9 DEF WalkNet
<1>10. CASE CreateTree
  BY <1>4, <1>10 DEF CreateTree, lists
<1>11. CASE DmiAbsent \/ SocketsOverflow
  BY <1>4, <1>11 DEF DmiAbsent, SocketsOverflow, lists
<1>12. QED
  BY <1>1, <1>2, <1>3, <1>5, <1>6, <1>7, <1>8, <1>9, <1>10, <1>11 DEF Next


-----------------------------------------------------------------------------
(* Paths of the tree.                                                      *)

\* A path of Paths(s) is s up to one of its nodes.
LEMMA PrefixIs ==
  ASSUME NEW S, NEW s \in Seq(S), NEW q \in Paths(s)
  PROVE  /\ Len(q) \in 1..Len(s) /\ q \in Seq(S)
         /\ \A k \in 1..Len(q) : q[k] = s[k]
         /\ Len(q) = Len(s) => q = s
<1>1. PICK n \in 1..Len(s) : q = SubSeq(s, 1, n)
  BY DEF Paths
<1>2. Len(s) \in Nat
  BY LenProperties
<1>3. \A i \in 1..n : i \in 1..Len(s)
  BY <1>2
<1>4. /\ q \in Seq(S) /\ Len(q) = n /\ \A k \in 1..n : q[k] = s[k]
  <2>1. /\ SubSeq(s, 1, n) \in Seq(S)
        /\ Len(SubSeq(s, 1, n)) = IF 1 <= n THEN n - 1 + 1 ELSE 0
        /\ \A i \in 1..(n - 1 + 1) : SubSeq(s, 1, n)[i] = s[1 + i - 1]
    BY <1>2, <1>3, SubSeqProperties
  <2>2. n \in Nat /\ 1 <= n /\ n - 1 + 1 = n /\ \A i \in 1..n : 1 + i - 1 = i
    BY <1>2
  <2>3. QED
    BY <1>1, <2>1, <2>2
<1>5. n = Len(s) => q = s
  BY <1>1, SubSeqFull
<1>6. QED
  BY <1>4, <1>5

LEMMA SelfPath ==
  ASSUME NEW S, NEW s \in Seq(S), Len(s) > 0
  PROVE  s \in Paths(s) /\ \A n \in 1..Len(s) : SubSeq(s, 1, n) \in Paths(s)
<1>1. Len(s) \in Nat /\ Len(s) \in 1..Len(s)
  BY LenProperties
<1>2. SubSeq(s, 1, Len(s)) = s
  BY SubSeqFull
<1>3. QED
  BY <1>1, <1>2 DEF Paths

\* A path of four nodes.
LEMMA FourNodes ==
  ASSUME NEW a, NEW b, NEW c, NEW d, NEW s, s = <<a, b, c, d>>
  PROVE  /\ s \in Seq({a, b, c, d}) /\ Len(s) = 4
         /\ s[1] = a /\ s[2] = b /\ s[3] = c /\ s[4] = d
  OBVIOUS

LEMMA ThreeNodes ==
  ASSUME NEW x, NEW y, NEW z, NEW s, s = <<x, y, z>>
  PROVE  s \in Seq({x, y, z}) /\ Len(s) = 3 /\ s[1] = x /\ s[2] = y /\ s[3] = z
  OBVIOUS

\* Four nodes and what comes after them: nothing, or the three nodes of a device
\* below a bridge.
Nodes(s, t, a, b, c, d, x, y, z) ==
  /\ s \in Seq({a, b, c, d, x, y, z})
  /\ s[1] = a /\ s[2] = b /\ s[3] = c /\ s[4] = d
  /\ t = <<>> => Len(s) = 4
  /\ t = <<x, y, z>> => Len(s) = 7 /\ s[5] = x /\ s[6] = y /\ s[7] = z

LEMMA LongPath ==
  ASSUME NEW a, NEW b, NEW c, NEW d, NEW t, NEW s, s = <<a, b, c, d>> \o t,
         NEW x, NEW y, NEW z, t = <<>> \/ t = <<x, y, z>>
  PROVE  Nodes(s, t, a, b, c, d, x, y, z)
<1>1. PICK h : h = <<a, b, c, d>>
  OBVIOUS
<1>2. PICK S : S = {a, b, c, d, x, y, z}
  OBVIOUS
<1>3. /\ h \in Seq(S) /\ Len(h) = 4
      /\ h[1] = a /\ h[2] = b /\ h[3] = c /\ h[4] = d
  <2>1. h \in Seq({a, b, c, d}) /\ Len(h) = 4 /\ h[1] = a /\ h[2] = b /\ h[3] = c /\ h[4] = d
    BY <1>1, FourNodes
  <2>2. {a, b, c, d} \subseteq S
    BY <1>2
  <2>3. QED
    BY <2>1, <2>2, SeqMonotonic
<1>4. CASE t = <<>>
  <2>1. <<>> # <<x, y, z>>
    OBVIOUS
  <2>2. s = h
    BY <1>1, <1>3, <1>4, ConcatEmptySeq
  <2>3. t # <<x, y, z>>
    BY <1>4, <2>1, Zenon
  <2>4. QED
    BY <1>2, <1>3, <1>4, <2>2, <2>3, Zenon DEF Nodes
<1>5. CASE t = <<x, y, z>>
  <2>1. t \in Seq(S) /\ Len(t) = 3 /\ t[1] = x /\ t[2] = y /\ t[3] = z
    <3>1. t \in Seq({x, y, z}) /\ Len(t) = 3 /\ t[1] = x /\ t[2] = y /\ t[3] = z
      BY <1>5, ThreeNodes
    <3>2. {x, y, z} \subseteq S
      BY <1>2
    <3>3. QED
      BY <3>1, <3>2, SeqMonotonic
  <2>2. /\ s \in Seq(S) /\ Len(s) = Len(h) + Len(t)
        /\ \A i \in 1..Len(h) + Len(t) : s[i] = IF i <= Len(h) THEN h[i] ELSE t[i - Len(h)]
    <3>1. s = h \o t
      BY <1>1, Zenon
    <3>2. /\ h \o t \in Seq(S) /\ Len(h \o t) = Len(h) + Len(t)
          /\ \A i \in 1..Len(h) + Len(t) : (h \o t)[i] = IF i <= Len(h) THEN h[i] ELSE t[i - Len(h)]
      BY <1>3, <2>1, ConcatProperties, Zenon
    <3>3. QED
      BY <3>1, <3>2, Zenon
  <2>3. Len(s) = 7 /\ \A i \in 1..7 : s[i] = IF i <= 4 THEN h[i] ELSE t[i - 4]
    BY <1>3, <2>1, <2>2
  <2>4. /\ s[1] = h[1] /\ s[2] = h[2] /\ s[3] = h[3] /\ s[4] = h[4]
        /\ s[5] = t[1] /\ s[6] = t[2] /\ s[7] = t[3]
    BY <2>3
  <2>5. t # <<>>
    <3>1. <<>> # <<x, y, z>>
      OBVIOUS
    <3>2. QED
      BY <1>5, <3>1, Zenon
  <2>6. QED
    BY <1>2, <1>3, <2>1, <2>2, <2>3, <2>4, <2>5, Zenon DEF Nodes
<1>6. QED
  BY <1>4, <1>5

LEMMA CpuPathIs ==
  ASSUME NEW c, NEW s, s = CpuPath(c)
  PROVE  \E S : /\ s \in Seq(S) /\ Len(s) = 4
                /\ s[1] = Node("chassis", c.chassis) /\ s[2] = Node("chip", c.socket)
                /\ s[3] = Node("core", c.core) /\ s[4] = Node("thread", c.processor)
<1>1. PICK x, y, z, w : /\ x = Node("chassis", c.chassis) /\ y = Node("chip", c.socket)
                        /\ z = Node("core", c.core) /\ w = Node("thread", c.processor)
  OBVIOUS
<1>2. s = <<x, y, z, w>>
  BY <1>1, Zenon DEF CpuPath
<1>3. /\ s \in Seq({x, y, z, w}) /\ Len(s) = 4
      /\ s[1] = x /\ s[2] = y /\ s[3] = z /\ s[4] = w
  BY <1>2
<1>4. QED
  BY <1>1, <1>3, Zenon

LEMMA MemPathIs ==
  ASSUME NEW d, NEW s, s = MemPath(d)
  PROVE  \E S : /\ s \in Seq(S) /\ Len(s) = 4
                /\ s[1] = Node("chassis", d.chassis) /\ s[2] = Node("chip", d.socket)
                /\ s[3] = Node("memory-controller", 0)
<1>1. PICK x, y, z, w : /\ x = Node("chassis", d.chassis) /\ y = Node("chip", d.socket)
                        /\ z = Node("memory-controller", 0) /\ w = Node("dimm", d.dimm)
  OBVIOUS
<1>2. s = <<x, y, z, w>>
  BY <1>1, Zenon DEF MemPath
<1>3. /\ s \in Seq({x, y, z, w}) /\ Len(s) = 4
      /\ s[1] = x /\ s[2] = y /\ s[3] = z /\ s[4] = w
  BY <1>2
<1>4. QED
  BY <1>1, <1>3, Zenon

LEMMA PciPathIs ==
  ASSUME NEW p, NEW s, s = PciPath(p) \o SubPath(p)
  PROVE  \E S : /\ s \in Seq(S)
                /\ s[1] = Node("chassis", p.chassis) /\ s[2] = Node("hostbridge", p.hostbridge)
                /\ s[3] = Node("slot", p.slot) /\ s[4] = Node("func", p.func)
                /\ p.subbus = 0 /\ p.subdomain = 0 => Len(s) = 4
                /\ ~ (p.subbus = 0 /\ p.subdomain = 0) =>
                     /\ Len(s) = 7
                     /\ s[5] = Node("hostbridge", p.subbus) /\ s[6] = Node("slot", p.subslot)
                     /\ s[7] = Node("func", p.subfunc)
<1>1. PICK a, b, c, d : /\ a = Node("chassis", p.chassis) /\ b = Node("hostbridge", p.hostbridge)
                        /\ c = Node("slot", p.slot) /\ d = Node("func", p.func)
  OBVIOUS
<1>2. PICK x, y, z : /\ x = Node("hostbridge", p.subbus) /\ y = Node("slot", p.subslot)
                     /\ z = Node("func", p.subfunc)
  OBVIOUS
<1>3. PICK t : t = SubPath(p)
  OBVIOUS
<1>4. s = <<a, b, c, d>> \o t
  BY <1>1, <1>3, Zenon DEF PciPath
<1>5. /\ p.subbus = 0 /\ p.subdomain = 0 => t = <<>>
      /\ ~ (p.subbus = 0 /\ p.subdomain = 0) => t = <<x, y, z>>
  BY <1>2, <1>3, Zenon DEF SubPath
<1>6. t = <<>> \/ t = <<x, y, z>>
  BY <1>5, Zenon
<1>7. Nodes(s, t, a, b, c, d, x, y, z)
  BY <1>4, <1>6, LongPath, Zenon
<1>8. QED
  BY <1>1, <1>2, <1>5, <1>7, Zenon DEF Nodes

\* Of the paths of four nodes only those of CPUs have a core.
LEMMA CpuPaths ==
  ASSUME NEW c, NEW q \in Paths(CpuPath(c)), Len(q) = 4
  PROVE  q = CpuPath(c)
<1>1. PICK s : s = CpuPath(c)
  OBVIOUS
<1>2. PICK S : s \in Seq(S) /\ Len(s) = 4
  BY <1>1, CpuPathIs
<1>3. QED
  BY <1>1, <1>2, PrefixIs

LEMMA MemPaths ==
  ASSUME NEW d, NEW q \in Paths(MemPath(d)), Len(q) = 4
  PROVE  q[3][1] = "memory-controller"
<1>1. PICK s : s = MemPath(d)
  OBVIOUS
<1>2. PICK S : s \in Seq(S) /\ Len(s) = 4 /\ s[3] = Node("memory-controller", 0)
  BY <1>1, MemPathIs
<1>3. q[3] = s[3]
  BY <1>1, <1>2, PrefixIs
<1>4. QED
  BY <1>2, <1>3 DEF Node

LEMMA ThirdNode ==
  ASSUME NEW S, NEW s \in Seq(S), NEW q \in Paths(s), Len(q) = 4
  PROVE  q[3] = s[3]
BY PrefixIs

LEMMA PciPaths ==
  ASSUME NEW p, NEW q \in Paths(PciPath(p) \o SubPath(p)), Len(q) = 4
  PROVE  q[3][1] = "slot"
<1>1. PICK s : s = PciPath(p) \o SubPath(p)
  OBVIOUS
<1>2. PICK S : s \in Seq(S) /\ s[3] = Node("slot", p.slot)
  BY <1>1, PciPathIs
<1>3. q[3] = s[3]
  <2>1. q \in Paths(s)
    BY <1>1, Zenon
  <2>2. QED
    BY <1>2, <2>1, ThirdNode, Zenon
<1>4. QED
  BY <1>2, <1>3 DEF Node

-----------------------------------------------------------------------------
\* The tree that is printed is made of the lists.
TreeInv == pc = "print" => tree = CpuTree \cup PciTree \cup MemTree

LEMMA TreeNext == [Next]_vars /\ TreeInv => TreeInv'
<1> SUFFICES ASSUME [Next]_vars, TreeInv PROVE TreeInv'
  OBVIOUS
<1>1. CASE CreateTree
  <2>1. CpuTree' = CpuTree /\ PciTree' = PciTree /\ MemTree' = MemTree
    BY <1>1 DEF CreateTree, lists, CpuTree, PciTree, MemTree
  <2>2. QED
    BY <1>1, <2>1 DEF CreateTree, TreeInv
<1>2. CASE UNCHANGED vars
  <2>1. CpuTree' = CpuTree /\ PciTree' = PciTree /\ MemTree' = MemTree
    BY <1>2 DEF vars, CpuTree, PciTree, MemTree
  <2>2. QED
    BY <1>2, <2>1 DEF vars, TreeInv
<1>3. CASE pc' # "print"
  BY <1>3 DEF TreeInv
<1>4. QED
  BY <1>1, <1>2, <1>3
  DEF Next, ReadCpu, Offline, SetThreads, WalkMem, DmiFails, DmiAbsent, SocketsOverflow,
      WalkPci, WalkNet

\* The path of a listed CPU is the path that sysfs gives it.
LEMMA RightPath ==
  ASSUME CpuInv, NEW i \in DOMAIN list_cpu
  PROVE  /\ list_cpu[i].processor \in DOMAIN m.cpu /\ list_cpu[i].chassis \in 0..255
         /\ CpuPath(list_cpu[i]) = CpuPath(CpuEntry(list_cpu[i].processor))
<1>1. PICK e \in CpuRec(DOMAIN m.cpu) : e = list_cpu[i]
  BY ElementOfSeq, LenProperties DEF CpuInv, CpuType
<1>2. PICK c \in DOMAIN m.cpu : c = e.processor
  BY DEF CpuRec
<1>3. e.chassis \in 0..255
  BY DEF CpuRec
<1>4. PICK f : f = CpuEntry(c)
  OBVIOUS
<1>5. Right(f) /\ f.processor = c
  BY <1>4, EntryIs DEF CpuInv, CpuType
<1>6. Right(e)
  BY <1>1 DEF CpuInv
<1>7. e.chassis = f.chassis /\ e.socket = f.socket /\ e.core = f.core /\ e.processor = f.processor
  BY <1>2, <1>5, <1>6 DEF Right
<1>8. CpuPath(e) = CpuPath(f)
  BY <1>7, Zenon DEF CpuPath
<1>9. QED
  BY <1>1, <1>2, <1>3, <1>4, <1>8, Zenon

LEMMA Shown ==
  ASSUME CpuInv, TreeInv, pc = "print"
  PROVE  \A c \in online : {p \in Threads : p[4][2] = c} = {CpuPath(CpuEntry(c))}
<1> SUFFICES ASSUME NEW c \in online
             PROVE  {p \in Threads : p[4][2] = c} = {CpuPath(CpuEntry(c))}
  OBVIOUS
<1>1. tree = CpuTree \cup PciTree \cup MemTree
  BY DEF TreeInv
<1>2. ASSUME NEW p \in Threads, p[4][2] = c PROVE p = CpuPath(CpuEntry(c))
  <2>1. p \in tree /\ Len(p) = 4 /\ p[3][1] = "core"
    BY DEF Threads, Printed
  <2>2. p \notin MemTree
    <3>1. SUFFICES ASSUME p \in MemTree PROVE FALSE
      OBVIOUS
    <3>2. PICK i \in DOMAIN list_mem : p \in Paths(MemPath(list_mem[i]))
      BY <3>1 DEF MemTree
    <3>3. p[3][1] = "memory-controller"
      BY <2>1, <3>2, MemPaths
    <3>4. QED
      BY <2>1, <3>3
  <2>3. p \notin PciTree
    <3>1. SUFFICES ASSUME p \in PciTree PROVE FALSE
      OBVIOUS
    <3>2. PICK i \in DOMAIN list_pci : p \in Paths(PciPath(list_pci[i]) \o SubPath(list_pci[i]))
      BY <3>1 DEF PciTree
    <3>3. p[3][1] = "slot"
      BY <2>1, <3>2, PciPaths
    <3>4. QED
      BY <2>1, <3>3
  <2>4. PICK i \in DOMAIN list_cpu : p \in Paths(CpuPath(list_cpu[i]))
    BY <1>1, <2>1, <2>2, <2>3 DEF CpuTree
  <2>5. p = CpuPath(list_cpu[i])
    BY <2>1, <2>4, CpuPaths
  <2>6. p[4] = Node("thread", list_cpu[i].processor)
    BY <2>5, FourNodes DEF CpuPath
  <2>7. list_cpu[i].processor = c
    BY <1>2, <2>6 DEF Node
  <2>8. QED
    BY <2>5, <2>7, RightPath, Zenon
<1>3. CpuPath(CpuEntry(c)) \in Threads /\ CpuPath(CpuEntry(c))[4][2] = c
  <2>1. PICK i \in DOMAIN list_cpu : list_cpu[i].processor = c
    BY DEF CpuInv, Listed
  <2>2. PICK e : e = list_cpu[i]
    OBVIOUS
  <2>3. PICK p : p = CpuPath(e)
    OBVIOUS
  <2>4. p = CpuPath(CpuEntry(c)) /\ e.chassis \in 0..255
    BY <2>1, <2>2, <2>3, RightPath
  <2>5. PICK S : /\ p \in Seq(S) /\ Len(p) = 4
                 /\ p[1] = Node("chassis", e.chassis) /\ p[2] = Node("chip", e.socket)
                 /\ p[3] = Node("core", e.core) /\ p[4] = Node("thread", e.processor)
    BY <2>3, CpuPathIs
  <2>6. p \in Paths(p)
    <3>1. p \in Seq(S) /\ Len(p) > 0
      BY <2>5
    <3>2. QED
      BY <3>1, SelfPath
  <2>7. p \in tree
    BY <1>1, <2>2, <2>3, <2>6 DEF CpuTree
  <2>8. p[2][1] = "chip" /\ p[3][1] = "core" /\ p[4][2] = c
    BY <2>1, <2>2, <2>5 DEF Node
  <2>9. p \in Printed(e.chassis)
    BY <2>5, <2>7, <2>8 DEF Printed
  <2>10. p \in Threads
    BY <2>4, <2>5, <2>8, <2>9 DEF Threads
  <2>11. QED
    BY <2>4, <2>8, <2>10
<1>4. QED
  BY <1>2, <1>3

\* Every CPU that stays online while sysfs is walked is printed exactly once, below its
\* own node, chip and core, and where no core has three threads the upper one of two is
\* thread 1: for every machine and every order of the directories.
THEOREM CpusAreShown == Spec => []CpuShown
<1>1. Init => CpuInv /\ TreeInv
  BY CpuInit DEF Init, TreeInv
<1>2. CpuInv /\ TreeInv /\ [Next]_vars => CpuInv' /\ TreeInv'
  BY CpuNext, TreeNext
<1>3. CpuInv /\ TreeInv => CpuShown
  <2>1. SUFFICES ASSUME CpuInv, TreeInv, pc = "print" PROVE CpuShown
    BY DEF CpuShown
  <2>2. TwoThreads => ThreadsRight
    BY <2>1 DEF CpuInv
  <2>3. QED
    BY <2>1, <2>2, Shown, Zenon DEF CpuShown, ThreadsRight
<1>4. QED
  BY <1>1, <1>2, <1>3, PTL DEF Spec

-----------------------------------------------------------------------------
(* Sequences of sequences.                                                 *)

\* FlattenSeq: f[k] is the first k sequences in one.
IsFlat(f, n, S, s) ==
  /\ f \in [0..n -> Seq(S)] /\ f[0] = <<>> /\ f[n] = FlattenSeq(s)
  /\ \A k \in 1..n : f[k] = f[k - 1] \o s[k]

LEMMA FlattenLoop ==
  ASSUME NEW n \in Nat, NEW S, NEW s \in [1..n -> Seq(S)]
  PROVE  \E f : IsFlat(f, n, S, s)
<1>1. PICK Q : Q = Seq(S)
  OBVIOUS
<1>2. PICK G : G = [x \in Q \X (1..n) |-> x[1] \o s[x[2]]]
  OBVIOUS
<1>3. G \in [Q \X (1..n) -> Q]
  <2>1. ASSUME NEW a \in Q, NEW k \in 1..n PROVE a \o s[k] \in Q
    <3>1. PICK b \in Seq(S) : b = s[k]
      OBVIOUS
    <3>2. a \o b \in Seq(S)
      BY <1>1, <2>1, ConcatProperties
    <3>3. QED
      BY <1>1, <3>1, <3>2, Zenon
  <2>2. \A x \in Q \X (1..n) : x[1] \in Q /\ x[2] \in 1..n
    OBVIOUS
  <2>3. \A x \in Q \X (1..n) : x[1] \o s[x[2]] \in Q
    BY <2>1, <2>2, Zenon
  <2>4. PICK D : D = Q \X (1..n)
    OBVIOUS
  <2>5. [x \in D |-> x[1] \o s[x[2]]] \in [D -> Q]
    BY <2>3, <2>4, Zenon
  <2>6. QED
    BY <1>2, <2>4, <2>5, Zenon
<1>4. PICK e \in Q : e = <<>>
  <2>1. <<>> \in Seq(S)
    OBVIOUS
  <2>2. QED
    BY <1>1, <2>1, Zenon
<1>5. PICK f : IsLoop(f, n, Q, e, G)
  BY <1>3, LoopExists
<1>6. f \in [0..n -> Q] /\ f[0] = <<>> /\ \A k \in 1..n : f[k] = G[<<f[k - 1], k>>]
  BY <1>4, <1>5, Zenon DEF IsLoop
<1>7. ASSUME NEW k \in 1..n PROVE f[k] = f[k - 1] \o s[k] /\ f[k - 1] \in Q /\ f[k] \in Q
  <2>1. k \in 0..n /\ k - 1 \in 0..n
    BY <1>7
  <2>2. f[k - 1] \in Q /\ f[k] \in Q /\ f[k] = G[<<f[k - 1], k>>]
    BY <1>6, <2>1
  <2>3. QED
    BY <1>2, <2>2
<1>8. s \in Seq(Seq(S)) /\ Len(s) = n
  OBVIOUS
<1>9. f[n] = FlattenSeq(s)
  <2>1. CASE n = 0
    <3>1. s = <<>>
      BY <1>8, <2>1
    <3>2. FlattenSeq(s) = s
      BY <1>8, <2>1, Zenon DEF FlattenSeq
    <3>3. QED
      BY <1>6, <2>1, <3>1, <3>2, Zenon
  <2>2. CASE n # 0
    <3>1. PICK g : g = CHOOSE h : h = [i \in 1..Len(s) |-> IF i = 1 THEN s[i] ELSE h[i - 1] \o s[i]]
      OBVIOUS
    <3>2. FlattenSeq(s) = g[n]
      BY <1>8, <2>2, <3>1, Zenon DEF FlattenSeq
    <3>3. PICK h : h = [i \in 1..n |-> f[i]]
      OBVIOUS
    <3>4. ASSUME NEW i \in 1..n PROVE h[i] = IF i = 1 THEN s[i] ELSE h[i - 1] \o s[i]
      <4>1. CASE i = 1
        <5>1. PICK b \in Seq(S) : b = s[i]
          OBVIOUS
        <5>2. <<>> \o b = b
          BY ConcatEmptySeq
        <5>3. f[i] = f[i - 1] \o s[i] /\ f[i - 1] = f[0]
          BY <1>7, <4>1
        <5>4. f[i] = s[i]
          BY <1>6, <5>1, <5>2, <5>3, Zenon
        <5>5. QED
          BY <3>3, <4>1, <5>4
      <4>2. CASE i # 1
        <5>1. i - 1 \in 1..n
          BY <3>4, <4>2
        <5>2. h[i] = f[i] /\ h[i - 1] = f[i - 1]
          BY <3>3, <5>1
        <5>3. QED
          BY <1>7, <4>2, <5>2, Zenon
      <4>3. QED
        BY <4>1, <4>2
    <3>5. h = [i \in 1..n |-> IF i = 1 THEN s[i] ELSE h[i - 1] \o s[i]]
      BY <3>3, <3>4
    <3>6. g = [i \in 1..n |-> IF i = 1 THEN s[i] ELSE g[i - 1] \o s[i]]
      BY <1>8, <3>1, <3>5, Zenon
    <3>7. ASSUME NEW k \in 0..n PROVE k \in 1..n => g[k] = f[k]
      <4>1. PICK I : I = [k2 \in 0..n |-> {x \in {g[k2]} : k2 = 0 \/ x = f[k2]}]
        OBVIOUS
      <4>2. g[0] \in I[0]
        BY <4>1
      <4>3. ASSUME NEW j \in 1..n, g[j - 1] \in I[j - 1] PROVE g[j] \in I[j]
        <5>1. g[j] = f[j]
          <6>1. CASE j = 1
            <7>1. PICK b \in Seq(S) : b = s[j]
              OBVIOUS
            <7>2. <<>> \o b = b
              BY ConcatEmptySeq
            <7>3. f[j] = f[j - 1] \o s[j] /\ f[j - 1] = f[0]
              BY <1>7, <6>1
            <7>4. f[j] = s[j]
              BY <1>6, <7>1, <7>2, <7>3, Zenon
            <7>5. g[j] = s[j]
              BY <3>6, <6>1
            <7>6. QED
              BY <7>4, <7>5
          <6>2. CASE j # 1
            <7>1. j - 1 \in 0..n /\ j - 1 # 0
              BY <4>3, <6>2
            <7>2. g[j - 1] = f[j - 1]
              BY <4>1, <4>3, <7>1
            <7>3. g[j] = g[j - 1] \o s[j]
              BY <3>6, <6>2
            <7>4. QED
              BY <1>7, <7>2, <7>3, Zenon
          <6>3. QED
            BY <6>1, <6>2
        <5>2. j \in 0..n
          BY <4>3
        <5>3. QED
          BY <4>1, <5>1, <5>2
      <4>4. g[k] \in I[k]
        BY <4>2, <4>3, Rounds
      <4>5. QED
        BY <4>1, <4>4
    <3>8. n \in 1..n /\ n \in 0..n
      BY <2>2
    <3>9. QED
      BY <3>2, <3>7, <3>8, Zenon
  <2>3. QED
    BY <2>1, <2>2
<1>10. QED
  BY <1>1, <1>6, <1>7, <1>9, Zenon DEF IsFlat

LEMMA FlattenType ==
  ASSUME NEW n \in Nat, NEW S, NEW s \in [1..n -> Seq(S)]
  PROVE  FlattenSeq(s) \in Seq(S)
<1>1. PICK f : IsFlat(f, n, S, s)
  BY FlattenLoop
<1>2. n \in 0..n
  OBVIOUS
<1>3. QED
  BY <1>1, <1>2 DEF IsFlat

IsReverse(r, n, S, s) ==
  r \in Seq(S) /\ DOMAIN r = 1..n /\ \A i \in 1..n : n - i + 1 \in 1..n /\ r[i] = s[n - i + 1]

LEMMA ReverseIs ==
  ASSUME NEW n \in Nat, NEW S, NEW s \in [1..n -> S], NEW r, r = Reverse(s)
  PROVE  IsReverse(r, n, S, s)
<1>1. Len(s) = n
  OBVIOUS
<1>2. r = [i \in 1..n |-> s[n - i + 1]]
  BY <1>1 DEF Reverse
<1>3. \A i \in 1..n : n - i + 1 \in 1..n
  OBVIOUS
<1>4. r \in [1..n -> S]
  BY <1>2, <1>3
<1>5. r \in Seq(S)
  BY <1>4, IsASeq
<1>6. QED
  BY <1>2, <1>3, <1>5 DEF IsReverse


-----------------------------------------------------------------------------
(* The walk over the memory arrays.                                        *)

LEMMA MaxIs ==
  ASSUME NEW B \in Nat, NEW T \in SUBSET (0..B), T # {}
  PROVE  Max(T) \in T /\ \A y \in T : y <= Max(T)
<1>1. PICK U : U = {n \in 0..B : B - n \in T}
  OBVIOUS
<1>2. U \in SUBSET Nat /\ U # {}
  <2>1. PICK t \in T : TRUE
    OBVIOUS
  <2>2. B - t \in 0..B /\ B - (B - t) = t
    OBVIOUS
  <2>3. B - t \in U
    BY <1>1, <2>2
  <2>4. \A n \in U : n \in Nat
    BY <1>1
  <2>5. QED
    BY <2>3, <2>4
<1>3. PICK u \in U : \A v \in U : u <= v
  BY <1>2, LeastNat
<1>4. u \in 0..B /\ B - u \in T
  BY <1>1
<1>5. ASSUME NEW y \in T PROVE y <= B - u
  <2>1. B - y \in 0..B /\ B - (B - y) = y
    OBVIOUS
  <2>2. B - y \in U
    BY <1>1, <2>1
  <2>3. u <= B - y
    BY <1>3, <2>2
  <2>4. QED
    BY <1>4, <2>3
<1>6. \E x \in T : \A y \in T : x >= y
  <2>1. PICK x \in T : x = B - u
    BY <1>4
  <2>2. \A y \in T : x >= y
    BY <1>5, <2>1
  <2>3. QED
    BY <2>2
<1>7. Max(T) \in T /\ \A y \in T : Max(T) >= y
  BY <1>6, Zenon DEF Max
<1>8. QED
  BY <1>7

\* The nodes the loop runs over.
LEMMA ChassisRange ==
  ASSUME CpuType
  PROVE  /\ MaxChassis \in 0..255
         /\ \A k \in DOMAIN list_cpu : list_cpu[k].chassis \in 0..MaxChassis
         /\ MaxChassis = 0 \/ \E k \in DOMAIN list_cpu : list_cpu[k].chassis = MaxChassis
<1>1. PICK T : T = {0} \cup {list_cpu[k].chassis : k \in DOMAIN list_cpu}
  OBVIOUS
<1>2. ASSUME NEW k \in DOMAIN list_cpu PROVE list_cpu[k].chassis \in 0..255
  <2>1. PICK e \in CpuRec(DOMAIN m.cpu) : e = list_cpu[k]
    BY ElementOfSeq, LenProperties DEF CpuType
  <2>2. QED
    BY <2>1 DEF CpuRec
<1>3. T \in SUBSET (0..255) /\ T # {}
  BY <1>1, <1>2
<1>4. PICK x : x = MaxChassis
  OBVIOUS
<1>5. x \in T /\ \A y \in T : y <= x
  <2>1. PICK B \in Nat : B = 255
    OBVIOUS
  <2>2. Max(T) \in T /\ \A y \in T : y <= Max(T)
    BY <1>3, <2>1, MaxIs
  <2>3. x = Max(T)
    BY <1>1, <1>4, Zenon DEF MaxChassis
  <2>4. QED
    BY <2>2, <2>3, Zenon
<1>6. x \in 0..255
  BY <1>3, <1>5
<1>7. ASSUME NEW k \in DOMAIN list_cpu PROVE list_cpu[k].chassis \in 0..x
  <2>1. PICK y \in 0..255 : y = list_cpu[k].chassis
    BY <1>2
  <2>2. y <= x
    BY <1>1, <1>5, <2>1
  <2>3. QED
    BY <1>6, <2>1, <2>2
<1>8. x = 0 \/ \E k \in DOMAIN list_cpu : list_cpu[k].chassis = x
  BY <1>1, <1>5
<1>9. QED
  BY <1>4, <1>6, <1>7, <1>8, Zenon

\* The sockets of the CPUs of a node.
NodeSockets(i) == {s \in 0..255 : \E k \in DOMAIN list_cpu : list_cpu[k].chassis = i /\ list_cpu[k].socket = s}

\* One CPU of the scan for the sockets of node i.
Seen(i, s, c) ==
  IF c.chassis # i \/ c.socket \in Range(s) \/ (c.socket = 0 /\ Len(s) \in 1..(SocketMax - 1))
  THEN s ELSE Append(s, c.socket)

LEMMA SeenKeeps ==
  ASSUME CpuType, NEW i, NEW s \in Seq(NodeSockets(i)), NEW k \in DOMAIN list_cpu
  PROVE  Seen(i, s, list_cpu[k]) \in Seq(NodeSockets(i))
<1>1. PICK e \in CpuRec(DOMAIN m.cpu) : e = list_cpu[k]
  BY ElementOfSeq, LenProperties DEF CpuType
<1>2. e.socket \in 0..255
  BY DEF CpuRec
<1>3. PICK K : K = NodeSockets(i)
  OBVIOUS
<1>4. e.chassis = i => e.socket \in K
  BY <1>1, <1>2, <1>3 DEF NodeSockets
<1>5. e.socket \in K => Append(s, e.socket) \in Seq(K)
  BY <1>3, AppendProperties
<1>6. Seen(i, s, e) \in Seq(K)
  BY <1>3, <1>4, <1>5 DEF Seen
<1>7. QED
  BY <1>1, <1>3, <1>6, Zenon

\* g gives the sockets found after every CPU of the scan.
IsScan(g, i, N) ==
  /\ g[0] = <<>> /\ SocketsOf(i) = g[N]
  /\ \A n \in 1..N : g[n] = Seen(i, g[n - 1], list_cpu[n])
  /\ \A n \in 0..N : g[n] \in Seq(NodeSockets(i))

LEMMA ScanLoop ==
  ASSUME CpuType, NEW i, NEW N \in Nat, N = Len(list_cpu)
  PROVE  \E g : IsScan(g, i, N)
<1>1. PICK Q : Q = Seq(NodeSockets(i))
  OBVIOUS
<1>2. DOMAIN list_cpu = 1..N
  BY LenProperties DEF CpuType
<1>3. PICK G : G = [x \in Q \X (1..N) |-> Seen(i, x[1], list_cpu[x[2]])]
  OBVIOUS
<1>4. \A s \in Q : \A n \in 1..N : Seen(i, s, list_cpu[n]) \in Q
  BY <1>1, <1>2, SeenKeeps
<1>5. G \in [Q \X (1..N) -> Q]
  <2>1. \A x \in Q \X (1..N) : x[1] \in Q /\ x[2] \in 1..N
    OBVIOUS
  <2>2. \A x \in Q \X (1..N) : Seen(i, x[1], list_cpu[x[2]]) \in Q
    BY <1>4, <2>1, Zenon
  <2>3. PICK D : D = Q \X (1..N)
    OBVIOUS
  <2>4. [x \in D |-> Seen(i, x[1], list_cpu[x[2]])] \in [D -> Q]
    BY <2>2, <2>3, Zenon
  <2>5. QED
    BY <1>3, <2>3, <2>4, Zenon
<1>6. PICK a \in Q : a = <<>>
  <2>1. \A S : <<>> \in Seq(S)
    OBVIOUS
  <2>2. QED
    BY <1>1, <2>1, Zenon
<1>7. PICK f : IsLoop(f, N, Q, a, G)
  BY <1>5, LoopExists
<1>8. f \in [0..N -> Q] /\ f[0] = <<>> /\ \A n \in 1..N : f[n] = G[<<f[n - 1], n>>]
  BY <1>6, <1>7, Zenon DEF IsLoop
<1>9. ASSUME NEW n \in 0..N PROVE f[n] = IF n = 0 THEN <<>> ELSE Seen(i, f[n - 1], list_cpu[n])
  <2>1. CASE n = 0
    BY <1>8, <2>1, Zenon
  <2>2. CASE n # 0
    <3>1. n \in 1..N /\ n - 1 \in 0..N
      BY <1>9, <2>2
    <3>2. f[n - 1] \in Q
      BY <1>8, <3>1
    <3>3. f[n] = G[<<f[n - 1], n>>] /\ <<f[n - 1], n>> \in Q \X (1..N)
      BY <1>8, <3>1, <3>2
    <3>4. f[n] = Seen(i, f[n - 1], list_cpu[n])
      BY <1>3, <3>3
    <3>5. QED
      BY <2>2, <3>4, Zenon
  <2>3. QED
    BY <2>1, <2>2
<1>10. f = [n \in 0..N |-> IF n = 0 THEN <<>> ELSE Seen(i, f[n - 1], list_cpu[n])]
  BY <1>8, <1>9
<1>11. PICK g : g = CHOOSE h : h = [n \in 0..N |-> IF n = 0 THEN <<>> ELSE Seen(i, h[n - 1], list_cpu[n])]
  OBVIOUS
<1>12. g = [n \in 0..N |-> IF n = 0 THEN <<>> ELSE Seen(i, g[n - 1], list_cpu[n])]
  BY <1>10, <1>11, Zenon
<1>13. SocketsOf(i) = g[N]
  BY <1>11, Zenon DEF SocketsOf, Seen
<1>14. 0 \in 0..N /\ \A n \in 1..N : n \in 0..N /\ n # 0
  OBVIOUS
<1>15. g[0] = <<>>
  BY <1>12, <1>14, Zenon
<1>16. \A n \in 1..N : g[n] = Seen(i, g[n - 1], list_cpu[n])
  BY <1>12, <1>14, Zenon
<1>17. \A n \in 0..N : g[n] \in Q
  <2>1. PICK I : I = [n \in 0..N |-> Q]
    OBVIOUS
  <2>2. g[0] \in I[0]
    BY <1>6, <1>14, <1>15, <2>1
  <2>3. ASSUME NEW n \in 1..N, g[n - 1] \in I[n - 1] PROVE g[n] \in I[n]
    <3>1. n - 1 \in 0..N /\ n \in 0..N
      OBVIOUS
    <3>2. g[n - 1] \in Q
      BY <2>1, <2>3, <3>1
    <3>3. g[n] \in Q
      BY <1>4, <1>16, <3>2, Zenon
    <3>4. QED
      BY <2>1, <3>1, <3>3
  <2>4. \A n \in 0..N : g[n] \in I[n]
    BY <2>2, <2>3, Rounds
  <2>5. QED
    BY <2>1, <2>4
<1>18. QED
  BY <1>1, <1>13, <1>15, <1>16, <1>17, Zenon DEF IsScan

\* The sockets that DIMMs are counted for have CPUs.
LEMMA SocketsType ==
  ASSUME CpuType, NEW i
  PROVE  SocketsOf(i) \in Seq(NodeSockets(i))
<1>1. PICK N \in Nat : N = Len(list_cpu)
  BY LenProperties DEF CpuType
<1>2. PICK g : IsScan(g, i, N)
  BY <1>1, ScanLoop
<1>3. N \in 0..N
  OBVIOUS
<1>4. QED
  BY <1>2, <1>3, Zenon DEF IsScan


\* The table is a sequence; the lists are sets of places in it.
LEMMA TableIs ==
  ASSUME m \in Machines
  PROVE  /\ \E L \in Nat : DOMAIN m.dmi = 1..L
         /\ \A t : OfType(t) \in SUBSET (DOMAIN m.dmi)
         /\ Arrays \in SUBSET OfType(16)
         /\ \A k \in Arrays : m.dmi[k].devices \in Nat
<1>1. PICK S : m.dmi \in Seq(S)
  BY TopoAssumption DEF TopoAssumption
<1>2. \E L \in Nat : DOMAIN m.dmi = 1..L
  BY <1>1, LenProperties
<1>3. /\ \A t : OfType(t) \in SUBSET (DOMAIN m.dmi)
      /\ Arrays \in SUBSET OfType(16)
  BY DEF OfType, Parsed, Arrays
<1>4. ASSUME NEW k \in Arrays PROVE m.dmi[k].devices \in Nat
  <2>1. k \in DOMAIN m.dmi /\ m.dmi[k].type = 16
    BY <1>4 DEF Arrays, OfType, Parsed
  <2>2. QED
    BY <2>1, TopoAssumption DEF TopoAssumption
<1>5. QED
  BY <1>2, <1>3, <1>4

LEMMA CountType ==
  ASSUME m \in Machines, NEW i, NEW s, NEW g
  PROVE  DimmCount(i, s, g) \in Nat
<1>1. PICK h : h = IF ArrayIndex(i, s) < Cardinality(Arrays) THEN Handle(Arrays, ArrayIndex(i, s) + 1) ELSE g
  OBVIOUS
<1>2. PICK F : F = {k \in Arrays : Own(k) = h}
  OBVIOUS
<1>3. DimmCount(i, s, g) = IF F = {} THEN 0 ELSE m.dmi[Min(F)].devices
  BY <1>1, <1>2, Zenon DEF DimmCount
<1>4. F \in SUBSET Nat /\ F \in SUBSET Arrays
  BY <1>2, TableIs
<1>5. CASE F = {}
  BY <1>3, <1>5
<1>6. CASE F # {}
  <2>1. Min(F) \in F
    BY <1>4, <1>6, MinIs
  <2>2. PICK k \in Arrays : k = Min(F)
    BY <1>4, <2>1
  <2>3. m.dmi[k].devices \in Nat
    BY TableIs
  <2>4. QED
    BY <1>3, <1>6, <2>2, <2>3, Zenon
<1>7. QED
  BY <1>5, <1>6

\* The slots of one socket and those of one node, as DimmSlots puts them together.
SocketSlots(i, s, g) == [k \in 1..DimmCount(i, s, g) |-> <<i, s, k - 1>>]
NodeSlots(i, g) == FlattenSeq([j \in DOMAIN SocketsOf(i) |-> SocketSlots(i, SocketsOf(i)[j], g)])

\* What a slot may be: the chassis and socket of a CPU.
Slot == {x \in (0..255) \X (0..255) \X Nat : x[2] \in NodeSockets(x[1])}

LEMMA SocketSlotsType ==
  ASSUME m \in Machines, NEW i \in 0..255, NEW s \in NodeSockets(i), NEW g
  PROVE  SocketSlots(i, s, g) \in Seq(Slot)
<1>1. PICK n \in Nat : n = DimmCount(i, s, g)
  BY CountType
<1>2. PICK T : T = Slot
  OBVIOUS
<1>3. ASSUME NEW k \in 1..n PROVE <<i, s, k - 1>> \in T
  <2>1. k - 1 \in Nat /\ s \in 0..255
    BY DEF NodeSockets
  <2>2. QED
    BY <1>2, <2>1 DEF Slot
<1>4. PICK q : q = [k \in 1..n |-> <<i, s, k - 1>>]
  OBVIOUS
<1>5. q \in [1..n -> T]
  BY <1>3, <1>4
<1>6. q \in Seq(T)
  BY <1>5, IsASeq
<1>7. QED
  BY <1>1, <1>2, <1>4, <1>6, Zenon DEF SocketSlots

LEMMA NodeSlotsType ==
  ASSUME CpuType, NEW i \in 0..255, NEW g
  PROVE  NodeSlots(i, g) \in Seq(Slot)
<1>1. PICK s : s = SocketsOf(i)
  OBVIOUS
<1>2. PICK K : K = NodeSockets(i)
  OBVIOUS
<1>3. s \in Seq(K)
  BY <1>1, <1>2, SocketsType
<1>4. PICK n \in Nat : DOMAIN s = 1..n
  BY <1>3, LenProperties
<1>5. PICK T : T = Slot
  OBVIOUS
<1>6. PICK q : q = [j \in 1..n |-> SocketSlots(i, s[j], g)]
  OBVIOUS
<1>7. ASSUME NEW j \in 1..n PROVE SocketSlots(i, s[j], g) \in Seq(T)
  <2>1. PICK x \in NodeSockets(i) : x = s[j]
    BY <1>2, <1>3, <1>4, ElementOfSeq, LenProperties
  <2>2. SocketSlots(i, x, g) \in Seq(Slot)
    BY SocketSlotsType DEF CpuType
  <2>3. QED
    BY <1>5, <2>1, <2>2, Zenon
<1>8. q \in [1..n -> Seq(T)]
  BY <1>6, <1>7
<1>9. FlattenSeq(q) \in Seq(T)
  BY <1>8, FlattenType
<1>10. NodeSlots(i, g) = FlattenSeq(q)
  BY <1>1, <1>4, <1>6, Zenon DEF NodeSlots
<1>11. QED
  BY <1>5, <1>9, <1>10, Zenon

LEMMA SlotsAre ==
  ASSUME NEW g
  PROVE  DimmSlots(g) = FlattenSeq([i \in 1..(MaxChassis + 1) |-> NodeSlots(i - 1, g)])
BY Zenon DEF DimmSlots, NodeSlots, SocketSlots

LEMMA SlotsType ==
  ASSUME CpuType, NEW g
  PROVE  DimmSlots(g) \in Seq(Slot)
<1>1. PICK x \in 0..255 : x = MaxChassis
  BY ChassisRange
<1>2. PICK n \in Nat : n = x + 1
  OBVIOUS
<1>3. PICK T : T = Slot
  OBVIOUS
<1>4. PICK q : q = [i \in 1..n |-> NodeSlots(i - 1, g)]
  OBVIOUS
<1>5. ASSUME NEW i \in 1..n PROVE NodeSlots(i - 1, g) \in Seq(T)
  <2>1. i - 1 \in 0..255
    BY <1>1, <1>2, <1>5
  <2>2. NodeSlots(i - 1, g) \in Seq(Slot)
    BY <2>1, NodeSlotsType
  <2>3. QED
    BY <1>3, <2>2, Zenon
<1>6. q \in [1..n -> Seq(T)]
  BY <1>4, <1>5
<1>7. FlattenSeq(q) \in Seq(T)
  BY <1>6, FlattenType
<1>8. DimmSlots(g) = FlattenSeq(q)
  BY <1>1, <1>2, <1>4, SlotsAre, Zenon
<1>9. QED
  BY <1>3, <1>7, <1>8, Zenon

\* list_mem after the walk: the entries of the slots, the last first.
LEMMA ListMemIs ==
  ASSUME CpuType, NEW g, NEW r,
         r = Reverse([n \in DOMAIN DimmSlots(g) |-> MemEntry(n, DimmSlots(g)[n], g)])
  PROVE  /\ DOMAIN DimmSlots(g) = 1..Len(DimmSlots(g)) /\ Len(DimmSlots(g)) \in Nat
         /\ \A i \in DOMAIN r : \E n \in DOMAIN DimmSlots(g) : r[i] = MemEntry(n, DimmSlots(g)[n], g)
<1>1. PICK q : q = DimmSlots(g)
  OBVIOUS
<1>2. PICK T : T = Slot
  OBVIOUS
<1>3. q \in Seq(T)
  BY <1>1, <1>2, SlotsType, Zenon
<1>4. PICK n \in Nat : DOMAIN q = 1..n /\ Len(q) = n
  BY <1>3, LenProperties
<1>5. PICK f : f = [k \in 1..n |-> MemEntry(k, q[k], g)]
  OBVIOUS
<1>6. PICK R : R = {f[k] : k \in 1..n}
  OBVIOUS
<1>7. f \in [1..n -> R]
  BY <1>5, <1>6
<1>8. r = Reverse(f)
  BY <1>1, <1>4, <1>5, Zenon
<1>9. DOMAIN r = 1..n /\ \A i \in 1..n : n - i + 1 \in 1..n /\ r[i] = f[n - i + 1]
  <2>1. IsReverse(r, n, R, f)
    BY <1>7, <1>8, ReverseIs, Zenon
  <2>2. QED
    BY <2>1, Zenon DEF IsReverse
<1>10. \A i \in DOMAIN r : \E k \in 1..n : r[i] = MemEntry(k, q[k], g)
  <2>1. \A k \in 1..n : f[k] = MemEntry(k, q[k], g)
    BY <1>5, Zenon
  <2>2. \A i \in DOMAIN r : \E k \in 1..n : r[i] = f[k]
    BY <1>9, Zenon
  <2>3. QED
    BY <2>1, <2>2, Zenon
<1>11. QED
  BY <1>1, <1>4, <1>10, Zenon

-----------------------------------------------------------------------------
(* Every DIMM has its chip.                                                *)

\* A DIMM has the chassis and the socket of a CPU that is listed.
OnChip(d) == \E k \in DOMAIN list_cpu : list_cpu[k].chassis = d.chassis /\ list_cpu[k].socket = d.socket

MemInv ==
  /\ pc \in {"cpu", "dmi"} => list_mem = <<>>
  /\ \A i \in DOMAIN list_mem : OnChip(list_mem[i])
  /\ pc = "exit" => PciOrphan

\* The range a DIMM is given: the last one mapped to the n-th device.
RangeOf(n, g) ==
  LET handle == IF n <= Cardinality(OfType(17)) THEN Handle(OfType(17), n) ELSE g
      maps   == {k \in OfType(20) : m.dmi[k].device = handle}
  IN IF maps = {} THEN [start |-> 0, end |-> 0] ELSE Kilobytes(m.dmi[Min(maps)])

LEMMA MemEntryIs ==
  ASSUME NEW n, NEW x, NEW g
  PROVE  /\ MemEntry(n, x, g).chassis = x[1] % 256 /\ MemEntry(n, x, g).socket = x[2]
         /\ MemEntry(n, x, g).start = RangeOf(n, g).start /\ MemEntry(n, x, g).end = RangeOf(n, g).end
<1>1. PICK a, b, c : a = RangeOf(n, g).start /\ b = RangeOf(n, g).end /\ c = x[3] % 256
  OBVIOUS
<1>2. PICK h : h = x[1] % 256
  OBVIOUS
<1>3. MemEntry(n, x, g) = [chassis |-> h, socket |-> x[2], dimm |-> c, start |-> a, end |-> b]
  BY <1>1, <1>2, Zenon DEF MemEntry, RangeOf
<1>4. QED
  BY <1>1, <1>2, <1>3

LEMMA EntryOnChip ==
  ASSUME NEW x \in Slot, NEW n, NEW g
  PROVE  OnChip(MemEntry(n, x, g))
<1>1. x[1] \in 0..255 /\ x[2] \in NodeSockets(x[1])
  BY DEF Slot
<1>2. PICK k \in DOMAIN list_cpu : list_cpu[k].chassis = x[1] /\ list_cpu[k].socket = x[2]
  BY <1>1 DEF NodeSockets
<1>3. x[1] % 256 = x[1]
  BY <1>1, LowByte
<1>4. MemEntry(n, x, g).chassis = x[1] % 256 /\ MemEntry(n, x, g).socket = x[2]
  BY MemEntryIs
<1>5. QED
  BY <1>2, <1>3, <1>4 DEF OnChip

\* The path of such a DIMM starts with the chip of its CPU.
LEMMA ChipIsThere ==
  ASSUME NEW d, OnChip(d)
  PROVE  SubSeq(MemPath(d), 1, 2) \in CpuTree
<1>1. PICK k \in DOMAIN list_cpu : list_cpu[k].chassis = d.chassis /\ list_cpu[k].socket = d.socket
  BY DEF OnChip
<1>2. PICK c : c = list_cpu[k]
  OBVIOUS
<1>3. PICK s : s = MemPath(d)
  OBVIOUS
<1>4. PICK t : t = CpuPath(c)
  OBVIOUS
<1>5. PICK S : s \in Seq(S) /\ Len(s) = 4 /\ s[1] = Node("chassis", d.chassis) /\ s[2] = Node("chip", d.socket)
  BY <1>3, MemPathIs
<1>6. PICK T : t \in Seq(T) /\ Len(t) = 4 /\ t[1] = Node("chassis", c.chassis) /\ t[2] = Node("chip", c.socket)
  BY <1>4, CpuPathIs
<1>7. s[1] = t[1] /\ s[2] = t[2]
  BY <1>1, <1>2, <1>5, <1>6, Zenon
<1>8. SubSeq(s, 1, 2) = SubSeq(t, 1, 2)
  <2>1. SubSeq(s, 1, 2) = [i \in 1..2 |-> s[i]]
    BY <1>5
  <2>2. SubSeq(t, 1, 2) = [i \in 1..2 |-> t[i]]
    BY <1>6
  <2>3. \A i \in 1..2 : s[i] = t[i]
    BY <1>7
  <2>4. QED
    BY <2>1, <2>2, <2>3
<1>9. SubSeq(t, 1, 2) \in Paths(t)
  <2>1. 2 \in 1..Len(t) /\ Len(t) > 0
    BY <1>6
  <2>2. QED
    BY <1>6, <2>1, SelfPath, Zenon
<1>10. SubSeq(s, 1, 2) \in Paths(t)
  BY <1>8, <1>9, Zenon
<1>11. QED
  BY <1>2, <1>3, <1>4, <1>10, Zenon DEF CpuTree


LEMMA NoMemOrphan ==
  ASSUME MemInv
  PROVE  ~MemOrphan
  BY ChipIsThere DEF MemInv, MemOrphan

LEMMA MemNext == CpuInv /\ MemInv /\ [Next]_vars => MemInv'
<1> SUFFICES ASSUME CpuInv, MemInv, [Next]_vars PROVE MemInv'
  OBVIOUS
<1>1. ASSUME list_mem' = <<>>, pc' # "exit" PROVE MemInv'
  <2>1. DOMAIN <<>> = {}
    OBVIOUS
  <2>2. QED
    BY <1>1, <2>1 DEF MemInv
<1>2. ASSUME list_mem' = list_mem, list_cpu' = list_cpu, pc' \notin {"cpu", "dmi", "exit"} PROVE MemInv'
  BY <1>2 DEF MemInv, OnChip
<1>3. ASSUME NEW c \in DOMAIN m.cpu, ReadCpu(c) PROVE MemInv'
  BY <1>1, <1>3 DEF ReadCpu, MemInv
<1>4. ASSUME NEW c \in DOMAIN m.cpu, Offline(c) PROVE MemInv'
  BY <1>1, <1>4 DEF Offline, lists, MemInv
<1>5. CASE SetThreads
  BY <1>1, <1>5 DEF SetThreads, MemInv
<1>6. CASE WalkMem
  <2>1. PICK g : list_mem' = Reverse([n \in DOMAIN DimmSlots(g) |-> MemEntry(n, DimmSlots(g)[n], g)])
    BY <1>6 DEF WalkMem
  <2>2. PICK r : r = list_mem'
    OBVIOUS
  <2>3. PICK q : q = DimmSlots(g)
    OBVIOUS
  <2>4. CpuType
    BY DEF CpuInv
  <2>5. q \in Seq(Slot)
    BY <2>3, <2>4, SlotsType, Zenon
  <2>6. /\ DOMAIN q = 1..Len(q) /\ Len(q) \in Nat
        /\ \A i \in DOMAIN r : \E n \in DOMAIN q : r[i] = MemEntry(n, q[n], g)
    BY <2>1, <2>2, <2>3, <2>4, ListMemIs, Zenon
  <2>7. ASSUME NEW i \in DOMAIN r PROVE OnChip(r[i])
    <3>1. PICK n \in DOMAIN q : r[i] = MemEntry(n, q[n], g)
      BY <2>6
    <3>2. PICK T : T = Slot
      OBVIOUS
    <3>3. q[n] \in T
      BY <2>5, <2>6, <3>2, ElementOfSeq
    <3>4. PICK x \in Slot : x = q[n]
      BY <3>2, <3>3, Zenon
    <3>5. QED
      BY <3>1, <3>4, EntryOnChip, Zenon
  <2>8. pc' = "pci" /\ list_cpu' = list_cpu
    BY <1>6 DEF WalkMem
  <2>9. \A d : OnChip(d)' <=> OnChip(d)
    BY <2>8 DEF OnChip
  <2>10. QED
    BY <2>2, <2>7, <2>8 DEF MemInv, OnChip
<1>7. CASE DmiFails
  BY <1>2, <1>7 DEF DmiFails, lists
<1>8. ASSUME NEW d \in DOMAIN m.pci, WalkPci(d) PROVE MemInv'
  BY <1>2, <1>8 DEF WalkPci
<1>9. CASE WalkNet
  BY <1>2, <1>9 DEF WalkNet
<1>10. CASE CreateTree
  <2>1. lists' = lists
    BY <1>10 DEF CreateTree
  <2>2. list_mem' = list_mem /\ list_cpu' = list_cpu
    BY <2>1 DEF lists
  <2>3. CASE PciOrphan \/ MemOrphan
    <3>1. PciOrphan
      BY <2>3, NoMemOrphan
    <3>2. PciOrphan'
      BY <2>1, <3>1 DEF lists, PciOrphan, CpuTree
    <3>3. pc' = "exit"
      BY <1>10, <2>3 DEF CreateTree
    <3>4. QED
      BY <2>2, <3>2, <3>3 DEF MemInv, OnChip
  <2>4. CASE ~ (PciOrphan \/ MemOrphan)
    <3>1. pc' = "print"
      BY <1>10, <2>4 DEF CreateTree
    <3>2. QED
      BY <1>2, <2>2, <3>1
  <2>5. QED
    BY <2>3, <2>4
<1>11. CASE UNCHANGED vars
  <2>1. PciOrphan' <=> PciOrphan
    BY <1>11 DEF vars, PciOrphan, CpuTree
  <2>2. QED
    BY <1>11, <2>1 DEF vars, MemInv, OnChip
<1>12. CASE DmiAbsent \/ SocketsOverflow
  BY <1>2, <1>12 DEF DmiAbsent, SocketsOverflow, lists
<1>13. QED
  BY <1>3, <1>4, <1>5, <1>6, <1>7, <1>8, <1>9, <1>10, <1>11, <1>12 DEF Next

\* Every DIMM that fmd_topo_walk_mem makes up hangs below a chip that has CPUs, so the
\* tree is refused only because of a PCI device: whatever the SMBIOS table says, and
\* whatever lies behind the end of an array that is read too far, as long as no node
\* has more than SocketMax sockets; beyond that nothing is claimed of the run.
THEOREM DimmsHaveChips == Spec => []MemHasChip
<1>1. Init => CpuInv /\ MemInv
  <2>1. DOMAIN <<>> = {}
    OBVIOUS
  <2>2. QED
    BY <2>1, CpuInit DEF Init, MemInv
<1>2. CpuInv /\ MemInv /\ [Next]_vars => CpuInv' /\ MemInv'
  BY CpuNext, MemNext
<1>3. MemInv => MemHasChip
  <2>1. SUFFICES ASSUME MemInv PROVE MemHasChip
    OBVIOUS
  <2>2. ~MemOrphan
    BY <2>1, NoMemOrphan
  <2>3. QED
    BY <2>1, <2>2 DEF MemInv, MemHasChip
<1>4. QED
  BY <1>1, <1>2, <1>3, PTL DEF Spec


-----------------------------------------------------------------------------
(* PCI devices below their bridges.                                        *)

\* A device where its address puts it, and one that has moved below bridge b, on a
\* machine whose bridges sit on bus 0; x is the name of its interface.
Home(d, x) ==
  [chassis |-> 0, hostbridge |-> m.pci[d].bus, slot |-> m.pci[d].slot, func |-> m.pci[d].func,
   subdomain |-> 0, subbus |-> 0, subslot |-> 0, subfunc |-> 0, dev |-> d, name |-> x]
Moved(d, x, b) ==
  [chassis |-> 0, hostbridge |-> 0, slot |-> b.slot, func |-> b.func,
   subdomain |-> 0, subbus |-> b.subbus, subslot |-> m.pci[d].slot, subfunc |-> m.pci[d].func,
   dev |-> d, name |-> x]

\* What a bridge looks like.
Bridge(b) ==
  /\ b.chassis = 0 /\ b.hostbridge = 0 /\ b.subdomain = 0 /\ b.subbus \in 1..255
  /\ b.dev \in DOMAIN m.pci /\ m.pci[b.dev].class = "bridge_pci" /\ b.subbus = m.pci[b.dev].secondary
  /\ b = PciEntry(b.dev)

Bridges == {d \in DOMAIN m.pci : m.pci[d].class = "bridge_pci"}
Others  == {d \in DOMAIN m.pci : m.pci[d].class # "bridge_pci"}

LEMMA PciNumbers ==
  ASSUME m \in Machines, NEW d \in DOMAIN m.pci
  PROVE  /\ m.pci[d].domain \in Nat /\ m.pci[d].bus \in 0..255 /\ m.pci[d].slot \in 0..31
         /\ m.pci[d].func \in 0..7 /\ m.pci[d].secondary \in 0..255
  BY TopoAssumption DEF TopoAssumption

LEMMA LowBits ==
  /\ \A n \in 0..255 : n % 256 = n
  /\ \A n \in 0..31 : n % 256 = n
  /\ \A n \in 0..7 : n % 16 = n
  /\ 0 % 256 = 0
  OBVIOUS

LEMMA OtherIsHome ==
  ASSUME m \in Machines, FlatPci, NEW d \in Others
  PROVE  PciEntry(d) = Home(d, "none")
<1>1. d \in DOMAIN m.pci /\ m.pci[d].class # "bridge_pci"
  BY DEF Others
<1>2. m.pci[d].domain = 0
  BY <1>1 DEF FlatPci
<1>3. PICK b, s, f : b = m.pci[d].bus /\ s = m.pci[d].slot /\ f = m.pci[d].func
  OBVIOUS
<1>4. b % 256 = b /\ s % 256 = s /\ f % 16 = f
  <2>1. b \in 0..255 /\ s \in 0..31 /\ f \in 0..7
    BY <1>1, <1>3, PciNumbers
  <2>2. b % 256 = b /\ s % 256 = s
    BY <2>1
  <2>3. f % 16 = f
    BY <2>1
  <2>4. QED
    BY <2>2, <2>3
<1>5. m.pci[d].domain % 256 = 0
  BY <1>2, LowBits, Zenon
<1>6. QED
  BY <1>1, <1>3, <1>4, <1>5, Zenon DEF PciEntry, Home

LEMMA EntryIsBridge ==
  ASSUME m \in Machines, FlatPci, NEW d \in Bridges, NEW b, b = PciEntry(d)
  PROVE  Bridge(b) /\ b.dev = d
<1>1. d \in DOMAIN m.pci /\ m.pci[d].class = "bridge_pci"
  BY DEF Bridges
<1>2. m.pci[d].domain = 0 /\ m.pci[d].bus = 0 /\ m.pci[d].secondary # 0
  BY <1>1 DEF FlatPci
<1>3. PICK s, f, u : s = m.pci[d].slot % 256 /\ f = m.pci[d].func % 16 /\ u = m.pci[d].secondary
  OBVIOUS
<1>4. u \in 1..255 /\ u % 256 = u
  BY <1>1, <1>2, <1>3, PciNumbers, LowBits
<1>5. m.pci[d].domain % 256 = 0 /\ m.pci[d].bus % 256 = 0
  BY <1>2, LowBits, Zenon
<1>6. b = [chassis |-> 0, hostbridge |-> 0, slot |-> s, func |-> f,
           subdomain |-> 0, subbus |-> u, subslot |-> 0, subfunc |-> 0, dev |-> d, name |-> "none"]
  BY <1>1, <1>3, <1>4, <1>5, Zenon DEF PciEntry
<1>7. b.chassis = 0 /\ b.hostbridge = 0 /\ b.subdomain = 0 /\ b.subbus = u /\ b.dev = d
  BY <1>6
<1>8. b = PciEntry(b.dev)
  BY <1>7, Zenon
<1>9. QED
  BY <1>1, <1>3, <1>4, <1>7, <1>8, Zenon DEF Bridge

\* One bridge: a device on its secondary bus moves, any other stays.
LEMMA BelowHome ==
  ASSUME m \in Machines, FlatPci, NEW d \in DOMAIN m.pci, NEW x, NEW b, Bridge(b)
  PROVE  Below(Home(d, x), b) = IF m.pci[d].bus = b.subbus THEN Moved(d, x, b) ELSE Home(d, x)
<1>1. PICK p : p = Home(d, x)
  OBVIOUS
<1>2. PICK h, s, f : h = m.pci[d].bus /\ s = m.pci[d].slot /\ f = m.pci[d].func
  OBVIOUS
<1>3. p = [chassis |-> 0, hostbridge |-> h, slot |-> s, func |-> f,
           subdomain |-> 0, subbus |-> 0, subslot |-> 0, subfunc |-> 0, dev |-> d, name |-> x]
  BY <1>1, <1>2, Zenon DEF Home
<1>4. p.hostbridge = h /\ p.chassis = 0 /\ p.slot = s /\ p.func = f
  BY <1>3
<1>5. b.chassis = 0 /\ b.hostbridge = 0 /\ b.subdomain = 0 /\ b.subbus \in 1..255
  BY DEF Bridge
<1>6. CASE h = b.subbus
  <2>1. h # 0
    BY <1>5, <1>6
  <2>2. s \in 0..7 /\ f \in 0..3
    <3>1. s < 8 /\ f < 4
      BY <1>2, <2>1 DEF FlatPci
    <3>2. s \in 0..31 /\ f \in 0..7
      BY <1>2, PciNumbers
    <3>3. QED
      BY <3>1, <3>2
  <2>3. s % 8 = s /\ f % 4 = f
    BY <2>2
  <2>4. PICK bs, bf, bu : bs = b.slot /\ bf = b.func /\ bu = b.subbus
    OBVIOUS
  <2>5. Below(p, b) = [p EXCEPT !.chassis = 0, !.hostbridge = 0, !.subslot = s, !.subfunc = f,
                                !.slot = bs, !.func = bf, !.subdomain = 0, !.subbus = bu]
    BY <1>4, <1>5, <1>6, <2>3, <2>4, Zenon DEF Below
  <2>6. Below(p, b) = [chassis |-> 0, hostbridge |-> 0, slot |-> bs, func |-> bf,
                       subdomain |-> 0, subbus |-> bu, subslot |-> s, subfunc |-> f, dev |-> d, name |-> x]
    BY <1>3, <2>5
  <2>7. QED
    BY <1>1, <1>2, <1>6, <2>4, <2>6, Zenon DEF Moved
<1>7. CASE h # b.subbus
  <2>1. Below(p, b) = p
    BY <1>4, <1>7, Zenon DEF Below
  <2>2. QED
    BY <1>1, <1>2, <1>7, <2>1, Zenon
<1>8. QED
  BY <1>6, <1>7

\* A device moves once: no bridge is on the bus behind another.
LEMMA BelowMoved ==
  ASSUME NEW d, NEW x, NEW b, NEW c, Bridge(c)
  PROVE  Below(Moved(d, x, b), c) = Moved(d, x, b)
<1>1. PICK p : p = Moved(d, x, b)
  OBVIOUS
<1>2. p.hostbridge = 0
  BY <1>1 DEF Moved
<1>3. c.subbus \in 1..255
  BY DEF Bridge
<1>4. p.hostbridge # c.subbus
  BY <1>2, <1>3
<1>5. Below(p, c) = p
  BY <1>4, Zenon DEF Below
<1>6. QED
  BY <1>1, <1>5, Zenon


\* Where a device may end up.
Places(d, x) ==
  {Home(d, x)} \cup {Moved(d, x, list_pci_bridge[k]) :
                     k \in {n \in DOMAIN list_pci_bridge : list_pci_bridge[n].subbus = m.pci[d].bus}}

\* A device that is still at home after n bridges is behind none of them.
Settled(d, x, n) ==
  {p \in Places(d, x) : p = Home(d, x) => \A k \in 1..n : list_pci_bridge[k].subbus # m.pci[d].bus}

LEMMA MovedIsAway ==
  ASSUME NEW d, NEW x, NEW b, Bridge(b)
  PROVE  Moved(d, x, b) # Home(d, x)
<1>1. Moved(d, x, b).subbus = b.subbus /\ Home(d, x).subbus = 0
  BY DEF Moved, Home
<1>2. b.subbus # 0
  BY DEF Bridge
<1>3. QED
  BY <1>1, <1>2

LEMMA BelowKeeps ==
  ASSUME m \in Machines, FlatPci, NEW d \in DOMAIN m.pci, NEW x, NEW p \in Places(d, x),
         NEW k \in DOMAIN list_pci_bridge, Bridge(list_pci_bridge[k])
  PROVE  /\ Below(p, list_pci_bridge[k]) \in Places(d, x)
         /\ Below(p, list_pci_bridge[k]) = Home(d, x) =>
              p = Home(d, x) /\ list_pci_bridge[k].subbus # m.pci[d].bus
<1>1. PICK b : b = list_pci_bridge[k]
  OBVIOUS
<1>2. Bridge(b)
  BY <1>1, Zenon
<1>3. CASE p = Home(d, x)
  <2>1. Below(p, b) = IF m.pci[d].bus = b.subbus THEN Moved(d, x, b) ELSE Home(d, x)
    BY <1>2, <1>3, BelowHome, Zenon
  <2>2. CASE m.pci[d].bus = b.subbus
    <3>1. Below(p, b) = Moved(d, x, list_pci_bridge[k])
      BY <1>1, <2>1, <2>2, Zenon
    <3>2. k \in {n \in DOMAIN list_pci_bridge : list_pci_bridge[n].subbus = m.pci[d].bus}
      BY <1>1, <2>2
    <3>3. Below(p, b) # Home(d, x)
      BY <1>2, <2>1, <2>2, MovedIsAway, Zenon
    <3>4. QED
      BY <1>1, <3>1, <3>2, <3>3, Zenon DEF Places
  <2>3. CASE m.pci[d].bus # b.subbus
    BY <1>1, <1>3, <2>1, <2>3, Zenon DEF Places
  <2>4. QED
    BY <2>2, <2>3
<1>4. CASE p # Home(d, x)
  <2>1. PICK n : p = Moved(d, x, list_pci_bridge[n])
    BY <1>4, Zenon DEF Places
  <2>2. Below(p, b) = p
    BY <1>2, <2>1, BelowMoved, Zenon
  <2>3. QED
    BY <1>1, <1>4, <2>2, Zenon
<1>5. QED
  BY <1>3, <1>4

\* fmd_topo_walk_subpci over all the bridges.
LEMMA HungIs ==
  ASSUME m \in Machines, FlatPci, NEW M \in Nat, Len(list_pci_bridge) = M,
         DOMAIN list_pci_bridge = 1..M, \A k \in 1..M : Bridge(list_pci_bridge[k]),
         NEW d \in DOMAIN m.pci, NEW x
  PROVE  Hung(Home(d, x)) \in Settled(d, x, M)
<1>1. PICK S : S = Places(d, x)
  OBVIOUS
<1>2. PICK a \in S : a = Home(d, x)
  BY <1>1, Zenon DEF Places
<1>3. \A p \in S : \A k \in 1..M : Below(p, list_pci_bridge[k]) \in S
  BY <1>1, BelowKeeps, Zenon
<1>4. PICK G : G = [y \in S \X (1..M) |-> Below(y[1], list_pci_bridge[y[2]])]
  OBVIOUS
<1>5. G \in [S \X (1..M) -> S]
  <2>1. \A y \in S \X (1..M) : y[1] \in S /\ y[2] \in 1..M
    OBVIOUS
  <2>2. \A y \in S \X (1..M) : Below(y[1], list_pci_bridge[y[2]]) \in S
    BY <1>3, <2>1, Zenon
  <2>3. PICK D : D = S \X (1..M)
    OBVIOUS
  <2>4. [y \in D |-> Below(y[1], list_pci_bridge[y[2]])] \in [D -> S]
    BY <2>2, <2>3, Zenon
  <2>5. QED
    BY <1>4, <2>3, <2>4, Zenon
<1>6. PICK f : IsLoop(f, M, S, a, G)
  BY <1>5, LoopExists
<1>7. f \in [0..M -> S] /\ f[0] = a /\ \A n \in 1..M : f[n] = G[<<f[n - 1], n>>]
  BY <1>6, Zenon DEF IsLoop
<1>8. ASSUME NEW n \in 0..M PROVE f[n] = IF n = 0 THEN a ELSE Below(f[n - 1], list_pci_bridge[n])
  <2>1. CASE n = 0
    BY <1>7, <2>1, Zenon
  <2>2. CASE n # 0
    <3>1. n \in 1..M /\ n - 1 \in 0..M
      BY <1>8, <2>2
    <3>2. f[n - 1] \in S
      BY <1>7, <3>1
    <3>3. f[n] = G[<<f[n - 1], n>>] /\ <<f[n - 1], n>> \in S \X (1..M)
      BY <1>7, <3>1, <3>2
    <3>4. f[n] = Below(f[n - 1], list_pci_bridge[n])
      BY <1>4, <3>3
    <3>5. QED
      BY <2>2, <3>4, Zenon
  <2>3. QED
    BY <2>1, <2>2
<1>9. f = [n \in 0..M |-> IF n = 0 THEN a ELSE Below(f[n - 1], list_pci_bridge[n])]
  BY <1>7, <1>8
<1>10. PICK g : g = CHOOSE h : h = [n \in 0..M |-> IF n = 0 THEN a ELSE Below(h[n - 1], list_pci_bridge[n])]
  OBVIOUS
<1>11. g = [n \in 0..M |-> IF n = 0 THEN a ELSE Below(g[n - 1], list_pci_bridge[n])]
  BY <1>9, <1>10, Zenon
<1>12. Hung(a) = g[M]
  BY <1>10, Zenon DEF Hung
<1>13. 0 \in 0..M /\ M \in 0..M /\ \A n \in 1..M : n \in 0..M /\ n - 1 \in 0..M /\ n # 0
  OBVIOUS
<1>14. PICK I : I = [n \in 0..M |-> Settled(d, x, n)]
  OBVIOUS
<1>15. g[0] \in I[0]
  <2>1. g[0] = a /\ I[0] = Settled(d, x, 0)
    BY <1>11, <1>13, <1>14, Zenon
  <2>2. \A k \in 1..0 : FALSE
    OBVIOUS
  <2>3. a \in Settled(d, x, 0)
    BY <1>1, <1>2, <2>2, Zenon DEF Settled
  <2>4. QED
    BY <2>1, <2>3, Zenon
<1>16. ASSUME NEW n \in 1..M, g[n - 1] \in I[n - 1] PROVE g[n] \in I[n]
  <2>1. n - 1 \in 0..M /\ n \in 0..M /\ \A k \in 1..n : k \in 1..(n - 1) \/ k = n
    OBVIOUS
  <2>2. PICK p : p = g[n - 1]
    OBVIOUS
  <2>3. p \in S /\ (p = a => \A k \in 1..(n - 1) : list_pci_bridge[k].subbus # m.pci[d].bus)
    <3>1. I[n - 1] = Settled(d, x, n - 1)
      BY <1>14, <2>1
    <3>2. p \in Settled(d, x, n - 1)
      BY <1>16, <2>2, <3>1, Zenon
    <3>3. QED
      BY <1>1, <1>2, <3>2, Zenon DEF Settled
  <2>4. g[n] = Below(p, list_pci_bridge[n])
    BY <1>11, <1>13, <2>2, Zenon
  <2>5. g[n] \in S /\ (g[n] = a => p = a /\ list_pci_bridge[n].subbus # m.pci[d].bus)
    <3>1. p \in Places(d, x) /\ n \in DOMAIN list_pci_bridge /\ Bridge(list_pci_bridge[n])
      BY <1>1, <2>3, Zenon
    <3>2. /\ Below(p, list_pci_bridge[n]) \in Places(d, x)
          /\ Below(p, list_pci_bridge[n]) = Home(d, x) =>
               p = Home(d, x) /\ list_pci_bridge[n].subbus # m.pci[d].bus
      BY <3>1, BelowKeeps, Zenon
    <3>3. QED
      BY <1>1, <1>2, <2>4, <3>2, Zenon
  <2>6. g[n] = a => \A k \in 1..n : list_pci_bridge[k].subbus # m.pci[d].bus
    BY <2>1, <2>3, <2>5, Zenon
  <2>7. QED
    BY <1>1, <1>2, <1>14, <2>1, <2>5, <2>6, Zenon DEF Settled
<1>17. g[M] \in I[M]
  BY <1>13, <1>15, <1>16, Rounds
<1>18. QED
  BY <1>2, <1>12, <1>13, <1>14, <1>17, Zenon

\* A name does not move a device.
WithName(p, y) == [p EXCEPT !.name = y]

LEMMA Renamed ==
  ASSUME NEW d, NEW x, NEW y, NEW p, p = Home(d, x), NEW r, r = WithName(p, y)
  PROVE  r = Home(d, y)
<1>1. PICK h, s, f : h = m.pci[d].bus /\ s = m.pci[d].slot /\ f = m.pci[d].func
  OBVIOUS
<1>2. p = [chassis |-> 0, hostbridge |-> h, slot |-> s, func |-> f,
           subdomain |-> 0, subbus |-> 0, subslot |-> 0, subfunc |-> 0, dev |-> d, name |-> x]
  BY <1>1, Zenon DEF Home
<1>3. r = [chassis |-> 0, hostbridge |-> h, slot |-> s, func |-> f,
           subdomain |-> 0, subbus |-> 0, subslot |-> 0, subfunc |-> 0, dev |-> d, name |-> y]
  BY <1>2 DEF WithName
<1>4. QED
  BY <1>1, <1>3, Zenon DEF Home

\* The lists that name the same devices in the same order, each at home.
Homes(N, D, X) == {l \in [1..N -> {Home(y[1], y[2]) : y \in Range(D) \X X}] :
                     \A k \in 1..N : \E x \in X : l[k] = Home(D[k], x)}

LEMMA NameKeeps ==
  ASSUME NEW N \in Nat, NEW D, DOMAIN D = 1..N, NEW X, NEW l \in Homes(N, D, X), NEW n, n.name \in X
  PROVE  NameNet(l, n) \in Homes(N, D, X)
<1>1. PICK r : r = NameNet(l, n)
  OBVIOUS
<1>2. PICK H : H = {Home(y[1], y[2]) : y \in Range(D) \X X}
  OBVIOUS
<1>3. l \in [1..N -> H] /\ \A k \in 1..N : \E x \in X : l[k] = Home(D[k], x)
  BY <1>2, Zenon DEF Homes
<1>4. DOMAIN l = 1..N
  BY <1>3
<1>5. r = [k \in 1..N |-> IF l[k].chassis = m.pci[n.first].domain /\ l[k].hostbridge = m.pci[n.first].bus
                            /\ l[k].slot = m.pci[n.first].slot /\ l[k].func = m.pci[n.first].func
                         THEN [l[k] EXCEPT !.name = n.name] ELSE l[k]]
  BY <1>1, <1>4, Zenon DEF NameNet
<1>6. \A k \in 1..N : r[k] = WithName(l[k], n.name) \/ r[k] = l[k]
  BY <1>5, Zenon DEF WithName
<1>7. ASSUME NEW k \in 1..N PROVE \E x \in X : r[k] = Home(D[k], x)
  <2>1. PICK x \in X : l[k] = Home(D[k], x)
    BY <1>3
  <2>2. CASE r[k] = l[k]
    BY <2>1, <2>2, Zenon
  <2>3. CASE r[k] = WithName(l[k], n.name)
    <3>1. PICK e, q, d : e = l[k] /\ q = r[k] /\ d = D[k]
      OBVIOUS
    <3>2. PICK z \in X : z = n.name
      OBVIOUS
    <3>3. e = Home(d, x) /\ q = WithName(e, z)
      BY <2>1, <2>3, <3>1, <3>2, Zenon
    <3>4. q = Home(d, z)
      BY <3>3, Renamed
    <3>5. QED
      BY <3>1, <3>4, Zenon
  <2>4. QED
    BY <1>6, <2>2, <2>3, Zenon
<1>8. ASSUME NEW k \in 1..N, NEW x \in X PROVE Home(D[k], x) \in H
  <2>1. D[k] \in Range(D)
    BY DEF Range
  <2>2. PICK y : y = <<D[k], x>>
    OBVIOUS
  <2>3. y \in Range(D) \X X /\ y[1] = D[k] /\ y[2] = x
    BY <2>1, <2>2
  <2>4. QED
    BY <1>2, <2>3, Zenon
<1>9. \A k \in 1..N : r[k] \in H
  BY <1>7, <1>8, Zenon
<1>10. r \in [1..N -> H]
  <2>1. DOMAIN r = 1..N /\ r = [k \in 1..N |-> r[k]]
    BY <1>5, Zenon
  <2>2. QED
    BY <1>9, <2>1, Zenon
<1>11. QED
  BY <1>1, <1>2, <1>7, <1>10, Zenon DEF Homes


\* fmd_topo_net over all the interfaces.
LEMMA NamedIs ==
  ASSUME NEW N \in Nat, NEW D, DOMAIN D = 1..N, NEW X, list_pci \in Homes(N, D, X),
         NEW nets, NEW M \in Nat, Len(nets) = M, \A n \in 1..M : nets[n].name \in X
  PROVE  Named(nets) \in Homes(N, D, X)
<1>1. PICK S : S = Homes(N, D, X)
  OBVIOUS
<1>2. PICK a \in S : a = list_pci
  BY <1>1
<1>3. \A l \in S : \A n \in 1..M : NameNet(l, nets[n]) \in S
  BY <1>1, NameKeeps, Zenon
<1>4. PICK G : G = [y \in S \X (1..M) |-> NameNet(y[1], nets[y[2]])]
  OBVIOUS
<1>5. G \in [S \X (1..M) -> S]
  <2>1. \A y \in S \X (1..M) : y[1] \in S /\ y[2] \in 1..M
    OBVIOUS
  <2>2. \A y \in S \X (1..M) : NameNet(y[1], nets[y[2]]) \in S
    BY <1>3, <2>1, Zenon
  <2>3. PICK E : E = S \X (1..M)
    OBVIOUS
  <2>4. [y \in E |-> NameNet(y[1], nets[y[2]])] \in [E -> S]
    BY <2>2, <2>3, Zenon
  <2>5. QED
    BY <1>4, <2>3, <2>4, Zenon
<1>6. PICK f : IsLoop(f, M, S, a, G)
  BY <1>5, LoopExists
<1>7. f \in [0..M -> S] /\ f[0] = a /\ \A n \in 1..M : f[n] = G[<<f[n - 1], n>>]
  BY <1>6, Zenon DEF IsLoop
<1>8. ASSUME NEW n \in 0..M PROVE f[n] = IF n = 0 THEN a ELSE NameNet(f[n - 1], nets[n])
  <2>1. CASE n = 0
    BY <1>7, <2>1, Zenon
  <2>2. CASE n # 0
    <3>1. n \in 1..M /\ n - 1 \in 0..M
      BY <1>8, <2>2
    <3>2. f[n - 1] \in S
      BY <1>7, <3>1
    <3>3. f[n] = G[<<f[n - 1], n>>] /\ <<f[n - 1], n>> \in S \X (1..M)
      BY <1>7, <3>1, <3>2
    <3>4. f[n] = NameNet(f[n - 1], nets[n])
      BY <1>4, <3>3
    <3>5. QED
      BY <2>2, <3>4, Zenon
  <2>3. QED
    BY <2>1, <2>2
<1>9. f = [n \in 0..M |-> IF n = 0 THEN a ELSE NameNet(f[n - 1], nets[n])]
  BY <1>7, <1>8
<1>10. PICK g : g = CHOOSE h : h = [n \in 0..M |-> IF n = 0 THEN a ELSE NameNet(h[n - 1], nets[n])]
  OBVIOUS
<1>11. g = [n \in 0..M |-> IF n = 0 THEN a ELSE NameNet(g[n - 1], nets[n])]
  BY <1>9, <1>10, Zenon
<1>12. Named(nets) = g[M]
  BY <1>2, <1>10, Zenon DEF Named
<1>13. 0 \in 0..M /\ M \in 0..M /\ \A n \in 1..M : n \in 0..M /\ n - 1 \in 0..M /\ n # 0
  OBVIOUS
<1>14. PICK I : I = [n \in 0..M |-> S]
  OBVIOUS
<1>15. g[0] \in I[0]
  BY <1>2, <1>11, <1>13, <1>14
<1>16. ASSUME NEW n \in 1..M, g[n - 1] \in I[n - 1] PROVE g[n] \in I[n]
  <2>1. g[n - 1] \in S
    BY <1>13, <1>14, <1>16
  <2>2. g[n] = NameNet(g[n - 1], nets[n])
    BY <1>11, <1>13, Zenon
  <2>3. g[n] \in S
    BY <1>3, <2>1, <2>2, Zenon
  <2>4. QED
    BY <1>13, <1>14, <2>3
<1>17. g[M] \in I[M]
  BY <1>13, <1>15, <1>16, Rounds
<1>18. QED
  BY <1>1, <1>12, <1>13, <1>14, <1>17

\* The lists of devices while directories are read, and, on a machine whose bridges sit
\* on bus 0, once devices have been hung below bridges.
Distinct == \A i, j \in DOMAIN list_pci : list_pci[i].dev = list_pci[j].dev => i = j
InPlace ==
  \A i \in DOMAIN list_pci : \E d \in DOMAIN m.pci : \E x : list_pci[i].dev = d /\ list_pci[i] \in Places(d, x)

\* After fmd_topo_walk_subpci no device is at home that is behind a listed bridge.
AllHung ==
  \A i \in DOMAIN list_pci, k \in DOMAIN list_pci_bridge :
    list_pci_bridge[k].subbus = m.pci[list_pci[i].dev].bus => list_pci[i].subbus # 0

PciInv ==
  /\ m \in Machines
  /\ list_pci_bridge \in Seq({PciEntry(d) : d \in Bridges})
  /\ pc \in {"cpu", "dmi"} => list_pci = <<>>
  /\ pc \in {"cpu", "dmi", "pci"} => list_pci \in Seq({PciEntry(d) : d \in Others}) /\ Distinct
  /\ pc = "pci" => \A i \in DOMAIN list_pci : list_pci[i].dev \notin todo
  /\ pc \in {"cpu", "dmi", "pci"} => hung = FALSE
  /\ pc \in {"tree", "print", "exit"} /\ FlatPci => InPlace /\ Distinct /\ (hung = TRUE => AllHung)

LEMMA EntryDev == \A d : PciEntry(d).dev = d
<1>1. TAKE d
<1>2. PICK a, b, c, e, f : /\ a = m.pci[d].domain % 256 /\ b = m.pci[d].bus % 256 /\ c = m.pci[d].slot % 256
                           /\ e = m.pci[d].func % 16
                           /\ f = IF m.pci[d].class = "bridge_pci" THEN m.pci[d].secondary % 256 ELSE 0
  OBVIOUS
<1>3. PciEntry(d) = [chassis |-> a, hostbridge |-> b, slot |-> c, func |-> e, subdomain |-> 0, subbus |-> f,
                     subslot |-> 0, subfunc |-> 0, dev |-> d, name |-> "none"]
  BY <1>2, Zenon DEF PciEntry
<1>4. QED
  BY <1>3

\* The machine decides what devices look like.
LEMMA SamePci ==
  ASSUME m' = m
  PROVE  /\ \A d : PciEntry(d)' = PciEntry(d)
         /\ Bridges' = Bridges /\ Others' = Others
         /\ FlatPci' <=> FlatPci
         /\ {PciEntry(d) : d \in Bridges}' = {PciEntry(d) : d \in Bridges}
         /\ {PciEntry(d) : d \in Others}' = {PciEntry(d) : d \in Others}
  BY DEF PciEntry, Bridges, Others, FlatPci

LEMMA SamePlaces ==
  ASSUME m' = m, list_pci_bridge' = list_pci_bridge
  PROVE  \A d, x : Places(d, x)' = Places(d, x)
  BY DEF Places, Home, Moved

\* Bridges in the list.
LEMMA BridgesAre ==
  ASSUME PciInv, FlatPci
  PROVE  \E M \in Nat : /\ DOMAIN list_pci_bridge = 1..M /\ Len(list_pci_bridge) = M
                        /\ \A k \in 1..M : Bridge(list_pci_bridge[k])
<1>1. PICK S : S = {PciEntry(d) : d \in Bridges}
  OBVIOUS
<1>2. list_pci_bridge \in Seq(S)
  BY <1>1, Zenon DEF PciInv
<1>3. PICK M \in Nat : M = Len(list_pci_bridge) /\ DOMAIN list_pci_bridge = 1..M
  BY <1>2, LenProperties
<1>4. ASSUME NEW k \in 1..M PROVE Bridge(list_pci_bridge[k])
  <2>1. list_pci_bridge[k] \in S
    BY <1>2, <1>3, ElementOfSeq
  <2>2. PICK d \in Bridges : list_pci_bridge[k] = PciEntry(d)
    BY <1>1, <2>1, Zenon
  <2>3. QED
    BY <2>2, EntryIsBridge, Zenon DEF PciInv
<1>5. QED
  BY <1>3, <1>4, Zenon

\* Devices before they are hung below bridges.
LEMMA OthersAre ==
  ASSUME PciInv, pc \in {"cpu", "dmi", "pci"}
  PROVE  /\ \E N \in Nat : DOMAIN list_pci = 1..N /\ Len(list_pci) = N
         /\ \A k \in DOMAIN list_pci : list_pci[k].dev \in Others /\ list_pci[k] = PciEntry(list_pci[k].dev)
<1>1. PICK S : S = {PciEntry(d) : d \in Others}
  OBVIOUS
<1>2. list_pci \in Seq(S)
  BY <1>1, Zenon DEF PciInv
<1>3. PICK N \in Nat : N = Len(list_pci) /\ DOMAIN list_pci = 1..N
  BY <1>2, LenProperties
<1>4. ASSUME NEW k \in DOMAIN list_pci
      PROVE  list_pci[k].dev \in Others /\ list_pci[k] = PciEntry(list_pci[k].dev)
  <2>1. list_pci[k] \in S
    BY <1>2, <1>3, ElementOfSeq
  <2>2. PICK d \in Others : list_pci[k] = PciEntry(d)
    BY <1>1, <2>1, Zenon
  <2>3. list_pci[k].dev = d
    BY <2>2, EntryDev, Zenon
  <2>4. QED
    BY <2>2, <2>3, Zenon
<1>5. QED
  BY <1>3, <1>4, Zenon

LEMMA OthersInPlace ==
  ASSUME PciInv, FlatPci, pc \in {"cpu", "dmi", "pci"}
  PROVE  InPlace /\ Distinct
<1>1. ASSUME NEW k \in DOMAIN list_pci
      PROVE  \E d \in DOMAIN m.pci : \E x : list_pci[k].dev = d /\ list_pci[k] \in Places(d, x)
  <2>1. PICK d \in Others : list_pci[k].dev = d /\ list_pci[k] = PciEntry(d)
    BY OthersAre, Zenon
  <2>2. list_pci[k] = Home(d, "none")
    BY <2>1, OtherIsHome, Zenon DEF PciInv
  <2>3. d \in DOMAIN m.pci
    BY DEF Others
  <2>4. list_pci[k] \in Places(d, "none")
    BY <2>2, Zenon DEF Places
  <2>5. QED
    BY <2>1, <2>3, <2>4, Zenon
<1>2. QED
  BY <1>1, Zenon DEF InPlace, PciInv

LEMMA PlaceDev ==
  ASSUME NEW d, NEW x, NEW p \in Places(d, x)
  PROVE  p.dev = d
<1>1. Home(d, x).dev = d
  BY DEF Home
<1>2. \A b : Moved(d, x, b).dev = d
  BY DEF Moved
<1>3. QED
  BY <1>1, <1>2, Zenon DEF Places


\* The rest of fmd_topo_pci: naming and hanging leave every device in one place.
LEMMA WalkNetPlaces ==
  ASSUME PciInv, FlatPci, pc = "pci", NEW nets \in SetToSeqs(m.net), NEW r, r = SubPci(Named(nets))
  PROVE  /\ \A i \in DOMAIN r : \E d \in DOMAIN m.pci : \E x : r[i].dev = d /\ r[i] \in Places(d, x)
         /\ \A i, j \in DOMAIN r : r[i].dev = r[j].dev => i = j
         /\ \A i \in DOMAIN r, k \in DOMAIN list_pci_bridge :
              list_pci_bridge[k].subbus = m.pci[r[i].dev].bus => r[i].subbus # 0
<1>1. PICK N \in Nat : DOMAIN list_pci = 1..N /\ Len(list_pci) = N
  BY OthersAre
<1>2. PICK D : D = [k \in 1..N |-> list_pci[k].dev]
  OBVIOUS
<1>3. PICK X : X = {"none"} \cup {n.name : n \in m.net}
  OBVIOUS
<1>4. \A k \in 1..N : D[k] \in Others /\ list_pci[k] = Home(D[k], "none")
  <2>1. \A k \in 1..N : D[k] \in Others /\ list_pci[k] = PciEntry(D[k])
    BY <1>1, <1>2, OthersAre
  <2>2. m \in Machines
    BY DEF PciInv
  <2>3. QED
    BY <2>1, <2>2, OtherIsHome, Zenon
<1>5. list_pci \in Homes(N, D, X)
  <2>1. PICK H : H = {Home(y[1], y[2]) : y \in Range(D) \X X}
    OBVIOUS
  <2>2. ASSUME NEW k \in 1..N PROVE list_pci[k] \in H
    <3>1. D[k] \in Range(D)
      BY <1>2 DEF Range
    <3>2. PICK y : y = <<D[k], "none">>
      OBVIOUS
    <3>3. y \in Range(D) \X X /\ y[1] = D[k] /\ y[2] = "none"
      BY <1>3, <3>1, <3>2
    <3>4. QED
      BY <1>4, <2>1, <3>3, Zenon
  <2>3. list_pci \in [1..N -> H]
    <3>1. PICK S : list_pci \in Seq(S)
      BY DEF PciInv
    <3>2. list_pci = [k \in 1..N |-> list_pci[k]]
      BY <1>1, <3>1, LenProperties
    <3>3. QED
      BY <2>2, <3>2, Zenon
  <2>4. "none" \in X
    BY <1>3
  <2>5. QED
    BY <1>4, <2>1, <2>3, <2>4, Zenon DEF Homes
<1>6. PICK M \in Nat : Len(nets) = M /\ \A n \in 1..M : nets[n].name \in X
  <2>1. IsFiniteSet(m.net)
    BY TopoAssumption DEF TopoAssumption, PciInv
  <2>2. PICK M \in Nat : M = Cardinality(m.net)
    BY <2>1, FS_CardinalityType
  <2>3. PICK A : A = m.net
    OBVIOUS
  <2>4. nets \in [1..M -> A]
    BY <2>2, <2>3, Zenon DEF SetToSeqs
  <2>5. Len(nets) = M
    BY <2>4
  <2>6. \A n \in 1..M : nets[n] \in m.net
    BY <2>3, <2>4
  <2>7. \A n \in 1..M : nets[n].name \in X
    BY <1>3, <2>6
  <2>8. QED
    BY <2>5, <2>7, Zenon
<1>7. PICK l : l = Named(nets)
  OBVIOUS
<1>8. l \in Homes(N, D, X)
  <2>1. DOMAIN D = 1..N
    BY <1>2
  <2>2. QED
    BY <1>5, <1>6, <1>7, <2>1, NamedIs, Zenon
<1>9. DOMAIN l = 1..N /\ \A k \in 1..N : \E x : l[k] = Home(D[k], x)
  <2>1. PICK H : H = {Home(y[1], y[2]) : y \in Range(D) \X X}
    OBVIOUS
  <2>2. l \in [1..N -> H] /\ \A k \in 1..N : \E x \in X : l[k] = Home(D[k], x)
    BY <1>8, <2>1, Zenon DEF Homes
  <2>3. QED
    BY <2>2, Zenon
<1>10. r = [k \in 1..N |-> Hung(l[k])]
  BY <1>7, <1>9, Zenon DEF SubPci
<1>11. ASSUME NEW k \in 1..N
       PROVE  /\ D[k] \in DOMAIN m.pci /\ r[k].dev = D[k] /\ \E x : r[k] \in Places(D[k], x)
              /\ \A n \in DOMAIN list_pci_bridge :
                   list_pci_bridge[n].subbus = m.pci[D[k]].bus => r[k].subbus # 0
  <2>1. PICK x : l[k] = Home(D[k], x)
    BY <1>9
  <2>2. D[k] \in DOMAIN m.pci
    BY <1>4 DEF Others
  <2>3. PICK B \in Nat : /\ DOMAIN list_pci_bridge = 1..B /\ Len(list_pci_bridge) = B
                         /\ \A n \in 1..B : Bridge(list_pci_bridge[n])
    BY BridgesAre
  <2>4. r[k] \in Settled(D[k], x, B)
    <3>1. m \in Machines
      BY DEF PciInv
    <3>2. Hung(Home(D[k], x)) \in Settled(D[k], x, B)
      BY <2>2, <2>3, <3>1, HungIs, Zenon
    <3>3. QED
      BY <1>10, <2>1, <3>2, Zenon
  <2>5. /\ r[k] \in Places(D[k], x)
        /\ r[k] = Home(D[k], x) => \A n \in 1..B : list_pci_bridge[n].subbus # m.pci[D[k]].bus
    BY <2>4, Zenon DEF Settled
  <2>6. ASSUME NEW n \in DOMAIN list_pci_bridge, list_pci_bridge[n].subbus = m.pci[D[k]].bus
        PROVE  r[k].subbus # 0
    <3>1. PICK q \in DOMAIN list_pci_bridge : r[k] = Moved(D[k], x, list_pci_bridge[q])
      BY <2>3, <2>5, <2>6, Zenon DEF Places
    <3>2. PICK b : b = list_pci_bridge[q]
      OBVIOUS
    <3>3. Bridge(b) /\ r[k] = Moved(D[k], x, b)
      BY <2>3, <3>1, <3>2, Zenon
    <3>4. b.subbus \in 1..255
      BY <3>3 DEF Bridge
    <3>5. r[k].subbus = b.subbus
      BY <3>3 DEF Moved
    <3>6. QED
      BY <3>4, <3>5
  <2>7. QED
    BY <2>2, <2>5, <2>6, PlaceDev, Zenon
<1>12. DOMAIN r = 1..N
  BY <1>10, Zenon
<1>13. \A i, j \in 1..N : D[i] = D[j] => i = j
  BY <1>1, <1>2 DEF PciInv, Distinct
<1>14. ASSUME NEW i \in DOMAIN r PROVE \E d \in DOMAIN m.pci : \E x : r[i].dev = d /\ r[i] \in Places(d, x)
  BY <1>11, <1>12, Zenon
<1>15. ASSUME NEW i \in DOMAIN r, NEW j \in DOMAIN r, r[i].dev = r[j].dev PROVE i = j
  <2>1. i \in 1..N /\ j \in 1..N
    BY <1>12
  <2>2. r[i].dev = D[i] /\ r[j].dev = D[j]
    BY <1>11, <2>1, Zenon
  <2>3. QED
    BY <1>13, <1>15, <2>1, <2>2, Zenon
<1>16. ASSUME NEW i \in DOMAIN r, NEW k \in DOMAIN list_pci_bridge,
              list_pci_bridge[k].subbus = m.pci[r[i].dev].bus
       PROVE  r[i].subbus # 0
  BY <1>11, <1>12, <1>16, Zenon
<1>17. QED
  BY <1>14, <1>15, <1>16, Zenon

LEMMA WalkPciInv ==
  ASSUME PciInv, NEW d \in DOMAIN m.pci, WalkPci(d)
  PROVE  PciInv'
<1>1. m' = m /\ pc = "pci" /\ pc' = "pci" /\ d \in todo /\ todo' = todo \ {d} /\ hung' = FALSE
  BY DEF WalkPci, PciInv
<1>2. PICK S, B : S = {PciEntry(e) : e \in Others} /\ B = {PciEntry(e) : e \in Bridges}
  OBVIOUS
<1>3. S = {PciEntry(e) : e \in Others}' /\ B = {PciEntry(e) : e \in Bridges}'
  BY <1>1, <1>2, SamePci, Zenon
<1>4. PICK l \in Seq(S) : l = list_pci
  BY <1>1, <1>2, Zenon DEF PciInv
<1>5. PICK b \in Seq(B) : b = list_pci_bridge
  BY <1>2, Zenon DEF PciInv
<1>6. /\ \A i \in DOMAIN l : l[i].dev \notin todo
      /\ \A i, j \in DOMAIN l : l[i].dev = l[j].dev => i = j
  BY <1>1, <1>4 DEF PciInv, Distinct
<1>7. ASSUME list_pci' = l, list_pci_bridge' \in Seq(B) PROVE PciInv'
  <2>1. (list_pci \in Seq({PciEntry(e) : e \in Others}))'
    BY <1>3, <1>7, Zenon
  <2>2. (list_pci_bridge \in Seq({PciEntry(e) : e \in Bridges}))'
    BY <1>3, <1>7, Zenon
  <2>3. Distinct' /\ (\A i \in DOMAIN list_pci : list_pci[i].dev \notin todo)'
    BY <1>1, <1>6, <1>7 DEF Distinct
  <2>4. (m \in Machines)'
    BY <1>1 DEF PciInv
  <2>5. QED
    BY <1>1, <2>1, <2>2, <2>3, <2>4 DEF PciInv
<1>8. PICK e : e = PciEntry(d)
  OBVIOUS
<1>9. e.dev = d
  BY <1>8, EntryDev, Zenon
<1>10. CASE m.pci[d].class = "bridge_pci" /\ list_pci_bridge' = <<PciEntry(d)>> \o list_pci_bridge /\ UNCHANGED list_pci
  <2>1. e \in B
    BY <1>2, <1>8, <1>10 DEF Bridges
  <2>2. PICK r : r = <<e>> \o b
    OBVIOUS
  <2>3. r \in Seq(B)
    BY <2>1, <2>2, ListAdd
  <2>4. list_pci_bridge' = r
    BY <1>5, <1>8, <1>10, <2>2, Zenon
  <2>5. QED
    BY <1>4, <1>7, <1>10, <2>3, <2>4, Zenon
<1>11. CASE UNCHANGED <<list_pci, list_pci_bridge>>
  BY <1>4, <1>5, <1>7, <1>11, Zenon
<1>12. CASE m.pci[d].class # "bridge_pci" /\ list_pci' = <<PciEntry(d)>> \o list_pci /\ UNCHANGED list_pci_bridge
  <2>1. e \in S
    BY <1>2, <1>8, <1>12 DEF Others
  <2>2. PICK r : r = <<e>> \o l
    OBVIOUS
  <2>3. /\ r \in Seq(S) /\ DOMAIN l = 1..Len(l) /\ Len(l) \in Nat
        /\ DOMAIN r = 1..(Len(l) + 1)
        /\ r[1] = e
        /\ \A i \in DOMAIN r : i = 1 \/ (i - 1 \in DOMAIN l /\ r[i] = l[i - 1])
    BY <2>1, <2>2, ListAdd
  <2>4. list_pci' = r
    BY <1>4, <1>8, <1>12, <2>2, Zenon
  <2>5. (list_pci \in Seq({PciEntry(f) : f \in Others}))'
    BY <1>3, <2>3, <2>4, Zenon
  <2>6. (list_pci_bridge \in Seq({PciEntry(f) : f \in Bridges}))'
    BY <1>3, <1>5, <1>12, Zenon
  <2>7. \A i \in DOMAIN l : l[i].dev # d
    BY <1>1, <1>6
  <2>8. ASSUME NEW i \in DOMAIN r, NEW j \in DOMAIN r, r[i].dev = r[j].dev PROVE i = j
    <3>1. i \in Int /\ j \in Int
      BY <2>3
    <3>2. CASE i # 1 /\ j # 1
      <4>1. i - 1 = j - 1
        BY <1>6, <2>3, <2>8, <3>2
      <4>2. QED
        BY <3>1, <4>1
    <3>3. QED
      BY <1>9, <2>3, <2>7, <2>8, <3>2
  <2>9. \A i \in DOMAIN r : r[i].dev \notin todo'
    BY <1>1, <1>6, <1>9, <2>3
  <2>10. Distinct' /\ (\A i \in DOMAIN list_pci : list_pci[i].dev \notin todo)'
    BY <2>4, <2>8, <2>9 DEF Distinct
  <2>11. (m \in Machines)'
    BY <1>1 DEF PciInv
  <2>12. QED
    BY <1>1, <2>5, <2>6, <2>10, <2>11 DEF PciInv
<1>13. QED
  BY <1>10, <1>11, <1>12 DEF WalkPci

\* A step that leaves the PCI lists alone.
LEMMA PciKept ==
  ASSUME PciInv, UNCHANGED <<m, list_pci, list_pci_bridge, hung>>,
         \/ pc' = pc /\ todo' = todo
         \/ pc' = "undefined"
         \/ pc \in {"cpu", "dmi"} /\ pc' \in {"cpu", "dmi", "pci"}
         \/ pc \in {"cpu", "dmi", "pci"} /\ pc' \in {"tree", "print", "exit"}
         \/ pc \in {"tree", "print", "exit"} /\ pc' \in {"tree", "print", "exit"}
  PROVE  PciInv'
<1>1. m' = m /\ list_pci' = list_pci /\ list_pci_bridge' = list_pci_bridge /\ hung' = hung
  OBVIOUS
<1>2. /\ (m \in Machines)'
      /\ (list_pci_bridge \in Seq({PciEntry(d) : d \in Bridges}))'
      /\ list_pci \in Seq({PciEntry(d) : d \in Others}) => (list_pci \in Seq({PciEntry(d) : d \in Others}))'
  BY <1>1, SamePci, Zenon DEF PciInv
<1>3. /\ (Distinct' <=> Distinct) /\ (InPlace' <=> InPlace) /\ (FlatPci' <=> FlatPci)
      /\ (AllHung' <=> AllHung)
  <2>1. Distinct' <=> Distinct
    BY <1>1 DEF Distinct
  <2>2. InPlace' <=> InPlace
    BY <1>1, SamePlaces DEF InPlace
  <2>3. AllHung' <=> AllHung
    BY <1>1 DEF AllHung
  <2>4. QED
    BY <1>1, <2>1, <2>2, <2>3, SamePci
<1>4. pc = "pci" => \A i \in DOMAIN list_pci : list_pci[i].dev \notin todo
  BY DEF PciInv
<1>5. list_pci = <<>> => \A i \in DOMAIN list_pci : FALSE
  OBVIOUS
<1>6. pc \in {"cpu", "dmi", "pci"} /\ FlatPci => InPlace /\ Distinct
  BY OthersInPlace
<1>7. QED
  BY <1>1, <1>2, <1>3, <1>4, <1>5, <1>6 DEF PciInv

LEMMA PciNext == PciInv /\ [Next]_vars => PciInv'
<1> SUFFICES ASSUME PciInv, [Next]_vars PROVE PciInv'
  OBVIOUS
<1>1. ASSUME NEW c \in DOMAIN m.cpu, ReadCpu(c) PROVE PciInv'
  BY <1>1, PciKept DEF ReadCpu
<1>2. ASSUME NEW c \in DOMAIN m.cpu, Offline(c) PROVE PciInv'
  BY <1>2, PciKept DEF Offline, lists
<1>3. CASE SetThreads
  BY <1>3, PciKept DEF SetThreads
<1>4. CASE WalkMem
  BY <1>4, PciKept DEF WalkMem
<1>5. CASE DmiFails
  BY <1>5, PciKept DEF DmiFails, lists
<1>6. ASSUME NEW d \in DOMAIN m.pci, WalkPci(d) PROVE PciInv'
  BY <1>6, WalkPciInv
<1>7. CASE WalkNet
  <2>1. m' = m /\ pc = "pci" /\ pc' = "tree" /\ list_pci_bridge' = list_pci_bridge
    BY <1>7 DEF WalkNet
  <2>2. CASE UNCHANGED <<list_pci, hung>>
    BY <2>1, <2>2, PciKept
  <2>3. ASSUME NEW nets \in SetToSeqs(m.net), list_pci' = SubPci(Named(nets)) PROVE PciInv'
    <3>1. (m \in Machines)' /\ (list_pci_bridge \in Seq({PciEntry(d) : d \in Bridges}))'
      BY <2>1, SamePci, Zenon DEF PciInv
    <3>2. PICK r : r = list_pci'
      OBVIOUS
    <3>3. r = SubPci(Named(nets))
      BY <2>3, <3>2, Zenon
    <3>4. FlatPci => /\ \A i \in DOMAIN r : \E d \in DOMAIN m.pci : \E x : r[i].dev = d /\ r[i] \in Places(d, x)
                     /\ \A i, j \in DOMAIN r : r[i].dev = r[j].dev => i = j
                     /\ \A i \in DOMAIN r, k \in DOMAIN list_pci_bridge :
                          list_pci_bridge[k].subbus = m.pci[r[i].dev].bus => r[i].subbus # 0
      BY <2>1, <3>3, WalkNetPlaces, Zenon
    <3>5. \A d, x : Places(d, x)' = Places(d, x)
      BY <2>1, SamePlaces
    <3>6. FlatPci => InPlace' /\ Distinct' /\ AllHung'
      BY <2>1, <3>2, <3>4, <3>5 DEF InPlace, Distinct, AllHung
    <3>7. FlatPci' => InPlace' /\ Distinct' /\ AllHung'
      BY <2>1, <3>6, SamePci
    <3>8. QED
      BY <2>1, <3>1, <3>7 DEF PciInv
  <2>4. QED
    BY <1>7, <2>2, <2>3 DEF WalkNet
<1>8. CASE CreateTree
  BY <1>8, PciKept DEF CreateTree, lists
<1>9. CASE UNCHANGED vars
  BY <1>9, PciKept DEF vars
<1>10. CASE DmiAbsent \/ SocketsOverflow
  BY <1>10, PciKept DEF DmiAbsent, SocketsOverflow, lists
<1>11. QED
  BY <1>1, <1>2, <1>3, <1>4, <1>5, <1>6, <1>7, <1>8, <1>9, <1>10 DEF Next


LEMMA SameNode == \A n, x, y : Node(n, x) = Node(n, y) => x = y
  BY DEF Node

\* At home, or below the bridge of its bus.
AtHome(p, d) ==
  /\ p.subbus = 0 /\ p.subdomain = 0
  /\ p.hostbridge = m.pci[d].bus /\ p.slot = m.pci[d].slot /\ p.func = m.pci[d].func
BelowBridge(p, d, b) ==
  /\ p.subbus = m.pci[d].bus /\ p.subslot = m.pci[d].slot /\ p.subfunc = m.pci[d].func
  /\ b.subbus = m.pci[d].bus /\ p.subbus \in 1..255
  /\ p.chassis = b.chassis /\ p.hostbridge = b.hostbridge /\ p.slot = b.slot /\ p.func = b.func

LEMMA PlaceIs ==
  ASSUME PciInv, FlatPci, NEW d, NEW x, NEW p \in Places(d, x)
  PROVE  AtHome(p, d) \/ \E k \in DOMAIN list_pci_bridge : BelowBridge(p, d, list_pci_bridge[k])
<1>1. CASE p = Home(d, x)
  <2>1. PICK h, s, f : h = m.pci[d].bus /\ s = m.pci[d].slot /\ f = m.pci[d].func
    OBVIOUS
  <2>2. p = [chassis |-> 0, hostbridge |-> h, slot |-> s, func |-> f,
             subdomain |-> 0, subbus |-> 0, subslot |-> 0, subfunc |-> 0, dev |-> d, name |-> x]
    BY <1>1, <2>1, Zenon DEF Home
  <2>3. p.subbus = 0 /\ p.subdomain = 0 /\ p.hostbridge = h /\ p.slot = s /\ p.func = f
    BY <2>2
  <2>4. QED
    BY <2>1, <2>3, Zenon DEF AtHome
<1>2. ASSUME NEW k \in DOMAIN list_pci_bridge, list_pci_bridge[k].subbus = m.pci[d].bus,
             p = Moved(d, x, list_pci_bridge[k])
      PROVE  BelowBridge(p, d, list_pci_bridge[k])
  <2>1. PICK b : b = list_pci_bridge[k]
    OBVIOUS
  <2>2. Bridge(b)
    BY <2>1, BridgesAre
  <2>3. b.chassis = 0 /\ b.hostbridge = 0 /\ b.subbus \in 1..255
    BY <2>2 DEF Bridge
  <2>4. PICK s, f, u, bs, bf : /\ s = m.pci[d].slot /\ f = m.pci[d].func
                               /\ u = b.subbus /\ bs = b.slot /\ bf = b.func
    OBVIOUS
  <2>5. p = [chassis |-> 0, hostbridge |-> 0, slot |-> bs, func |-> bf, subdomain |-> 0, subbus |-> u,
             subslot |-> s, subfunc |-> f, dev |-> d, name |-> x]
    BY <1>2, <2>1, <2>4, Zenon DEF Moved
  <2>6. /\ p.subbus = u /\ p.subslot = s /\ p.subfunc = f
        /\ p.chassis = 0 /\ p.hostbridge = 0 /\ p.slot = bs /\ p.func = bf
    BY <2>5
  <2>7. u = m.pci[d].bus
    BY <1>2, <2>1, <2>4, Zenon
  <2>8. BelowBridge(p, d, b)
    BY <2>3, <2>4, <2>6, <2>7, Zenon DEF BelowBridge
  <2>9. QED
    BY <2>1, <2>8, Zenon
<1>3. QED
  BY <1>1, <1>2, Zenon DEF Places

\* A path and the device it is of.
Plain(p) == p.subbus = 0 /\ p.subdomain = 0
IsPathOf(s, p) ==
  /\ s[2] = Node("hostbridge", p.hostbridge) /\ s[3] = Node("slot", p.slot) /\ s[4] = Node("func", p.func)
  /\ Plain(p) => Len(s) = 4
  /\ ~Plain(p) => /\ Len(s) = 7
                  /\ s[5] = Node("hostbridge", p.subbus) /\ s[6] = Node("slot", p.subslot)
                  /\ s[7] = Node("func", p.subfunc)

LEMMA SameFields ==
  ASSUME NEW s, NEW p, NEW q, IsPathOf(s, p), IsPathOf(s, q)
  PROVE  /\ p.hostbridge = q.hostbridge /\ p.slot = q.slot /\ p.func = q.func
         /\ Plain(p) <=> Plain(q)
         /\ ~Plain(p) => p.subbus = q.subbus /\ p.subslot = q.subslot /\ p.subfunc = q.subfunc
<1>1. Plain(p) <=> Plain(q)
  BY DEF IsPathOf
<1>2. /\ Node("hostbridge", p.hostbridge) = Node("hostbridge", q.hostbridge)
      /\ Node("slot", p.slot) = Node("slot", q.slot) /\ Node("func", p.func) = Node("func", q.func)
  BY DEF IsPathOf
<1>3. ~Plain(p) => /\ Node("hostbridge", p.subbus) = Node("hostbridge", q.subbus)
                   /\ Node("slot", p.subslot) = Node("slot", q.subslot)
                   /\ Node("func", p.subfunc) = Node("func", q.subfunc)
  BY <1>1 DEF IsPathOf
<1>4. QED
  BY <1>1, <1>2, <1>3, SameNode

LEMMA PathOf ==
  ASSUME NEW s, NEW p, s = PciPath(p) \o SubPath(p)
  PROVE  IsPathOf(s, p)
BY PciPathIs, Zenon DEF IsPathOf, Plain

\* Equal paths come from equal addresses.
LEMMA SameAddress ==
  ASSUME NEW s, NEW p, NEW q, IsPathOf(s, p), IsPathOf(s, q), NEW d, NEW e,
         AtHome(p, d) \/ \E b : BelowBridge(p, d, b), AtHome(q, e) \/ \E b : BelowBridge(q, e, b)
  PROVE  m.pci[d].bus = m.pci[e].bus /\ m.pci[d].slot = m.pci[e].slot /\ m.pci[d].func = m.pci[e].func
<1>1. /\ p.hostbridge = q.hostbridge /\ p.slot = q.slot /\ p.func = q.func
      /\ Plain(p) <=> Plain(q)
      /\ ~Plain(p) => p.subbus = q.subbus /\ p.subslot = q.subslot /\ p.subfunc = q.subfunc
  BY SameFields
<1>2. (AtHome(p, d) => Plain(p)) /\ (AtHome(q, e) => Plain(q))
  BY DEF AtHome, Plain
<1>3. \A b : (BelowBridge(p, d, b) => ~Plain(p)) /\ (BelowBridge(q, e, b) => ~Plain(q))
  BY DEF BelowBridge, Plain
<1>4. CASE Plain(p)
  <2>1. AtHome(p, d) /\ AtHome(q, e)
    BY <1>1, <1>3, <1>4, Zenon
  <2>2. QED
    BY <1>1, <2>1, Zenon DEF AtHome
<1>5. CASE ~Plain(p)
  <2>1. PICK b, c : BelowBridge(p, d, b) /\ BelowBridge(q, e, c)
    BY <1>1, <1>2, <1>5, Zenon
  <2>2. QED
    BY <1>1, <1>5, <2>1, Zenon DEF BelowBridge
<1>6. QED
  BY <1>4, <1>5

LEMMA DevicesApart ==
  ASSUME PciInv, FlatPci, InPlace, Distinct, NEW i \in DOMAIN list_pci, NEW j \in DOMAIN list_pci, i # j
  PROVE  PciPath(list_pci[i]) \o SubPath(list_pci[i]) # PciPath(list_pci[j]) \o SubPath(list_pci[j])
<1>1. PICK p, q : p = list_pci[i] /\ q = list_pci[j]
  OBVIOUS
<1>2. SUFFICES ASSUME PciPath(p) \o SubPath(p) = PciPath(q) \o SubPath(q) PROVE FALSE
  BY <1>1, Zenon
<1>3. PICK d, x : d \in DOMAIN m.pci /\ p.dev = d /\ p \in Places(d, x)
  BY <1>1, Zenon DEF InPlace
<1>4. PICK e, y : e \in DOMAIN m.pci /\ q.dev = e /\ q \in Places(e, y)
  BY <1>1, Zenon DEF InPlace
<1>5. d # e
  BY <1>1, <1>3, <1>4, Zenon DEF Distinct
<1>6. AtHome(p, d) \/ \E b : BelowBridge(p, d, b)
  BY <1>3, PlaceIs, Zenon
<1>7. AtHome(q, e) \/ \E b : BelowBridge(q, e, b)
  BY <1>4, PlaceIs, Zenon
<1>8. m.pci[d].bus = m.pci[e].bus /\ m.pci[d].slot = m.pci[e].slot /\ m.pci[d].func = m.pci[e].func
  <2>1. PICK s : s = PciPath(p) \o SubPath(p)
    OBVIOUS
  <2>2. IsPathOf(s, p)
    BY <2>1, PathOf, Zenon
  <2>3. IsPathOf(s, q)
    BY <1>2, <2>1, PathOf, Zenon
  <2>4. QED
    BY <1>6, <1>7, <2>2, <2>3, SameAddress
<1>9. m.pci[d].domain = m.pci[e].domain
  BY <1>3, <1>4 DEF FlatPci
<1>10. m \in Machines
  BY DEF PciInv
<1>11. QED
  BY <1>3, <1>4, <1>5, <1>8, <1>9, <1>10, TopoAssumption, Zenon DEF TopoAssumption

LEMMA RightBridge ==
  ASSUME PciInv, FlatPci, InPlace, NEW i \in DOMAIN list_pci, NEW k \in DOMAIN list_pci_bridge,
         list_pci[i].subbus = list_pci_bridge[k].subbus
  PROVE  /\ m.pci[list_pci[i].dev].bus = list_pci_bridge[k].subbus
         /\ PciPath(list_pci[i]) = PciPath(list_pci_bridge[k])
<1>1. PICK p, b : p = list_pci[i] /\ b = list_pci_bridge[k]
  OBVIOUS
<1>2. p.subbus = b.subbus
  BY <1>1, Zenon
<1>3. Bridge(b)
  BY <1>1, BridgesAre
<1>4. b.subbus \in 1..255
  BY <1>3 DEF Bridge
<1>5. PICK d, x : d \in DOMAIN m.pci /\ p.dev = d /\ p \in Places(d, x)
  BY <1>1, Zenon DEF InPlace
<1>6. AtHome(p, d) \/ \E n \in DOMAIN list_pci_bridge : BelowBridge(p, d, list_pci_bridge[n])
  BY <1>5, PlaceIs, Zenon
<1>7. ~AtHome(p, d)
  BY <1>2, <1>4 DEF AtHome
<1>8. PICK n \in DOMAIN list_pci_bridge : BelowBridge(p, d, list_pci_bridge[n])
  BY <1>6, <1>7, Zenon
<1>9. PICK c : c = list_pci_bridge[n]
  OBVIOUS
<1>10. BelowBridge(p, d, c)
  BY <1>8, <1>9, Zenon
<1>11. Bridge(c)
  BY <1>9, BridgesAre
<1>12. p.subbus = m.pci[d].bus /\ c.subbus = m.pci[d].bus
  BY <1>10, Zenon DEF BelowBridge
<1>13. c.dev = b.dev
  <2>1. c.subbus = b.subbus
    BY <1>2, <1>12, Zenon
  <2>2. /\ c.dev \in DOMAIN m.pci /\ m.pci[c.dev].class = "bridge_pci"
        /\ b.dev \in DOMAIN m.pci /\ m.pci[b.dev].class = "bridge_pci"
        /\ m.pci[c.dev].secondary = m.pci[b.dev].secondary
    BY <1>3, <1>11, <2>1, Zenon DEF Bridge
  <2>3. QED
    BY <2>2, Zenon DEF FlatPci
<1>14. c = b
  <2>1. c = PciEntry(c.dev) /\ b = PciEntry(b.dev)
    BY <1>3, <1>11, Zenon DEF Bridge
  <2>2. QED
    BY <1>13, <2>1, Zenon
<1>15. PciPath(p) = PciPath(b)
  BY <1>10, <1>14, Zenon DEF BelowBridge, PciPath
<1>16. m.pci[p.dev].bus = b.subbus
  BY <1>2, <1>5, <1>12, Zenon
<1>17. QED
  BY <1>1, <1>15, <1>16, Zenon

\* The other way round, once devices have been hung.
LEMMA BehindBridge ==
  ASSUME PciInv, FlatPci, InPlace, AllHung, NEW i \in DOMAIN list_pci, NEW k \in DOMAIN list_pci_bridge,
         m.pci[list_pci[i].dev].bus = list_pci_bridge[k].subbus
  PROVE  list_pci[i].subbus = list_pci_bridge[k].subbus
<1>1. PICK p : p = list_pci[i]
  OBVIOUS
<1>2. PICK d, x : d \in DOMAIN m.pci /\ p.dev = d /\ p \in Places(d, x)
  BY <1>1, Zenon DEF InPlace
<1>3. p.subbus # 0
  BY <1>1, Zenon DEF AllHung
<1>4. AtHome(p, d) \/ \E n \in DOMAIN list_pci_bridge : BelowBridge(p, d, list_pci_bridge[n])
  BY <1>2, PlaceIs, Zenon
<1>5. p.subbus = m.pci[d].bus
  BY <1>3, <1>4, Zenon DEF AtHome, BelowBridge
<1>6. QED
  BY <1>1, <1>2, <1>5, Zenon

\* On a machine whose bridges all sit on bus 0, naming interfaces and hanging devices below
\* bridges merges no two devices into one node of the tree, and a device is hung below a
\* bridge if, and only if, its bus is the one behind that bridge: for any number of devices
\* and bridges, found in any order.
THEOREM DevicesArePlaced == Spec => []PciPlaced
<1>1. Init => PciInv
  <2>1. SUFFICES ASSUME Init PROVE PciInv
    OBVIOUS
  <2>2. \A S : <<>> \in Seq(S)
    OBVIOUS
  <2>3. DOMAIN <<>> = {}
    OBVIOUS
  <2>4. list_pci \in Seq({PciEntry(d) : d \in Others}) /\ list_pci_bridge \in Seq({PciEntry(d) : d \in Bridges})
    BY <2>1, <2>2, Zenon DEF Init
  <2>5. Distinct
    BY <2>1, <2>3 DEF Init, Distinct
  <2>6. QED
    BY <2>1, <2>4, <2>5 DEF Init, PciInv
<1>2. PciInv /\ [Next]_vars => PciInv'
  BY PciNext
<1>3. PciInv => PciPlaced
  <2>1. SUFFICES ASSUME PciInv, pc = "print", FlatPci,
                        NEW i \in DOMAIN list_pci, NEW j \in DOMAIN list_pci
                 PROVE  /\ i # j => PciPath(list_pci[i]) \o SubPath(list_pci[i])
                                      # PciPath(list_pci[j]) \o SubPath(list_pci[j])
                        /\ hung => \A k \in DOMAIN list_pci_bridge :
                             IsBelow(list_pci[i], list_pci_bridge[k])
                               <=> m.pci[list_pci[i].dev].bus = list_pci_bridge[k].subbus
    BY Zenon DEF PciPlaced
  <2>2. InPlace /\ Distinct /\ (hung = TRUE => AllHung)
    BY <2>1 DEF PciInv
  <2>3. ASSUME hung, NEW k \in DOMAIN list_pci_bridge
        PROVE  IsBelow(list_pci[i], list_pci_bridge[k])
                 <=> m.pci[list_pci[i].dev].bus = list_pci_bridge[k].subbus
    <3>1. AllHung
      BY <2>2, <2>3, Zenon
    <3>2. IsBelow(list_pci[i], list_pci_bridge[k])
            => m.pci[list_pci[i].dev].bus = list_pci_bridge[k].subbus
      BY <2>1, <2>2, RightBridge, Zenon DEF IsBelow
    <3>3. m.pci[list_pci[i].dev].bus = list_pci_bridge[k].subbus
            => IsBelow(list_pci[i], list_pci_bridge[k])
      BY <2>1, <2>2, <3>1, BehindBridge, RightBridge, Zenon DEF IsBelow
    <3>4. QED
      BY <3>2, <3>3, Zenon
  <2>4. QED
    BY <2>1, <2>2, <2>3, DevicesApart, Zenon
<1>4. QED
  BY <1>1, <1>2, <1>3, PTL DEF Spec


-----------------------------------------------------------------------------
(* Counting.                                                               *)

LEMMA PartOf ==
  ASSUME NEW S, IsFiniteSet(S), NEW T \in SUBSET S
  PROVE  IsFiniteSet(T) /\ Cardinality(T) \in Nat /\ Cardinality(T) <= Cardinality(S)
BY FS_Subset, FS_CardinalityType

LEMMA TwoParts ==
  ASSUME NEW S, IsFiniteSet(S), NEW A \in SUBSET S, NEW B \in SUBSET S, A \cap B = {}
  PROVE  Cardinality(A \cup B) = Cardinality(A) + Cardinality(B)
<1>1. /\ IsFiniteSet(A) /\ IsFiniteSet(B) /\ Cardinality(A) \in Nat /\ Cardinality(B) \in Nat
  BY PartOf
<1>2. Cardinality(A \cup B) = Cardinality(A) + Cardinality(B) - Cardinality(A \cap B)
  BY <1>1, FS_Union
<1>3. Cardinality(A \cap B) = 0
  BY FS_EmptySet, Zenon
<1>4. QED
  BY <1>1, <1>2, <1>3

\* The n-th of the values of a function on l, once they are sorted.
UpTo(l, v, x) == {i \in l : v[i] <= x}
Under(l, v, x) == {i \in l : v[i] < x}
IsNth(l, v, n, h) ==
  /\ \E i \in l : v[i] = h
  /\ Cardinality(UpTo(l, v, h)) >= n
  /\ Cardinality(Under(l, v, h)) < n

LEMMA NthIs ==
  ASSUME NEW l, IsFiniteSet(l), NEW B \in Nat, NEW v \in [l -> 0..B], NEW n \in 1..Cardinality(l),
         NEW V, V = {x \in {v[i] : i \in l} : Cardinality(UpTo(l, v, x)) >= n}
  PROVE  IsNth(l, v, n, Min(V))
<1>1. PICK W : W = {v[i] : i \in l}
  OBVIOUS
<1>2. W \in SUBSET (0..B)
  BY <1>1
<1>3. Cardinality(l) \in Nat /\ n \in Nat /\ 1 <= n /\ n <= Cardinality(l)
  BY FS_CardinalityType
<1>4. l # {}
  BY <1>3, FS_EmptySet
<1>5. V # {}
  <2>1. W # {}
    BY <1>1, <1>4
  <2>2. PICK x \in W : \A y \in W : y <= x
    BY <1>2, <2>1, MaxIs
  <2>3. UpTo(l, v, x) = l
    BY <1>1, <2>2 DEF UpTo
  <2>4. Cardinality(UpTo(l, v, x)) >= n
    BY <1>3, <2>3
  <2>5. QED
    BY <1>1, <2>4
<1>6. V \in SUBSET Nat /\ V \in SUBSET W
  BY <1>1, <1>2
<1>7. PICK h \in V : h = Min(V) /\ \A y \in V : h <= y
  BY <1>5, <1>6, MinIs
<1>8. h \in W /\ Cardinality(UpTo(l, v, h)) >= n
  BY <1>1
<1>9. PICK c \in Nat : c = Cardinality(Under(l, v, h))
  <2>1. Under(l, v, h) \in SUBSET l
    BY DEF Under
  <2>2. QED
    BY <2>1, PartOf
<1>10. c < n
  <2>1. SUFFICES ASSUME n <= c PROVE FALSE
    BY <1>3, <1>9
  <2>2. Under(l, v, h) # {}
    BY <1>3, <1>9, <2>1, FS_EmptySet
  <2>3. PICK U : U = {v[i] : i \in Under(l, v, h)}
    OBVIOUS
  <2>4. U # {} /\ U \in SUBSET W /\ U \in SUBSET (0..B)
    BY <1>1, <1>2, <2>2, <2>3 DEF Under
  <2>5. PICK u \in U : \A y \in U : y <= u
    BY <2>4, MaxIs
  <2>6. u \in 0..B /\ u \in W /\ h \in 0..B
    BY <1>2, <1>8, <2>4
  <2>7. u < h
    BY <2>3, <2>5 DEF Under
  <2>8. UpTo(l, v, u) = Under(l, v, h)
    <3>1. ASSUME NEW i \in l PROVE v[i] <= u <=> v[i] < h
      <4>1. v[i] \in 0..B
        BY <3>1
      <4>2. v[i] < h => v[i] \in U
        BY <2>3 DEF Under
      <4>3. QED
        BY <2>5, <2>6, <2>7, <4>1, <4>2
    <3>2. QED
      BY <3>1 DEF UpTo, Under
  <2>9. u \in V
    BY <1>1, <1>3, <1>9, <2>1, <2>6, <2>8
  <2>10. h <= u
    BY <1>7, <2>9
  <2>11. QED
    BY <2>6, <2>7, <2>10
<1>11. \E i \in l : v[i] = h
  BY <1>1, <1>8
<1>12. QED
  BY <1>7, <1>8, <1>9, <1>10, <1>11 DEF IsNth

\* Blocks of a flat sequence: C[k] is how long the first k sequences are together.
IsBlocks(F, n, S, s, C) ==
  /\ F \in Seq(S) /\ Len(F) = C[n]
  /\ \A p \in 1..C[n] : \E k \in 1..n : /\ C[k - 1] < p /\ p <= C[k]
                                        /\ \E q \in 1..Len(s[k]) : F[p] = s[k][q]

LEMMA FlatBlocks ==
  ASSUME NEW n \in Nat, NEW S, NEW s \in [1..n -> Seq(S)], NEW C \in [0..n -> Nat], C[0] = 0,
         \A k \in 1..n : C[k] = C[k - 1] + Len(s[k])
  PROVE  IsBlocks(FlattenSeq(s), n, S, s, C)
<1>1. PICK f : IsFlat(f, n, S, s)
  BY FlattenLoop
<1>2. /\ f \in [0..n -> Seq(S)] /\ f[0] = <<>> /\ f[n] = FlattenSeq(s)
      /\ \A k \in 1..n : f[k] = f[k - 1] \o s[k]
  BY <1>1, Zenon DEF IsFlat
<1> DEFINE In(F, p, k) == C[k - 1] < p /\ p <= C[k] /\ \E q \in 1..Len(s[k]) : F[p] = s[k][q]
<1>3. PICK I : I = [k \in 0..n |-> {F \in Seq(S) : Len(F) = C[k] /\ \A p \in 1..C[k] : \E j \in 1..k : In(F, p, j)}]
  OBVIOUS
<1> HIDE DEF In
<1>4. f[0] \in I[0]
  <2>1. <<>> \in Seq(S) /\ Len(<<>>) = 0 /\ 1..0 = {}
    OBVIOUS
  <2>2. 0 \in 0..n
    OBVIOUS
  <2>3. I[0] = {F \in Seq(S) : Len(F) = C[0] /\ \A p \in 1..C[0] : \E j \in 1..0 : In(F, p, j)}
    BY <1>3, <2>2, Zenon
  <2>4. QED
    BY <1>2, <2>1, <2>3
<1>5. ASSUME NEW k \in 1..n, f[k - 1] \in I[k - 1] PROVE f[k] \in I[k]
  <2>1. k \in 0..n /\ k - 1 \in 0..n
    BY <1>5
  <2>2. PICK a, b, r : a = f[k - 1] /\ b = s[k] /\ r = f[k]
    OBVIOUS
  <2>3. a \in Seq(S) /\ b \in Seq(S) /\ r \in Seq(S) /\ r = a \o b
    <3>1. f[k - 1] \in Seq(S) /\ f[k] \in Seq(S)
      BY <1>2, <2>1
    <3>2. s[k] \in Seq(S)
      OBVIOUS
    <3>3. QED
      BY <1>2, <2>2, <3>1, <3>2, Zenon
  <2>4. Len(a) = C[k - 1] /\ \A p \in 1..C[k - 1] : \E j \in 1..(k - 1) : In(a, p, j)
    <3>1. I[k - 1] = {F \in Seq(S) : Len(F) = C[k - 1] /\ \A p \in 1..C[k - 1] : \E j \in 1..(k - 1) : In(F, p, j)}
      BY <1>3, <2>1, Zenon
    <3>2. QED
      BY <1>5, <2>2, <3>1
  <2>5. PICK x \in Nat, y \in Nat, z \in Nat : x = C[k - 1] /\ y = Len(b) /\ z = C[k]
    BY <2>1, <2>3, LenProperties
  <2>6. z = x + y
    BY <2>2, <2>5
  <2>7. Len(r) = z /\ \A p \in 1..z : r[p] = IF p <= x THEN a[p] ELSE b[p - x]
    <3>1. /\ Len(a \o b) = Len(a) + Len(b)
          /\ \A i \in 1..Len(a) + Len(b) : (a \o b)[i] = IF i <= Len(a) THEN a[i] ELSE b[i - Len(a)]
      BY <2>3, ConcatProperties
    <3>2. QED
      BY <2>3, <2>4, <2>5, <2>6, <3>1
  <2>8. ASSUME NEW p \in 1..z PROVE \E j \in 1..k : In(r, p, j)
    <3>1. CASE p <= x
      <4>1. p \in 1..C[k - 1]
        BY <2>5, <3>1
      <4>2. PICK j \in 1..(k - 1) : In(a, p, j)
        BY <2>4, <4>1
      <4>3. r[p] = a[p] /\ j \in 1..k
        BY <2>7, <3>1
      <4>4. In(r, p, j)
        BY <4>2, <4>3 DEF In
      <4>5. QED
        BY <4>3, <4>4
    <3>2. CASE ~ (p <= x)
      <4>1. PICK q \in 1..y : q = p - x
        BY <2>6, <3>2
      <4>2. r[p] = b[q]
        BY <2>7, <3>2, <4>1
      <4>3. x < p /\ p <= z
        BY <3>2
      <4>4. In(r, p, k)
        BY <2>2, <2>5, <4>1, <4>2, <4>3, Zenon DEF In
      <4>5. k \in 1..k
        OBVIOUS
      <4>6. QED
        BY <4>4, <4>5
    <3>3. QED
      BY <3>1, <3>2
  <2>9. I[k] = {F \in Seq(S) : Len(F) = C[k] /\ \A p \in 1..C[k] : \E j \in 1..k : In(F, p, j)}
    BY <1>3, <2>1, Zenon
  <2>10. QED
    BY <2>2, <2>3, <2>5, <2>7, <2>8, <2>9, Zenon
<1>6. n \in 0..n
  OBVIOUS
<1>7. f[n] \in I[n]
  BY <1>4, <1>5, <1>6, Rounds
<1>8. I[n] = {F \in Seq(S) : Len(F) = C[n] /\ \A p \in 1..C[n] : \E j \in 1..n : In(F, p, j)}
  BY <1>3, <1>6, Zenon
<1>9. f[n] \in Seq(S) /\ Len(f[n]) = C[n] /\ \A p \in 1..C[n] : \E j \in 1..n : In(f[n], p, j)
  BY <1>7, <1>8
<1>10. QED
  BY <1>2, <1>9, Zenon DEF In, IsBlocks


LEMMA UnderIs ==
  ASSUME NEW l, IsFiniteSet(l), NEW v \in [l -> Nat], NEW x \in Nat, NEW y \in Nat
  PROVE  /\ Cardinality(Under(l, v, x)) \in Nat
         /\ x <= y => Cardinality(Under(l, v, x)) <= Cardinality(Under(l, v, y))
<1>1. PICK X, Y : X = Under(l, v, x) /\ Y = Under(l, v, y)
  OBVIOUS
<1>2. X \in SUBSET l /\ Y \in SUBSET l
  BY <1>1 DEF Under
<1>3. Cardinality(X) \in Nat /\ IsFiniteSet(Y)
  BY <1>2, PartOf
<1>4. x <= y => X \in SUBSET Y
  BY <1>1 DEF Under
<1>5. x <= y => Cardinality(X) <= Cardinality(Y)
  BY <1>3, <1>4, PartOf
<1>6. QED
  BY <1>1, <1>3, <1>5

\* A value and what is above it differ in how many are below them.
LEMMA RankGrows ==
  ASSUME NEW l, IsFiniteSet(l), NEW v \in [l -> Nat], NEW a \in l, NEW y \in Nat, v[a] < y
  PROVE  Cardinality(Under(l, v, v[a])) < Cardinality(Under(l, v, y))
<1>1. PICK X, Y : X = Under(l, v, v[a]) /\ Y = Under(l, v, y)
  OBVIOUS
<1>2. X \in SUBSET l /\ Y \in SUBSET l /\ a \notin X /\ X \cup {a} \in SUBSET Y
  BY <1>1 DEF Under
<1>3. IsFiniteSet(X) /\ Cardinality(X) \in Nat /\ IsFiniteSet(Y) /\ Cardinality(Y) \in Nat
  BY <1>2, PartOf
<1>4. Cardinality(X \cup {a}) = Cardinality(X) + 1
  BY <1>2, <1>3, FS_AddElement
<1>5. Cardinality(X \cup {a}) <= Cardinality(Y)
  BY <1>2, <1>3, PartOf
<1>6. QED
  BY <1>1, <1>3, <1>4, <1>5

\* Among different values, i are below the (i + 1)-th.
LEMMA RankOfNth ==
  ASSUME NEW l, IsFiniteSet(l), NEW v \in [l -> Nat], \A a, b \in l : v[a] = v[b] => a = b,
         NEW i \in Nat, NEW h, IsNth(l, v, i + 1, h)
  PROVE  Cardinality(Under(l, v, h)) = i
<1>1. PICK a \in l : v[a] = h
  BY DEF IsNth
<1>2. PICK X : X = Under(l, v, h)
  OBVIOUS
<1>3. X \in SUBSET l /\ a \notin X /\ UpTo(l, v, h) = X \cup {a}
  BY <1>1, <1>2 DEF Under, UpTo
<1>4. IsFiniteSet(X) /\ Cardinality(X) \in Nat
  BY <1>3, PartOf
<1>5. Cardinality(X \cup {a}) = Cardinality(X) + 1
  BY <1>3, <1>4, FS_AddElement
<1>6. Cardinality(X) < i + 1 /\ Cardinality(X) + 1 >= i + 1
  BY <1>2, <1>3, <1>5 DEF IsNth
<1>7. QED
  BY <1>2, <1>4, <1>6

\* D's elements are sorted by w, and in the same order by R: the p-th has the value i of R
\* when p is counted among those of value i.
LEMMA NthDevice ==
  ASSUME NEW D, IsFiniteSet(D), NEW w \in [D -> Nat], NEW R \in [D -> Nat],
         \A d, e \in D : R[d] < R[e] => w[d] < w[e],
         NEW i \in Nat, NEW p \in Nat,
         Cardinality({d \in D : R[d] < i}) < p, p <= Cardinality({d \in D : R[d] < i + 1}),
         NEW h, IsNth(D, w, p, h)
  PROVE  \E d \in D : w[d] = h /\ R[d] = i
<1>1. PICK d \in D : w[d] = h
  BY DEF IsNth
<1>2. PICK P, Q, X, Y : /\ P = {e \in D : R[e] < i} /\ Q = {e \in D : R[e] < i + 1}
                        /\ X = UpTo(D, w, h) /\ Y = Under(D, w, h)
  OBVIOUS
<1>3. P \in SUBSET D /\ Q \in SUBSET D /\ X \in SUBSET D /\ Y \in SUBSET D
  BY <1>2 DEF UpTo, Under
<1>4. PICK np \in Nat, nq \in Nat, nx \in Nat, ny \in Nat :
        np = Cardinality(P) /\ nq = Cardinality(Q) /\ nx = Cardinality(X) /\ ny = Cardinality(Y)
  BY <1>3, PartOf
<1>5. np < p /\ p <= nq /\ p <= nx /\ ny < p
  BY <1>2, <1>4 DEF IsNth
<1>6. R[d] \in Nat /\ w[d] \in Nat
  OBVIOUS
<1>7. ~ (R[d] < i)
  <2>1. SUFFICES ASSUME R[d] < i PROVE FALSE
    OBVIOUS
  <2>2. ASSUME NEW e \in X PROVE e \in P
    <3>1. e \in D /\ w[e] <= w[d]
      BY <1>1, <1>2 DEF UpTo
    <3>2. R[e] \in Nat /\ w[e] \in Nat
      BY <3>1
    <3>3. ~ (R[d] < R[e])
      BY <1>6, <3>1, <3>2
    <3>4. R[e] < i
      BY <1>6, <2>1, <3>2, <3>3
    <3>5. QED
      BY <1>2, <3>1, <3>4
  <2>3. X \in SUBSET P /\ IsFiniteSet(P)
    BY <1>3, <2>2, PartOf
  <2>4. nx <= np
    BY <1>4, <2>3, PartOf
  <2>5. QED
    BY <1>5, <2>4
<1>8. ~ (i < R[d])
  <2>1. SUFFICES ASSUME i < R[d] PROVE FALSE
    OBVIOUS
  <2>2. ASSUME NEW e \in Q PROVE e \in Y
    <3>1. e \in D /\ R[e] < i + 1
      BY <1>2
    <3>2. R[e] \in Nat
      BY <3>1
    <3>3. R[e] < R[d]
      BY <1>6, <2>1, <3>1, <3>2
    <3>4. w[e] < w[d]
      BY <3>1, <3>3
    <3>5. QED
      BY <1>1, <1>2, <3>1, <3>4 DEF Under
  <2>3. Q \in SUBSET Y /\ IsFiniteSet(Y)
    BY <1>3, <2>2, PartOf
  <2>4. nq <= ny
    BY <1>4, <2>3, PartOf
  <2>5. QED
    BY <1>5, <2>4
<1>9. R[d] = i
  BY <1>6, <1>7, <1>8
<1>10. QED
  BY <1>1, <1>9

-----------------------------------------------------------------------------
(* Tables that look the way fmd_topo_walk_mem expects.                     *)

LEMMA OwnType ==
  ASSUME m \in Machines, NEW i \in DOMAIN m.dmi
  PROVE  m.dmi[i].handle \in Nat /\ Own(i) \in 0..255 /\ (Regular => Own(i) = m.dmi[i].handle)
<1>1. m.dmi[i].handle \in Nat
  BY TopoAssumption DEF TopoAssumption
<1>2. Regular => m.dmi[i].handle < 256
  BY DEF Regular
<1>3. QED
  BY <1>1, <1>2, LowByte DEF Own

LEMMA ListFinite ==
  ASSUME m \in Machines
  PROVE  IsFiniteSet(Arrays) /\ IsFiniteSet(OfType(17))
<1>1. PICK L \in Nat : DOMAIN m.dmi = 1..L
  BY TableIs
<1>2. IsFiniteSet(1..L)
  BY FS_Interval
<1>3. Arrays \in SUBSET (1..L) /\ OfType(17) \in SUBSET (1..L)
  BY <1>1, TableIs
<1>4. QED
  BY <1>2, <1>3, FS_Subset

\* The handles of a list.
Owns(l) == [i \in l |-> Own(i)]

LEMMA HandleIs ==
  ASSUME m \in Machines, NEW l \in SUBSET (DOMAIN m.dmi), IsFiniteSet(l), NEW n \in 1..Cardinality(l)
  PROVE  Owns(l) \in [l -> 0..255] /\ IsNth(l, Owns(l), n, Handle(l, n))
<1>1. PICK v : v = [i \in l |-> Own(i)]
  OBVIOUS
<1>2. PICK B \in Nat : B = 255
  OBVIOUS
<1>3. v \in [l -> 0..B]
  BY <1>1, <1>2, OwnType
<1>4. PICK V : V = {x \in {v[i] : i \in l} : Cardinality(UpTo(l, v, x)) >= n}
  OBVIOUS
<1>5. IsNth(l, v, n, Min(V))
  BY <1>3, <1>4, NthIs
<1>6. \A i \in l : v[i] = Own(i)
  BY <1>1
<1>7. {v[i] : i \in l} = {Own(i) : i \in l} /\ \A x : UpTo(l, v, x) = {i \in l : Own(i) <= x}
  BY <1>6 DEF UpTo
<1>8. Handle(l, n) = Min(V)
  <2>1. V = {x \in {Own(i) : i \in l} : Cardinality({i \in l : Own(i) <= x}) >= n}
    BY <1>4, <1>7
  <2>2. QED
    BY <2>1, Zenon DEF Handle
<1>9. QED
  BY <1>1, <1>2, <1>3, <1>5, <1>8, Zenon DEF Owns


\* How many arrays come before the one a device is in: the node it belongs to.
Handles(l) == [i \in l |-> m.dmi[i].handle]
RankOf(d) == Cardinality(Under(Arrays, Handles(Arrays), m.dmi[d].array))

LEMMA RegularHandles ==
  ASSUME m \in Machines, Regular, NEW l \in SUBSET (DOMAIN m.dmi)
  PROVE  Owns(l) = Handles(l) /\ Handles(l) \in [l -> Nat]
<1>1. \A i \in l : Own(i) = m.dmi[i].handle /\ m.dmi[i].handle \in Nat
  BY OwnType
<1>2. QED
  BY <1>1 DEF Owns, Handles

\* The array that the (i + 1)-th handle is the handle of.
LEMMA ArrayAt ==
  ASSUME m \in Machines, Regular, NEW i \in Nat, i < Cardinality(Arrays), NEW h, h = Handle(Arrays, i + 1)
  PROVE  /\ h \in Nat /\ Cardinality(Under(Arrays, Handles(Arrays), h)) = i
         /\ \E a \in Arrays : m.dmi[a].handle = h /\ {k \in Arrays : Own(k) = h} = {a}
<1>1. PICK A : A = Arrays
  OBVIOUS
<1>2. PICK v : v = Handles(A)
  OBVIOUS
<1>3. A \in SUBSET (DOMAIN m.dmi) /\ IsFiniteSet(A) /\ Cardinality(A) \in Nat
  BY <1>1, TableIs, ListFinite, FS_CardinalityType
<1>4. v = Owns(A) /\ v \in [A -> Nat] /\ \A k \in A : v[k] = m.dmi[k].handle /\ Own(k) = v[k]
  BY <1>2, <1>3, RegularHandles, OwnType DEF Handles
<1>5. i + 1 \in 1..Cardinality(A)
  BY <1>1, <1>3
<1>6. IsNth(A, v, i + 1, h)
  BY <1>1, <1>3, <1>4, <1>5, HandleIs
<1>7. \A a, b \in A : v[a] = v[b] => a = b
  <2>1. \A a, b \in A : m.dmi[a].handle = m.dmi[b].handle => a = b
    BY <1>1 DEF Regular
  <2>2. QED
    BY <1>4, <2>1
<1>8. Cardinality(Under(A, v, h)) = i
  BY <1>3, <1>4, <1>6, <1>7, RankOfNth
<1>9. PICK a \in A : v[a] = h
  BY <1>6 DEF IsNth
<1>10. {k \in A : Own(k) = h} = {a}
  BY <1>4, <1>7, <1>9
<1>11. QED
  BY <1>1, <1>2, <1>4, <1>8, <1>9, <1>10

\* The node of a device: the arrays of a smaller handle.
LEMMA RankIs ==
  ASSUME m \in Machines, Regular, NEW d \in OfType(17)
  PROVE  /\ RankOf(d) \in Nat /\ RankOf(d) < Cardinality(Arrays) /\ m.dmi[d].array \in Nat
         /\ RankOf(d) = Cardinality({a \in Arrays : m.dmi[a].handle < m.dmi[d].array})
         /\ \A h \in Nat : (\E a \in Arrays : m.dmi[a].handle = h) =>
              (m.dmi[d].array = h <=> RankOf(d) = Cardinality(Under(Arrays, Handles(Arrays), h)))
<1>1. PICK A : A = Arrays
  OBVIOUS
<1>2. PICK v : v = Handles(A)
  OBVIOUS
<1>3. A \in SUBSET (DOMAIN m.dmi) /\ IsFiniteSet(A) /\ Cardinality(A) \in Nat
  BY <1>1, TableIs, ListFinite, FS_CardinalityType
<1>4. v \in [A -> Nat] /\ \A k \in A : v[k] = m.dmi[k].handle
  BY <1>2, <1>3, RegularHandles DEF Handles
<1>5. PICK b \in A : m.dmi[d].array = v[b]
  BY <1>1, <1>4 DEF Regular
<1>6. PICK x \in Nat : x = m.dmi[d].array
  BY <1>4, <1>5
<1>7. RankOf(d) = Cardinality(Under(A, v, x))
  BY <1>1, <1>2, <1>6, Zenon DEF RankOf
<1>8. Under(A, v, x) \in SUBSET A /\ b \notin Under(A, v, x)
  BY <1>4, <1>5, <1>6 DEF Under
<1>9. RankOf(d) \in Nat /\ RankOf(d) < Cardinality(A)
  <2>1. Cardinality(Under(A, v, x)) \in Nat /\ Cardinality(Under(A, v, x)) <= Cardinality(A)
    BY <1>3, <1>8, PartOf
  <2>2. Cardinality(A) = Cardinality(Under(A, v, x)) => A = Under(A, v, x)
    BY <1>3, <1>8, FS_Subset
  <2>3. QED
    BY <1>3, <1>7, <1>8, <2>1, <2>2
<1>10. Under(A, v, x) = {a \in A : m.dmi[a].handle < x}
  BY <1>4 DEF Under
<1>11. ASSUME NEW h \in Nat, NEW a \in A, m.dmi[a].handle = h
       PROVE  x = h <=> RankOf(d) = Cardinality(Under(A, v, h))
  <2>1. v[a] = h
    BY <1>4, <1>11
  <2>2. Cardinality(Under(A, v, x)) \in Nat /\ Cardinality(Under(A, v, h)) \in Nat
    BY <1>3, <1>4, UnderIs
  <2>3. x < h => Cardinality(Under(A, v, x)) < Cardinality(Under(A, v, h))
    BY <1>3, <1>4, <1>5, <1>6, RankGrows
  <2>4. h < x => Cardinality(Under(A, v, h)) < Cardinality(Under(A, v, x))
    BY <1>3, <1>4, <2>1, RankGrows
  <2>5. x = h => Cardinality(Under(A, v, x)) = Cardinality(Under(A, v, h))
    BY Zenon
  <2>6. QED
    BY <1>7, <2>2, <2>3, <2>4, <2>5
<1>12. QED
  BY <1>1, <1>2, <1>6, <1>7, <1>9, <1>10, <1>11

\* A node with CPUs has one socket of its own number.
LEMMA OneSocket ==
  ASSUME CpuInv, Regular, NEW i
  PROVE  \/ SocketsOf(i) = <<i>> /\ \E k \in DOMAIN list_cpu : list_cpu[k].chassis = i
         \/ SocketsOf(i) = <<>> /\ \A k \in DOMAIN list_cpu : list_cpu[k].chassis # i
<1>1. CpuType
  BY DEF CpuInv
<1>2. PICK N \in Nat : N = Len(list_cpu) /\ DOMAIN list_cpu = 1..N
  BY <1>1, LenProperties DEF CpuType
<1>3. PICK g : IsScan(g, i, N)
  BY <1>1, <1>2, ScanLoop
<1>4. ASSUME NEW k \in 1..N PROVE list_cpu[k].socket = list_cpu[k].chassis
  <2>1. PICK e \in CpuRec(DOMAIN m.cpu) : e = list_cpu[k]
    BY <1>1, <1>2, ElementOfSeq DEF CpuType
  <2>2. PICK c \in DOMAIN m.cpu : c = e.processor
    BY DEF CpuRec
  <2>3. Right(e)
    BY <1>2, <2>1 DEF CpuInv
  <2>4. m.numa /\ m.cpu[c].socket = m.cpu[c].node
    BY DEF Regular
  <2>5. NodeOf(c) = m.cpu[c].node
    BY <2>4 DEF NodeOf
  <2>6. QED
    <3>1. e.socket = m.cpu[c].socket % 256 /\ e.chassis = NodeOf(c) % 256
      BY <2>2, <2>3, Zenon DEF Right
    <3>2. QED
      BY <2>1, <2>4, <2>5, <3>1, Zenon
<1> DEFINE Found(n) == \E k \in 1..n : list_cpu[k].chassis = i
<1>5. PICK I : I = [n \in 0..N |-> IF Found(n) THEN {<<i>>} ELSE {<<>>}]
  OBVIOUS
<1>6. \A n \in 0..N : I[n] = IF Found(n) THEN {<<i>>} ELSE {<<>>}
  BY <1>5
<1>7. /\ ~Found(0)
      /\ \A n \in 1..N : Found(n) <=> (Found(n - 1) \/ list_cpu[n].chassis = i)
  OBVIOUS
<1> HIDE DEF Found
<1>8. g[0] \in I[0]
  BY <1>3, <1>6, <1>7 DEF IsScan
<1>9. ASSUME NEW n \in 1..N, g[n - 1] \in I[n - 1] PROVE g[n] \in I[n]
  <2>1. n - 1 \in 0..N /\ n \in 0..N
    OBVIOUS
  <2>2. PICK c : c = list_cpu[n]
    OBVIOUS
  <2>3. g[n] = Seen(i, g[n - 1], c)
    BY <1>3, <2>2, Zenon DEF IsScan
  <2>4. c.socket = c.chassis
    BY <1>4, <2>2
  <2>5. PICK one : one = <<i>>
    OBVIOUS
  <2>6. i \in Range(one) /\ Range(<<>>) = {} /\ Append(<<>>, i) = one
        /\ Len(<<>>) \notin 1..(SocketMax - 1)
    BY <2>5 DEF Range
  <2>7. CASE c.chassis # i
    <3>1. Seen(i, g[n - 1], c) = g[n - 1]
      BY <2>7, Zenon DEF Seen
    <3>2. Found(n) <=> Found(n - 1)
      BY <1>7, <2>2, <2>7
    <3>3. QED
      BY <1>6, <1>9, <2>1, <2>3, <3>1, <3>2
  <2>8. CASE c.chassis = i
    <3>1. Found(n)
      BY <1>7, <2>2, <2>8
    <3>2. CASE Found(n - 1)
      <4>1. g[n - 1] = one
        BY <1>6, <1>9, <2>1, <2>5, <3>2
      <4>2. Seen(i, one, c) = one
        BY <2>4, <2>6, <2>8, Zenon DEF Seen
      <4>3. QED
        BY <1>6, <2>1, <2>3, <2>5, <3>1, <4>1, <4>2
    <3>3. CASE ~Found(n - 1)
      <4>1. g[n - 1] = <<>>
        BY <1>6, <1>9, <2>1, <3>3
      <4>2. Seen(i, <<>>, c) = Append(<<>>, i)
        BY <2>4, <2>6, <2>8, Zenon DEF Seen
      <4>3. g[n] = one
        BY <2>3, <2>6, <4>1, <4>2, Zenon
      <4>4. QED
        BY <1>6, <2>1, <2>5, <3>1, <4>3
    <3>4. QED
      BY <3>2, <3>3
  <2>9. QED
    BY <2>7, <2>8
<1>10. N \in 0..N
  OBVIOUS
<1>11. g[N] \in I[N]
  BY <1>8, <1>9, <1>10, Rounds
<1>12. SocketsOf(i) = g[N]
  BY <1>3, Zenon DEF IsScan
<1>13. QED
  BY <1>2, <1>6, <1>10, <1>11, <1>12 DEF Found


\* A node has as many DIMMs as there are devices in its array.
LEMMA CountIs ==
  ASSUME m \in Machines, Regular, NEW i \in Nat, i < Cardinality(Arrays), NEW g
  PROVE  DimmCount(i, i, g) = Cardinality({d \in OfType(17) : RankOf(d) = i})
<1>1. ArrayIndex(i, i) = i
  BY DEF ArrayIndex
<1>2. PICK h : h = Handle(Arrays, i + 1)
  OBVIOUS
<1>3. h \in Nat /\ Cardinality(Under(Arrays, Handles(Arrays), h)) = i
  BY <1>2, ArrayAt
<1>4. PICK a \in Arrays : m.dmi[a].handle = h /\ {k \in Arrays : Own(k) = h} = {a}
  BY <1>2, ArrayAt
<1>5. Min({a}) = a
  <2>1. {a} \in SUBSET Nat /\ {a} # {}
    BY TableIs
  <2>2. Min({a}) \in {a}
    BY <2>1, MinIs
  <2>3. QED
    BY <2>2
<1>6. DimmCount(i, i, g) = m.dmi[a].devices
  <2>1. {a} # {}
    OBVIOUS
  <2>2. QED
    BY <1>1, <1>2, <1>4, <1>5, <2>1, Zenon DEF DimmCount
<1>7. m.dmi[a].devices = Cardinality({d \in OfType(17) : m.dmi[d].array = m.dmi[a].handle})
  BY Zenon DEF Regular
<1>8. \A d \in OfType(17) : m.dmi[d].array = h <=> RankOf(d) = i
  BY <1>3, <1>4, RankIs
<1>9. {d \in OfType(17) : m.dmi[d].array = h} = {d \in OfType(17) : RankOf(d) = i}
  BY <1>8
<1>10. QED
  BY <1>4, <1>6, <1>7, <1>9, Zenon

\* The slots of a node.
SlotsOf(i) == {x \in (0..255) \X (0..255) \X Nat : x[1] = i}

LEMMA BlockIs ==
  ASSUME CpuInv, Regular, NEW i \in 0..255, NEW g
  PROVE  /\ NodeSlots(i, g) \in Seq(SlotsOf(i))
         /\ Len(NodeSlots(i, g)) = Cardinality({d \in OfType(17) : RankOf(d) = i})
<1>1. m \in Machines
  BY DEF CpuInv, CpuType
<1>2. PICK A \in Nat : A = Cardinality(Arrays)
  BY <1>1, ListFinite, FS_CardinalityType
<1>3. {list_cpu[k].chassis : k \in DOMAIN list_cpu} = 0..(A - 1)
  BY <1>2 DEF Regular
<1>4. PICK T : T = SlotsOf(i)
  OBVIOUS
<1>5. CASE SocketsOf(i) = <<i>> /\ \E k \in DOMAIN list_cpu : list_cpu[k].chassis = i
  <2>1. i \in Nat /\ i < A
    BY <1>2, <1>3, <1>5
  <2>2. PICK n \in Nat : n = DimmCount(i, i, g)
    BY <1>1, CountType
  <2>3. n = Cardinality({d \in OfType(17) : RankOf(d) = i})
    BY <1>1, <1>2, <2>1, <2>2, CountIs
  <2>4. PICK q : q = SocketSlots(i, i, g)
    OBVIOUS
  <2>5. q \in Seq(T) /\ Len(q) = n
    <3>1. ASSUME NEW k \in 1..n PROVE <<i, i, k - 1>> \in T
      <4>1. k - 1 \in Nat
        OBVIOUS
      <4>2. QED
        BY <1>4, <4>1 DEF SlotsOf
    <3>2. q = [k \in 1..n |-> <<i, i, k - 1>>]
      BY <2>2, <2>4, Zenon DEF SocketSlots
    <3>3. q \in [1..n -> T]
      BY <3>1, <3>2
    <3>4. QED
      BY <3>3, IsASeq
  <2>6. PICK s : s = [j \in 1..1 |-> q]
    OBVIOUS
  <2>7. s \in [1..1 -> Seq(T)] /\ s[1] = q
    BY <2>5, <2>6
  <2>8. FlattenSeq(s) = q
    <3>1. PICK one \in Nat : one = 1
      OBVIOUS
    <3>2. PICK f : IsFlat(f, one, T, s)
      BY <2>7, <3>1, FlattenLoop
    <3>3. /\ f[0] = <<>> /\ f[1] = FlattenSeq(s)
          /\ \A k \in 1..1 : f[k] = f[k - 1] \o s[k]
      BY <3>1, <3>2, Zenon DEF IsFlat
    <3>4. 1 \in 1..1 /\ 1 - 1 = 0
      OBVIOUS
    <3>5. f[1] = <<>> \o q
      BY <2>7, <3>3, <3>4, Zenon
    <3>6. <<>> \o q = q
      BY <2>5, ConcatEmptySeq
    <3>7. QED
      BY <3>3, <3>5, <3>6, Zenon
  <2>9. NodeSlots(i, g) = FlattenSeq(s)
    <3>1. PICK t : t = SocketsOf(i)
      OBVIOUS
    <3>2. DOMAIN t = 1..1 /\ t[1] = i
      BY <1>5, <3>1
    <3>3. \A j \in 1..1 : SocketSlots(i, t[j], g) = q
      <4>1. \A j \in 1..1 : t[j] = i
        BY <3>2
      <4>2. QED
        BY <2>4, <4>1, Zenon
    <3>4. [j \in DOMAIN t |-> SocketSlots(i, t[j], g)] = s
      BY <2>6, <3>2, <3>3, Zenon
    <3>5. QED
      BY <3>1, <3>4, Zenon DEF NodeSlots
  <2>10. QED
    BY <1>4, <2>3, <2>5, <2>8, <2>9, Zenon
<1>6. CASE SocketsOf(i) = <<>> /\ \A k \in DOMAIN list_cpu : list_cpu[k].chassis # i
  <2>1. i \notin 0..(A - 1)
    BY <1>3, <1>6
  <2>2. ASSUME NEW d \in OfType(17) PROVE RankOf(d) # i
    <3>1. PICK x \in Nat : x = RankOf(d)
      BY <1>1, RankIs
    <3>2. x < A
      BY <1>1, <1>2, <3>1, RankIs
    <3>3. x \in 0..(A - 1)
      BY <3>2
    <3>4. QED
      BY <2>1, <3>1, <3>3
  <2>3. {d \in OfType(17) : RankOf(d) = i} = {}
    BY <2>2
  <2>4. Cardinality({d \in OfType(17) : RankOf(d) = i}) = 0
    BY <2>3, FS_EmptySet, Zenon
  <2>5. DOMAIN <<>> = {} /\ <<>> \in Seq(T) /\ Len(<<>>) = 0
    OBVIOUS
  <2>6. PICK t : t = [j \in DOMAIN SocketsOf(i) |-> SocketSlots(i, SocketsOf(i)[j], g)]
    OBVIOUS
  <2>7. t = <<>>
    <3>1. DOMAIN t = {}
      BY <1>6, <2>5, <2>6, Zenon
    <3>2. PICK z \in Nat : z = 0
      OBVIOUS
    <3>3. t \in [1..z -> T] /\ Len(t) = z
      BY <2>6, <3>1, <3>2
    <3>4. t \in Seq(T)
      BY <3>3, IsASeq
    <3>5. QED
      BY <3>2, <3>3, <3>4, EmptySeq
  <2>8. NodeSlots(i, g) = t
    BY <2>5, <2>6, <2>7, Zenon DEF NodeSlots, FlattenSeq
  <2>9. QED
    BY <1>4, <2>4, <2>5, <2>7, <2>8, Zenon
<1>7. QED
  BY <1>5, <1>6, OneSocket


\* The devices of the nodes before node k.
Before(k) == {d \in OfType(17) : RankOf(d) < k}

LEMMA BeforeIs ==
  ASSUME m \in Machines, Regular, NEW k \in Nat
  PROVE  /\ Cardinality(Before(k)) \in Nat /\ Cardinality(Before(k)) <= Cardinality(OfType(17))
         /\ Cardinality(Before(0)) = 0
         /\ Cardinality(Before(k + 1)) = Cardinality(Before(k)) + Cardinality({d \in OfType(17) : RankOf(d) = k})
<1>1. PICK D : D = OfType(17)
  OBVIOUS
<1>2. IsFiniteSet(D)
  BY <1>1, ListFinite
<1>3. \A d \in D : RankOf(d) \in Nat
  BY <1>1, RankIs
<1>4. PICK X, Y, Z : X = Before(k) /\ Y = Before(k + 1) /\ Z = {d \in D : RankOf(d) = k}
  OBVIOUS
<1>5. X \in SUBSET D /\ Z \in SUBSET D /\ X \cap Z = {} /\ Y = X \cup Z
  BY <1>1, <1>3, <1>4 DEF Before
<1>6. Cardinality(X) \in Nat /\ Cardinality(X) <= Cardinality(D)
  BY <1>2, <1>5, PartOf
<1>7. Cardinality(Y) = Cardinality(X) + Cardinality(Z)
  BY <1>2, <1>5, TwoParts
<1>8. Before(0) = {}
  BY <1>1, <1>3 DEF Before
<1>9. Cardinality(Before(0)) = 0
  BY <1>8, FS_EmptySet, Zenon
<1>10. QED
  BY <1>1, <1>4, <1>6, <1>7, <1>9, Zenon

\* The p-th slot is one of node i, p being counted among the devices of that node.
InBlock(p, x, i) ==
  x[1] = i /\ Cardinality(Before(i)) < p /\ p <= Cardinality(Before(i + 1))

LEMMA SlotBlocks ==
  ASSUME CpuInv, Regular, NEW g
  PROVE  /\ Len(DimmSlots(g)) <= Cardinality(OfType(17))
         /\ \A p \in 1..Len(DimmSlots(g)) : \E i \in 0..255 : InBlock(p, DimmSlots(g)[p], i)
<1>1. m \in Machines /\ CpuType
  BY DEF CpuInv, CpuType
<1>2. PICK top \in 0..255 : top = MaxChassis
  BY <1>1, ChassisRange
<1>3. PICK n \in Nat : n = top + 1
  OBVIOUS
<1>4. PICK S : S = (0..255) \X (0..255) \X Nat
  OBVIOUS
<1>5. PICK s : s = [k \in 1..n |-> NodeSlots(k - 1, g)]
  OBVIOUS
<1>6. PICK C : C = [k \in 0..n |-> Cardinality(Before(k))]
  OBVIOUS
<1>7. ASSUME NEW k \in 1..n
      PROVE  /\ s[k] \in Seq(S) /\ Len(s[k]) = Cardinality({d \in OfType(17) : RankOf(d) = k - 1})
             /\ \A q \in 1..Len(s[k]) : s[k][q][1] = k - 1
  <2>1. PICK i \in 0..255 : i = k - 1
    BY <1>2, <1>3, <1>7
  <2>2. PICK t, T : t = NodeSlots(i, g) /\ T = SlotsOf(i)
    OBVIOUS
  <2>3. s[k] = t
    BY <1>5, <2>1, <2>2
  <2>4. t \in Seq(T) /\ Len(t) = Cardinality({d \in OfType(17) : RankOf(d) = i})
    BY <2>2, BlockIs, Zenon
  <2>5. T \in SUBSET S /\ \A x \in T : x[1] = i
    BY <1>4, <2>2 DEF SlotsOf
  <2>6. t \in Seq(S)
    BY <2>4, <2>5, SeqMonotonic
  <2>7. \A q \in 1..Len(t) : t[q] \in T
    BY <2>4, ElementOfSeq
  <2>8. \A q \in 1..Len(t) : t[q][1] = i
    BY <2>5, <2>7, Zenon
  <2>9. QED
    BY <2>1, <2>3, <2>4, <2>6, <2>8, Zenon
<1>8. s \in [1..n -> Seq(S)]
  <2>1. s = [k \in 1..n |-> s[k]]
    BY <1>5, Zenon
  <2>2. \A k \in 1..n : s[k] \in Seq(S)
    BY <1>7
  <2>3. QED
    BY <2>1, <2>2, Zenon
<1>9. ASSUME NEW k \in 0..n PROVE C[k] = Cardinality(Before(k)) /\ C[k] \in Nat
  <2>1. k \in Nat
    OBVIOUS
  <2>2. Cardinality(Before(k)) \in Nat
    BY <1>1, <2>1, BeforeIs, Zenon
  <2>3. C[k] = Cardinality(Before(k))
    BY <1>6, Zenon
  <2>4. QED
    BY <2>2, <2>3, Zenon
<1>10. C \in [0..n -> Nat] /\ C[0] = 0
  <2>1. C[0] = Cardinality(Before(0))
    BY <1>9
  <2>2. Cardinality(Before(0)) = 0
    <3>1. PICK z \in Nat : z = 0
      OBVIOUS
    <3>2. QED
      BY <1>1, <3>1, BeforeIs, Zenon
  <2>3. QED
    BY <1>6, <1>9, <2>1, <2>2
<1>11. ASSUME NEW k \in 1..n PROVE C[k] = C[k - 1] + Len(s[k])
  <2>1. PICK j \in Nat : j = k - 1 /\ k = j + 1
    BY <1>11
  <2>2. Cardinality(Before(j + 1)) = Cardinality(Before(j)) + Cardinality({d \in OfType(17) : RankOf(d) = j})
    BY <1>1, BeforeIs, Zenon
  <2>3. k \in 0..n /\ j \in 0..n
    BY <2>1
  <2>4. C[k] = Cardinality(Before(j + 1)) /\ C[k - 1] = Cardinality(Before(j))
    BY <1>9, <2>1, <2>3, Zenon
  <2>5. Len(s[k]) = Cardinality({d \in OfType(17) : RankOf(d) = j})
    BY <1>7, <2>1, Zenon
  <2>6. QED
    BY <2>2, <2>4, <2>5, Zenon
<1>12. PICK F : F = FlattenSeq(s)
  OBVIOUS
<1>13. /\ Len(F) = C[n]
       /\ \A p \in 1..C[n] : \E k \in 1..n : /\ C[k - 1] < p /\ p <= C[k]
                                             /\ \E q \in 1..Len(s[k]) : F[p] = s[k][q]
  <2>1. IsBlocks(F, n, S, s, C)
    BY <1>8, <1>10, <1>11, <1>12, FlatBlocks, Zenon
  <2>2. QED
    BY <2>1, Zenon DEF IsBlocks
<1>14. DimmSlots(g) = F
  BY <1>2, <1>3, <1>5, <1>12, SlotsAre, Zenon
<1>15. Len(F) <= Cardinality(OfType(17))
  <2>1. n \in 0..n
    OBVIOUS
  <2>2. QED
    BY <1>1, <1>9, <1>13, <2>1, BeforeIs
<1>16. ASSUME NEW p \in 1..Len(F) PROVE \E i \in 0..255 : InBlock(p, F[p], i)
  <2>1. PICK k \in 1..n : /\ C[k - 1] < p /\ p <= C[k]
                          /\ \E q \in 1..Len(s[k]) : F[p] = s[k][q]
    BY <1>13, <1>16
  <2>2. PICK i \in 0..255 : i = k - 1
    BY <1>2, <1>3
  <2>3. F[p][1] = i
    BY <1>7, <2>1, <2>2, Zenon
  <2>4. C[k - 1] = Cardinality(Before(i)) /\ C[k] = Cardinality(Before(i + 1))
    <3>1. k \in 0..n /\ k - 1 \in 0..n /\ k = i + 1
      BY <2>2
    <3>2. QED
      BY <1>9, <2>2, <3>1, Zenon
  <2>5. QED
    BY <2>1, <2>3, <2>4, Zenon DEF InBlock
<1>17. QED
  BY <1>14, <1>15, <1>16, Zenon

LEMMA NoOverrun ==
  ASSUME CpuInv, Regular, NEW g
  PROVE  ~OutOfBounds(g)
<1>1. m \in Machines
  BY DEF CpuInv, CpuType
<1>2. PICK L, D : L = Len(DimmSlots(g)) /\ D = Cardinality(OfType(17))
  OBVIOUS
<1>3. L \in Nat /\ D \in Nat /\ L <= D
  <2>1. D \in Nat
    BY <1>1, <1>2, ListFinite, FS_CardinalityType
  <2>2. PICK T : T = Slot
    OBVIOUS
  <2>3. DimmSlots(g) \in Seq(T)
    BY <2>2, SlotsType, Zenon DEF CpuInv
  <2>4. L \in Nat
    BY <1>2, <2>3, LenProperties
  <2>5. QED
    BY <1>2, <2>1, <2>4, SlotBlocks, Zenon
<1>4. ~ (Len(DimmSlots(g)) > Cardinality(OfType(17)))
  BY <1>2, <1>3
<1>5. ASSUME NEW i \in 0..MaxChassis, NEW s \in Range(SocketsOf(i)) PROVE ~ (ArrayIndex(i, s) >= Cardinality(Arrays))
  <2>1. Range(<<>>) = {} /\ Range(<<i>>) = {i}
    BY DEF Range
  <2>2. SocketsOf(i) = <<i>> /\ \E k \in DOMAIN list_cpu : list_cpu[k].chassis = i
    BY <1>5, <2>1, OneSocket, Zenon
  <2>3. s = i
    BY <1>5, <2>1, <2>2
  <2>4. ArrayIndex(i, s) = i
    BY <2>3 DEF ArrayIndex
  <2>5. PICK A \in Nat : A = Cardinality(Arrays)
    BY <1>1, ListFinite, FS_CardinalityType
  <2>6. i \in 0..(A - 1)
    BY <2>2, <2>5 DEF Regular
  <2>7. QED
    BY <2>4, <2>5, <2>6
<1>6. QED
  BY <1>4, <1>5 DEF OutOfBounds

\* A DIMM of the list and what the table says of it.
DimmRight(e) ==
  e.end > 0 =>
    \E d \in OfType(17) : \E r \in OfType(20) :
      /\ m.dmi[r].device = m.dmi[d].handle
      /\ Kilobytes(m.dmi[r]) = [start |-> e.start, end |-> e.end]
      /\ e.chassis = Cardinality({a \in Arrays : m.dmi[a].handle < m.dmi[d].array})

LEMMA KilobytesIs ==
  ASSUME NEW c
  PROVE  \E a, b : Kilobytes(c) = [start |-> a, end |-> b]
<1>1. PICK a, b, x, y : a = c.start * 1024 /\ b = c.end * 1024 /\ x = c.start /\ y = c.end
  OBVIOUS
<1>2. Kilobytes(c) = IF y - x < 512 THEN [start |-> a, end |-> b] ELSE [start |-> x, end |-> y]
  BY <1>1 DEF Kilobytes
<1>3. QED
  BY <1>2, Zenon

LEMMA SlotIsRight ==
  ASSUME CpuInv, Regular, NEW g, NEW p \in 1..Cardinality(OfType(17)), NEW x, NEW i \in 0..255, InBlock(p, x, i)
  PROVE  DimmRight(MemEntry(p, x, g))
<1>1. m \in Machines
  BY DEF CpuInv, CpuType
<1>2. PICK D : D = OfType(17)
  OBVIOUS
<1>3. D \in SUBSET (DOMAIN m.dmi) /\ IsFiniteSet(D) /\ Cardinality(D) \in Nat
  BY <1>1, <1>2, TableIs, ListFinite, FS_CardinalityType
<1>4. PICK w : w = Handles(D)
  OBVIOUS
<1>5. w = Owns(D) /\ w \in [D -> Nat] /\ \A d \in D : w[d] = m.dmi[d].handle
  BY <1>1, <1>3, <1>4, RegularHandles DEF Handles
<1>6. PICK h : h = Handle(D, p)
  OBVIOUS
<1>7. IsNth(D, w, p, h)
  BY <1>1, <1>2, <1>3, <1>5, <1>6, HandleIs
<1>8. PICK R : R = [d \in D |-> RankOf(d)]
  OBVIOUS
<1>9. R \in [D -> Nat] /\ \A d \in D : R[d] = RankOf(d)
  BY <1>1, <1>2, <1>8, RankIs
<1>10. ASSUME NEW d \in D, NEW e \in D, R[d] < R[e] PROVE w[d] < w[e]
  <2>1. PICK y \in Nat, z \in Nat : y = m.dmi[d].array /\ z = m.dmi[e].array
    BY <1>1, <1>2, RankIs
  <2>2. z <= y => RankOf(e) <= RankOf(d)
    <3>1. PICK A, v : A = Arrays /\ v = Handles(A)
      OBVIOUS
    <3>2. IsFiniteSet(A) /\ v \in [A -> Nat]
      BY <1>1, <3>1, ListFinite, TableIs, RegularHandles
    <3>3. z <= y => Cardinality(Under(A, v, z)) <= Cardinality(Under(A, v, y))
      BY <3>2, UnderIs
    <3>4. QED
      BY <2>1, <3>1, <3>3, Zenon DEF RankOf
  <2>3. y < z
    BY <1>9, <1>10, <2>1, <2>2
  <2>4. m.dmi[d].handle < m.dmi[e].handle
    BY <1>2, <2>1, <2>3 DEF Regular
  <2>5. QED
    BY <1>5, <2>4
<1>11. Cardinality({d \in D : R[d] < i}) < p /\ p <= Cardinality({d \in D : R[d] < i + 1})
  <2>1. Before(i) = {d \in D : R[d] < i} /\ Before(i + 1) = {d \in D : R[d] < i + 1}
    BY <1>2, <1>9 DEF Before
  <2>2. QED
    BY <2>1, Zenon DEF InBlock
<1>12. p \in Nat /\ i \in Nat
  OBVIOUS
<1>13. PICK d \in D : w[d] = h /\ R[d] = i
  BY <1>3, <1>5, <1>7, <1>9, <1>10, <1>11, <1>12, NthDevice
<1>14. PICK e : e = MemEntry(p, x, g)
  OBVIOUS
<1>15. e.chassis = x[1] % 256 /\ e.start = RangeOf(p, g).start /\ e.end = RangeOf(p, g).end
  BY <1>14, MemEntryIs
<1>16. e.chassis = Cardinality({a \in Arrays : m.dmi[a].handle < m.dmi[d].array})
  <2>1. x[1] = i /\ i % 256 = i
    BY LowByte DEF InBlock
  <2>2. RankOf(d) = Cardinality({a \in Arrays : m.dmi[a].handle < m.dmi[d].array})
    BY <1>1, <1>2, RankIs
  <2>3. QED
    BY <1>9, <1>13, <1>15, <2>1, <2>2, Zenon
<1>17. PICK M : M = {k \in OfType(20) : m.dmi[k].device = h}
  OBVIOUS
<1>18. RangeOf(p, g) = IF M = {} THEN [start |-> 0, end |-> 0] ELSE Kilobytes(m.dmi[Min(M)])
  <2>1. p <= Cardinality(OfType(17))
    BY <1>2, <1>3
  <2>2. QED
    BY <1>2, <1>6, <1>17, <2>1, Zenon DEF RangeOf
<1>19. CASE M = {}
  <2>1. e.end = 0
    BY <1>15, <1>18, <1>19
  <2>2. ~ (e.end > 0)
    BY <2>1
  <2>3. QED
    BY <1>14, <2>2, Zenon DEF DimmRight
<1>20. CASE M # {}
  <2>1. M \in SUBSET Nat
    BY <1>1, <1>17, TableIs
  <2>2. PICK r \in M : r = Min(M)
    BY <1>20, <2>1, MinIs
  <2>3. r \in OfType(20) /\ m.dmi[r].device = m.dmi[d].handle
    BY <1>5, <1>13, <1>17
  <2>4. PICK K : K = Kilobytes(m.dmi[r])
    OBVIOUS
  <2>5. K = [start |-> K.start, end |-> K.end]
    <3>1. \E a, b : K = [start |-> a, end |-> b]
      BY <2>4, KilobytesIs
    <3>2. PICK a, b : K = [start |-> a, end |-> b]
      BY <3>1
    <3>3. K.start = a /\ K.end = b
      BY <3>2
    <3>4. QED
      BY <3>2, <3>3, Zenon
  <2>6. e.start = K.start /\ e.end = K.end
    BY <1>15, <1>18, <1>20, <2>2, <2>4, Zenon
  <2>7. K = [start |-> e.start, end |-> e.end]
    BY <2>5, <2>6, Zenon
  <2>8. DimmRight(e)
    BY <1>2, <1>16, <2>3, <2>4, <2>7, Zenon DEF DimmRight
  <2>9. QED
    BY <1>14, <2>8, Zenon
<1>21. QED
  BY <1>19, <1>20


LEMMA WalkMemPlaces ==
  ASSUME CpuInv, WalkMem, Regular
  PROVE  ~overrun' /\ \A i \in DOMAIN list_mem' : DimmRight(list_mem'[i])
<1>1. PICK g : /\ list_mem' = Reverse([n \in DOMAIN DimmSlots(g) |-> MemEntry(n, DimmSlots(g)[n], g)])
               /\ overrun' = OutOfBounds(g)
  BY DEF WalkMem
<1>2. ~overrun'
  BY <1>1, NoOverrun, Zenon
<1>3. PICK r : r = list_mem'
  OBVIOUS
<1>4. PICK q : q = DimmSlots(g)
  OBVIOUS
<1>5. /\ DOMAIN q = 1..Len(q) /\ Len(q) \in Nat
      /\ \A i \in DOMAIN r : \E n \in DOMAIN q : r[i] = MemEntry(n, q[n], g)
  <2>1. CpuType
    BY Zenon DEF CpuInv
  <2>2. r = Reverse([n \in DOMAIN DimmSlots(g) |-> MemEntry(n, DimmSlots(g)[n], g)])
    BY <1>1, <1>3, Zenon
  <2>3. /\ DOMAIN DimmSlots(g) = 1..Len(DimmSlots(g)) /\ Len(DimmSlots(g)) \in Nat
        /\ \A i \in DOMAIN r : \E n \in DOMAIN DimmSlots(g) : r[i] = MemEntry(n, DimmSlots(g)[n], g)
    BY <2>1, <2>2, ListMemIs, Zenon
  <2>4. QED
    BY <1>4, <2>3, Zenon
<1>6. Len(q) <= Cardinality(OfType(17)) /\ \A p \in 1..Len(q) : \E i \in 0..255 : InBlock(p, q[p], i)
  BY <1>4, SlotBlocks, Zenon
<1>7. PICK D \in Nat : D = Cardinality(OfType(17))
  BY ListFinite, FS_CardinalityType DEF CpuInv, CpuType
<1>8. ASSUME NEW i \in DOMAIN r PROVE DimmRight(r[i])
  <2>1. PICK n \in DOMAIN q : r[i] = MemEntry(n, q[n], g)
    BY <1>5
  <2>2. PICK k \in 0..255 : InBlock(n, q[n], k)
    BY <1>5, <1>6
  <2>3. n \in 1..D
    BY <1>5, <1>6, <1>7
  <2>4. n \in 1..Cardinality(OfType(17))
    BY <1>7, <2>3, Zenon
  <2>5. QED
    BY <2>1, <2>2, <2>4, SlotIsRight, Zenon
<1>9. QED
  BY <1>2, <1>3, <1>8, Zenon

\* Every entry of a list of DIMMs is right.
AllRight(l) == \A i \in DOMAIN l : DimmRight(l[i])

LEMMA PlacedIs ==
  DimmPlaced <=> (pc = "pci" /\ Regular => ~overrun /\ AllRight(list_mem))
  BY Zenon DEF DimmPlaced, AllRight, DimmRight

\* What the list of CPUs and the table say does not change any more.
LEMMA SameTable ==
  ASSUME m' = m, list_cpu' = list_cpu
  PROVE  Regular' <=> Regular
  BY DEF Regular, OfType, Arrays, Parsed

LEMMA SameRight ==
  ASSUME m' = m, NEW l, list_mem' = l, AllRight(l)
  PROVE  AllRight(list_mem)'
<1>1. Parsed' = Parsed
  BY DEF Parsed
<1>2. OfType(17)' = OfType(17) /\ OfType(20)' = OfType(20) /\ Arrays' = Arrays
  BY <1>1 DEF OfType, Arrays
<1>3. SUFFICES ASSUME NEW i \in DOMAIN list_mem', list_mem'[i].end > 0
               PROVE  \E d \in OfType(17)' : \E r \in OfType(20)' :
                        /\ m'.dmi[r].device = m'.dmi[d].handle
                        /\ Kilobytes(m'.dmi[r]) = [start |-> list_mem'[i].start, end |-> list_mem'[i].end]
                        /\ list_mem'[i].chassis = Cardinality({a \in Arrays' : m'.dmi[a].handle < m'.dmi[d].array})
  BY Zenon DEF AllRight, DimmRight, Kilobytes
<1>4. i \in DOMAIN l /\ l[i].end > 0 /\ list_mem'[i] = l[i]
  BY <1>3
<1>5. PICK d \in OfType(17), r \in OfType(20) :
        /\ m.dmi[r].device = m.dmi[d].handle
        /\ Kilobytes(m.dmi[r]) = [start |-> l[i].start, end |-> l[i].end]
        /\ l[i].chassis = Cardinality({a \in Arrays : m.dmi[a].handle < m.dmi[d].array})
  BY <1>4, Zenon DEF AllRight, DimmRight
<1>6. {a \in Arrays' : m'.dmi[a].handle < m'.dmi[d].array} = {a \in Arrays : m.dmi[a].handle < m.dmi[d].array}
  BY <1>2
<1>7. m'.dmi[r] = m.dmi[r] /\ m'.dmi[d] = m.dmi[d]
  OBVIOUS
<1>8. d \in OfType(17)' /\ r \in OfType(20)'
  BY <1>2, <1>5, Zenon
<1>9. QED
  BY <1>4, <1>5, <1>6, <1>7, <1>8, Zenon

LEMMA PlacedThen ==
  DimmPlaced' <=> (pc' = "pci" /\ Regular' => ~overrun' /\ AllRight(list_mem)')
  BY Zenon DEF DimmPlaced, AllRight, DimmRight

\* Before the SMBIOS tables have been read there are no DIMMs.
Unread == pc \in {"cpu", "dmi"} => list_mem = <<>> /\ overrun = FALSE

LEMMA UnreadNext == Unread /\ [Next]_vars => Unread'
  BY DEF Unread, Next, ReadCpu, Offline, SetThreads, WalkMem, DmiFails, DmiAbsent, SocketsOverflow,
         WalkPci, WalkNet, CreateTree, lists, vars

LEMMA PlacedNext == CpuInv /\ DimmPlaced /\ Unread /\ [Next]_vars => DimmPlaced'
<1> SUFFICES ASSUME CpuInv, DimmPlaced, Unread, [Next]_vars, pc' = "pci" PROVE DimmPlaced'
  BY DEF DimmPlaced
<1>1. SUFFICES ASSUME Regular' PROVE ~overrun' /\ AllRight(list_mem)'
  BY PlacedThen, Zenon
<1>2. CASE WalkMem
  <2>1. m' = m /\ list_cpu' = list_cpu
    BY <1>2 DEF WalkMem
  <2>2. Regular
    BY <1>1, <2>1, SameTable
  <2>3. PICK l : l = list_mem'
    OBVIOUS
  <2>4. ~overrun' /\ AllRight(l)
    BY <1>2, <2>2, <2>3, WalkMemPlaces, Zenon DEF AllRight
  <2>5. QED
    BY <2>1, <2>3, <2>4, SameRight
<1>3. ASSUME UNCHANGED <<m, list_cpu, list_mem, overrun, pc>>
      PROVE  ~overrun' /\ AllRight(list_mem)'
  <2>1. Regular /\ pc = "pci"
    BY <1>1, <1>3, SameTable
  <2>2. ~overrun /\ AllRight(list_mem)
    BY <2>1, PlacedIs, Zenon
  <2>3. m' = m /\ list_mem' = list_mem /\ overrun' = overrun
    BY <1>3
  <2>4. PICK l : l = list_mem
    OBVIOUS
  <2>5. AllRight(l) /\ list_mem' = l
    BY <2>2, <2>3, <2>4, Zenon
  <2>6. QED
    BY <2>2, <2>3, <2>5, SameRight
<1>4. ASSUME NEW d \in DOMAIN m.pci, WalkPci(d) PROVE UNCHANGED <<m, list_cpu, list_mem, overrun, pc>>
  BY <1>4 DEF WalkPci
<1>5. CASE UNCHANGED vars
  BY <1>3, <1>5 DEF vars
<1>6. CASE DmiAbsent
  <2>1. list_mem' = <<>> /\ overrun' = FALSE
    BY <1>6 DEF DmiAbsent, lists, Unread
  <2>2. DOMAIN <<>> = {}
    OBVIOUS
  <2>3. QED
    BY <2>1, <2>2 DEF AllRight
<1>7. QED
  BY <1>2, <1>3, <1>4, <1>5, <1>6
  DEF Next, ReadCpu, Offline, SetThreads, DmiFails, SocketsOverflow, WalkNet, CreateTree

\* Where the SMBIOS table has one array per node, numbered alike, and lists devices in the
\* order of the arrays, fmd_topo_walk_mem reads within its arrays and hangs every DIMM with
\* an address range below the node of its array: for any number of nodes and devices.
THEOREM DimmsArePlaced == Spec => []DimmPlaced
<1>1. Init => CpuInv /\ DimmPlaced /\ Unread
  BY CpuInit DEF Init, DimmPlaced, Unread
<1>2. CpuInv /\ DimmPlaced /\ Unread /\ [Next]_vars => CpuInv' /\ DimmPlaced' /\ Unread'
  BY CpuNext, PlacedNext, UnreadNext
<1>3. QED
  BY <1>1, <1>2, PTL DEF Spec
=============================================================================
