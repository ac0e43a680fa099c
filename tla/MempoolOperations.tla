-------------------------- MODULE MempoolOperations --------------------------
(* What admission, eviction, the pool of orphans and reconciliation do to a  *)
(* pool that is consistent with its chain, for any transactions, fees, caps  *)
(* and ages: they keep it so.                                                *)
EXTENDS Mempool, FiniteSetTheorems, TLAPS

(* The leaves are for Zenon; those that need arithmetic or records name SMTT. *)
USE ZenonT(30)

(* A set of natural numbers that is not empty has a least element. *)
LEMMA LeastNatural ==
  ASSUME NEW S \in SUBSET Nat, S # {}
  PROVE  \E m \in S : \A n \in S : m <= n
<1>1. PICK m \in S : \A n \in S : <<n, m>> \notin OpToRel(<, Nat)
  BY NatLessThanWellFounded, WFMin
<1>2. \A n \in S : ~(n < m)
  BY <1>1 DEF OpToRel
<1> QED BY SMTT(30), <1>2

(* What holds of 0 and is kept by each step up to N holds of N. *)
LEMMA Climb ==
  ASSUME NEW N \in Nat, NEW P, 0 \in P, \A k \in 1..N : k - 1 \in P => k \in P
  PROVE  \A k \in 0..N : k \in P
<1> DEFINE Bad == {k \in 0..N : k \notin P}
<1> SUFFICES ASSUME Bad # {} PROVE FALSE
  OBVIOUS
<1>1. Bad \in SUBSET Nat
  BY SMTT(30)
<1>2. PICK m \in Bad : \A n \in Bad : m <= n
  BY <1>1, LeastNatural
<1>3. m \in 1..N /\ m - 1 \in 0..N /\ m - 1 \notin Bad
  BY SMTT(30), <1>2
<1> QED BY <1>2, <1>3

(* A finite set that is ordered by R has a least element. *)
LEMMA Least ==
  ASSUME NEW S, IsFiniteSet(S), S # {}, NEW R,
         \A x, y \in S : x # y => <<x, y>> \in R \/ <<y, x>> \in R,
         \A x, y, z \in S : <<x, y>> \in R /\ <<y, z>> \in R => <<x, z>> \in R
  PROVE  \E x \in S : \A y \in S \ {x} : <<x, y>> \in R
<1> DEFINE Low(U) == \E x \in U : \A y \in U \ {x} : <<x, y>> \in R
           Bad == {U \in SUBSET S : U # {} /\ ~Low(U)}
           T == {Cardinality(U) : U \in Bad}
<1>1. SUFFICES ASSUME Bad # {} PROVE FALSE
  OBVIOUS
<1>2. \A U \in SUBSET S : IsFiniteSet(U) /\ Cardinality(U) \in Nat
  BY FS_Subset, FS_CardinalityType
<1>3. T \in SUBSET Nat /\ T # {}
  BY SMTT(30), <1>1, <1>2
<1>4. PICK m \in T : \A n \in T : m <= n
  BY <1>3, LeastNatural
<1>5. PICK U \in Bad : m = Cardinality(U)
  BY <1>4
<1>6. PICK u \in U : TRUE
  BY <1>5
<1> DEFINE V == U \ {u}
<1>7. IsFiniteSet(V) /\ Cardinality(V) = m - 1 /\ V \in SUBSET S
  BY SMTT(30), <1>2, <1>5, <1>6, FS_RemoveElement
<1>8. V # {}
  BY <1>5, <1>6
<1>9. V \notin Bad
  <2> HIDE DEF Bad, V
  <2>1. V \in Bad => Cardinality(V) \in T
    OBVIOUS
  <2>2. Cardinality(V) \in T => m <= m - 1
    BY <1>4, <1>7
  <2>3. m \in Nat
    BY <1>3, <1>4
  <2> QED BY SMTT(30), <2>1, <2>2, <2>3
<1>10. PICK x \in V : \A y \in V \ {x} : <<x, y>> \in R
  BY <1>7, <1>8, <1>9
<1>11. CASE <<x, u>> \in R
  <2>1. \A y \in U \ {x} : <<x, y>> \in R
    BY <1>10, <1>11
  <2> QED BY <2>1, <1>5, <1>10
<1>12. CASE <<u, x>> \in R
  <2>1. \A y \in U \ {u} : <<u, y>> \in R
    BY <1>5, <1>6, <1>10, <1>12
  <2> QED BY <2>1, <1>5, <1>6
<1> QED BY <1>5, <1>6, <1>10, <1>11, <1>12

(* Transactions are ordered by fee and id, and some member of a set that is *)
(* not empty goes first.                                                    *)
LEMMA CheapestIn ==
  ASSUME NEW S \in SUBSET Txs, S # {}
  PROVE  Cheapest(S) \in S
<1> DEFINE R == {e \in S \X S : Cheaper(e[1], e[2])}
<1>1. \A a \in Txs : a \in Nat /\ Fee[a] \in Int
  BY MempoolAssumption
<1>2. \A x, y \in S : x # y => <<x, y>> \in R \/ <<y, x>> \in R
  BY SMTT(30), <1>1 DEF Cheaper
<1>3. \A x, y, z \in S : <<x, y>> \in R /\ <<y, z>> \in R => <<x, z>> \in R
  BY SMTT(30), <1>1 DEF Cheaper
<1>4. IsFiniteSet(S)
  BY MempoolAssumption, FS_Subset
<1>5. PICK x \in S : \A y \in S \ {x} : <<x, y>> \in R
  <2> HIDE DEF R
  <2> QED BY <1>2, <1>3, <1>4, Least
<1>6. \A y \in S \ {x} : Cheaper(x, y)
  BY <1>5
<1> QED BY <1>6 DEF Cheapest

(* The canonical order of a pool, its members with and without a number. *)
LEMMA FirstSeenIn ==
  ASSUME NEW S \in SUBSET Txs, S # {}, NEW p, IsPool(p)
  PROVE  FirstSeen(S, p) \in S
<1> DEFINE R == {e \in S \X S : SeenBefore(p, e[1], e[2])}
<1>1. \A a \in Txs : a \in Nat
  BY MempoolAssumption
<1>2. \A t \in DOMAIN p.seen : p.seen[t] \in Int
  BY DEF IsPool
<1>3. \A x, y \in S : x # y => <<x, y>> \in R \/ <<y, x>> \in R
  BY SMTT(30), <1>1, <1>2 DEF SeenBefore
<1>4. \A x, y, z \in S : <<x, y>> \in R /\ <<y, z>> \in R => <<x, z>> \in R
  BY SMTT(30), <1>1, <1>2 DEF SeenBefore
<1>5. IsFiniteSet(S)
  BY MempoolAssumption, FS_Subset
<1>6. PICK x \in S : \A y \in S \ {x} : <<x, y>> \in R
  <2> HIDE DEF R
  <2> QED BY <1>3, <1>4, <1>5, Least
<1>7. \A y \in S \ {x} : SeenBefore(p, x, y)
  BY <1>6
<1> QED BY <1>7 DEF FirstSeen
-----------------------------------------------------------------------------
(* The invariant of a pool *)

(* The spent index is exact and no two live transactions conflict. *)
Clean(p) ==
  /\ p.spent = SpendsOf(p.live)
  /\ \A a, b \in p.live : ~Conflict(a, b)

(* The inputs of live transactions exist, and none of these is applied. *)
Fed(p, c) ==
  /\ p.live \cap c = {}
  /\ SpendsOf(p.live) \subseteq Utxo(c) \cup OutputsOf(p.live)

(* Live transactions have a number, and an age below the limit. *)
LiveAged(p, h) ==
  /\ DOMAIN p.seen = p.live /\ DOMAIN p.age = p.live
  /\ \A t \in p.live : h < p.age[t] + MaxAge

LiveCapped(p) == Cardinality(p.live) <= MaxTxs /\ Cardinality(p.spent) <= MaxSpent

OrphansAged(p, h) ==
  /\ DOMAIN p.orphanAge = p.orphans
  /\ \A t \in p.orphans : h < p.orphanAge[t] + MaxAge

PoolInv(p, c, h) ==
  /\ IsPool(p) /\ Clean(p) /\ Fed(p, c)
  /\ LiveAged(p, h) /\ LiveCapped(p)
  /\ OrphansAged(p, h) /\ Cardinality(p.orphans) <= MaxOrphans

(* The live part of r is that of p. *)
SameLive(r, p) ==
  r.live = p.live /\ r.spent = p.spent /\ r.seen = p.seen /\ r.next = p.next /\ r.age = p.age

SameOrphans(r, p) == r.orphans = p.orphans /\ r.orphanAge = p.orphanAge

(* r is p with transactions of T at most added, and none renumbered. *)
Stable(r, p, T) ==
  /\ Pooled(r) \subseteq Pooled(p) \cup T
  /\ r.orphans \cap p.live = {}
  /\ \A a \in p.live \cap r.live : r.seen[a] = p.seen[a]

(* One change after another; the second adds nothing the pool had live. *)
LEMMA StableTwice ==
  ASSUME NEW p, NEW q, NEW r, NEW T, NEW U,
         Stable(q, p, T), Stable(r, q, U), U \cap p.live = {}
  PROVE  Stable(r, p, T \cup U)
<1>1. \A a \in Pooled(r) : a \in q.live \/ a \in q.orphans \/ a \in U
  BY DEF Stable, Pooled
<1>2. \A a \in p.live \cap r.live : a \in q.live
  <2>1. \A a \in r.live : a \in Pooled(r)
    BY DEF Pooled
  <2> QED BY <1>1, <2>1 DEF Stable
<1>3. r.orphans \cap p.live = {}
  <2>1. \A a \in r.orphans : a \in Pooled(r) /\ a \notin q.live
    BY DEF Stable, Pooled
  <2> QED BY <1>1, <2>1 DEF Stable
<1>4. Pooled(r) \subseteq Pooled(p) \cup (T \cup U)
  BY DEF Stable
<1>5. \A a \in p.live \cap r.live : r.seen[a] = p.seen[a]
  BY <1>2 DEF Stable
<1> QED BY <1>3, <1>4, <1>5 DEF Stable

-----------------------------------------------------------------------------
(* Removal *)

(* What remove_live_package leaves. *)
Dropped(r, p, S) ==
  /\ IsPool(r) /\ SameOrphans(r, p) /\ r.next = p.next
  /\ r.live = p.live \ S /\ r.spent = p.spent \ SpendsOf(S \cap p.live)
  /\ DOMAIN r.seen = DOMAIN p.seen \ S /\ DOMAIN r.age = DOMAIN p.age \ S
  /\ \A t \in DOMAIN p.seen \ S : r.seen[t] = p.seen[t]
  /\ \A t \in DOMAIN p.age \ S : r.age[t] = p.age[t]

(* The fields of a pool after live transactions were removed. *)
LEMMA DropLiveFields ==
  ASSUME NEW p, IsPool(p), NEW S
  PROVE  Dropped(DropLive(S, p), p, S)
<1>1. PICK live, spent, seen, age :
        /\ live = p.live \ S /\ spent = p.spent \ SpendsOf(S \cap p.live)
        /\ seen = Keep(p.seen, DOMAIN p.seen \ S)
        /\ age = Keep(p.age, DOMAIN p.age \ S)
  BY Zenon
<1>2. PICK r : r = DropLive(S, p)
  OBVIOUS
<1>3. r = [p EXCEPT !.live = live, !.spent = spent, !.seen = seen, !.age = age]
  BY <1>1, <1>2 DEF DropLive
<1>4. r = [live |-> live, spent |-> spent, seen |-> seen, next |-> p.next,
           age |-> age, orphans |-> p.orphans, orphanAge |-> p.orphanAge]
  BY <1>3 DEF IsPool
<1>5. /\ r.live = live /\ r.spent = spent /\ r.seen = seen /\ r.next = p.next
      /\ r.age = age /\ r.orphans = p.orphans /\ r.orphanAge = p.orphanAge
  BY <1>4
<1>6. /\ DOMAIN seen = DOMAIN p.seen \ S /\ DOMAIN age = DOMAIN p.age \ S
      /\ \A t \in DOMAIN p.seen \ S : seen[t] = p.seen[t]
      /\ \A t \in DOMAIN p.age \ S : age[t] = p.age[t]
  BY <1>1 DEF Keep
<1>7. IsPool(r)
  BY <1>1, <1>4, <1>5, <1>6 DEF IsPool
<1> QED BY <1>1, <1>2, <1>5, <1>6, <1>7 DEF Dropped, SameOrphans

(* Removal keeps the index exact and the ages, and renumbers nothing. *)
LEMMA DropKeeps ==
  ASSUME NEW p, NEW S, NEW r, Dropped(r, p, S)
  PROVE  /\ Clean(p) => Clean(r)
         /\ \A h : LiveAged(p, h) => LiveAged(r, h)
         /\ DOMAIN p.seen = p.live /\ IsPool(p) => Stable(r, p, {})
<1>1. ASSUME Clean(p) PROVE Clean(r)
  <2>1. r.live = p.live \ S /\ r.spent = SpendsOf(p.live) \ SpendsOf(S \cap p.live)
    BY <1>1 DEF Dropped, Clean
  <2>2. \A a, b \in p.live : a # b => Spends(a) \cap Spends(b) = {}
    BY <1>1 DEF Clean, Conflict
  <2>3. SpendsOf(p.live) \ SpendsOf(S \cap p.live) = SpendsOf(p.live \ S)
    BY SMTT(30), <2>2 DEF SpendsOf
  <2> QED BY <1>1, <2>1, <2>3 DEF Clean
<1>2. ASSUME NEW h, LiveAged(p, h) PROVE LiveAged(r, h)
  BY <1>2 DEF LiveAged, Dropped
<1>3. ASSUME DOMAIN p.seen = p.live, IsPool(p) PROVE Stable(r, p, {})
  BY <1>3 DEF Stable, Dropped, Pooled, SameOrphans, IsPool
<1> QED BY <1>1, <1>2, <1>3

(* The transactions that spend an output of q are its children. *)
LEMMA SpenderIsChild ==
  ASSUME NEW p, NEW q, NEW u \in p.live, NEW op \in Spends(u), op \in Outputs(q)
  PROVE  u \in Children(q, p) /\ (q \in p.live => q \in Parents(u, p))
<1>1. op[1] = q
  BY SMTT(30) DEF Outputs
<1> QED BY <1>1 DEF Children, Parents

(* Removing a set that is closed under children leaves every input there. *)
LEMMA DropKeepsFed ==
  ASSUME NEW p, NEW c, Fed(p, c), NEW S, \A x \in S \cap p.live : Children(x, p) \subseteq S,
         NEW r, Dropped(r, p, S)
  PROVE  Fed(r, c)
<1>1. r.live = p.live \ S
  BY DEF Dropped
<1>2. ASSUME NEW op \in SpendsOf(r.live) PROVE op \in Utxo(c) \cup OutputsOf(r.live)
  <2>1. PICK u \in p.live \ S : op \in Spends(u)
    BY <1>1 DEF SpendsOf
  <2>2. op \in SpendsOf(p.live)
    BY <2>1 DEF SpendsOf
  <2>3. SUFFICES ASSUME op \in OutputsOf(p.live) PROVE op \in OutputsOf(r.live)
    BY <2>2 DEF Fed
  <2>4. PICK q \in p.live : op \in Outputs(q)
    BY <2>3 DEF OutputsOf
  <2>5. u \in Children(q, p)
    BY <2>1, <2>4, SpenderIsChild
  <2>6. q \notin S
    BY <2>1, <2>5
  <2> QED BY <1>1, <2>4, <2>6 DEF OutputsOf
<1> QED BY <1>1, <1>2 DEF Fed

(* A package holds its roots and is closed under children. *)
LEMMA PackageClosed ==
  ASSUME NEW p, NEW roots, roots \subseteq p.live
  PROVE  /\ roots \subseteq Package(roots, p) /\ Package(roots, p) \subseteq p.live
         /\ \A x \in Package(roots, p) : Children(x, p) \subseteq Package(roots, p)
<1>1. ASSUME NEW x \in Package(roots, p), NEW y \in Children(x, p)
      PROVE  y \in Package(roots, p)
  <2>1. y \in p.live
    BY DEF Children
  <2>2. ASSUME NEW S \in SUBSET p.live, roots \subseteq S,
               \A z \in S : Children(z, p) \subseteq S
        PROVE  y \in S
    <3>1. x \in S
      BY <2>2 DEF Package
    <3> QED BY <2>2, <3>1
  <2> QED BY <2>1, <2>2 DEF Package
<1>2. roots \subseteq Package(roots, p) /\ Package(roots, p) \subseteq p.live
  BY DEF Package
<1> QED BY <1>1, <1>2
-----------------------------------------------------------------------------
(* Orphans *)

(* The live part of a pool decides what is said of it. *)
LEMMA SameLiveKeeps ==
  ASSUME NEW p, NEW r, SameLive(r, p)
  PROVE  /\ Clean(p) => Clean(r)
         /\ \A c : Fed(p, c) => Fed(r, c)
         /\ \A h : LiveAged(p, h) => LiveAged(r, h)
         /\ LiveCapped(p) => LiveCapped(r)
BY DEF SameLive, Clean, Fed, LiveAged, LiveCapped

(* What remove_orphan_transaction leaves. *)
OrphansDropped(r, p, S) ==
  /\ IsPool(r) /\ SameLive(r, p)
  /\ r.orphans = p.orphans \ S
  /\ DOMAIN r.orphanAge = DOMAIN p.orphanAge \ S
  /\ \A t \in DOMAIN p.orphanAge \ S : r.orphanAge[t] = p.orphanAge[t]

(* The fields of a pool after orphans were removed. *)
LEMMA DropOrphansFields ==
  ASSUME NEW p, IsPool(p), NEW S
  PROVE  OrphansDropped(DropOrphans(S, p), p, S)
<1>1. PICK orphans, ages : /\ orphans = p.orphans \ S
                           /\ ages = Keep(p.orphanAge, DOMAIN p.orphanAge \ S)
  BY Zenon
<1>2. PICK r : r = DropOrphans(S, p)
  OBVIOUS
<1>3. r = [p EXCEPT !.orphans = orphans, !.orphanAge = ages]
  BY <1>1, <1>2 DEF DropOrphans
<1>4. r = [live |-> p.live, spent |-> p.spent, seen |-> p.seen, next |-> p.next,
           age |-> p.age, orphans |-> orphans, orphanAge |-> ages]
  BY <1>3 DEF IsPool
<1>5. SameLive(r, p) /\ r.orphans = orphans /\ r.orphanAge = ages
  BY <1>4 DEF SameLive
<1>6. /\ DOMAIN ages = DOMAIN p.orphanAge \ S
      /\ \A t \in DOMAIN p.orphanAge \ S : ages[t] = p.orphanAge[t]
  BY <1>1 DEF Keep
<1>7. IsPool(r)
  BY <1>1, <1>4, <1>5, <1>6 DEF IsPool, SameLive
<1> QED BY <1>1, <1>2, <1>5, <1>6, <1>7 DEF OrphansDropped

(* Removing orphans keeps ages, caps and order. *)
LEMMA DropOrphansKeeps ==
  ASSUME NEW p, IsPool(p), NEW S, NEW r, OrphansDropped(r, p, S)
  PROVE  /\ \A h : OrphansAged(p, h) => OrphansAged(r, h)
         /\ Stable(r, p, {})
         /\ Cardinality(r.orphans) <= Cardinality(p.orphans)
<1>1. ASSUME NEW h, OrphansAged(p, h) PROVE OrphansAged(r, h)
  BY <1>1 DEF OrphansAged, OrphansDropped
<1>2. Stable(r, p, {})
  BY DEF Stable, OrphansDropped, Pooled, SameLive, IsPool
<1>3. IsFiniteSet(p.orphans) /\ r.orphans \in SUBSET p.orphans
  <2>1. p.orphans \in SUBSET Txs
    BY DEF IsPool
  <2> QED BY <2>1, MempoolAssumption, FS_Subset DEF OrphansDropped
<1>4. Cardinality(r.orphans) <= Cardinality(p.orphans)
  BY <1>3, FS_Subset
<1> QED BY <1>1, <1>2, <1>4

(* Without the cheapest of a set, as many as it has above max, at most max  *)
(* are left: the others have different ranks above the number removed.      *)
LEMMA FewKept ==
  ASSUME NEW S \in SUBSET Txs, NEW max \in Nat, NEW gone,
         gone = {t \in S : Cardinality({u \in S : Cheaper(u, t)}) < Cardinality(S) - max}
  PROVE  Cardinality(S \ gone) <= max
<1> DEFINE B(t) == {u \in S : Cheaper(u, t)}
           n == Cardinality(S)
           K == S \ gone
           f == [t \in K |-> Cardinality(B(t))]
<1>1. IsFiniteSet(S) /\ n \in Nat
  BY MempoolAssumption, FS_Subset, FS_CardinalityType
<1>2. \A a \in S : a \in Nat /\ Fee[a] \in Int
  BY MempoolAssumption
<1>3. \A t \in S : IsFiniteSet(B(t)) /\ Cardinality(B(t)) \in Nat
  BY <1>1, FS_Subset, FS_CardinalityType
<1>4. \A t \in S : Cardinality(B(t)) <= n - 1
  <2> TAKE t \in S
  <2>1. B(t) \in SUBSET (S \ {t})
    BY SMTT(30), <1>2 DEF Cheaper
  <2>2. IsFiniteSet(S \ {t}) /\ Cardinality(S \ {t}) = n - 1
    BY <1>1, FS_RemoveElement
  <2> HIDE DEF B, n
  <2> QED BY SMTT(30), <2>1, <2>2, FS_Subset
<1>5. ASSUME NEW a \in S, NEW b \in S, Cheaper(a, b)
      PROVE  Cardinality(B(a)) < Cardinality(B(b))
  <2>1. a \notin B(a) /\ B(a) \cup {a} \in SUBSET B(b)
    BY SMTT(30), <1>2, <1>5 DEF Cheaper
  <2>2. Cardinality(B(a) \cup {a}) = Cardinality(B(a)) + 1
    BY <1>3, <2>1, FS_AddElement
  <2>3. Cardinality(B(a) \cup {a}) <= Cardinality(B(b))
    BY <1>3, <2>1, FS_Subset
  <2>4. Cardinality(B(a)) \in Nat /\ Cardinality(B(b)) \in Nat
    BY <1>3
  <2> HIDE DEF B
  <2> QED BY SMTT(30), <2>2, <2>3, <2>4
<1>6. \A a, b \in S : a # b => Cheaper(a, b) \/ Cheaper(b, a)
  BY SMTT(30), <1>2 DEF Cheaper
<1>7. \A t \in K : t \in S /\ Cardinality(B(t)) >= n - max
  BY SMTT(30), <1>1, <1>3
<1> HIDE DEF B
<1>8. CASE n - max <= 0
  <2>1. Cardinality(K) <= n
    BY <1>1, FS_Subset
  <2>2. IsFiniteSet(K) /\ Cardinality(K) \in Nat
    BY <1>1, FS_Subset, FS_CardinalityType
  <2> QED BY SMTT(30), <1>1, <1>8, <2>1, <2>2
<1>9. CASE n - max > 0
  <2> DEFINE T == (n - max)..(n - 1)
  <2>1. f \in [K -> T]
    <3>1. \A t \in K : Cardinality(B(t)) \in T
      BY SMTT(30), <1>1, <1>3, <1>4, <1>7
    <3> QED BY <3>1
  <2>2. \A a, b \in K : a # b => f[a] # f[b]
    <3> TAKE a, b \in K
    <3> HAVE a # b
    <3>1. a \in S /\ b \in S /\ (Cheaper(a, b) \/ Cheaper(b, a))
      BY <1>6, <1>7
    <3>2. /\ Cardinality(B(a)) \in Nat /\ Cardinality(B(b)) \in Nat
          /\ Cardinality(B(a)) < Cardinality(B(b)) \/ Cardinality(B(b)) < Cardinality(B(a))
      BY <1>3, <1>5, <3>1
    <3> QED BY SMTT(30), <3>2
  <2>3. IsFiniteSet(T) /\ Cardinality(T) = max
    <3> HIDE DEF n
    <3>1. PICK a, b \in Int : a = n - max /\ b = n - 1
      BY SMTT(30), <1>1
    <3>2. IsFiniteSet(a..b) /\ Cardinality(a..b) = IF a > b THEN 0 ELSE b - a + 1
      BY FS_Interval
    <3> QED BY SMTT(30), <1>1, <3>1, <3>2
  <2> HIDE DEF f, K, T, n
  <2>4. f \in Injection(K, T)
    BY <2>1, <2>2 DEF Injection, IsInjective
  <2>5. Cardinality(K) <= Cardinality(T)
    BY <2>3, <2>4, FS_Injection
  <2> QED BY <2>3, <2>5 DEF K
<1> QED BY SMTT(30), <1>1, <1>8, <1>9

(* prune_orphans drops orphans until they are within their limit. *)
LEMMA PruneOrphansKeeps ==
  ASSUME NEW p, IsPool(p)
  PROVE  /\ \E S : OrphansDropped(PruneOrphans(p), p, S)
         /\ Cardinality(PruneOrphans(p).orphans) <= MaxOrphans
<1>1. PICK gone : gone = {t \in p.orphans : Cardinality({u \in p.orphans : Cheaper(u, t)})
                                              < Cardinality(p.orphans) - MaxOrphans}
  BY Zenon
<1>2. PruneOrphans(p) = DropOrphans(gone, p)
  BY <1>1 DEF PruneOrphans
<1>3. OrphansDropped(PruneOrphans(p), p, gone)
  BY <1>2, DropOrphansFields
<1>4. p.orphans \in SUBSET Txs /\ MaxOrphans \in Nat
  BY MempoolAssumption DEF IsPool
<1>5. Cardinality(p.orphans \ gone) <= MaxOrphans
  BY <1>1, <1>4, FewKept
<1> QED BY <1>3, <1>5 DEF OrphansDropped
(* store_orphan_transaction keeps the invariant. *)
LEMMA ParkKeeps ==
  ASSUME NEW p, NEW c, NEW h \in Int, PoolInv(p, c, h), NEW t \in Txs \ p.live
  PROVE  PoolInv(Park(t, p, h), c, h) /\ Stable(Park(t, p, h), p, {t})
<1>1. PICK orphans, ages : orphans = p.orphans \cup {t} /\ ages = Put(p.orphanAge, t, h)
  BY Zenon
<1>2. PICK q : q = [p EXCEPT !.orphans = orphans, !.orphanAge = ages]
  OBVIOUS
<1>3. PICK r : r = Park(t, p, h)
  OBVIOUS
<1>4. r = PruneOrphans(q)
  BY <1>1, <1>2, <1>3 DEF Park
<1>5. q = [live |-> p.live, spent |-> p.spent, seen |-> p.seen, next |-> p.next,
           age |-> p.age, orphans |-> orphans, orphanAge |-> ages]
  BY <1>2 DEF IsPool, PoolInv
<1>6. SameLive(q, p) /\ q.orphans = orphans /\ q.orphanAge = ages
  BY <1>5 DEF SameLive
<1>7. /\ DOMAIN ages = DOMAIN p.orphanAge \cup {t} /\ ages[t] = h
      /\ \A x \in DOMAIN p.orphanAge : x # t => ages[x] = p.orphanAge[x]
  BY <1>1 DEF Put
<1>8. IsPool(q)
  BY <1>1, <1>5, <1>6, <1>7 DEF IsPool, SameLive, PoolInv
<1>9. OrphansAged(q, h)
  <2>1. h < h + MaxAge
    BY SMTT(30), MempoolAssumption
  <2> QED BY <1>1, <1>6, <1>7, <2>1 DEF OrphansAged, PoolInv
<1>10. /\ \E S : OrphansDropped(r, q, S)
       /\ Cardinality(r.orphans) <= MaxOrphans
  BY <1>4, <1>8, PruneOrphansKeeps
<1>11. PICK S : OrphansDropped(r, q, S)
  BY <1>10
<1>12. OrphansAged(r, h) /\ Stable(r, q, {})
  BY <1>8, <1>9, <1>11, DropOrphansKeeps
<1>13. SameLive(r, p) /\ IsPool(r)
  BY <1>6, <1>11 DEF OrphansDropped, SameLive
<1>14. PoolInv(r, c, h)
  BY <1>10, <1>12, <1>13, SameLiveKeeps DEF PoolInv
<1>15. Stable(q, p, {t})
  BY <1>1, <1>6 DEF Stable, Pooled, SameLive, PoolInv, IsPool
<1>16. Stable(r, p, {t})
  <2>1. Stable(r, p, {t} \cup {})
    BY <1>12, <1>15, StableTwice
  <2> QED BY <2>1
<1> QED BY <1>3, <1>14, <1>16

-----------------------------------------------------------------------------
(* Admission *)

(* A valid transaction is new to the chain, and its inputs are there and    *)
(* free.                                                                    *)
LEMMA VerdictOk ==
  ASSUME NEW t, NEW p, NEW c, Verdict(t, p, c) = "ok"
  PROVE  /\ t \notin c
         /\ Spends(t) \subseteq Utxo(c) \cup OutputsOf(p.live)
         /\ Spends(t) \cap p.spent = {}
<1> DEFINE bad == {i \in DOMAIN Inputs[t] :
                     ~Exists(Inputs[t][i], p, c) \/ Inputs[t][i] \in p.spent}
<1>1. t \notin c /\ bad = {}
  BY DEF Verdict
<1>2. \A i \in DOMAIN Inputs[t] : Exists(Inputs[t][i], p, c) /\ Inputs[t][i] \notin p.spent
  BY <1>1
<1> QED BY <1>1, <1>2 DEF Spends, Exists

(* A valid transaction joins a pool. *)
LEMMA JoinKeeps ==
  ASSUME NEW p, NEW c, Clean(p), Fed(p, c), NEW t, t \notin c,
         Spends(t) \subseteq Utxo(c) \cup OutputsOf(p.live), Spends(t) \cap p.spent = {},
         NEW r, r.live = p.live \cup {t}, r.spent = p.spent \cup Spends(t)
  PROVE  Clean(r) /\ Fed(r, c)
<1>1. SpendsOf(r.live) = SpendsOf(p.live) \cup Spends(t)
  BY DEF SpendsOf
<1>2. OutputsOf(p.live) \subseteq OutputsOf(r.live)
  BY DEF OutputsOf
<1>3. \A a \in p.live : Spends(a) \subseteq p.spent
  BY DEF Clean, SpendsOf
<1>4. \A a, b \in r.live : ~Conflict(a, b)
  BY <1>3 DEF Clean, Conflict
<1>5. Clean(r)
  BY <1>1, <1>4 DEF Clean
<1>6. Fed(r, c)
  BY <1>1, <1>2 DEF Fed
<1> QED BY <1>5, <1>6

(* Inputs are finite. *)
LEMMA SpendsBound ==
  ASSUME NEW t \in Txs
  PROVE  /\ IsFiniteSet(Spends(t)) /\ Len(Inputs[t]) \in Nat
         /\ Cardinality(Spends(t)) <= Len(Inputs[t])
<1>1. PICK f, n : f = Inputs[t] /\ n = Len(f)
  BY Zenon
<1>2. f \in Seq(Nat \X Nat)
  BY <1>1, MempoolAssumption
<1>3. n \in Nat /\ DOMAIN f = 1..n /\ f \in [1..n -> Nat \X Nat]
  BY SMTT(30), <1>1, <1>2
<1>4. Spends(t) = {f[i] : i \in 1..n}
  BY <1>1, <1>3 DEF Spends
<1>5. f \in Surjection(1..n, Spends(t))
  BY <1>3, <1>4 DEF Surjection
<1>6. IsFiniteSet(1..n) /\ Cardinality(1..n) = n
  BY SMTT(30), <1>3, FS_Interval
<1> QED BY SMTT(30), <1>1, <1>3, <1>5, <1>6, FS_Surjection

(* A finite set of transactions spends finitely many coins. *)
LEMMA SpendsOfFinite ==
  ASSUME NEW S \in SUBSET Txs
  PROVE  IsFiniteSet(SpendsOf(S))
<1> DEFINE T == {Spends(t) : t \in S}
           f == [t \in S |-> Spends(t)]
<1>1. f \in Surjection(S, T)
  BY DEF Surjection
<1>2. IsFiniteSet(S)
  BY MempoolAssumption, FS_Subset
<1>3. IsFiniteSet(T)
  <2> HIDE DEF f, T
  <2> QED BY <1>1, <1>2, FS_Surjection
<1>4. \A U \in T : IsFiniteSet(U)
  BY SpendsBound
<1>5. IsFiniteSet(UNION T)
  <2> HIDE DEF T
  <2> QED BY <1>3, <1>4, FS_UNION
<1> QED BY <1>5 DEF SpendsOf

(* The insertion of a transaction. *)
Inserted(r, p, t, h) ==
  /\ IsPool(r) /\ SameOrphans(r, p)
  /\ r.live = p.live \cup {t} /\ r.spent = p.spent \cup Spends(t)
  /\ DOMAIN r.seen = DOMAIN p.seen \cup {t} /\ DOMAIN r.age = DOMAIN p.age \cup {t}
  /\ r.age[t] = h
  /\ \A x \in DOMAIN p.seen : x # t => r.seen[x] = p.seen[x]
  /\ \A x \in DOMAIN p.age : x # t => r.age[x] = p.age[x]

(* The fields of a pool after a transaction was inserted. *)
LEMMA InsertFields ==
  ASSUME NEW p, IsPool(p), NEW t \in Txs, t \notin p.orphans, NEW h \in Int
  PROVE  Inserted(Insert(t, p, h), p, t, h)
<1>1. PICK live, spent, seen, next, age :
        /\ live = p.live \cup {t} /\ spent = p.spent \cup Spends(t)
        /\ seen = Put(p.seen, t, p.next) /\ next = p.next + 1
        /\ age = Put(p.age, t, h)
  BY Zenon
<1>2. PICK r : r = Insert(t, p, h)
  OBVIOUS
<1>3. r = [p EXCEPT !.live = live, !.spent = spent, !.seen = seen, !.next = next,
                    !.age = age]
  BY <1>1, <1>2 DEF Insert
<1>4. r = [live |-> live, spent |-> spent, seen |-> seen, next |-> next,
           age |-> age, orphans |-> p.orphans, orphanAge |-> p.orphanAge]
  BY <1>3 DEF IsPool
<1>5. /\ r.live = live /\ r.spent = spent /\ r.seen = seen /\ r.next = next
      /\ r.age = age /\ r.orphans = p.orphans /\ r.orphanAge = p.orphanAge
  BY <1>4
<1>6. /\ DOMAIN seen = DOMAIN p.seen \cup {t} /\ seen[t] = p.next
      /\ DOMAIN age = DOMAIN p.age \cup {t} /\ age[t] = h
      /\ \A x \in DOMAIN p.seen : x # t => seen[x] = p.seen[x]
      /\ \A x \in DOMAIN p.age : x # t => age[x] = p.age[x]
  BY <1>1 DEF Put
<1>7. next \in Int
  BY SMTT(30), <1>1 DEF IsPool
<1>8. IsPool(r)
  BY SMTT(30), <1>1, <1>4, <1>5, <1>6, <1>7 DEF IsPool
<1> QED BY <1>1, <1>2, <1>5, <1>6, <1>8 DEF Inserted, SameOrphans
(* The package pushed out of a full pool has none of the ancestors of the   *)
(* incoming transaction, whose inputs stay.                                 *)
LEMMA VictimSpares ==
  ASSUME NEW t, NEW p, IsPool(p), NEW c, Spends(t) \subseteq Utxo(c) \cup OutputsOf(p.live),
         NEW v \in Victims(t, p)
  PROVE  Spends(t) \subseteq Utxo(c) \cup OutputsOf(p.live \ Package({v}, p))
<1>1. Package({v}, p) \cap Ancestors(t, p) = {}
  BY DEF Victims
<1>2. Parents(t, p) \subseteq Ancestors(t, p)
  BY DEF Ancestors, Parents
<1>3. ASSUME NEW op \in Spends(t), op \in OutputsOf(p.live)
      PROVE  op \in OutputsOf(p.live \ Package({v}, p))
  <2>1. PICK q \in p.live : op \in Outputs(q)
    BY <1>3 DEF OutputsOf
  <2>2. op[1] = q
    BY SMTT(30), <2>1 DEF Outputs
  <2>3. q \in Parents(t, p)
    BY <2>1, <2>2 DEF Parents
  <2>4. q \notin Package({v}, p)
    BY <1>1, <1>2, <2>3
  <2> QED BY <2>1, <2>4 DEF OutputsOf
<1> QED BY <1>3

(* A pool with room for t takes it. *)
LEMMA InsertKeeps ==
  ASSUME NEW p, NEW c, NEW h \in Int, IsPool(p), Clean(p), Fed(p, c), LiveAged(p, h),
         OrphansAged(p, h), Cardinality(p.orphans) <= MaxOrphans,
         NEW t \in Txs, t \notin Pooled(p), t \notin c,
         Spends(t) \subseteq Utxo(c) \cup OutputsOf(p.live), Spends(t) \cap p.spent = {},
         Cardinality(p.live) < MaxTxs,
         Cardinality(p.spent) + Len(Inputs[t]) <= MaxSpent
  PROVE  PoolInv(Insert(t, p, h), c, h) /\ Stable(Insert(t, p, h), p, {t})
<1>1. PICK r : r = Insert(t, p, h)
  OBVIOUS
<1>2. Inserted(r, p, t, h)
  BY <1>1, InsertFields DEF Pooled
<1>3. Clean(r) /\ Fed(r, c)
  BY <1>2, JoinKeeps DEF Inserted
<1>4. LiveAged(r, h)
  <2>1. h < h + MaxAge
    BY SMTT(30), MempoolAssumption
  <2> QED BY <1>2, <2>1 DEF LiveAged, Inserted
<1>5. OrphansAged(r, h) /\ Cardinality(r.orphans) <= MaxOrphans
  BY <1>2 DEF OrphansAged, Inserted, SameOrphans
<1>6. Cardinality(r.live) <= MaxTxs
  <2>1. p.live \in SUBSET Txs
    BY DEF IsPool
  <2>2. IsFiniteSet(p.live) /\ Cardinality(p.live) \in Nat
    BY <2>1, MempoolAssumption, FS_Subset, FS_CardinalityType
  <2>3. Cardinality(r.live) <= Cardinality(p.live) + 1
    <3>1. r.live = p.live \cup {t}
      BY <1>2 DEF Inserted
    <3>2. Cardinality(p.live \cup {t})
            = IF t \in p.live THEN Cardinality(p.live) ELSE Cardinality(p.live) + 1
      BY <2>2, FS_AddElement
    <3> QED BY SMTT(30), <2>2, <3>1, <3>2
  <2>4. r.live \in SUBSET Txs
    BY <1>2 DEF Inserted, IsPool
  <2>5. Cardinality(r.live) \in Nat
    BY <2>4, MempoolAssumption, FS_Subset, FS_CardinalityType
  <2> QED BY SMTT(30), <2>2, <2>3, <2>5, MempoolAssumption
<1>7. Cardinality(r.spent) <= MaxSpent
  <2>1. IsFiniteSet(p.spent)
    BY SpendsOfFinite DEF Clean, IsPool
  <2>2. IsFiniteSet(Spends(t)) /\ Cardinality(Spends(t)) <= Len(Inputs[t])
    BY SpendsBound
  <2>3. p.spent \cap Spends(t) = {} /\ Cardinality({}) = 0
    BY FS_EmptySet
  <2>4. /\ Cardinality(p.spent \cup Spends(t))
             = Cardinality(p.spent) + Cardinality(Spends(t)) - 0
        /\ Cardinality(p.spent) \in Nat /\ Cardinality(Spends(t)) \in Nat
    BY SMTT(30), <2>1, <2>2, <2>3, FS_Union, FS_CardinalityType
  <2>5. Len(Inputs[t]) \in Nat /\ MaxSpent \in Nat
    BY SpendsBound, MempoolAssumption
  <2>6. r.spent = p.spent \cup Spends(t)
    BY <1>2 DEF Inserted
  <2> QED BY SMTT(30), <2>2, <2>4, <2>5, <2>6
<1>8. IsPool(r)
  BY <1>2 DEF Inserted
<1>9. PoolInv(r, c, h)
  BY <1>3, <1>4, <1>5, <1>6, <1>7, <1>8 DEF PoolInv, LiveCapped
<1>10. Stable(r, p, {t})
  BY <1>2 DEF Stable, Inserted, Pooled, SameOrphans, IsPool, LiveAged
<1> QED BY <1>1, <1>9, <1>10

(* The insertion of a valid transaction, with or without an eviction. *)
LEMMA AdmitKeeps ==
  ASSUME NEW p, NEW c, NEW h \in Int, PoolInv(p, c, h),
         NEW t \in Txs, t \notin Pooled(p), Verdict(t, p, c) = "ok"
  PROVE  PoolInv(Admit(t, p, h).pool, c, h) /\ Stable(Admit(t, p, h).pool, p, {t})
<1> DEFINE full == Cardinality(p.live) >= MaxTxs
           out == Victims(t, p)
           room == IF full THEN DropLive(Package({Cheapest(out)}, p), p) ELSE p
           refused == Cardinality(p.spent) + Len(Inputs[t]) > MaxSpent \/ (full /\ out = {})
<1>1. Admit(t, p, h).pool = IF refused THEN p ELSE Insert(t, room, h)
  BY DEF Admit
<1>2. IsPool(p) /\ Clean(p) /\ Fed(p, c) /\ LiveAged(p, h) /\ LiveCapped(p)
  BY DEF PoolInv
<1>3. /\ t \notin c /\ Spends(t) \subseteq Utxo(c) \cup OutputsOf(p.live)
      /\ Spends(t) \cap p.spent = {}
  BY VerdictOk
<1>4. CASE refused
  <2>1. Stable(p, p, {t})
    BY <1>2 DEF Stable, IsPool
  <2> QED BY <1>1, <1>4, <2>1
<1>5. /\ IsFiniteSet(p.live) /\ Cardinality(p.live) \in Nat
      /\ IsFiniteSet(p.spent) /\ Cardinality(p.spent) \in Nat
      /\ Len(Inputs[t]) \in Nat /\ MaxTxs \in Nat /\ MaxSpent \in Nat
  <2>1. p.live \in SUBSET Txs
    BY <1>2 DEF IsPool
  <2>2. IsFiniteSet(p.spent)
    BY <1>2, <2>1, SpendsOfFinite DEF Clean
  <2> QED BY <2>1, <2>2, MempoolAssumption, FS_Subset, FS_CardinalityType, SpendsBound
<1>6. CASE ~refused /\ ~full
  <2>1. Admit(t, p, h).pool = Insert(t, p, h)
    BY <1>1, <1>6
  <2>2. Cardinality(p.live) < MaxTxs /\ Cardinality(p.spent) + Len(Inputs[t]) <= MaxSpent
    BY SMTT(30), <1>5, <1>6
  <2>3. OrphansAged(p, h) /\ Cardinality(p.orphans) <= MaxOrphans
    BY DEF PoolInv
  <2>4. PoolInv(Insert(t, p, h), c, h) /\ Stable(Insert(t, p, h), p, {t})
    BY <1>2, <1>3, <2>2, <2>3, InsertKeeps
  <2> QED BY <2>1, <2>4
<1>7. CASE ~refused /\ full
  <2>1. out # {} /\ out \in SUBSET Txs /\ out \subseteq p.live
    BY <1>2, <1>7 DEF Victims, IsPool
  <2>2. PICK v \in out : v = Cheapest(out)
    BY <2>1, CheapestIn
  <2>3. PICK S : S = Package({v}, p)
    OBVIOUS
  <2>4. PICK q : q = DropLive(S, p)
    OBVIOUS
  <2>5. Admit(t, p, h).pool = Insert(t, q, h)
    BY <1>1, <1>7, <2>2, <2>3, <2>4
  <2>6. Dropped(q, p, S)
    BY <1>2, <2>4, DropLiveFields
  <2>7. v \in S /\ S \subseteq p.live /\ \A x \in S : Children(x, p) \subseteq S
    <3>1. {v} \subseteq p.live
      BY <2>1, <2>2
    <3>2. {v} \subseteq S /\ S \subseteq p.live /\ \A x \in S : Children(x, p) \subseteq S
      BY <2>3, <3>1, PackageClosed
    <3> QED BY <3>2
  <2>8. /\ q.live = p.live \ S /\ q.spent \subseteq p.spent /\ SameOrphans(q, p) /\ IsPool(q)
    BY <2>6 DEF Dropped
  <2>9. Clean(q) /\ LiveAged(q, h) /\ Stable(q, p, {})
    BY SMTT(30), <1>2, <2>6, DropKeeps DEF LiveAged
  <2>10. Fed(q, c)
    BY <1>2, <2>6, <2>7, DropKeepsFed
  <2>11. Spends(t) \subseteq Utxo(c) \cup OutputsOf(q.live)
    BY <1>2, <1>3, <2>2, <2>3, <2>8, VictimSpares
  <2>12. Spends(t) \cap q.spent = {} /\ t \notin Pooled(q)
    BY <1>3, <2>8 DEF Pooled, SameOrphans
  <2>13. Cardinality(q.live) < MaxTxs
    <3>1. q.live \in SUBSET (p.live \ {v})
      BY <2>7, <2>8
    <3>2. /\ IsFiniteSet(p.live \ {v})
          /\ Cardinality(p.live \ {v}) = Cardinality(p.live) - 1
      BY <1>5, <2>1, <2>2, FS_RemoveElement
    <3>3. Cardinality(q.live) <= Cardinality(p.live) - 1 /\ Cardinality(q.live) \in Nat
      BY SMTT(30), <3>1, <3>2, FS_Subset, FS_CardinalityType
    <3> QED BY SMTT(30), <1>2, <1>5, <3>3 DEF LiveCapped
  <2>14. Cardinality(q.spent) + Len(Inputs[t]) <= MaxSpent
    <3>1. Cardinality(q.spent) <= Cardinality(p.spent) /\ Cardinality(q.spent) \in Nat
      BY <1>5, <2>8, FS_Subset, FS_CardinalityType
    <3>2. Cardinality(p.spent) + Len(Inputs[t]) <= MaxSpent
      BY SMTT(30), <1>5, <1>7
    <3> QED BY SMTT(30), <1>5, <3>1, <3>2
  <2>15. OrphansAged(q, h) /\ Cardinality(q.orphans) <= MaxOrphans
    BY <2>8 DEF PoolInv, OrphansAged, SameOrphans
  <2>16. PoolInv(Insert(t, q, h), c, h) /\ Stable(Insert(t, q, h), q, {t})
    BY <1>3, <2>8, <2>9, <2>10, <2>11, <2>12, <2>13, <2>14, <2>15, InsertKeeps
  <2>17. Stable(Insert(t, q, h), p, {t})
    <3>1. Stable(Insert(t, q, h), p, {} \cup {t})
      BY <2>9, <2>16, StableTwice DEF Pooled
    <3> QED BY <3>1
  <2> QED BY <2>5, <2>16, <2>17
<1> QED BY <1>4, <1>6, <1>7
(* A pool with an exact index is never reconciled on admission. *)
LEMMA AcceptOneKeeps ==
  ASSUME NEW p, NEW c, NEW h \in Int, PoolInv(p, c, h), NEW t \in Txs
  PROVE  /\ PoolInv(AcceptOne(t, p, c, h).pool, c, h)
         /\ Stable(AcceptOne(t, p, c, h).pool, p, {t})
<1> DEFINE a == AcceptOne(t, p, c, h)
<1>1. Stable(p, p, {t})
  BY DEF Stable, PoolInv, IsPool
<1>2. ~NeedsReconcile(p)
  BY DEF PoolInv, Clean, NeedsReconcile
<1>3. CASE PolicyRefuses(t) \/ DirectConflicts(t, p) # {}
  <2>1. a.pool = p
    BY <1>3 DEF AcceptOne
  <2> QED BY <1>1, <2>1
<1>4. ASSUME ~(PolicyRefuses(t) \/ DirectConflicts(t, p) # {})
      PROVE  a = IF t \in p.live \cup p.orphans
                 THEN [pool |-> p, result |-> "duplicate"]
                 ELSE CASE Verdict(t, p, c) = "ok" -> Admit(t, p, h)
                        [] Verdict(t, p, c) = "missing" ->
                             [pool |-> Park(t, p, h), result |-> "orphan"]
                        [] OTHER -> [pool |-> p, result |-> "invalid"]
  BY <1>2, <1>4 DEF AcceptOne
<1>5. CASE ~(PolicyRefuses(t) \/ DirectConflicts(t, p) # {}) /\ t \in p.live \cup p.orphans
  <2>1. a.pool = p
    BY SMTT(30), <1>4, <1>5
  <2> QED BY <1>1, <2>1
<1>6. CASE ~(PolicyRefuses(t) \/ DirectConflicts(t, p) # {}) /\ t \notin p.live \cup p.orphans
  <2> HIDE DEF a
  <2>1. t \notin Pooled(p)
    BY <1>6 DEF Pooled
  <2>2. CASE Verdict(t, p, c) = "ok"
    <3>1. a = Admit(t, p, h)
      BY <1>4, <1>6, <2>2
    <3>2. PoolInv(Admit(t, p, h).pool, c, h) /\ Stable(Admit(t, p, h).pool, p, {t})
      BY <2>1, <2>2, AdmitKeeps
    <3> QED BY <3>1, <3>2 DEF a
  <2>3. CASE Verdict(t, p, c) = "missing"
    <3>1. a.pool = Park(t, p, h)
      BY SMTT(30), <1>4, <1>6, <2>3
    <3>2. PoolInv(Park(t, p, h), c, h) /\ Stable(Park(t, p, h), p, {t})
      BY <1>6, ParkKeeps
    <3> QED BY <3>1, <3>2 DEF a
  <2>4. CASE Verdict(t, p, c) # "ok" /\ Verdict(t, p, c) # "missing"
    <3>1. a.pool = p
      BY SMTT(30), <1>4, <1>6, <2>4
    <3> QED BY <1>1, <3>1 DEF a
  <2> QED BY <2>2, <2>3, <2>4
<1> QED BY <1>3, <1>5, <1>6

(* An orphan goes through admission. *)
LEMMA RetryKeeps ==
  ASSUME NEW p, NEW c, NEW h \in Int, PoolInv(p, c, h), NEW t \in p.orphans,
         NEW r, r = AcceptOne(t, DropOrphans({t}, p), c, h).pool
  PROVE  PoolInv(r, c, h) /\ Stable(r, p, {})
<1>1. PICK q : q = DropOrphans({t}, p)
  OBVIOUS
<1>2. IsPool(p) /\ t \in Txs /\ t \notin p.live
  BY DEF PoolInv, IsPool
<1>3. OrphansDropped(q, p, {t})
  BY <1>1, <1>2, DropOrphansFields
<1>4. IsPool(q) /\ SameLive(q, p) /\ q.orphans = p.orphans \ {t}
  BY <1>3 DEF OrphansDropped
<1>5. OrphansAged(q, h) /\ Stable(q, p, {}) /\ Cardinality(q.orphans) <= Cardinality(p.orphans)
  BY <1>2, <1>3, DropOrphansKeeps DEF PoolInv
<1>6. Cardinality(q.orphans) <= MaxOrphans
  <2>1. p.orphans \in SUBSET Txs /\ q.orphans \in SUBSET Txs
    BY <1>2, <1>4 DEF IsPool
  <2>2. Cardinality(p.orphans) \in Nat /\ Cardinality(q.orphans) \in Nat
    BY <2>1, MempoolAssumption, FS_Subset, FS_CardinalityType
  <2> QED BY SMTT(30), <1>5, <2>2, MempoolAssumption DEF PoolInv
<1>7. Clean(q) /\ Fed(q, c) /\ LiveAged(q, h) /\ LiveCapped(q)
  BY <1>4, SameLiveKeeps DEF PoolInv
<1>8. PoolInv(q, c, h)
  BY <1>4, <1>5, <1>6, <1>7 DEF PoolInv
<1>9. PoolInv(r, c, h) /\ Stable(r, q, {t})
  BY <1>1, <1>2, <1>8, AcceptOneKeeps
<1>10. Stable(r, p, {} \cup {t})
  BY <1>2, <1>5, <1>9, StableTwice
<1>11. Stable(r, p, {})
  BY <1>10 DEF Stable, Pooled
<1> QED BY <1>9, <1>11

(* A step of promote_ready_orphans changes the pool by admission only. *)
LEMMA PromoteStepKeeps ==
  ASSUME NEW m, m = [pool |-> m.pool, calls |-> m.calls],
         NEW c, NEW h \in Int, PoolInv(m.pool, c, h),
         NEW r, r = PromoteStep(m, c, h)
  PROVE  /\ r = [pool |-> r.pool, calls |-> r.calls]
         /\ PoolInv(r.pool, c, h) /\ Stable(r.pool, m.pool, {})
<1>1. PICK top, t, a, calls1, calls2, calls3 :
        /\ top = Head(m.calls) /\ t = Min(top.todo)
        /\ a = AcceptOne(t, DropOrphans({t}, m.pool), c, h)
        /\ calls1 = (IF top.any THEN <<Call(m.pool, c)>> \o Tail(m.calls) ELSE Tail(m.calls))
        /\ calls2 = <<[top EXCEPT !.todo = @ \ {t}]>> \o Tail(m.calls)
        /\ calls3 = <<Call(a.pool, c)>>
                      \o (<<[[top EXCEPT !.todo = @ \ {t}] EXCEPT !.any = TRUE]>> \o Tail(m.calls))
  BY Zenon
<1>2. r = IF m.calls = <<>> THEN m
          ELSE IF top.todo = {} THEN [m EXCEPT !.calls = calls1]
          ELSE IF t \notin m.pool.orphans THEN [m EXCEPT !.calls = calls2]
          ELSE IF a.result = "accepted" THEN [pool |-> a.pool, calls |-> calls3]
          ELSE [pool |-> a.pool, calls |-> calls2]
  BY <1>1 DEF PromoteStep
<1>3. Stable(m.pool, m.pool, {})
  BY DEF Stable, PoolInv, IsPool
<1>4. CASE m.calls = <<>> \/ top.todo = {} \/ t \notin m.pool.orphans
  <2>1. r.pool = m.pool /\ r = [pool |-> r.pool, calls |-> r.calls]
    BY <1>2, <1>4
  <2> QED BY <1>3, <2>1
<1>5. CASE ~(m.calls = <<>> \/ top.todo = {} \/ t \notin m.pool.orphans)
  <2>1. r.pool = a.pool /\ r = [pool |-> r.pool, calls |-> r.calls]
    BY SMTT(30), <1>2, <1>5
  <2>2. PoolInv(a.pool, c, h) /\ Stable(a.pool, m.pool, {})
    BY <1>1, <1>5, RetryKeeps
  <2> QED BY <2>1, <2>2
<1> QED BY <1>4, <1>5
(* The steps of promote_ready_orphans make a run of any length. *)
IsPromoteRun(f, a, N, c, h) ==
  f = [k \in 0..N |-> IF k = 0 THEN a ELSE PromoteStep(f[k - 1], c, h)]

(* There is a run of promote_ready_orphans of any length. *)
LEMMA PromoteRun ==
  ASSUME NEW a, NEW c, NEW h, NEW N \in Nat
  PROVE  \E f : IsPromoteRun(f, a, N, c, h)
<1> DEFINE P == {n \in 0..N : \E f : f = [k \in 0..n |-> IF k = 0 THEN a
                                             ELSE PromoteStep(f[k - 1], c, h)]}
<1>1. 0 \in P
  <2>1. PICK f : f = [k \in 0..0 |-> a]
    BY Zenon
  <2>2. f = [k \in 0..0 |-> IF k = 0 THEN a ELSE PromoteStep(f[k - 1], c, h)]
    BY SMTT(30), <2>1
  <2>3. 0 \in 0..N
    BY SMTT(30)
  <2> QED BY <2>2, <2>3
<1>2. ASSUME NEW n \in 1..N, n - 1 \in P
      PROVE  n \in P
  <2>1. PICK f : f = [k \in 0..(n - 1) |-> IF k = 0 THEN a ELSE PromoteStep(f[k - 1], c, h)]
    BY <1>2
  <2>2. PICK g : g = [k \in 0..n |-> IF k = n THEN PromoteStep(f[n - 1], c, h) ELSE f[k]]
    BY Zenon
  <2>3. \A k \in 0..(n - 1) : g[k] = f[k]
    BY SMTT(30), <2>2
  <2>4. ASSUME NEW k \in 0..n
        PROVE  g[k] = IF k = 0 THEN a ELSE PromoteStep(g[k - 1], c, h)
    <3>1. CASE k = n
      <4>1. g[k] = PromoteStep(f[n - 1], c, h) /\ f[n - 1] = g[n - 1]
        BY SMTT(30), <2>2, <2>3, <3>1
      <4> QED BY SMTT(30), <3>1, <4>1
    <3>2. CASE k # n
      <4>1. g[k] = f[k] /\ k \in 0..(n - 1)
        BY SMTT(30), <2>3, <3>2
      <4>2. CASE k = 0
        BY <2>1, <4>1, <4>2
      <4>3. CASE k # 0
        <5>1. f[k - 1] = g[k - 1]
          BY SMTT(30), <2>3, <4>1, <4>3
        <5>2. f[k] = PromoteStep(f[k - 1], c, h)
          BY <2>1, <4>1, <4>3
        <5> QED BY <4>1, <4>3, <5>1, <5>2
      <4> QED BY <4>2, <4>3
    <3> QED BY <3>1, <3>2
  <2>5. g = [k \in 0..n |-> IF k = 0 THEN a ELSE PromoteStep(g[k - 1], c, h)]
    BY <2>2, <2>4
  <2> QED BY SMTT(30), <2>5
<1> HIDE DEF P
<1>3. N \in P
  BY SMTT(30), <1>1, <1>2, Climb
<1> QED BY <1>3 DEF P, IsPromoteRun

(* Promotion keeps the invariant, adds nothing and renumbers nothing. *)
LEMMA PromoteKeeps ==
  ASSUME NEW p, NEW c, NEW h \in Int, PoolInv(p, c, h)
  PROVE  PoolInv(Promote(p, c, h), c, h) /\ Stable(Promote(p, c, h), p, {})
<1> DEFINE n == Cardinality(p.orphans)
           N == (2 * n + 1) * (n + 1)
           a == [pool |-> p, calls |-> <<Call(p, c)>>]
           run[k \in 0..N] == IF k = 0 THEN a ELSE PromoteStep(run[k - 1], c, h)
<1>1. N \in Nat
  <2>1. n \in Nat
    BY MempoolAssumption, FS_Subset, FS_CardinalityType DEF PoolInv, IsPool
  <2> HIDE DEF n
  <2>2. 2 * n + 1 \in Nat /\ n + 1 \in Nat
    BY SMTT(30), <2>1
  <2> QED BY SMTT(30), <2>2
<1>2. Promote(p, c, h) = run[N].pool
  BY DEF Promote
<1> HIDE DEF N, a
<1>3. run = [k \in 0..N |-> IF k = 0 THEN a ELSE PromoteStep(run[k - 1], c, h)]
  <2>1. \E f : IsPromoteRun(f, a, N, c, h)
    BY <1>1, PromoteRun
  <2> QED BY <2>1 DEF IsPromoteRun
<1>4. PICK f : f = run
  OBVIOUS
<1> HIDE DEF run
<1>5. f[0] = a /\ \A k \in 1..N : f[k] = PromoteStep(f[k - 1], c, h)
  BY SMTT(30), <1>1, <1>3, <1>4
<1> DEFINE Good(m) == /\ m = [pool |-> m.pool, calls |-> m.calls]
                      /\ PoolInv(m.pool, c, h) /\ Stable(m.pool, p, {})
           P == {k \in 0..N : Good(f[k])}
<1>6. Good(a)
  <2>1. Stable(p, p, {})
    BY DEF Stable, PoolInv, IsPool
  <2>2. a.pool = p /\ a = [pool |-> a.pool, calls |-> a.calls]
    BY DEF a
  <2> QED BY <2>1, <2>2
<1>7. ASSUME NEW m, Good(m), NEW r, r = PromoteStep(m, c, h)
      PROVE  Good(r)
  <2>1. /\ r = [pool |-> r.pool, calls |-> r.calls]
        /\ PoolInv(r.pool, c, h) /\ Stable(r.pool, m.pool, {})
    BY SMTT(30), <1>7, PromoteStepKeeps
  <2>2. Stable(r.pool, p, {} \cup {})
    BY <1>7, <2>1, StableTwice
  <2>3. {} \cup {} = {}
    OBVIOUS
  <2> QED BY <2>1, <2>2, <2>3
<1> HIDE DEF Good
<1>8. 0 \in P
  BY SMTT(30), <1>1, <1>5, <1>6
<1>9. \A k \in 1..N : k - 1 \in P => k \in P
  <2> SUFFICES ASSUME NEW k \in 1..N, k - 1 \in P
               PROVE  k \in P
    OBVIOUS
  <2>1. f[k] = PromoteStep(f[k - 1], c, h) /\ Good(f[k - 1])
    BY <1>5
  <2>2. Good(f[k])
    BY <1>7, <2>1
  <2> QED BY SMTT(30), <1>1, <2>2
<1> HIDE DEF P
<1>10. N \in P
  BY SMTT(30), <1>1, <1>8, <1>9, Climb
<1> QED BY <1>2, <1>4, <1>10 DEF P, Good

(* accept_transaction_with_mempool_policy_v3 adds at most its transaction. *)
LEMMA AcceptKeeps ==
  ASSUME NEW p, NEW c, NEW h \in Int, PoolInv(p, c, h), NEW t \in Txs
  PROVE  /\ PoolInv(Accept(t, p, c, h).pool, c, h)
         /\ Stable(Accept(t, p, c, h).pool, p, {t})
<1>1. PICK r : r = AcceptOne(t, p, c, h)
  OBVIOUS
<1>2. PoolInv(r.pool, c, h) /\ Stable(r.pool, p, {t})
  BY <1>1, AcceptOneKeeps
<1>3. CASE r.result # "accepted"
  <2>1. Accept(t, p, c, h) = r
    BY <1>1, <1>3 DEF Accept
  <2> QED BY <1>2, <2>1
<1>4. CASE r.result = "accepted"
  <2>1. PICK q : q = Promote(r.pool, c, h)
    OBVIOUS
  <2>2. PoolInv(q, c, h) /\ Stable(q, r.pool, {})
    BY <1>2, <2>1, PromoteKeeps
  <2>3. Accept(t, p, c, h) = [r EXCEPT !.pool = q]
    BY <1>1, <1>4, <2>1 DEF Accept
  <2>4. r = [pool |-> r.pool, result |-> r.result]
    BY <1>1 DEF AcceptOne, Admit
  <2>5. Accept(t, p, c, h).pool = q
    BY <2>3, <2>4
  <2>6. Stable(q, p, {t} \cup {})
    BY <1>2, <2>2, StableTwice
  <2>7. {t} \cup {} = {t}
    OBVIOUS
  <2> QED BY <2>2, <2>5, <2>6, <2>7
<1> QED BY <1>3, <1>4
-----------------------------------------------------------------------------
(* Reconciliation *)

(* The pool rebuilt so far from the transactions of p. *)
Rebuilt(w, p, c) ==
  /\ IsPool(w) /\ SameOrphans(w, p) /\ w.age = p.age
  /\ Clean(w) /\ Fed(w, c)
  /\ w.live \subseteq p.live /\ w.live \subseteq DOMAIN w.seen
  /\ \A t \in DOMAIN p.seen : t \in DOMAIN w.seen /\ w.seen[t] = p.seen[t]

IsPass(m, p) ==
  /\ m = [work |-> m.work, todo |-> m.todo, waiting |-> m.waiting,
          progressed |-> m.progressed]
  /\ m.todo \subseteq p.live /\ m.waiting \subseteq p.live

(* A transaction taken over by the rebuild keeps the new pool clean and fed. *)
LEMMA ReadmitKeeps ==
  ASSUME NEW p, IsPool(p), NEW c, NEW w, Rebuilt(w, p, c),
         NEW t \in p.live, Verdict(t, w, c) = "ok"
  PROVE  Rebuilt(Readmit(t, w), p, c)
<1>1. PICK live, spent, seen, next :
        /\ live = w.live \cup {t} /\ spent = w.spent \cup Spends(t)
        /\ seen = IF t \in DOMAIN w.seen THEN w.seen ELSE Put(w.seen, t, w.next)
        /\ next = IF t \in DOMAIN w.seen THEN w.next ELSE w.next + 1
  BY Zenon
<1>2. PICK r : r = Readmit(t, w)
  OBVIOUS
<1>3. IsPool(w) /\ SameOrphans(w, p) /\ w.next \in Int
  BY DEF Rebuilt, IsPool
<1>4. r = [live |-> live, spent |-> spent, seen |-> seen, next |-> next,
           age |-> w.age, orphans |-> w.orphans, orphanAge |-> w.orphanAge]
  <2>1. r = [w EXCEPT !.live = live, !.spent = spent, !.seen = seen, !.next = next]
    BY <1>1, <1>2 DEF Readmit
  <2> QED BY <1>3, <2>1 DEF IsPool
<1>5. /\ r.live = live /\ r.spent = spent /\ r.seen = seen /\ r.next = next
      /\ r.age = w.age /\ r.orphans = w.orphans /\ r.orphanAge = w.orphanAge
  BY <1>4
<1>6. /\ DOMAIN seen = DOMAIN w.seen \cup {t}
      /\ \A x \in DOMAIN w.seen : seen[x] = w.seen[x]
      /\ t \notin DOMAIN w.seen => seen[t] = w.next
  <2>1. CASE t \in DOMAIN w.seen
    BY <1>1, <2>1
  <2>2. CASE t \notin DOMAIN w.seen
    BY <1>1, <2>2 DEF Put
  <2> QED BY <2>1, <2>2
<1>7. \A x \in DOMAIN seen : seen[x] \in Int
  BY <1>3, <1>6 DEF IsPool
<1>8. next \in Int
  BY SMTT(30), <1>1, <1>3
<1>9. IsPool(r)
  <2>1. live \subseteq Txs /\ w.orphans \subseteq Txs \ live
    BY <1>1, <1>3 DEF IsPool, SameOrphans
  <2>2. \A x \in DOMAIN w.age : w.age[x] \in Int
    BY <1>3 DEF IsPool
  <2>3. \A x \in DOMAIN w.orphanAge : w.orphanAge[x] \in Int
    BY <1>3 DEF IsPool
  <2>4. r = [live |-> r.live, spent |-> r.spent, seen |-> r.seen, next |-> r.next,
             age |-> r.age, orphans |-> r.orphans, orphanAge |-> r.orphanAge]
    BY <1>4, <1>5
  <2> QED BY <1>5, <1>7, <1>8, <2>1, <2>2, <2>3, <2>4 DEF IsPool
<1>10. Clean(r) /\ Fed(r, c)
  <2>1. /\ t \notin c /\ Spends(t) \subseteq Utxo(c) \cup OutputsOf(w.live)
        /\ Spends(t) \cap w.spent = {}
    BY VerdictOk
  <2>2. r.live = w.live \cup {t} /\ r.spent = w.spent \cup Spends(t)
    BY <1>1, <1>5
  <2>3. Clean(w) /\ Fed(w, c)
    BY DEF Rebuilt
  <2> QED BY <2>1, <2>2, <2>3, JoinKeeps
<1>11. SameOrphans(r, p) /\ r.age = p.age
  BY <1>3, <1>5 DEF SameOrphans, Rebuilt
<1>12. r.live \subseteq p.live /\ r.live \subseteq DOMAIN r.seen
  BY <1>1, <1>5, <1>6 DEF Rebuilt
<1>13. \A x \in DOMAIN p.seen : x \in DOMAIN r.seen /\ r.seen[x] = p.seen[x]
  BY <1>5, <1>6 DEF Rebuilt
<1>14. Rebuilt(r, p, c)
  BY <1>9, <1>10, <1>11, <1>12, <1>13 DEF Rebuilt
<1> QED BY <1>2, <1>14

(* A step of a pass of the rebuild does too. *)
LEMMA PassStepKeeps ==
  ASSUME NEW p, IsPool(p), NEW c, NEW m, IsPass(m, p), Rebuilt(m.work, p, c),
         NEW r, r = PassStep(m, p, c)
  PROVE  IsPass(r, p) /\ Rebuilt(r.work, p, c)
<1>1. CASE m.todo # {}
  <2>1. PICK t : t = FirstSeen(m.todo, p)
    OBVIOUS
  <2>2. t \in m.todo /\ t \in p.live
    BY <1>1, <2>1, FirstSeenIn DEF IsPass, IsPool
  <2>3. r = Revalidate(t, m, c)
    BY <1>1, <2>1 DEF PassStep
  <2>4. PICK next : next = [m EXCEPT !.todo = @ \ {t}]
    BY Zenon
  <2>5. /\ next = [work |-> m.work, todo |-> m.todo \ {t}, waiting |-> m.waiting,
                   progressed |-> m.progressed]
        /\ next.work = m.work /\ next.waiting = m.waiting
    BY <2>4 DEF IsPass
  <2>6. CASE Verdict(t, m.work, c) = "ok"
    <3>1. PICK w : w = Readmit(t, m.work)
      OBVIOUS
    <3>2. r = [next EXCEPT !.work = w, !.progressed = TRUE]
      BY <2>3, <2>4, <2>5, <2>6, <3>1 DEF Revalidate
    <3>3. r = [work |-> w, todo |-> m.todo \ {t}, waiting |-> m.waiting, progressed |-> TRUE]
      BY <2>5, <3>2
    <3>4. Rebuilt(w, p, c)
      BY <2>2, <2>6, <3>1, ReadmitKeeps
    <3> QED BY SMTT(30), <3>3, <3>4 DEF IsPass
  <2>7. CASE Verdict(t, m.work, c) = "missing"
    <3>1. r = [next EXCEPT !.waiting = @ \cup {t}]
      BY <2>3, <2>4, <2>7 DEF Revalidate
    <3>2. r = [work |-> m.work, todo |-> m.todo \ {t}, waiting |-> m.waiting \cup {t},
               progressed |-> m.progressed]
      BY <2>5, <3>1
    <3> QED BY SMTT(30), <2>2, <3>2 DEF IsPass
  <2>8. CASE Verdict(t, m.work, c) # "ok" /\ Verdict(t, m.work, c) # "missing"
    <3>1. r = next
      BY <2>3, <2>4, <2>8 DEF Revalidate
    <3> QED BY SMTT(30), <2>5, <3>1 DEF IsPass
  <2> QED BY <2>6, <2>7, <2>8
<1>2. CASE m.todo = {} /\ m.progressed
  <2>1. r = [m EXCEPT !.todo = m.waiting, !.waiting = {}, !.progressed = FALSE]
    BY <1>2 DEF PassStep
  <2>2. r = [work |-> m.work, todo |-> m.waiting, waiting |-> {}, progressed |-> FALSE]
    BY <2>1 DEF IsPass
  <2> QED BY SMTT(30), <2>2 DEF IsPass
<1>3. CASE m.todo = {} /\ ~m.progressed
  <2>1. r = m
    BY <1>3 DEF PassStep
  <2> QED BY <2>1
<1> QED BY <1>1, <1>2, <1>3
(* The steps of the passes make a run of any length. *)
IsPassRun(f, a, N, p, c) ==
  f = [k \in 0..N |-> IF k = 0 THEN a ELSE PassStep(f[k - 1], p, c)]

(* There is a run of the rebuild of any length. *)
LEMMA PassRun ==
  ASSUME NEW a, NEW N \in Nat, NEW p, NEW c
  PROVE  \E f : IsPassRun(f, a, N, p, c)
<1> DEFINE P == {n \in 0..N : \E f : IsPassRun(f, a, n, p, c)}
<1>1. 0 \in P
  <2>1. PICK f : f = [k \in 0..0 |-> a]
    BY Zenon
  <2>2. IsPassRun(f, a, 0, p, c)
    BY SMTT(30), <2>1 DEF IsPassRun
  <2> QED BY SMTT(30), <2>2
<1>2. ASSUME NEW n \in 1..N, n - 1 \in P
      PROVE  n \in P
  <2>1. PICK f : f = [k \in 0..(n - 1) |-> IF k = 0 THEN a ELSE PassStep(f[k - 1], p, c)]
    BY <1>2 DEF IsPassRun
  <2>2. PICK g : g = [k \in 0..n |-> IF k = n THEN PassStep(f[n - 1], p, c) ELSE f[k]]
    BY Zenon
  <2>3. \A k \in 0..(n - 1) : g[k] = f[k]
    BY SMTT(30), <2>2
  <2>4. ASSUME NEW k \in 0..n
        PROVE  g[k] = IF k = 0 THEN a ELSE PassStep(g[k - 1], p, c)
    <3>1. CASE k = n
      <4>1. g[k] = PassStep(f[n - 1], p, c) /\ f[n - 1] = g[n - 1]
        BY SMTT(30), <2>2, <2>3, <3>1
      <4> QED BY SMTT(30), <3>1, <4>1
    <3>2. CASE k # n
      <4>1. g[k] = f[k] /\ k \in 0..(n - 1)
        BY SMTT(30), <2>3, <3>2
      <4>2. CASE k = 0
        BY <2>1, <4>1, <4>2
      <4>3. CASE k # 0
        <5>1. f[k - 1] = g[k - 1]
          BY SMTT(30), <2>3, <4>1, <4>3
        <5>2. f[k] = PassStep(f[k - 1], p, c)
          BY <2>1, <4>1, <4>3
        <5> QED BY <4>1, <4>3, <5>1, <5>2
      <4> QED BY <4>2, <4>3
    <3> QED BY <3>1, <3>2
  <2>5. IsPassRun(g, a, n, p, c)
    BY <2>2, <2>4 DEF IsPassRun
  <2> QED BY SMTT(30), <2>5
<1> HIDE DEF P
<1>3. N \in P
  BY SMTT(30), <1>1, <1>2, Climb
<1> QED BY <1>3 DEF P

(* The passes of the rebuild keep the new pool clean and fed. *)
LEMMA PassesKeep ==
  ASSUME NEW p, IsPool(p), NEW c, NEW work, Rebuilt(work, p, c)
  PROVE  Rebuilt(Passes(work, p, c), p, c)
<1> DEFINE n == Cardinality(p.live)
           N == (n + 1) * (n + 1)
           a == [work |-> work, todo |-> p.live, waiting |-> {}, progressed |-> FALSE]
           run[k \in 0..N] == IF k = 0 THEN a ELSE PassStep(run[k - 1], p, c)
<1>1. N \in Nat
  <2>1. n \in Nat
    BY MempoolAssumption, FS_Subset, FS_CardinalityType DEF IsPool
  <2> HIDE DEF n
  <2>2. n + 1 \in Nat
    BY SMTT(30), <2>1
  <2> QED BY SMTT(30), <2>2
<1>2. Passes(work, p, c) = run[N].work
  BY DEF Passes
<1> HIDE DEF N, a
<1>3. run = [k \in 0..N |-> IF k = 0 THEN a ELSE PassStep(run[k - 1], p, c)]
  <2>1. \E f : IsPassRun(f, a, N, p, c)
    BY <1>1, PassRun
  <2> QED BY <2>1 DEF IsPassRun
<1>4. PICK f : f = run
  OBVIOUS
<1> HIDE DEF run
<1>5. f[0] = a /\ \A k \in 1..N : f[k] = PassStep(f[k - 1], p, c)
  BY SMTT(30), <1>1, <1>3, <1>4
<1> DEFINE Good(m) == IsPass(m, p) /\ Rebuilt(m.work, p, c)
           P == {k \in 0..N : Good(f[k])}
<1>6. Good(a)
  BY DEF a, IsPass
<1>7. ASSUME NEW m, Good(m), NEW r, r = PassStep(m, p, c)
      PROVE  Good(r)
  BY <1>7, PassStepKeeps
<1> HIDE DEF Good
<1>8. 0 \in P
  BY SMTT(30), <1>1, <1>5, <1>6
<1>9. \A k \in 1..N : k - 1 \in P => k \in P
  <2> SUFFICES ASSUME NEW k \in 1..N, k - 1 \in P
               PROVE  k \in P
    OBVIOUS
  <2>1. f[k] = PassStep(f[k - 1], p, c) /\ Good(f[k - 1])
    BY <1>5
  <2>2. Good(f[k])
    BY <1>7, <2>1
  <2> QED BY SMTT(30), <1>1, <2>2
<1> HIDE DEF P
<1>10. N \in P
  BY SMTT(30), <1>1, <1>8, <1>9, Climb
<1> QED BY <1>2, <1>4, <1>10 DEF P, Good

(* A finite non-empty set of integers has a largest element. *)
LEMMA MaxOfInts ==
  ASSUME NEW S \in SUBSET Int, S # {}, IsFiniteSet(S)
  PROVE  Max(S) \in S
<1> DEFINE R == {e \in S \X S : e[1] > e[2]}
<1>1. \A x, y \in S : x # y => <<x, y>> \in R \/ <<y, x>> \in R
  BY SMTT(30)
<1>2. \A x, y, z \in S : <<x, y>> \in R /\ <<y, z>> \in R => <<x, z>> \in R
  <2>1. \A x, y \in S : <<x, y>> \in R <=> x > y
    OBVIOUS
  <2>2. \A x, y, z \in S : x > y /\ y > z => x > z
    BY SMTT(30)
  <2> HIDE DEF R
  <2> QED BY <2>1, <2>2
<1>3. PICK x \in S : \A y \in S \ {x} : <<x, y>> \in R
  <2> HIDE DEF R
  <2> QED BY <1>1, <1>2, Least
<1>4. ASSUME NEW y \in S
      PROVE  x >= y
  <2>1. y # x => x > y
    BY <1>3
  <2> QED BY SMTT(30), <2>1
<1> QED BY <1>4 DEF Max

(* The largest arrival number is a number. *)
LEMMA MaxSeenInt ==
  ASSUME NEW f, IsFiniteSet(DOMAIN f), \A x \in DOMAIN f : f[x] \in Int
  PROVE  MaxSeen(f) \in Int
<1>1. CASE DOMAIN f = {}
  BY SMTT(30), <1>1 DEF MaxSeen
<1>2. CASE DOMAIN f # {}
  <2> DEFINE S == {f[x] : x \in DOMAIN f}
             g == [x \in DOMAIN f |-> f[x]]
  <2>1. S \in SUBSET Int /\ S # {}
    BY <1>2
  <2>2. g \in Surjection(DOMAIN f, S)
    BY DEF Surjection
  <2>3. MaxSeen(f) = Max(S)
    BY <1>2 DEF MaxSeen
  <2> HIDE DEF S
  <2>4. IsFiniteSet(S)
    BY <2>2, FS_Surjection
  <2> QED BY <2>1, <2>3, <2>4, MaxOfInts
<1> QED BY <1>1, <1>2
(* What reconcile_mempool leaves of p on a chain with c applied. *)
Reconciled(r, p, c) ==
  /\ IsPool(r) /\ SameOrphans(r, p) /\ Clean(r) /\ Fed(r, c)
  /\ r.live \subseteq p.live /\ DOMAIN r.seen = r.live
  /\ DOMAIN r.age = DOMAIN p.age \cap r.live
  /\ \A t \in DOMAIN r.age : r.age[t] = p.age[t]
  /\ \A t \in r.live \cap DOMAIN p.seen : r.seen[t] = p.seen[t]

(* A pool with nothing live is clean and fed. *)
LEMMA NothingLive ==
  ASSUME NEW w, w.live = {}, w.spent = {}, NEW c
  PROVE  Clean(w) /\ Fed(w, c)
BY DEF Clean, Fed, SpendsOf

(* Reconciling a pool with nothing live. *)
LEMMA ReconcileEmpty ==
  ASSUME NEW p, IsPool(p), NEW c, p.live = {}
  PROVE  Reconciled(Reconcile(p, c), p, c)
<1>1. PICK none : none = <<>>
  OBVIOUS
<1>2. DOMAIN none = {}
  BY SMTT(30), <1>1
<1>3. PICK r : r = Reconcile(p, c)
  OBVIOUS
<1>4. r = [p EXCEPT !.spent = {}, !.seen = none, !.age = none]
  BY <1>1, <1>3 DEF Reconcile
<1>5. r = [live |-> p.live, spent |-> {}, seen |-> none, next |-> p.next, age |-> none,
           orphans |-> p.orphans, orphanAge |-> p.orphanAge]
  BY <1>4 DEF IsPool
<1>6. /\ r.live = {} /\ r.spent = {} /\ r.seen = none /\ r.next = p.next /\ r.age = none
      /\ r.orphans = p.orphans /\ r.orphanAge = p.orphanAge
  BY <1>5
<1>7. IsPool(r)
  BY <1>2, <1>5, <1>6 DEF IsPool
<1>8. Clean(r) /\ Fed(r, c)
  BY <1>6, NothingLive
<1> QED BY <1>2, <1>3, <1>6, <1>7, <1>8 DEF Reconciled, SameOrphans

(* Reconciling a pool that has live transactions. *)
LEMMA ReconcileFull ==
  ASSUME NEW p, IsPool(p), NEW c, p.live # {}
  PROVE  Reconciled(Reconcile(p, c), p, c)
<1>1. PICK w0 : w0 = [p EXCEPT !.live = {}, !.spent = {}]
  OBVIOUS
<1>2. w0 = [live |-> {}, spent |-> {}, seen |-> p.seen, next |-> p.next, age |-> p.age,
            orphans |-> p.orphans, orphanAge |-> p.orphanAge]
  BY <1>1 DEF IsPool
<1>3. /\ w0.live = {} /\ w0.spent = {} /\ w0.seen = p.seen /\ w0.next = p.next
      /\ w0.age = p.age /\ w0.orphans = p.orphans /\ w0.orphanAge = p.orphanAge
  BY <1>2
<1>4. Rebuilt(w0, p, c)
  <2>1. IsPool(w0)
    BY <1>2, <1>3 DEF IsPool
  <2>2. Clean(w0) /\ Fed(w0, c)
    BY <1>3, NothingLive
  <2> QED BY <1>3, <2>1, <2>2 DEF Rebuilt, SameOrphans
<1>5. PICK w : w = Passes(w0, p, c)
  OBVIOUS
<1>6. Rebuilt(w, p, c)
  BY <1>4, <1>5, PassesKeep
<1>7. IsPool(w) /\ SameOrphans(w, p) /\ w.age = p.age /\ w.live \subseteq DOMAIN w.seen
  BY <1>6 DEF Rebuilt
<1>8. PICK seen, age, next :
        /\ seen = Keep(w.seen, w.live) /\ age = Keep(w.age, w.live) /\ next = MaxSeen(seen) + 1
  OBVIOUS
<1>9. PICK r : r = Reconcile(p, c)
  OBVIOUS
<1>10. r = [w EXCEPT !.seen = seen, !.age = age, !.next = next]
  BY <1>1, <1>5, <1>8, <1>9 DEF Reconcile
<1>11. r = [live |-> w.live, spent |-> w.spent, seen |-> seen, next |-> next, age |-> age,
            orphans |-> w.orphans, orphanAge |-> w.orphanAge]
  BY <1>7, <1>10 DEF IsPool
<1>12. /\ r.live = w.live /\ r.spent = w.spent /\ r.seen = seen /\ r.next = next /\ r.age = age
       /\ r.orphans = w.orphans /\ r.orphanAge = w.orphanAge
  BY <1>11
<1>13. DOMAIN seen = w.live /\ \A t \in w.live : seen[t] = w.seen[t] /\ seen[t] \in Int
  BY <1>7, <1>8 DEF Keep, IsPool
<1>14. /\ DOMAIN age = DOMAIN p.age \cap w.live
       /\ \A t \in DOMAIN age : age[t] = p.age[t] /\ age[t] \in Int
  BY <1>7, <1>8 DEF Keep, IsPool
<1>15. next \in Int
  <2>1. IsFiniteSet(DOMAIN seen)
    BY <1>7, <1>13, MempoolAssumption, FS_Subset DEF IsPool
  <2>2. MaxSeen(seen) \in Int
    BY <1>13, <2>1, MaxSeenInt
  <2> QED BY SMTT(30), <1>8, <2>2
<1>16. IsPool(r)
  <2>1. w.live \subseteq Txs /\ w.orphans \subseteq Txs \ w.live
    BY <1>7 DEF IsPool
  <2>2. \A t \in DOMAIN w.orphanAge : w.orphanAge[t] \in Int
    BY <1>7 DEF IsPool
  <2>3. r = [live |-> r.live, spent |-> r.spent, seen |-> r.seen, next |-> r.next,
             age |-> r.age, orphans |-> r.orphans, orphanAge |-> r.orphanAge]
    BY <1>11, <1>12
  <2> QED BY <1>12, <1>13, <1>14, <1>15, <2>1, <2>2, <2>3 DEF IsPool
<1>17. Clean(r) /\ Fed(r, c)
  BY <1>6, <1>12 DEF Rebuilt, Clean, Fed
<1>18. SameOrphans(r, p) /\ r.live \subseteq p.live
  BY <1>6, <1>12 DEF Rebuilt, SameOrphans
<1>19. \A t \in r.live \cap DOMAIN p.seen : r.seen[t] = p.seen[t]
  BY <1>6, <1>12, <1>13 DEF Rebuilt
<1>20. Reconciled(r, p, c)
  BY <1>12, <1>13, <1>14, <1>16, <1>17, <1>18, <1>19 DEF Reconciled
<1> QED BY <1>9, <1>20

(* What reconcile_mempool does to a pool. *)
LEMMA ReconcileFields ==
  ASSUME NEW p, IsPool(p), NEW c
  PROVE  Reconciled(Reconcile(p, c), p, c)
BY ReconcileEmpty, ReconcileFull

(* On the same chain reconciliation keeps the invariant. *)
LEMMA ReconcileKeeps ==
  ASSUME NEW p, NEW c, NEW h \in Int, PoolInv(p, c, h)
  PROVE  PoolInv(Reconcile(p, c), c, h)
<1>1. PICK r : r = Reconcile(p, c)
  OBVIOUS
<1>2. IsPool(p) /\ Clean(p) /\ LiveAged(p, h) /\ LiveCapped(p)
  BY DEF PoolInv
<1>3. Reconciled(r, p, c)
  BY <1>1, <1>2, ReconcileFields
<1>4. IsPool(r) /\ Clean(r) /\ Fed(r, c) /\ SameOrphans(r, p)
  BY <1>3 DEF Reconciled
<1>5. OrphansAged(r, h) /\ Cardinality(r.orphans) <= MaxOrphans
  BY <1>4 DEF PoolInv, OrphansAged, SameOrphans
<1>6. LiveAged(r, h)
  BY <1>2, <1>3 DEF Reconciled, LiveAged
<1>7. LiveCapped(r)
  <2>1. r.live \subseteq p.live /\ r.spent \subseteq p.spent
    BY <1>2, <1>3 DEF Reconciled, Clean, SpendsOf
  <2>2. IsFiniteSet(p.live) /\ IsFiniteSet(p.spent)
    <3>1. p.live \in SUBSET Txs
      BY <1>2 DEF IsPool
    <3> QED BY SMTT(30), <1>2, <3>1, MempoolAssumption, FS_Subset, SpendsOfFinite DEF Clean
  <2>3. /\ Cardinality(r.live) <= Cardinality(p.live) /\ Cardinality(r.spent) <= Cardinality(p.spent)
        /\ IsFiniteSet(r.live) /\ IsFiniteSet(r.spent)
    BY <2>1, <2>2, FS_Subset
  <2>4. /\ Cardinality(p.live) \in Nat /\ Cardinality(r.live) \in Nat
        /\ Cardinality(p.spent) \in Nat /\ Cardinality(r.spent) \in Nat
    BY <2>2, <2>3, FS_CardinalityType
  <2>5. Cardinality(p.live) <= MaxTxs /\ Cardinality(p.spent) <= MaxSpent
    BY <1>2 DEF LiveCapped
  <2>6. Cardinality(r.live) <= MaxTxs /\ Cardinality(r.spent) <= MaxSpent
    BY SMTT(30), <2>3, <2>4, <2>5, MempoolAssumption
  <2> QED BY <2>6 DEF LiveCapped
<1> QED BY <1>1, <1>4, <1>5, <1>6, <1>7 DEF PoolInv

=============================================================================
