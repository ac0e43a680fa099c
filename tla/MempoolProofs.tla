---------------------------- MODULE MempoolProofs ----------------------------
(* Theorems about the transaction pool, for any transactions, fees, caps,    *)
(* ages and saved pools: resource normalisation, the inductive invariant and *)
(* what follows from it, and the mining template.                            *)
EXTENDS MempoolOperations

(* The leaves are for Zenon; those that need arithmetic or records name SMTT. *)
USE ZenonT(30)

-----------------------------------------------------------------------------
(* Resource normalisation *)

(* r is p without some transactions and whatever spends their outputs. *)
Thinned(r, p) ==
  /\ IsPool(r) /\ SameOrphans(r, p) /\ r.live \subseteq p.live
  /\ Clean(p) => Clean(r)
  /\ \A c : Fed(p, c) => Fed(r, c)
  /\ DOMAIN p.seen \cap r.live \subseteq DOMAIN r.seen
  /\ DOMAIN r.seen \subseteq DOMAIN p.seen
  /\ \A t \in DOMAIN r.seen : r.seen[t] = p.seen[t]
  /\ DOMAIN p.age = p.live => DOMAIN r.age = r.live
  /\ DOMAIN r.age \subseteq DOMAIN p.age
  /\ \A t \in DOMAIN r.age : r.age[t] = p.age[t]

(* A pool is thinned to itself. *)
LEMMA ThinnedSelf ==
  ASSUME NEW p, IsPool(p)
  PROVE  Thinned(p, p)
BY DEF Thinned, SameOrphans

(* Thinning twice is thinning. *)
LEMMA ThinnedTwice ==
  ASSUME NEW p, NEW q, NEW r, Thinned(q, p), Thinned(r, q)
  PROVE  Thinned(r, p)
<1>1. IsPool(r) /\ SameOrphans(r, p) /\ r.live \subseteq p.live
  BY DEF Thinned, SameOrphans
<1>2. (Clean(p) => Clean(r)) /\ \A c : Fed(p, c) => Fed(r, c)
  BY DEF Thinned
<1>3. /\ DOMAIN p.seen \cap r.live \subseteq DOMAIN r.seen
      /\ DOMAIN r.seen \subseteq DOMAIN p.seen
      /\ \A t \in DOMAIN r.seen : r.seen[t] = p.seen[t]
  BY DEF Thinned
<1>4. /\ DOMAIN p.age = p.live => DOMAIN r.age = r.live
      /\ DOMAIN r.age \subseteq DOMAIN p.age
      /\ \A t \in DOMAIN r.age : r.age[t] = p.age[t]
  BY DEF Thinned
<1> QED BY <1>1, <1>2, <1>3, <1>4 DEF Thinned

(* Dropping a transaction with its descendants thins the pool. *)
LEMMA DropPackageThins ==
  ASSUME NEW p, IsPool(p), NEW roots, roots \subseteq p.live
  PROVE  /\ Thinned(DropLive(Package(roots, p), p), p)
         /\ DropLive(Package(roots, p), p).live \subseteq p.live \ roots
<1>1. PICK S : S = Package(roots, p)
  OBVIOUS
<1>2. PICK r : r = DropLive(S, p)
  OBVIOUS
<1>3. roots \subseteq S /\ S \subseteq p.live /\ \A x \in S : Children(x, p) \subseteq S
  BY <1>1, PackageClosed
<1>4. Dropped(r, p, S)
  BY <1>2, DropLiveFields
<1>5. Clean(p) => Clean(r)
  BY <1>4, DropKeeps
<1>6. ASSUME NEW c, Fed(p, c)
      PROVE  Fed(r, c)
  <2>1. \A x \in S \cap p.live : Children(x, p) \subseteq S
    BY <1>3
  <2> QED BY <1>4, <1>6, <2>1, DropKeepsFed
<1>7. r.live = p.live \ S /\ IsPool(r) /\ SameOrphans(r, p)
  BY <1>4 DEF Dropped
<1>8. /\ DOMAIN p.seen \cap r.live \subseteq DOMAIN r.seen
      /\ DOMAIN r.seen \subseteq DOMAIN p.seen
      /\ \A t \in DOMAIN r.seen : r.seen[t] = p.seen[t]
  BY <1>4 DEF Dropped
<1>9. /\ DOMAIN p.age = p.live => DOMAIN r.age = r.live
      /\ DOMAIN r.age \subseteq DOMAIN p.age
      /\ \A t \in DOMAIN r.age : r.age[t] = p.age[t]
  BY <1>4 DEF Dropped
<1>10. Thinned(r, p)
  BY <1>5, <1>6, <1>7, <1>8, <1>9 DEF Thinned
<1>11. r.live \subseteq p.live \ roots
  BY <1>3, <1>7
<1> QED BY <1>1, <1>2, <1>10, <1>11

(* A pool with nothing live is within its caps. *)
LEMMA NothingIsCapped ==
  ASSUME NEW p, Clean(p), p.live = {}
  PROVE  LiveCapped(p)
<1>1. p.spent = {}
  BY DEF Clean, SpendsOf
<1>2. Cardinality({}) = 0
  BY FS_EmptySet
<1> QED BY SMTT(30), <1>1, <1>2, MempoolAssumption DEF LiveCapped

(* A step of the loop that enforces the caps removes a package, or is over. *)
LEMMA ShrinkStepThins ==
  ASSUME NEW p, IsPool(p), NEW r, r = ShrinkStep(p)
  PROVE  /\ Thinned(r, p)
         /\ Clean(p) => \/ r = p /\ LiveCapped(p)
                        \/ ~LiveCapped(p) /\ Cardinality(r.live) <= Cardinality(p.live) - 1
<1> DEFINE over == Cardinality(p.live) > MaxTxs \/ Cardinality(p.spent) > MaxSpent
<1>1. p.live \in SUBSET Txs /\ IsFiniteSet(p.live) /\ Cardinality(p.live) \in Nat
  BY MempoolAssumption, FS_Subset, FS_CardinalityType DEF IsPool
<1>2. CASE p.live # {} /\ over
  <2>1. PICK v : v = Cheapest(p.live)
    OBVIOUS
  <2>2. v \in p.live
    BY <1>1, <1>2, <2>1, CheapestIn
  <2>3. r = DropLive(Package({v}, p), p)
    BY <1>2, <2>1 DEF ShrinkStep
  <2>4. Thinned(r, p) /\ r.live \subseteq p.live \ {v}
    <3>1. {v} \subseteq p.live
      BY <2>2
    <3> QED BY SMTT(30), <2>3, <3>1, DropPackageThins
  <2>5. Cardinality(r.live) <= Cardinality(p.live) - 1
    <3>1. Cardinality(p.live \ {v}) = Cardinality(p.live) - 1 /\ IsFiniteSet(p.live \ {v})
      BY <1>1, <2>2, FS_RemoveElement
    <3> QED BY SMTT(30), <2>4, <3>1, FS_Subset
  <2>6. Clean(p) => ~LiveCapped(p)
    <3>1. Clean(p) => Cardinality(p.spent) \in Nat
      BY <1>1, SpendsOfFinite, FS_CardinalityType DEF Clean
    <3> QED BY SMTT(30), <1>1, <1>2, <3>1, MempoolAssumption DEF LiveCapped
  <2> QED BY <2>4, <2>5, <2>6
<1>3. CASE ~(p.live # {} /\ over)
  <2>1. r = p
    BY <1>3 DEF ShrinkStep
  <2>2. Clean(p) => LiveCapped(p)
    <3>1. CASE p.live = {}
      BY <3>1, NothingIsCapped
    <3>2. CASE p.live # {}
      <4>1. Clean(p) => Cardinality(p.spent) \in Nat
        BY <1>1, SpendsOfFinite, FS_CardinalityType DEF Clean
      <4> QED BY SMTT(30), <1>1, <1>3, <3>2, <4>1, MempoolAssumption DEF LiveCapped
    <3> QED BY <3>1, <3>2
  <2> QED BY <2>1, <2>2, ThinnedSelf
<1> QED BY <1>2, <1>3

(* The steps of that loop make a run of any length. *)
IsShrinkRun(f, a, N) ==
  f = [k \in 0..N |-> IF k = 0 THEN a ELSE ShrinkStep(f[k - 1])]

(* There is a run of the shrinking loop of any length. *)
LEMMA ShrinkRun ==
  ASSUME NEW a, NEW N \in Nat
  PROVE  \E f : IsShrinkRun(f, a, N)
<1> DEFINE P == {n \in 0..N : \E f : IsShrinkRun(f, a, n)}
<1>1. 0 \in P
  <2>1. PICK f : f = [k \in 0..0 |-> a]
    BY Zenon
  <2>2. IsShrinkRun(f, a, 0)
    BY SMTT(30), <2>1 DEF IsShrinkRun
  <2> QED BY SMTT(30), <2>2
<1>2. ASSUME NEW n \in 1..N, n - 1 \in P
      PROVE  n \in P
  <2>1. PICK f : f = [k \in 0..(n - 1) |-> IF k = 0 THEN a ELSE ShrinkStep(f[k - 1])]
    BY <1>2 DEF IsShrinkRun
  <2>2. PICK g : g = [k \in 0..n |-> IF k = n THEN ShrinkStep(f[n - 1]) ELSE f[k]]
    BY Zenon
  <2>3. \A k \in 0..(n - 1) : g[k] = f[k]
    BY SMTT(30), <2>2
  <2>4. ASSUME NEW k \in 0..n
        PROVE  g[k] = IF k = 0 THEN a ELSE ShrinkStep(g[k - 1])
    <3>1. CASE k = n
      <4>1. g[k] = ShrinkStep(f[n - 1]) /\ f[n - 1] = g[n - 1]
        BY SMTT(30), <2>2, <2>3, <3>1
      <4> QED BY SMTT(30), <3>1, <4>1
    <3>2. CASE k # n
      <4>1. g[k] = f[k] /\ k \in 0..(n - 1)
        BY SMTT(30), <2>3, <3>2
      <4>2. CASE k = 0
        BY <2>1, <4>1, <4>2
      <4>3. CASE k # 0
        <5>1. f[k - 1] = g[k - 1]
          BY SMTT(30), <2>3, <4>1, <4>3
        <5>2. f[k] = ShrinkStep(f[k - 1])
          BY <2>1, <4>1, <4>3
        <5> QED BY <4>1, <4>3, <5>1, <5>2
      <4> QED BY <4>2, <4>3
    <3> QED BY <3>1, <3>2
  <2>5. IsShrinkRun(g, a, n)
    BY <2>2, <2>4 DEF IsShrinkRun
  <2> QED BY SMTT(30), <2>5
<1> HIDE DEF P
<1>3. N \in P
  BY SMTT(30), <1>1, <1>2, Climb
<1> QED BY <1>3 DEF P

(* As many steps as there are live transactions bring the pool to its caps. *)
LEMMA ShrinkThins ==
  ASSUME NEW p, IsPool(p)
  PROVE  Thinned(Shrink(p), p) /\ (Clean(p) => LiveCapped(Shrink(p)))
<1> DEFINE n == Cardinality(p.live)
           run[k \in 0..n] == IF k = 0 THEN p ELSE ShrinkStep(run[k - 1])
<1>1. n \in Nat
  BY MempoolAssumption, FS_Subset, FS_CardinalityType DEF IsPool
<1>2. Shrink(p) = run[n]
  BY DEF Shrink
<1>4. run = [k \in 0..n |-> IF k = 0 THEN p ELSE ShrinkStep(run[k - 1])]
  <2>1. \E f : IsShrinkRun(f, p, n)
    BY <1>1, ShrinkRun
  <2> QED BY <2>1 DEF IsShrinkRun
<1>5. PICK f : f = run
  OBVIOUS
<1> HIDE DEF run
<1>6. f[0] = p /\ \A k \in 1..n : f[k] = ShrinkStep(f[k - 1])
  BY SMTT(30), <1>1, <1>4, <1>5
<1> HIDE DEF n
<1> DEFINE Good(q, k) == /\ Thinned(q, p)
                         /\ Clean(p) => LiveCapped(q) \/ Cardinality(q.live) <= n - k
           P == {k \in 0..n : Good(f[k], k)}
<1>7. 0 \in P
  <2>1. Good(p, 0)
    BY SMTT(30), <1>1, ThinnedSelf DEF n
  <2> QED BY SMTT(30), <1>1, <1>6, <2>1
<1>8. ASSUME NEW k \in 1..n, NEW q, Good(q, k - 1), NEW r, r = ShrinkStep(q)
      PROVE  Good(r, k)
  <2>1. IsPool(q) /\ (Clean(p) => Clean(q))
    BY <1>8 DEF Thinned
  <2>2. /\ Thinned(r, q)
        /\ Clean(q) => \/ r = q /\ LiveCapped(q)
                       \/ ~LiveCapped(q) /\ Cardinality(r.live) <= Cardinality(q.live) - 1
    BY <1>8, <2>1, ShrinkStepThins
  <2>3. Thinned(r, p)
    BY <1>8, <2>2, ThinnedTwice
  <2>4. Cardinality(q.live) \in Nat /\ Cardinality(r.live) \in Nat
    BY <2>1, <2>3, MempoolAssumption, FS_Subset, FS_CardinalityType DEF IsPool, Thinned
  <2>5. ASSUME Clean(p), ~LiveCapped(r)
        PROVE  Cardinality(r.live) <= n - k
    <3>1. ~LiveCapped(q) /\ Cardinality(r.live) <= Cardinality(q.live) - 1
      BY <2>1, <2>2, <2>5
    <3>2. Cardinality(q.live) <= n - (k - 1)
      BY <1>8, <2>5, <3>1
    <3> QED BY SMTT(30), <1>1, <2>4, <3>1, <3>2
  <2> QED BY <2>3, <2>5
<1> HIDE DEF Good
<1>9. \A k \in 1..n : k - 1 \in P => k \in P
  <2> SUFFICES ASSUME NEW k \in 1..n, k - 1 \in P
               PROVE  k \in P
    OBVIOUS
  <2>1. f[k] = ShrinkStep(f[k - 1]) /\ Good(f[k - 1], k - 1)
    BY <1>6
  <2>2. Good(f[k], k)
    BY <1>8, <2>1
  <2> QED BY SMTT(30), <1>1, <2>2
<1> HIDE DEF P
<1>10. n \in P
  BY SMTT(30), <1>1, <1>7, <1>9, Climb
<1>11. PICK r : r = Shrink(p)
  OBVIOUS
<1>12. Good(r, n)
  BY <1>2, <1>5, <1>10, <1>11 DEF P
<1>13. Thinned(r, p)
  BY <1>12 DEF Good
<1>14. ASSUME Clean(p)
       PROVE  LiveCapped(r)
  <2>1. SUFFICES ASSUME ~LiveCapped(r)
                 PROVE  FALSE
    OBVIOUS
  <2>2. Cardinality(r.live) <= n - n
    BY <1>12, <1>14, <2>1 DEF Good
  <2>3. IsFiniteSet(r.live) /\ Cardinality(r.live) \in Nat /\ Clean(r)
    BY <1>13, <1>14, MempoolAssumption, FS_Subset, FS_CardinalityType DEF IsPool, Thinned
  <2>4. Cardinality(r.live) = 0
    BY SMTT(30), <1>1, <2>2, <2>3
  <2>5. r.live = {}
    BY <2>3, <2>4, FS_EmptySet
  <2> QED BY <2>1, <2>3, <2>5, NothingIsCapped
<1> QED BY <1>11, <1>13, <1>14
(* Ages are there for what is pooled, the recorded ones kept. *)
Reseeded(a, p, h) ==
  /\ IsPool(a) /\ a.live = p.live /\ a.spent = p.spent /\ a.seen = p.seen
  /\ a.orphans = p.orphans
  /\ DOMAIN a.age = p.live /\ DOMAIN a.orphanAge = p.orphans

(* The fields of a pool whose ages were seeded. *)
LEMMA SeededFields ==
  ASSUME NEW p, IsPool(p), NEW h \in Int
  PROVE  Reseeded([p EXCEPT !.age       = Seeded(@, p.live, h),
                            !.orphanAge = Seeded(@, p.orphans, h)], p, h)
<1>1. PICK age, oage : age = Seeded(p.age, p.live, h) /\ oage = Seeded(p.orphanAge, p.orphans, h)
  OBVIOUS
<1> DEFINE a == [p EXCEPT !.age = Seeded(@, p.live, h), !.orphanAge = Seeded(@, p.orphans, h)]
<1>2. a = [live |-> p.live, spent |-> p.spent, seen |-> p.seen, next |-> p.next,
           age |-> age, orphans |-> p.orphans, orphanAge |-> oage]
  <2>1. a = [p EXCEPT !.age = age, !.orphanAge = oage]
    BY <1>1
  <2> HIDE DEF a
  <2> QED BY <2>1 DEF IsPool
<1> HIDE DEF a
<1>3. /\ a.live = p.live /\ a.spent = p.spent /\ a.seen = p.seen /\ a.next = p.next
      /\ a.age = age /\ a.orphans = p.orphans /\ a.orphanAge = oage
  BY <1>2
<1>4. DOMAIN age = p.live /\ \A t \in p.live : age[t] \in Int
  BY <1>1 DEF Seeded, IsPool
<1>5. DOMAIN oage = p.orphans /\ \A t \in p.orphans : oage[t] \in Int
  BY <1>1 DEF Seeded, IsPool
<1>6. IsPool(a)
  BY <1>2, <1>3, <1>4, <1>5 DEF IsPool
<1>7. Reseeded(a, p, h)
  BY <1>3, <1>4, <1>5, <1>6 DEF Reseeded
<1> QED BY <1>7 DEF a

(* Rebuilding the spent index is no change where it was exact. *)
LEMMA RespentThins ==
  ASSUME NEW p, IsPool(p), NEW r, r = [p EXCEPT !.spent = SpendsOf(p.live)]
  PROVE  Thinned(r, p)
<1>1. PICK spent : spent = SpendsOf(p.live)
  OBVIOUS
<1>2. r = [live |-> p.live, spent |-> spent, seen |-> p.seen, next |-> p.next, age |-> p.age,
           orphans |-> p.orphans, orphanAge |-> p.orphanAge]
  BY <1>1 DEF IsPool
<1>3. /\ r.live = p.live /\ r.spent = spent /\ r.seen = p.seen /\ r.next = p.next
      /\ r.age = p.age /\ r.orphans = p.orphans /\ r.orphanAge = p.orphanAge
  BY SMTT(30), <1>2
<1>4. IsPool(r)
  BY <1>2, <1>3 DEF IsPool
<1>5. (Clean(p) => Clean(r)) /\ \A c : Fed(p, c) => Fed(r, c)
  BY <1>1, <1>3 DEF Clean, Fed
<1> QED BY <1>3, <1>4, <1>5 DEF Thinned, SameOrphans

(* The live part of a normalised pool. *)
LEMMA LiveNormalized ==
  ASSUME NEW a, IsPool(a), DOMAIN a.age = a.live, NEW h \in Int,
         NEW capped, capped = NormalizeLive(a, h)
  PROVE  /\ Thinned(capped, a) /\ (Clean(a) => LiveCapped(capped))
         /\ \A t \in capped.live : h < capped.age[t] + MaxAge
<1>1. PICK fresh : fresh = DropLive(Package(Expired(a.age, h), a), a)
  OBVIOUS
<1>2. Thinned(fresh, a) /\ fresh.live \subseteq a.live \ Expired(a.age, h)
  <2>1. Expired(a.age, h) \subseteq a.live
    BY DEF Expired
  <2> QED BY <1>1, <2>1, DropPackageThins
<1>3. PICK sized : sized = DropLive(Package(Oversized \cap fresh.live, fresh), fresh)
  OBVIOUS
<1>4. Thinned(sized, fresh)
  <2>1. IsPool(fresh) /\ Oversized \cap fresh.live \subseteq fresh.live
    BY <1>2 DEF Thinned
  <2> QED BY <1>3, <2>1, DropPackageThins
<1>5. PICK s : s = [sized EXCEPT !.spent = SpendsOf(sized.live)]
  BY Zenon
<1>6. capped = Shrink(s)
  BY <1>1, <1>3, <1>5 DEF NormalizeLive
<1>7. Thinned(s, sized)
  <2>1. IsPool(sized)
    BY <1>4 DEF Thinned
  <2> QED BY <1>5, <2>1, RespentThins
<1>8. Thinned(capped, s) /\ (Clean(s) => LiveCapped(capped))
  <2>1. IsPool(s)
    BY <1>7 DEF Thinned
  <2> QED BY <1>6, <2>1, ShrinkThins
<1>9. Thinned(capped, fresh) /\ Thinned(s, a)
  BY <1>2, <1>4, <1>7, <1>8, ThinnedTwice
<1>10. Thinned(capped, a)
  BY <1>2, <1>9, ThinnedTwice
<1>11. Clean(a) => LiveCapped(capped)
  BY <1>8, <1>9 DEF Thinned
<1>12. ASSUME NEW t \in capped.live
       PROVE  h < capped.age[t] + MaxAge
  <2>1. t \in fresh.live
    BY <1>9 DEF Thinned
  <2>2. t \in DOMAIN a.age /\ ~(h >= a.age[t] + MaxAge)
    BY <1>2, <2>1 DEF Expired
  <2>3. a.age[t] \in Int
    BY <2>2 DEF IsPool
  <2>4. capped.age[t] = a.age[t]
    BY <1>10 DEF Thinned
  <2>5. MaxAge \in Nat
    BY MempoolAssumption
  <2> QED BY SMTT(30), <2>2, <2>3, <2>4, <2>5
<1> QED BY <1>10, <1>11, <1>12

(* The orphans of a normalised pool. *)
LEMMA OrphansNormalized ==
  ASSUME NEW p, IsPool(p), DOMAIN p.orphanAge = p.orphans, NEW h \in Int,
         NEW r, r = NormalizeOrphans(p, h)
  PROVE  /\ IsPool(r) /\ SameLive(r, p) /\ r.orphans \subseteq p.orphans
         /\ OrphansAged(r, h) /\ Cardinality(r.orphans) <= MaxOrphans
<1>1. PICK S : S = Expired(p.orphanAge, h) \cup (Oversized \cap p.orphans)
  BY Zenon
<1>2. PICK q : q = DropOrphans(S, p)
  OBVIOUS
<1>3. OrphansDropped(q, p, S)
  BY <1>2, DropOrphansFields
<1>4. IsPool(q) /\ SameLive(q, p) /\ q.orphans = p.orphans \ S
  BY <1>3 DEF OrphansDropped
<1>5. OrphansAged(q, h)
  <2>1. DOMAIN q.orphanAge = q.orphans
    BY <1>3 DEF OrphansDropped
  <2>2. ASSUME NEW t \in q.orphans
        PROVE  h < q.orphanAge[t] + MaxAge
    <3>1. t \in DOMAIN p.orphanAge \ S /\ q.orphanAge[t] = p.orphanAge[t]
      BY <1>3, <1>4 DEF OrphansDropped
    <3>2. ~(h >= p.orphanAge[t] + MaxAge) /\ p.orphanAge[t] \in Int
      BY <1>1, <3>1 DEF Expired, IsPool
    <3>3. MaxAge \in Nat
      BY MempoolAssumption
    <3> QED BY SMTT(30), <3>1, <3>2, <3>3
  <2> QED BY <2>1, <2>2 DEF OrphansAged
<1>6. /\ \E T : OrphansDropped(r, q, T)
      /\ Cardinality(r.orphans) <= MaxOrphans
  <2>1. r = PruneOrphans(q)
    BY <1>1, <1>2 DEF NormalizeOrphans
  <2> QED BY <1>4, <2>1, PruneOrphansKeeps
<1>7. PICK T : OrphansDropped(r, q, T)
  BY <1>6
<1>8. OrphansAged(r, h)
  BY <1>4, <1>5, <1>7, DropOrphansKeeps
<1>9. IsPool(r) /\ SameLive(r, p) /\ r.orphans \subseteq p.orphans
  BY <1>4, <1>7 DEF OrphansDropped, SameLive
<1> QED BY <1>6, <1>8, <1>9

(* What normalize_production_mempool_resources_v1 leaves of p. *)
Normalized(r, p, h) ==
  /\ IsPool(r) /\ r.live \subseteq p.live /\ r.orphans \subseteq p.orphans
  /\ Clean(p) => Clean(r) /\ LiveCapped(r)
  /\ \A c : Fed(p, c) => Fed(r, c)
  /\ p.live \subseteq DOMAIN p.seen => LiveAged(r, h)
  /\ \A t \in r.live \cap DOMAIN p.seen : r.seen[t] = p.seen[t]
  /\ OrphansAged(r, h) /\ Cardinality(r.orphans) <= MaxOrphans

(* What the normalisation of a loaded pool yields. *)
LEMMA NormalizeFields ==
  ASSUME NEW p, IsPool(p), NEW h \in Int
  PROVE  Normalized(Normalize(p, h), p, h)
<1> DEFINE aged == [p EXCEPT !.age       = Seeded(@, p.live, h),
                             !.orphanAge = Seeded(@, p.orphans, h)]
           capped == NormalizeLive(aged, h)
           rest == NormalizeOrphans(capped, h)
           r == [rest EXCEPT !.seen = Keep(@, rest.live)]
<1>1. Normalize(p, h) = r
  BY DEF Normalize
<1>2. Reseeded(aged, p, h)
  BY SeededFields
<1> HIDE DEF aged
<1>3. IsPool(aged) /\ DOMAIN aged.age = aged.live
  BY <1>2 DEF Reseeded
<1>4. /\ Thinned(capped, aged) /\ (Clean(aged) => LiveCapped(capped))
      /\ \A t \in capped.live : h < capped.age[t] + MaxAge
  BY <1>3, LiveNormalized
<1> HIDE DEF capped
<1>5. IsPool(capped) /\ DOMAIN capped.orphanAge = capped.orphans
  BY <1>2, <1>4 DEF Thinned, SameOrphans, Reseeded
<1>6. /\ IsPool(rest) /\ SameLive(rest, capped) /\ rest.orphans \subseteq capped.orphans
       /\ OrphansAged(rest, h) /\ Cardinality(rest.orphans) <= MaxOrphans
  BY <1>5, OrphansNormalized
<1> HIDE DEF rest
<1>7. PICK seen : seen = Keep(rest.seen, rest.live)
  OBVIOUS
<1>8. r = [live |-> rest.live, spent |-> rest.spent, seen |-> seen, next |-> rest.next,
            age |-> rest.age, orphans |-> rest.orphans, orphanAge |-> rest.orphanAge]
  BY SMTT(30), <1>6, <1>7 DEF IsPool
<1> HIDE DEF r
<1>9. /\ r.live = rest.live /\ r.spent = rest.spent /\ r.seen = seen /\ r.next = rest.next
       /\ r.age = rest.age /\ r.orphans = rest.orphans /\ r.orphanAge = rest.orphanAge
  BY <1>8
<1>10. /\ DOMAIN seen = DOMAIN rest.seen \cap rest.live
       /\ \A t \in DOMAIN seen : seen[t] = rest.seen[t]
  BY <1>7 DEF Keep
<1>11. IsPool(r)
  BY <1>6, <1>8, <1>9, <1>10 DEF IsPool
<1>12. /\ r.live = capped.live /\ r.spent = capped.spent /\ r.age = capped.age
       /\ DOMAIN r.seen = DOMAIN capped.seen \cap r.live
       /\ \A t \in DOMAIN r.seen : r.seen[t] = capped.seen[t]
  BY <1>6, <1>9, <1>10 DEF SameLive
<1>13. r.live \subseteq p.live /\ r.orphans \subseteq p.orphans
  BY <1>2, <1>4, <1>6, <1>9, <1>12 DEF Thinned, Reseeded, SameOrphans
<1>14. /\ Clean(p) => Clean(r) /\ LiveCapped(r)
       /\ \A c : Fed(p, c) => Fed(r, c)
  <2>1. (Clean(p) => Clean(aged)) /\ \A c : Fed(p, c) => Fed(aged, c)
    BY <1>2 DEF Reseeded, Clean, Fed
  <2>2. (Clean(aged) => Clean(capped)) /\ \A c : Fed(aged, c) => Fed(capped, c)
    BY <1>4 DEF Thinned
  <2>3. /\ Clean(capped) => Clean(r)
        /\ LiveCapped(capped) => LiveCapped(r)
        /\ \A c : Fed(capped, c) => Fed(r, c)
    BY <1>12 DEF Clean, Fed, LiveCapped
  <2> QED BY <1>4, <2>1, <2>2, <2>3
<1>15. /\ \A t \in r.live \cap DOMAIN p.seen : r.seen[t] = p.seen[t]
       /\ p.live \subseteq DOMAIN p.seen => DOMAIN r.seen = r.live
  BY <1>2, <1>4, <1>12, <1>13 DEF Thinned, Reseeded
<1>16. p.live \subseteq DOMAIN p.seen => LiveAged(r, h)
  <2>1. DOMAIN capped.age = capped.live
    BY <1>2, <1>4 DEF Thinned, Reseeded
  <2> QED BY <1>4, <1>12, <1>15, <2>1 DEF LiveAged
<1>17. OrphansAged(r, h) /\ Cardinality(r.orphans) <= MaxOrphans
  BY <1>6, <1>9 DEF OrphansAged
<1>18. Normalized(r, p, h)
  BY <1>11, <1>13, <1>14, <1>15, <1>16, <1>17 DEF Normalized
<1> QED BY <1>1, <1>18

(* A pool that is consistent with its chain is brought to its limits. *)
LEMMA NormalizeKeeps ==
  ASSUME NEW p, IsPool(p), NEW c, NEW h \in Int, Clean(p), Fed(p, c),
         p.live \subseteq DOMAIN p.seen
  PROVE  PoolInv(Normalize(p, h), c, h)
<1>1. PICK r : r = Normalize(p, h)
  OBVIOUS
<1>2. Normalized(r, p, h)
  BY <1>1, NormalizeFields
<1>3. PoolInv(r, c, h)
  BY <1>2 DEF Normalized, PoolInv
<1> QED BY <1>1, <1>3

(* A block: whatever chain is selected, and whatever the height. *)
LEMMA BlockKeeps ==
  ASSUME NEW p, IsPool(p), NEW c, NEW h \in Int
  PROVE  PoolInv(Normalize(Reconcile(p, c), h), c, h)
<1>1. PICK q : q = Reconcile(p, c)
  OBVIOUS
<1>2. Reconciled(q, p, c)
  BY <1>1, ReconcileFields
<1>3. IsPool(q) /\ Clean(q) /\ Fed(q, c) /\ q.live \subseteq DOMAIN q.seen
  BY <1>2 DEF Reconciled
<1> QED BY <1>1, <1>3, NormalizeKeeps

(* The pool a node starts with, whatever pool was on disk. *)
LEMMA StartupKeeps ==
  ASSUME NEW p, IsPool(p), NEW c, NEW h \in Int
  PROVE  PoolInv(StartupPool(p, c, h), c, h)
<1>1. PICK n, d, f : n = Normalize(p, h) /\ d = DropLive(BadFee, n) /\ f = DropOrphans(BadFee, d)
  OBVIOUS
<1>2. IsPool(n)
  BY <1>1, NormalizeFields DEF Normalized
<1>3. IsPool(d)
  BY <1>1, <1>2, DropLiveFields DEF Dropped
<1>4. IsPool(f)
  BY <1>1, <1>3, DropOrphansFields DEF OrphansDropped
<1>5. StartupPool(p, c, h) = Normalize(Reconcile(f, c), h)
  BY <1>1 DEF StartupPool
<1> QED BY <1>4, <1>5, BlockKeeps

-----------------------------------------------------------------------------
(* The invariant *)

(* What the chain's transactions spend exists. *)
Backed(c) == SpendsOf(c) \subseteq Coins \cup OutputsOf(c)

(* A copy of the chain state that a restart can read. *)
IsCopy(s) == IsPool(s.pool) /\ Backed(s.conf) /\ s.height \in Int

(* The pool is sound on this chain, and every copy saved or waiting to be   *)
(* saved can be loaded.                                                     *)
MempoolInv ==
  /\ PoolInv(pool, conf, height) /\ Backed(conf) /\ height \in Int
  /\ IsCopy(saved) /\ \A w \in late : IsCopy(w.state)

(* The pool of a fresh node is a pool. *)
LEMMA EmptyIsPool == IsPool(EmptyPool)
<1>1. PICK none : none = <<>>
  OBVIOUS
<1>2. DOMAIN none = {}
  BY SMTT(30), <1>1
<1>3. PICK e : e = EmptyPool
  OBVIOUS
<1>4. e = [live |-> {}, spent |-> {}, seen |-> none, next |-> 0, age |-> none,
           orphans |-> {}, orphanAge |-> none]
  BY <1>1, <1>3 DEF EmptyPool
<1>5. /\ e.live = {} /\ e.spent = {} /\ e.seen = none /\ e.next = 0 /\ e.age = none
      /\ e.orphans = {} /\ e.orphanAge = none
  BY <1>4
<1>6. IsPool(e)
  BY SMTT(30), <1>2, <1>4, <1>5 DEF IsPool
<1> QED BY <1>3, <1>6

(* An empty chain is backed. *)
LEMMA NothingBacked == Backed({})
BY DEF Backed, SpendsOf

(* A copy of the present state can be loaded. *)
LEMMA SnapshotIsCopy ==
  ASSUME NEW p, IsPool(p), NEW c, Backed(c), NEW m, NEW h \in Int
  PROVE  IsCopy(Snapshot(p, c, m, h))
<1>1. PICK s : s = Snapshot(p, c, m, h)
  OBVIOUS
<1>2. CASE Restarts
  <2>1. s.pool = p /\ s.conf = c /\ s.height = h
    BY <1>1, <1>2 DEF Snapshot
  <2> QED BY <1>1, <2>1 DEF IsCopy
<1>3. CASE ~Restarts
  <2>1. PICK e : e = EmptyPool
    OBVIOUS
  <2>2. s = [pool |-> e, conf |-> {}, mined |-> {}, height |-> 0]
    BY <1>1, <1>3, <2>1 DEF Snapshot
  <2>3. s.pool = e /\ s.conf = {} /\ s.height = 0
    BY <2>2
  <2>4. IsPool(e)
    BY <2>1, EmptyIsPool
  <2> QED BY SMTT(30), <1>1, <2>3, <2>4, NothingBacked DEF IsCopy
<1> QED BY <1>2, <1>3

(* The invariant holds initially. *)
LEMMA InvInit == Init => MempoolInv
<1> SUFFICES ASSUME Init
             PROVE  MempoolInv
  OBVIOUS
<1>1. PICK p \in {EmptyPool} \cup OldPools :
        saved = Snapshot(p, {}, {}, 0) /\ pool = StartupPool(p, {}, 0)
  BY DEF Init
<1>2. IsPool(p)
  BY EmptyIsPool, MempoolAssumption
<1>3. conf = {} /\ height = 0 /\ late = {}
  BY DEF Init
<1>4. PoolInv(StartupPool(p, {}, 0), {}, 0)
  BY SMTT(30), <1>2, StartupKeeps
<1>5. IsCopy(Snapshot(p, {}, {}, 0))
  BY SMTT(30), <1>2, NothingBacked, SnapshotIsCopy
<1> QED BY SMTT(30), <1>1, <1>3, <1>4, <1>5, NothingBacked DEF MempoolInv

(* What is saved, now or later, is what was saved or the new state. *)
Saves ==
  /\ saved' = saved \/ saved' = Snapshot(pool', conf', mined', height')
  /\ \A w \in late' : w \in late \/ w.state = Snapshot(pool', conf', mined', height')

(* Saving now, later or never keeps every copy loadable. *)
LEMMA SavesKeep ==
  ASSUME MempoolInv, Saves, PoolInv(pool', conf', height'), Backed(conf'), height' \in Int
  PROVE  MempoolInv'
<1>1. IsPool(pool')
  BY DEF PoolInv
<1>2. IsCopy(Snapshot(pool', conf', mined', height'))
  BY <1>1, SnapshotIsCopy
<1>3. IsCopy(saved')
  BY <1>2 DEF Saves, MempoolInv
<1>4. \A w \in late' : IsCopy(w.state)
  BY <1>2 DEF Saves, MempoolInv
<1> QED BY <1>3, <1>4 DEF MempoolInv

(* A transaction submitted or received. *)
LEMMA SubmitStep ==
  ASSUME MempoolInv, NEW t \in Txs, NEW route, Submit(t, route)
  PROVE  /\ Saves /\ UNCHANGED <<conf, height>>
         /\ PoolInv(pool', conf, height) /\ Stable(pool', pool, {t})
<1>1. PICK r : r = Accept(t, pool, conf, height) /\ Deliver(t, route, r)
  BY DEF Submit
<1>2. PoolInv(r.pool, conf, height) /\ Stable(r.pool, pool, {t})
  BY <1>1, AcceptKeeps DEF MempoolInv
<1>3. pool' = r.pool /\ UNCHANGED <<conf, mined, height>>
  BY <1>1 DEF Deliver
<1>4. NoSave \/ SaveLater({t}) \/ SaveLater({}) \/ SaveAndRelay(t)
  BY <1>1 DEF Deliver
<1>5. Saves
  <2>1. PICK s : s = Snapshot(pool', conf', mined', height')
    OBVIOUS
  <2>2. ASSUME NEW txs, SaveLater(txs)
        PROVE  Saves
    <3>1. late' = late \cup {[state |-> s, txs |-> txs]} /\ saved' = saved
      BY <2>1, <2>2 DEF SaveLater
    <3>2. \A w \in late' : w \in late \/ w.state = s
      BY SMTT(30), <3>1
    <3> QED BY <2>1, <3>1, <3>2 DEF Saves
  <2>3. CASE NoSave
    BY <2>3 DEF NoSave, Saves
  <2>4. CASE SaveAndRelay(t)
    BY <2>4 DEF SaveAndRelay, Saves
  <2> QED BY <1>4, <2>2, <2>3, <2>4
<1> QED BY <1>2, <1>3, <1>5
(* r numbers the transactions it shares with p as p does. *)
SameNumbers(r, p) == \A t \in p.live \cap r.live : r.seen[t] = p.seen[t]

(* A block, whatever chain it makes the selected one. *)
LEMMA BlockStep ==
  ASSUME MempoolInv, NEW x, Block(x)
  PROVE  /\ Saves /\ PoolInv(pool', conf', height') /\ Backed(conf') /\ height' \in Int
         /\ SameNumbers(pool', pool)
<1>1. PICK c \in Chains(x) \cup {conf}, h \in {height, height + 1} :
        conf' = c /\ height' = h /\ pool' = Normalize(Reconcile(pool, c), h)
  BY DEF Block
<1>2. IsPool(pool) /\ Backed(conf) /\ height \in Int /\ DOMAIN pool.seen = pool.live
  BY DEF MempoolInv, PoolInv, LiveAged
<1>3. h \in Int
  BY SMTT(30), <1>2
<1>4. Backed(c)
  BY <1>2 DEF Chains, Applicable, Backed
<1>5. PICK q, r : q = Reconcile(pool, c) /\ r = Normalize(q, h)
  OBVIOUS
<1>6. PoolInv(r, c, h)
  BY <1>2, <1>3, <1>5, BlockKeeps
<1>7. SameNumbers(r, pool)
  <2>1. Reconciled(q, pool, c)
    BY <1>2, <1>5, ReconcileFields
  <2>2. IsPool(q)
    BY <2>1 DEF Reconciled
  <2>3. Normalized(r, q, h)
    BY <1>3, <1>5, <2>2, NormalizeFields
  <2>4. \A t \in r.live : t \in q.live /\ t \in DOMAIN q.seen /\ r.seen[t] = q.seen[t]
    BY <2>1, <2>3 DEF Reconciled, Normalized
  <2>5. \A t \in q.live \cap pool.live : q.seen[t] = pool.seen[t]
    BY <1>2, <2>1 DEF Reconciled
  <2> QED BY <2>4, <2>5 DEF SameNumbers
<1>8. Saves
  BY DEF Block, Saves
<1> QED BY <1>1, <1>3, <1>4, <1>5, <1>6, <1>7, <1>8

(* A template read. *)
LEMMA TemplateRead ==
  ASSUME MempoolInv, Template
  PROVE  /\ Saves /\ UNCHANGED <<conf, height>>
         /\ PoolInv(pool', conf, height) /\ SameNumbers(pool', pool)
<1>1. /\ IsPool(pool) /\ Clean(pool) /\ Fed(pool, conf) /\ DOMAIN pool.seen = pool.live
      /\ height \in Int
  BY DEF MempoolInv, PoolInv, LiveAged
<1>2. PICK r : r = Normalize(pool, height)
  OBVIOUS
<1>3. pool' = r /\ UNCHANGED <<conf, height, saved, late>>
  BY <1>2 DEF Template, NoSave
<1>4. PoolInv(r, conf, height)
  BY <1>1, <1>2, NormalizeKeeps
<1>5. SameNumbers(r, pool)
  <2>1. Normalized(r, pool, height)
    BY <1>1, <1>2, NormalizeFields
  <2> QED BY <1>1, <2>1 DEF Normalized, SameNumbers
<1> QED BY <1>3, <1>4, <1>5 DEF Saves

(* The reconcile route. *)
LEMMA SanitizeStep ==
  ASSUME MempoolInv, Sanitize
  PROVE  /\ Saves /\ UNCHANGED <<conf, height>>
         /\ PoolInv(pool', conf, height) /\ SameNumbers(pool', pool)
<1>1. IsPool(pool) /\ PoolInv(pool, conf, height) /\ DOMAIN pool.seen = pool.live /\ height \in Int
  BY DEF MempoolInv, PoolInv, LiveAged
<1>2. PICK r : r = Reconcile(pool, conf)
  OBVIOUS
<1>3. pool' = r /\ UNCHANGED <<conf, height>>
  BY <1>2 DEF Sanitize
<1>4. PoolInv(r, conf, height)
  BY <1>1, <1>2, ReconcileKeeps
<1>5. SameNumbers(r, pool)
  <2>1. Reconciled(r, pool, conf)
    BY <1>1, <1>2, ReconcileFields
  <2> QED BY <1>1, <2>1 DEF Reconciled, SameNumbers
<1>6. Saves
  <2>1. PICK s : s = Snapshot(pool', conf', mined', height')
    OBVIOUS
  <2>2. late' = late \cup {[state |-> s, txs |-> {}]} /\ saved' = saved
    BY <2>1 DEF Sanitize, SaveLater
  <2>3. \A w \in late' : w \in late \/ w.state = s
    BY SMTT(30), <2>2
  <2> QED BY <2>1, <2>2, <2>3 DEF Saves
<1> QED BY <1>3, <1>4, <1>5, <1>6

(* A restart, whatever copy was the last to be saved and whichever of the    *)
(* files with the ages can be read.                                          *)
LEMMA RestartStep ==
  ASSUME MempoolInv, Restart
  PROVE  MempoolInv'
<1>1. PICK a \in {saved.pool.age, <<>>}, o \in {saved.pool.orphanAge, <<>>} :
        \E p \in {EmptyPool, [saved.pool EXCEPT !.age = a, !.orphanAge = o]} :
          pool' = StartupPool(p, saved.conf, saved.height)
  BY DEF Restart
<1>2. PICK p \in {EmptyPool, [saved.pool EXCEPT !.age = a, !.orphanAge = o]} :
        pool' = StartupPool(p, saved.conf, saved.height)
  BY <1>1
<1>3. PICK q : q = saved.pool
  OBVIOUS
<1>4. IsPool(q) /\ Backed(saved.conf) /\ saved.height \in Int /\ IsCopy(saved)
  BY <1>3 DEF MempoolInv, IsCopy
<1>5. IsPool([q EXCEPT !.age = a, !.orphanAge = o])
  <2>1. PICK none : none = <<>>
    OBVIOUS
  <2>2. DOMAIN none = {}
    BY SMTT(30), <2>1
  <2>3. (a = q.age \/ a = none) /\ (o = q.orphanAge \/ o = none)
    BY <1>3, <2>1
  <2>4. /\ \A t \in DOMAIN a : a[t] \in Int
        /\ \A t \in DOMAIN o : o[t] \in Int
    BY <1>4, <2>2, <2>3 DEF IsPool
  <2>5. PICK r : r = [q EXCEPT !.age = a, !.orphanAge = o]
    OBVIOUS
  <2>6. r = [live |-> q.live, spent |-> q.spent, seen |-> q.seen, next |-> q.next, age |-> a,
             orphans |-> q.orphans, orphanAge |-> o]
    BY <1>4, <2>5 DEF IsPool
  <2>7. /\ r.live = q.live /\ r.spent = q.spent /\ r.seen = q.seen /\ r.next = q.next
        /\ r.age = a /\ r.orphans = q.orphans /\ r.orphanAge = o
    BY <2>6
  <2>8. IsPool(r)
    BY <1>4, <2>4, <2>6, <2>7 DEF IsPool
  <2> QED BY <2>5, <2>8
<1>6. IsPool(p)
  BY <1>2, <1>3, <1>5, EmptyIsPool
<1>7. PoolInv(pool', saved.conf, saved.height)
  BY <1>2, <1>4, <1>6, StartupKeeps
<1>8. conf' = saved.conf /\ height' = saved.height /\ late' = {}
  BY DEF Restart
<1>9. IsCopy(Snapshot(pool', conf', mined', height'))
  <2>1. IsPool(pool')
    BY <1>7 DEF PoolInv
  <2> QED BY <1>4, <1>8, <2>1, SnapshotIsCopy
<1>10. IsCopy(saved')
  BY <1>4, <1>9 DEF Restart
<1> QED BY <1>4, <1>7, <1>8, <1>10 DEF MempoolInv

(* A save that was delayed preserves the invariant. *)
LEMMA LateSaveStep ==
  ASSUME MempoolInv, NEW w \in late, LateSave(w)
  PROVE  MempoolInv' /\ UNCHANGED pool
<1>1. late' \subseteq late /\ UNCHANGED <<conf, height, pool>>
  BY DEF LateSave
<1>2. saved' = w.state \/ saved' = saved
  BY DEF LateSave
<1>3. IsCopy(saved') /\ \A v \in late' : IsCopy(v.state)
  BY <1>1, <1>2 DEF MempoolInv
<1> QED BY <1>1, <1>3 DEF MempoolInv

(* Every step preserves the invariant. *)
LEMMA InvNext == MempoolInv /\ [Next]_vars => MempoolInv'
<1> SUFFICES ASSUME MempoolInv, [Next]_vars
             PROVE  MempoolInv'
  OBVIOUS
<1>1. ASSUME NEW t \in Txs, NEW route \in {"rpc", "p2p"}, Submit(t, route)
      PROVE  MempoolInv'
  <2>1. Saves /\ UNCHANGED <<conf, height>> /\ PoolInv(pool', conf, height)
    BY <1>1, SubmitStep
  <2>2. PoolInv(pool', conf', height') /\ Backed(conf') /\ height' \in Int
    BY <2>1 DEF MempoolInv
  <2> QED BY <2>1, <2>2, SavesKeep
<1>2. ASSUME NEW x \in SUBSET Txs, Block(x)
      PROVE  MempoolInv'
  BY <1>2, BlockStep, SavesKeep
<1>3. CASE Template
  <2>1. Saves /\ UNCHANGED <<conf, height>> /\ PoolInv(pool', conf, height)
    BY <1>3, TemplateRead
  <2>2. PoolInv(pool', conf', height') /\ Backed(conf') /\ height' \in Int
    BY <2>1 DEF MempoolInv
  <2> QED BY <2>1, <2>2, SavesKeep
<1>4. CASE Sanitize
  <2>1. Saves /\ UNCHANGED <<conf, height>> /\ PoolInv(pool', conf, height)
    BY <1>4, SanitizeStep
  <2>2. PoolInv(pool', conf', height') /\ Backed(conf') /\ height' \in Int
    BY <2>1 DEF MempoolInv
  <2> QED BY <2>1, <2>2, SavesKeep
<1>5. ASSUME NEW w \in late, LateSave(w)
      PROVE  MempoolInv'
  BY <1>5, LateSaveStep
<1>6. CASE Restart
  BY <1>6, RestartStep
<1>7. CASE UNCHANGED vars
  BY <1>7 DEF vars, MempoolInv
<1> QED BY <1>1, <1>2, <1>3, <1>4, <1>5, <1>6, <1>7 DEF Next

(* At all times the pool is consistent with the chain and within its limits, *)
(* and whatever a restart may find saved can be brought there.               *)
THEOREM Invariance == Spec => []MempoolInv
BY InvInit, InvNext, PTL DEF Spec

(* The spent index is the inputs of the live transactions, no two of which   *)
(* conflict: mempool_needs_reconcile never finds anything to repair.         *)
THEOREM SpentIndexIsExact == Spec => []SpentIndexExact
<1>1. MempoolInv => SpentIndexExact
  BY DEF MempoolInv, PoolInv, Clean, SpentIndexExact, NeedsReconcile
<1> QED BY <1>1, Invariance, PTL

(* No child is left in the pool without the parent whose output it spends,   *)
(* whatever is evicted, expires, is confirmed or is reorganised away.        *)
THEOREM InputsAlwaysExist == Spec => []InputsExist
<1>1. MempoolInv => InputsExist
  <2> SUFFICES ASSUME MempoolInv
               PROVE  InputsExist
    OBVIOUS
  <2>1. Fed(pool, conf)
    BY DEF MempoolInv, PoolInv
  <2>2. \A t \in pool.live : Spends(t) \subseteq Utxo(conf) \cup OutputsOf(pool.live)
    BY <2>1 DEF Fed, SpendsOf
  <2>3. \A t \in pool.live : MissingInputs(t, pool, conf) = {}
    BY <2>2 DEF MissingInputs, Exists
  <2> QED BY <2>1, <2>3 DEF InputsExist, Fed
<1> QED BY <1>1, Invariance, PTL

(* The three caps hold whatever is submitted, promoted or found on disk. *)
THEOREM CapsHold == Spec => []WithinCaps
<1>1. MempoolInv => WithinCaps
  BY DEF MempoolInv, PoolInv, LiveCapped, WithinCaps
<1> QED BY <1>1, Invariance, PTL

(* Nothing is pooled at its deadline or later, whichever chain is selected   *)
(* and whichever copy a restart reads.                                       *)
THEOREM NothingIsOverdue == Spec => []NothingOutlives
<1>1. MempoolInv => NothingOutlives
  BY DEF MempoolInv, PoolInv, LiveAged, OrphansAged, NothingOutlives
<1> QED BY <1>1, Invariance, PTL

(* A step other than a restart keeps the canonical order of what it leaves   *)
(* in the pool.                                                              *)
THEOREM OrderIsStable == Spec => OrderStable
<1> DEFINE Kept == \A a, b \in pool.live \cap pool'.live :
                     SeenBefore(pool, a, b) => SeenBefore(pool', a, b)
<1>1. ASSUME MempoolInv, MempoolInv', SameNumbers(pool', pool)
      PROVE  Kept
  <2>1. DOMAIN pool.seen = pool.live
    BY <1>1 DEF MempoolInv, PoolInv, LiveAged
  <2>2. DOMAIN pool'.seen = pool'.live
    BY <1>1 DEF MempoolInv, PoolInv, LiveAged
  <2>3. \A t \in pool.live \cap pool'.live : pool'.seen[t] = pool.seen[t]
    BY <1>1 DEF SameNumbers
  <2> QED BY <2>1, <2>2, <2>3 DEF SeenBefore
<1>2. MempoolInv /\ MempoolInv' /\ [Next]_vars => [Restart \/ Kept]_vars
  <2> SUFFICES ASSUME MempoolInv, MempoolInv', Next, ~Restart
               PROVE  SameNumbers(pool', pool)
    BY <1>1
  <2>1. ASSUME NEW t \in Txs, NEW route \in {"rpc", "p2p"}, Submit(t, route)
        PROVE  SameNumbers(pool', pool)
    BY <2>1, SubmitStep DEF Stable, SameNumbers
  <2>2. ASSUME NEW x \in SUBSET Txs, Block(x)
        PROVE  SameNumbers(pool', pool)
    BY <2>2, BlockStep
  <2>3. CASE Template
    BY <2>3, TemplateRead
  <2>4. CASE Sanitize
    BY <2>4, SanitizeStep
  <2>5. ASSUME NEW w \in late, LateSave(w)
        PROVE  SameNumbers(pool', pool)
    <3>1. pool' = pool
      BY <2>5, LateSaveStep
    <3> QED BY <3>1 DEF SameNumbers
  <2> QED BY <2>1, <2>2, <2>3, <2>4, <2>5 DEF Next
<1> QED BY <1>2, Invariance, PTL DEF Spec, OrderStable

-----------------------------------------------------------------------------
(* The mining template *)

Before(order, i) == {order[j] : j \in 1..(i - 1)}

(* A template so far: parents come first, nothing comes twice. *)
IsOrder(order, p) ==
  /\ order \in Seq(p.live)
  /\ \A i \in 1..Len(order) : /\ order[i] \notin Before(order, i)
                              /\ Parents(order[i], p) \subseteq Before(order, i)

(* Ids being hashes, some transaction of those left has no parent left. *)
LEMMA SomeReady ==
  ASSUME NEW p, IsPool(p), NEW D, p.live \ D # {}
  PROVE  \E t \in p.live \ D : Parents(t, p) \subseteq D
<1>1. PICK rank \in [Txs -> 0..Cardinality(Txs)] :
        \A t \in Txs : \A op \in Spends(t) : op[1] \in Txs => rank[op[1]] < rank[t]
  BY MempoolAssumption
<1>2. Cardinality(Txs) \in Nat
  BY MempoolAssumption, FS_CardinalityType
<1>3. \A t \in Txs : rank[t] \in Nat
  BY SMTT(30), <1>1, <1>2
<1>4. p.live \subseteq Txs
  BY DEF IsPool
<1> DEFINE R == {rank[t] : t \in p.live \ D}
<1>5. R \in SUBSET Nat /\ R # {}
  BY <1>3, <1>4
<1>6. \E m \in R : \A n \in R : m <= n
  <2> HIDE DEF R
  <2> QED BY <1>5, LeastNatural
<1>7. PICK t \in p.live \ D : \A u \in p.live \ D : rank[t] <= rank[u]
  BY <1>6
<1>8. ASSUME NEW q \in Parents(t, p)
      PROVE  q \in D
  <2>1. q \in p.live /\ \E op \in Spends(t) : op[1] = q
    BY DEF Parents
  <2>2. t \in Txs /\ q \in Txs
    BY <1>4, <2>1
  <2>3. rank[q] < rank[t]
    BY <1>1, <2>1, <2>2
  <2>4. ~(rank[t] <= rank[q])
    BY SMTT(30), <1>3, <2>2, <2>3
  <2> QED BY <1>7, <2>1, <2>4
<1> QED BY <1>8

(* A template so far grows by a transaction whose parents are in it. *)
LEMMA AppendKeeps ==
  ASSUME NEW p, NEW d, IsOrder(d, p), NEW x \in p.live, x \notin Range(d),
         Parents(x, p) \subseteq Range(d)
  PROVE  IsOrder(Append(d, x), p) /\ Range(Append(d, x)) = Range(d) \cup {x}
<1> DEFINE r == Append(d, x)
<1>1. d \in Seq(p.live) /\ Len(d) \in Nat /\ DOMAIN d = 1..Len(d)
  BY SMTT(30) DEF IsOrder
<1>2. /\ r \in Seq(p.live) /\ Len(r) = Len(d) + 1 /\ DOMAIN r = 1..(Len(d) + 1)
      /\ r[Len(d) + 1] = x /\ \A i \in 1..Len(d) : r[i] = d[i]
  BY SMTT(30), <1>1
<1> HIDE DEF r
<1>3. Range(d) = {d[j] : j \in 1..Len(d)}
  BY <1>1 DEF Range
<1>4. Range(r) = Range(d) \cup {x}
  <2>1. 1..(Len(d) + 1) = (1..Len(d)) \cup {Len(d) + 1}
    BY SMTT(30), <1>1
  <2>2. Range(r) = {r[j] : j \in (1..Len(d)) \cup {Len(d) + 1}}
    BY <1>2, <2>1 DEF Range
  <2> QED BY SMTT(30), <1>2, <1>3, <2>2
<1>5. \A i \in 1..(Len(d) + 1) : Before(r, i) = Before(d, i)
  <2> SUFFICES ASSUME NEW i \in 1..(Len(d) + 1)
               PROVE  Before(r, i) = Before(d, i)
    OBVIOUS
  <2>1. \A j \in 1..(i - 1) : j \in 1..Len(d)
    BY SMTT(30), <1>1
  <2>2. \A j \in 1..(i - 1) : r[j] = d[j]
    BY <1>2, <2>1
  <2> QED BY <2>2 DEF Before
<1>6. Before(d, Len(d) + 1) = Range(d)
  <2>1. 1..(Len(d) + 1 - 1) = 1..Len(d)
    BY SMTT(30), <1>1
  <2> QED BY SMTT(30), <1>3, <2>1 DEF Before
<1>7. ASSUME NEW i \in 1..Len(r)
      PROVE  r[i] \notin Before(r, i) /\ Parents(r[i], p) \subseteq Before(r, i)
  <2>1. CASE i = Len(d) + 1
    <3>1. r[i] = x /\ Before(r, i) = Range(d)
      BY <1>1, <1>2, <1>5, <1>6, <2>1
    <3> QED BY <3>1
  <2>2. CASE i # Len(d) + 1
    <3>1. i \in 1..Len(d) /\ i \in 1..(Len(d) + 1)
      BY SMTT(30), <1>1, <1>2, <2>2
    <3>2. r[i] = d[i] /\ Before(r, i) = Before(d, i)
      BY <1>2, <1>5, <3>1
    <3> QED BY <3>1, <3>2 DEF IsOrder
  <2> QED BY <2>1, <2>2
<1>8. IsOrder(r, p)
  BY <1>2, <1>7 DEF IsOrder
<1> QED BY <1>4, <1>8 DEF r

(* A step adds one of the transactions that are left. *)
LEMMA TemplateStepKeeps ==
  ASSUME NEW p, IsPool(p), NEW d, IsOrder(d, p), NEW r, r = TemplateStep(d, p)
  PROVE  /\ IsOrder(r, p)
         /\ \/ Range(r) = p.live
            \/ \E x \in p.live \ Range(d) : Range(r) = Range(d) \cup {x}
<1>1. PICK ready : ready = {t \in p.live \ Range(d) : Parents(t, p) \subseteq Range(d)}
  BY Zenon
<1>2. r = IF ready = {} THEN d ELSE Append(d, FirstSeen(ready, p))
  BY <1>1 DEF TemplateStep
<1>3. Range(d) \subseteq p.live
  BY SMTT(30) DEF IsOrder, Range
<1>4. CASE p.live \ Range(d) = {}
  <2>1. ready = {}
    BY <1>1, <1>4
  <2>2. r = d
    BY <1>2, <2>1
  <2>3. Range(d) = p.live
    BY <1>3, <1>4
  <2> QED BY <2>2, <2>3
<1>5. CASE p.live \ Range(d) # {}
  <2>1. \E t \in p.live \ Range(d) : Parents(t, p) \subseteq Range(d)
    BY <1>5, SomeReady
  <2>2. ready # {}
    BY <1>1, <2>1
  <2>3. PICK x : x = FirstSeen(ready, p)
    OBVIOUS
  <2>4. x \in ready
    <3>1. ready \in SUBSET Txs
      BY <1>1 DEF IsPool
    <3> QED BY <2>2, <2>3, <3>1, FirstSeenIn
  <2>5. x \in p.live \ Range(d) /\ Parents(x, p) \subseteq Range(d)
    BY <1>1, <2>4
  <2>6. r = Append(d, x)
    BY <1>2, <2>2, <2>3
  <2>7. IsOrder(r, p) /\ Range(r) = Range(d) \cup {x}
    <3>1. x \in p.live /\ x \notin Range(d)
      BY <2>5
    <3>2. Parents(x, p) \subseteq Range(d)
      BY <2>5
    <3>3. IsOrder(Append(d, x), p) /\ Range(Append(d, x)) = Range(d) \cup {x}
      BY <3>1, <3>2, AppendKeeps
    <3> QED BY <2>6, <3>3
  <2> QED BY <2>5, <2>7
<1> QED BY <1>4, <1>5

(* The steps make a run of any length. *)
IsTemplateRun(f, a, N, p) ==
  f = [k \in 0..N |-> IF k = 0 THEN a ELSE TemplateStep(f[k - 1], p)]

(* There is a run of the template selection of any length. *)
LEMMA TemplateRun ==
  ASSUME NEW a, NEW N \in Nat, NEW p
  PROVE  \E f : IsTemplateRun(f, a, N, p)
<1> DEFINE P == {n \in 0..N : \E f : IsTemplateRun(f, a, n, p)}
<1>1. 0 \in P
  <2>1. PICK f : f = [k \in 0..0 |-> a]
    BY Zenon
  <2>2. IsTemplateRun(f, a, 0, p)
    BY SMTT(30), <2>1 DEF IsTemplateRun
  <2> QED BY SMTT(30), <2>2
<1>2. ASSUME NEW n \in 1..N, n - 1 \in P
      PROVE  n \in P
  <2>1. PICK f : f = [k \in 0..(n - 1) |-> IF k = 0 THEN a ELSE TemplateStep(f[k - 1], p)]
    BY <1>2 DEF IsTemplateRun
  <2>2. PICK g : g = [k \in 0..n |-> IF k = n THEN TemplateStep(f[n - 1], p) ELSE f[k]]
    BY Zenon
  <2>3. \A k \in 0..(n - 1) : g[k] = f[k]
    BY SMTT(30), <2>2
  <2>4. ASSUME NEW k \in 0..n
        PROVE  g[k] = IF k = 0 THEN a ELSE TemplateStep(g[k - 1], p)
    <3>1. CASE k = n
      <4>1. g[k] = TemplateStep(f[n - 1], p) /\ f[n - 1] = g[n - 1]
        BY SMTT(30), <2>2, <2>3, <3>1
      <4> QED BY SMTT(30), <3>1, <4>1
    <3>2. CASE k # n
      <4>1. g[k] = f[k] /\ k \in 0..(n - 1)
        BY SMTT(30), <2>3, <3>2
      <4>2. CASE k = 0
        BY <2>1, <4>1, <4>2
      <4>3. CASE k # 0
        <5>1. f[k - 1] = g[k - 1]
          BY SMTT(30), <2>3, <4>1, <4>3
        <5>2. f[k] = TemplateStep(f[k - 1], p)
          BY <2>1, <4>1, <4>3
        <5> QED BY <4>1, <4>3, <5>1, <5>2
      <4> QED BY <4>2, <4>3
    <3> QED BY <3>1, <3>2
  <2>5. IsTemplateRun(g, a, n, p)
    BY <2>2, <2>4 DEF IsTemplateRun
  <2> QED BY SMTT(30), <2>5
<1> HIDE DEF P
<1>3. N \in P
  BY SMTT(30), <1>1, <1>2, Climb
<1> QED BY <1>3 DEF P
(* The template holds the whole pool, parents before their children. *)
LEMMA TemplateIsComplete ==
  ASSUME NEW p, IsPool(p)
  PROVE  IsOrder(TemplateOrder(p), p) /\ Range(TemplateOrder(p)) = p.live
<1> DEFINE n == Cardinality(p.live)
           run[k \in 0..n] == IF k = 0 THEN <<>> ELSE TemplateStep(run[k - 1], p)
<1>1. n \in Nat /\ IsFiniteSet(p.live)
  BY MempoolAssumption, FS_Subset, FS_CardinalityType DEF IsPool
<1>2. TemplateOrder(p) = run[n]
  BY DEF TemplateOrder
<1>3. run = [k \in 0..n |-> IF k = 0 THEN <<>> ELSE TemplateStep(run[k - 1], p)]
  <2>1. \E f : IsTemplateRun(f, <<>>, n, p)
    BY <1>1, TemplateRun
  <2> QED BY <2>1 DEF IsTemplateRun
<1>4. PICK f : f = run
  OBVIOUS
<1> HIDE DEF run
<1>5. f[0] = <<>> /\ \A k \in 1..n : f[k] = TemplateStep(f[k - 1], p)
  BY SMTT(30), <1>1, <1>3, <1>4
<1> DEFINE Good(d, k) == /\ IsOrder(d, p)
                         /\ Range(d) = p.live \/ Cardinality(Range(d)) = k
           P == {k \in 0..n : Good(f[k], k)}
<1>6. 0 \in P
  <2>1. IsOrder(<<>>, p)
    BY SMTT(30) DEF IsOrder
  <2>2. Range(<<>>) = {}
    BY SMTT(30) DEF Range
  <2>3. Good(<<>>, 0)
    BY <2>1, <2>2, FS_EmptySet
  <2> HIDE DEF Good, n
  <2>4. Good(f[0], 0)
    BY <1>5, <2>3
  <2>5. 0 \in 0..n
    BY SMTT(30), <1>1
  <2> QED BY <2>4, <2>5
<1>7. ASSUME NEW k \in 1..n, NEW d, Good(d, k - 1), NEW r, r = TemplateStep(d, p)
      PROVE  Good(r, k)
  <2>1. /\ IsOrder(r, p)
        /\ \/ Range(r) = p.live
           \/ \E x \in p.live \ Range(d) : Range(r) = Range(d) \cup {x}
    <3>1. IsOrder(d, p) /\ r = TemplateStep(d, p)
      BY <1>7
    <3> HIDE DEF n
    <3> QED BY SMTT(30), <3>1, TemplateStepKeeps
  <2>2. ASSUME Range(r) # p.live
        PROVE  Cardinality(Range(r)) = k
    <3>1. PICK x \in p.live \ Range(d) : Range(r) = Range(d) \cup {x}
      BY <2>1, <2>2
    <3>2. Range(d) # p.live
      BY <3>1
    <3>3. Cardinality(Range(d)) = k - 1
      BY <1>7, <3>2
    <3>4. Range(d) \subseteq p.live
      BY SMTT(30), <1>7 DEF IsOrder, Range
    <3>5. IsFiniteSet(Range(d)) /\ x \notin Range(d)
      BY <1>1, <3>1, <3>4, FS_Subset
    <3>6. Cardinality(Range(d) \cup {x}) = Cardinality(Range(d)) + 1
      BY <3>5, FS_AddElement
    <3> HIDE DEF n
    <3>7. k - 1 + 1 = k
      BY SMTT(30), <1>1
    <3> QED BY <3>1, <3>3, <3>6, <3>7
  <2> QED BY <2>1, <2>2
<1> HIDE DEF Good
<1>8. \A k \in 1..n : k - 1 \in P => k \in P
  <2> HIDE DEF n
  <2> SUFFICES ASSUME NEW k \in 1..n, k - 1 \in P
               PROVE  k \in P
    OBVIOUS
  <2>1. f[k] = TemplateStep(f[k - 1], p) /\ Good(f[k - 1], k - 1)
    BY <1>5
  <2>2. Good(f[k], k)
    BY <1>7, <2>1
  <2> QED BY SMTT(30), <1>1, <2>2
<1> HIDE DEF P
<1>9. n \in P
  <2> HIDE DEF n
  <2> QED BY SMTT(30), <1>1, <1>6, <1>8, Climb
<1>10. PICK o : o = TemplateOrder(p)
  OBVIOUS
<1>11. IsOrder(o, p) /\ (Range(o) = p.live \/ Cardinality(Range(o)) = n)
  BY <1>2, <1>4, <1>9, <1>10 DEF P, Good
<1>12. Range(o) \subseteq p.live
  BY SMTT(30), <1>11 DEF IsOrder, Range
<1>13. Range(o) = p.live
  BY <1>1, <1>11, <1>12, FS_Subset
<1> QED BY <1>10, <1>11, <1>13

(* A pooled output is unspent on the chain: its transaction is not applied,  *)
(* and what the chain spends exists.                                         *)
LEMMA PooledOutputUnspent ==
  ASSUME NEW c, Backed(c), NEW q \in Txs \ c, NEW op \in Outputs(q)
  PROVE  op \notin SpendsOf(c)
<1>1. op[1] = q
  BY SMTT(30) DEF Outputs
<1>2. op \notin OutputsOf(c)
  <2>1. ASSUME NEW u \in c, op \in Outputs(u)
        PROVE  FALSE
    <3>1. op[1] = u
      BY SMTT(30), <2>1 DEF Outputs
    <3> QED BY <1>1, <3>1
  <2> QED BY <2>1 DEF OutputsOf
<1>3. op \notin Coins
  BY <1>1, MempoolAssumption
<1> QED BY <1>2, <1>3 DEF Backed

(* The transactions of a template can be applied one after the other, and    *)
(* the template holds the whole pool.                                        *)
THEOREM TemplateAlwaysApplies == Spec => []TemplateApplies
<1>1. MempoolInv => TemplateApplies
  <2> SUFFICES ASSUME MempoolInv
               PROVE  TemplateApplies
    OBVIOUS
  <2>1. IsPool(pool) /\ Clean(pool) /\ Fed(pool, conf) /\ Backed(conf)
    BY DEF MempoolInv, PoolInv
  <2>2. PICK order : order = TemplateOrder(pool)
    OBVIOUS
  <2>3. IsOrder(order, pool) /\ Range(order) = pool.live
    BY <2>1, <2>2, TemplateIsComplete
  <2>4. order \in Seq(pool.live) /\ DOMAIN order = 1..Len(order) /\ Len(order) \in Nat
    BY SMTT(30), <2>3 DEF IsOrder
  <2>5. ASSUME NEW i \in DOMAIN order
        PROVE  Spends(order[i]) \subseteq Utxo(conf \cup Before(order, i))
    <3>1. PICK t, B : t = order[i] /\ B = Before(order, i)
      OBVIOUS
    <3>2. t \in pool.live /\ t \notin B /\ Parents(t, pool) \subseteq B
      BY SMTT(30), <2>3, <2>4, <3>1 DEF IsOrder
    <3>3. B \subseteq pool.live
      <4>1. \A j \in 1..(i - 1) : j \in DOMAIN order
        BY SMTT(30), <2>4
      <4>2. \A j \in DOMAIN order : order[j] \in pool.live
        BY SMTT(30), <2>4
      <4> QED BY <3>1, <4>1, <4>2 DEF Before
    <3>4. ASSUME NEW op \in Spends(t)
          PROVE  op \in Coins \cup OutputsOf(conf \cup B) /\ op \notin SpendsOf(conf \cup B)
      <4>1. op \notin SpendsOf(B)
        BY <2>1, <3>2, <3>3 DEF Clean, Conflict, SpendsOf
      <4>2. op \in Utxo(conf) \cup OutputsOf(pool.live)
        BY <2>1, <3>2 DEF Fed, SpendsOf
      <4>3. SpendsOf(conf \cup B) = SpendsOf(conf) \cup SpendsOf(B)
        BY DEF SpendsOf
      <4>4. OutputsOf(conf \cup B) = OutputsOf(conf) \cup OutputsOf(B)
        BY DEF OutputsOf
      <4>5. CASE op \in Utxo(conf)
        BY <4>1, <4>3, <4>4, <4>5 DEF Utxo
      <4>6. CASE op \in OutputsOf(pool.live)
        <5>1. PICK q \in pool.live : op \in Outputs(q)
          BY <4>6 DEF OutputsOf
        <5>2. q \in B
          BY <3>2, <5>1, SpenderIsChild
        <5>3. q \in Txs \ conf
          BY <2>1, <5>1 DEF IsPool, Fed
        <5>4. op \notin SpendsOf(conf)
          BY <2>1, <5>1, <5>3, PooledOutputUnspent
        <5>5. op \in OutputsOf(B)
          BY <5>1, <5>2 DEF OutputsOf
        <5> QED BY <4>1, <4>3, <4>4, <5>4, <5>5
      <4> QED BY <4>2, <4>5, <4>6
    <3>5. Spends(t) \subseteq Utxo(conf \cup B)
      BY <3>4 DEF Utxo
    <3> QED BY <3>1, <3>5
  <2> QED BY <2>2, <2>3, <2>5 DEF TemplateApplies, Before
<1> QED BY <1>1, Invariance, PTL

=============================================================================
