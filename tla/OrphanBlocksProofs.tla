------------------------- MODULE OrphanBlocksProofs -------------------------
(***************************************************************************)
(* Proofs about the orphan pool: its types, that it keeps to its limit,    *)
(* that no index entry outlives its orphan, that every queued orphan is    *)
(* found through the index, that an adoption pass over the whole pool      *)
(* leaves no ready orphan, and that an orphan leaves the pool only for a   *)
(* reason.                                                                 *)
(***************************************************************************)
EXTENDS OrphanBlocks, FiniteSetTheorems, WellFoundedInduction, TLAPS

(* The leaves are for Zenon; those that need arithmetic or records name SMTT. *)
USE ZenonT(30)

(* The types of a pool's fields. *)
LEMMA PoolFields ==
  ASSUME NEW s \in PoolStates
  PROVE  /\ s.dag \subseteq AllBlocks /\ s.orphans \subseteq Blocks
         /\ s.received \in [Blocks -> Times]
         /\ s.missing \in [Blocks -> SUBSET AllBlocks]
         /\ s.index \in [AllBlocks -> SUBSET Blocks]
         /\ s.term \in [AllBlocks -> Entries]
  BY DEF PoolStates

(* NoEntry is an entry and suppresses nothing. *)
LEMMA NoEntryTypes == NoEntry \in Entries /\ NoEntry.state = "none"
  BY SMTT(30), OrphanAssumption DEF NoEntry, Entries, TermStates, Times

(* An entry made now is one, in the state it was made with. *)
LEMMA EntryTypes ==
  ASSUME now \in Times, NEW t \in TermStates, NEW W \in SUBSET Blocks
  PROVE  /\ Entry(t, W) \in Entries /\ Entry(t, W).state = t
         /\ Entry(t, W).required = "no"
  BY DEF Entry, Entries

(* The initial pool. *)
LEMMA EmptyPoolTypes ==
  /\ EmptyPool \in PoolStates
  /\ EmptyPool.orphans = {}
  /\ \A p \in AllBlocks : EmptyPool.index[p] = {}
  /\ \A b \in Blocks : EmptyPool.missing[b] = {}
<1>1. EmptyPool \in PoolStates
  BY SMTT(30), NoEntryTypes, OrphanAssumption DEF EmptyPool, PoolStates, AllBlocks, Times
<1> QED BY <1>1 DEF EmptyPool

-----------------------------------------------------------------------------
(* What each edit of the pool does to its fields. *)

(* The fields of a pool after remove_queued_orphan of a set of orphans. *)
LEMMA RemoveFields ==
  ASSUME NEW s \in PoolStates, NEW S
  PROVE  LET r == RemoveOrphans(s, S) IN
         /\ r \in PoolStates
         /\ r.dag = s.dag /\ r.term = s.term /\ r.orphans = s.orphans \ S
         /\ \A b \in Blocks : r.missing[b] = IF b \in S THEN {} ELSE s.missing[b]
         /\ \A p \in AllBlocks : r.index[p] = s.index[p] \ {o \in S : p \in s.missing[o]}
<1> DEFINE rec == [b \in Blocks |-> IF b \in S THEN 0 ELSE s.received[b]]
           mis == [b \in Blocks |-> IF b \in S THEN {} ELSE s.missing[b]]
           ind == [p \in AllBlocks |-> s.index[p] \ {o \in S : p \in s.missing[o]}]
           orp == s.orphans \ S
<1>1. rec \in [Blocks -> Times] /\ mis \in [Blocks -> SUBSET AllBlocks]
      /\ ind \in [AllBlocks -> SUBSET Blocks] /\ orp \subseteq Blocks
  BY SMTT(30), PoolFields, OrphanAssumption DEF Times
<1>2. RemoveOrphans(s, S) =
        [s EXCEPT !.orphans = orp, !.received = rec, !.missing = mis, !.index = ind]
  BY DEF RemoveOrphans
<1> HIDE DEF rec, mis, ind, orp
<1>3. RemoveOrphans(s, S) \in PoolStates
      /\ RemoveOrphans(s, S).dag = s.dag /\ RemoveOrphans(s, S).term = s.term
      /\ RemoveOrphans(s, S).orphans = orp /\ RemoveOrphans(s, S).missing = mis
      /\ RemoveOrphans(s, S).index = ind
  BY <1>1, <1>2 DEF PoolStates
<1> QED BY <1>3 DEF mis, ind, orp

(* The fields of a pool after index_orphan_block of a set of orphans. *)
LEMMA IndexFields ==
  ASSUME NEW s \in PoolStates, NEW S \in SUBSET Blocks
  PROVE  LET r == IndexOrphans(s, S) IN
         /\ r \in PoolStates
         /\ r.dag = s.dag /\ r.term = s.term /\ r.orphans = s.orphans
         /\ \A b \in Blocks : r.missing[b] = IF b \in S THEN ActiveMissing(s, b)
                                             ELSE s.missing[b]
         /\ \A p \in AllBlocks : r.index[p] =
              (s.index[p] \ {o \in S : p \in s.missing[o]})
                \cup {o \in S : p \in ActiveMissing(s, o)}
<1> DEFINE mis == [b \in Blocks |-> IF b \in S THEN ActiveMissing(s, b) ELSE s.missing[b]]
           ind == [p \in AllBlocks |-> (s.index[p] \ {o \in S : p \in s.missing[o]})
                                         \cup {o \in S : p \in ActiveMissing(s, o)}]
<1>1. mis \in [Blocks -> SUBSET AllBlocks] /\ ind \in [AllBlocks -> SUBSET Blocks]
  BY SMTT(30), PoolFields, OrphanAssumption DEF ActiveMissing, MissingParents, AllBlocks
<1>2. IndexOrphans(s, S) = [s EXCEPT !.missing = mis, !.index = ind]
  BY DEF IndexOrphans
<1> HIDE DEF mis, ind
<1>3. IndexOrphans(s, S) \in PoolStates
      /\ IndexOrphans(s, S).dag = s.dag /\ IndexOrphans(s, S).term = s.term
      /\ IndexOrphans(s, S).orphans = s.orphans /\ IndexOrphans(s, S).missing = mis
      /\ IndexOrphans(s, S).index = ind
  BY <1>1, <1>2 DEF PoolStates
<1> QED BY <1>3 DEF mis, ind

(* The fields of a pool after rebuild_orphan_missing_parent_index. *)
LEMMA RebuildFields ==
  ASSUME NEW s \in PoolStates
  PROVE  LET r == Rebuild(s) IN
         /\ r \in PoolStates
         /\ r.dag = s.dag /\ r.term = s.term /\ r.orphans = s.orphans
         /\ \A b \in Blocks : r.missing[b] = IF b \in s.orphans THEN ActiveMissing(s, b) ELSE {}
         /\ \A p \in AllBlocks : r.index[p] = {o \in s.orphans : p \in ActiveMissing(s, o)}
<1> DEFINE mis == [b \in Blocks |-> IF b \in s.orphans THEN ActiveMissing(s, b) ELSE {}]
           ind == [p \in AllBlocks |-> {o \in s.orphans : p \in ActiveMissing(s, o)}]
<1>1. mis \in [Blocks -> SUBSET AllBlocks] /\ ind \in [AllBlocks -> SUBSET Blocks]
  BY PoolFields, OrphanAssumption DEF ActiveMissing, MissingParents, AllBlocks
<1>2. Rebuild(s) = [s EXCEPT !.missing = mis, !.index = ind]
  BY DEF Rebuild
<1> HIDE DEF mis, ind
<1>3. Rebuild(s) \in PoolStates
      /\ Rebuild(s).dag = s.dag /\ Rebuild(s).term = s.term
      /\ Rebuild(s).orphans = s.orphans /\ Rebuild(s).missing = mis
      /\ Rebuild(s).index = ind
  BY <1>1, <1>2 DEF PoolStates
<1> QED BY <1>3 DEF mis, ind

(* The fields of a pool after terminal entries replaced the index of some parents. *)
LEMMA TerminatedFields ==
  ASSUME now \in Times, NEW s \in PoolStates, NEW gone, NEW t \in TermStates
  PROVE  LET r == Terminated(s, gone, t) IN
         /\ r \in PoolStates
         /\ r.dag = s.dag /\ r.orphans = s.orphans /\ r.missing = s.missing
         /\ \A p \in AllBlocks : r.index[p] = IF p \in gone THEN {} ELSE s.index[p]
         /\ \A p \in AllBlocks : p \notin gone => r.term[p] = s.term[p]
<1> DEFINE ind == [p \in AllBlocks |-> IF p \in gone THEN {} ELSE s.index[p]]
           ter == [p \in AllBlocks |-> IF p \in gone THEN Entry(t, StillWaiting(s, gone, p))
                                       ELSE s.term[p]]
<1>1. \A p \in AllBlocks : StillWaiting(s, gone, p) \in SUBSET Blocks
  BY PoolFields DEF StillWaiting
<1>2. ind \in [AllBlocks -> SUBSET Blocks] /\ ter \in [AllBlocks -> Entries]
  BY <1>1, PoolFields, EntryTypes
<1>3. Terminated(s, gone, t) = [s EXCEPT !.index = ind, !.term = ter]
  BY DEF Terminated
<1>4. \A p \in AllBlocks : p \notin gone => ter[p] = s.term[p]
  OBVIOUS
<1> HIDE DEF ind, ter
<1>5. Terminated(s, gone, t) \in PoolStates
      /\ Terminated(s, gone, t).dag = s.dag /\ Terminated(s, gone, t).orphans = s.orphans
      /\ Terminated(s, gone, t).missing = s.missing
      /\ Terminated(s, gone, t).index = ind /\ Terminated(s, gone, t).term = ter
  BY <1>2, <1>3 DEF PoolStates
<1> QED BY <1>4, <1>5 DEF ind

(* The fields of a pool after the guard dropped the accepted parents. *)
LEMMA DropFields ==
  ASSUME NEW s \in PoolStates
  PROVE  LET r == DropAccepted(s) IN
         /\ r \in PoolStates
         /\ r.dag = s.dag /\ r.orphans = s.orphans /\ r.missing = s.missing
         /\ \A p \in AllBlocks : r.index[p] = IF p \in s.dag THEN {} ELSE s.index[p]
         /\ \A p \in AllBlocks \ s.dag : r.term[p] = s.term[p]
<1> DEFINE ind == [p \in AllBlocks |-> IF p \in s.dag THEN {} ELSE s.index[p]]
           ter == [p \in AllBlocks |-> IF p \in s.dag /\ s.index[p] # {} THEN NoEntry
                                       ELSE s.term[p]]
<1>1. ind \in [AllBlocks -> SUBSET Blocks] /\ ter \in [AllBlocks -> Entries]
  BY PoolFields, NoEntryTypes
<1>2. DropAccepted(s) = [s EXCEPT !.index = ind, !.term = ter]
  BY DEF DropAccepted
<1>3. \A p \in AllBlocks \ s.dag : ter[p] = s.term[p]
  OBVIOUS
<1> HIDE DEF ind, ter
<1>4. DropAccepted(s) \in PoolStates
      /\ DropAccepted(s).dag = s.dag /\ DropAccepted(s).orphans = s.orphans
      /\ DropAccepted(s).missing = s.missing
      /\ DropAccepted(s).index = ind /\ DropAccepted(s).term = ter
  BY <1>1, <1>2 DEF PoolStates
<1> QED BY <1>3, <1>4 DEF ind

(* The fields of a pool after prune_historical_terminal_missing_parents. *)
LEMMA HistoryFields ==
  ASSUME NEW s \in PoolStates
  PROVE  LET r == PruneHistory(s) IN
         /\ r \in PoolStates
         /\ r.dag = s.dag /\ r.orphans = s.orphans /\ r.missing = s.missing
         /\ r.index = s.index
         /\ \A p \in AllBlocks : r.term[p] = s.term[p] \/ r.term[p] = NoEntry
<1> DEFINE history == {p \in AllBlocks : s.term[p].state # "none" /\ ~ActiveBlocker(s, p)}
           at      == [p \in AllBlocks |-> s.term[p].at]
           drop    == Oldest(history, at, Cardinality(history) - HistoryLimit)
           ter     == [p \in AllBlocks |-> IF p \in drop THEN NoEntry ELSE s.term[p]]
<1>1. PruneHistory(s) = [s EXCEPT !.term = ter]
  BY DEF PruneHistory
<1> HIDE DEF drop
<1>2. ter \in [AllBlocks -> Entries]
  BY PoolFields, NoEntryTypes
<1>3. \A p \in AllBlocks : ter[p] = s.term[p] \/ ter[p] = NoEntry
  OBVIOUS
<1> HIDE DEF ter
<1>4. PruneHistory(s) \in PoolStates
      /\ PruneHistory(s).dag = s.dag /\ PruneHistory(s).orphans = s.orphans
      /\ PruneHistory(s).missing = s.missing /\ PruneHistory(s).index = s.index
      /\ PruneHistory(s).term = ter
  BY <1>1, <1>2 DEF PoolStates
<1> QED BY <1>3, <1>4

(* The fields of a pool after one more block was accepted to the DAG. *)
LEMMA AcceptedFields ==
  ASSUME NEW b \in Blocks, mem \in PoolStates
  PROVE  LET r == WithAccepted(b) IN
         /\ r \in PoolStates
         /\ r.dag = mem.dag \cup {b} /\ r.orphans = mem.orphans
         /\ r.missing = mem.missing /\ r.index = mem.index /\ r.term = mem.term
<1>1. mem.dag \cup {b} \subseteq AllBlocks
  BY PoolFields DEF AllBlocks
<1> QED BY <1>1 DEF WithAccepted, PoolStates

(* The fields of a pool after queue_orphan_block put a block in it. *)
LEMMA QueuedFields ==
  ASSUME now \in Times, NEW s \in PoolStates, NEW b \in Blocks
  PROVE  LET r == [Reopened(s, b) EXCEPT !.orphans = @ \cup {b}, !.received[b] = now] IN
         /\ r \in PoolStates
         /\ r.dag = s.dag /\ r.orphans = s.orphans \cup {b}
         /\ r.missing = s.missing /\ r.index = s.index
         /\ \A p \in AllBlocks : r.term[p] = IF p \in MissingParents(s, b) THEN NoEntry
                                             ELSE s.term[p]
<1> DEFINE ter == [p \in AllBlocks |-> IF p \in MissingParents(s, b) THEN NoEntry
                                       ELSE s.term[p]]
           rec == [s.received EXCEPT ![b] = now]
           orp == s.orphans \cup {b}
           r   == [Reopened(s, b) EXCEPT !.orphans = @ \cup {b}, !.received[b] = now]
<1>1. ter \in [AllBlocks -> Entries] /\ rec \in [Blocks -> Times] /\ orp \subseteq Blocks
  BY PoolFields, NoEntryTypes
<1>2. Reopened(s, b) = [s EXCEPT !.term = ter]
  BY DEF Reopened
<1>3. \A p \in AllBlocks : ter[p] = IF p \in MissingParents(s, b) THEN NoEntry ELSE s.term[p]
  OBVIOUS
<1> HIDE DEF ter
<1>4. Reopened(s, b) \in PoolStates /\ Reopened(s, b).received = s.received
      /\ Reopened(s, b).orphans = s.orphans /\ Reopened(s, b).dag = s.dag
      /\ Reopened(s, b).missing = s.missing /\ Reopened(s, b).index = s.index
      /\ Reopened(s, b).term = ter
  BY <1>1, <1>2 DEF PoolStates
<1>5. r = [Reopened(s, b) EXCEPT !.orphans = orp, !.received = rec]
  BY <1>4
<1> HIDE DEF rec, orp, r
<1>6. r \in PoolStates /\ r.dag = s.dag /\ r.orphans = orp /\ r.missing = s.missing
      /\ r.index = s.index /\ r.term = ter
  BY <1>1, <1>4, <1>5 DEF PoolStates
<1> QED BY <1>3, <1>6 DEF orp, r

-----------------------------------------------------------------------------
(* Ready, settled and accepted orphans are orphans. *)
LEMMA ReadyTypes ==
  ASSUME NEW s \in PoolStates, NEW S
  PROVE  /\ Ready(s, S) \subseteq s.orphans /\ Ready(s, S) \subseteq S
         /\ Ready(s, S) \subseteq Blocks
         /\ Accepted(s, S) \subseteq Ready(s, S)
         /\ (S \cap s.orphans) \ Ready(s, S) \subseteq Blocks
  BY PoolFields DEF Ready, Accepted

(* The fields of a pool after one round of adopt_ready_orphans. *)
LEMMA RoundFields ==
  ASSUME now \in Times, NEW s \in PoolStates, NEW S
  PROVE  LET r == RoundState(s, S)
             t == RemoveOrphans(Settled(s, S), Ready(s, S)) IN
         /\ r \in PoolStates /\ t \in PoolStates
         /\ r.dag = s.dag \cup Accepted(s, S)
         /\ r.orphans = t.orphans /\ r.missing = t.missing /\ r.index = t.index
         /\ \A p \in AllBlocks : r.term[p].state = IF p \in Accepted(s, S) THEN "resolved"
                                                   ELSE s.term[p].state
<1> DEFINE t == RemoveOrphans(Settled(s, S), Ready(s, S))
           ter == [p \in AllBlocks |-> IF p \in Accepted(s, S) THEN Entry("resolved", {})
                                       ELSE t.term[p]]
           dg == t.dag \cup Accepted(s, S)
<1>1. Settled(s, S) \in PoolStates /\ Settled(s, S).dag = s.dag /\ Settled(s, S).term = s.term
  BY SMTT(30), ReadyTypes, IndexFields DEF Settled
<1>2. t \in PoolStates /\ t.dag = s.dag /\ t.term = s.term
  BY SMTT(30), <1>1, RemoveFields
<1>3. RoundState(s, S) = [t EXCEPT !.dag = dg, !.term = ter]
  BY DEF RoundState
<1> HIDE DEF t
<1>4. Entry("resolved", {}) \in Entries /\ Entry("resolved", {}).state = "resolved"
  BY EntryTypes DEF TermStates
<1>5. ter \in [AllBlocks -> Entries] /\ dg \subseteq AllBlocks
  BY SMTT(30), <1>2, <1>4, PoolFields, ReadyTypes DEF AllBlocks
<1>6. \A p \in AllBlocks : ter[p].state = IF p \in Accepted(s, S) THEN "resolved"
                                          ELSE s.term[p].state
  BY <1>2, <1>4
<1> HIDE DEF ter
<1>7. RoundState(s, S) \in PoolStates
      /\ RoundState(s, S).dag = dg /\ RoundState(s, S).orphans = t.orphans
      /\ RoundState(s, S).missing = t.missing /\ RoundState(s, S).index = t.index
      /\ RoundState(s, S).term = ter
  BY <1>2, <1>3, <1>5, ZenonT(30) DEF PoolStates
<1> QED BY <1>2, <1>6, <1>7 DEF t

-----------------------------------------------------------------------------
(* What the sorts of the pool select.  A set of naturals has a least        *)
(* element, so a set of blocks has a first one in the order of (time,       *)
(* hash), and those that come before the first block that was not selected  *)
(* are enough of them.                                                      *)

(* A set of naturals has a least element. *)
LEMMA LeastNatural ==
  ASSUME NEW S \in SUBSET Nat, S # {}
  PROVE  \E m \in S : \A n \in S : m <= n
<1>1. PICK m \in S : \A n \in S : <<n, m>> \notin OpToRel(<, Nat)
  BY NatLessThanWellFounded, WFMin
<1>2. \A n \in S : ~(n < m)
  BY <1>1 DEF OpToRel
<1> QED BY SMTT(30), <1>2

(* A set of blocks has a first one by (time, hash). *)
LEMMA FirstInOrder ==
  ASSUME NEW S \in SUBSET Nat, S # {}, NEW at, \A p \in S : at[p] \in Nat
  PROVE  \E m \in S : \A q \in S : ~Before(at, q, m)
<1>1. {at[p] : p \in S} \in SUBSET Nat /\ {at[p] : p \in S} # {}
  BY Zenon
<1>2. PICK t \in {at[p] : p \in S} : \A u \in {at[p] : p \in S} : t <= u
  BY <1>1, LeastNatural
<1>3. {p \in S : at[p] = t} \in SUBSET Nat /\ {p \in S : at[p] = t} # {}
  BY <1>2
<1>4. PICK m \in {p \in S : at[p] = t} : \A q \in {p \in S : at[p] = t} : m <= q
  BY <1>3, LeastNatural
<1>5. \A q \in S : ~Before(at, q, m)
  BY SMTT(30), <1>2, <1>4 DEF Before
<1> QED BY <1>4, <1>5

(* Selecting the n oldest leaves at most the others. *)
LEMMA OldestAreEnough ==
  ASSUME NEW S \in SUBSET Nat, IsFiniteSet(S), NEW at, \A p \in S : at[p] \in Nat,
         NEW n \in Int, n <= Cardinality(S)
  PROVE  Cardinality(S \ Oldest(S, at, n)) <= Cardinality(S) - n
<1> DEFINE R == S \ Oldest(S, at, n)
<1>1. Cardinality(S) \in Nat /\ IsFiniteSet(R) /\ Cardinality(R) \in Nat
  BY FS_CardinalityType, FS_Subset
<1>2. CASE R = {}
  BY SMTT(30), <1>1, <1>2, FS_EmptySet
<1>3. CASE R # {}
  <2>1. PICK m \in R : \A q \in R : ~Before(at, q, m)
    BY <1>3, FirstInOrder
  <2> DEFINE P == {q \in S : Before(at, q, m)}
  <2>2. IsFiniteSet(P) /\ Cardinality(P) \in Nat /\ P \subseteq S
    BY FS_CardinalityType, FS_Subset
  <2>3. ~(Cardinality(P) < n)
    BY <2>1 DEF Oldest
  <2>4. R \subseteq S \ P
    BY <2>1
  <2>5. IsFiniteSet(S \ P) /\ Cardinality(S \ P) = Cardinality(S) - Cardinality(S \cap P)
    BY FS_Difference
  <2>6. S \cap P = P
    BY <2>2
  <2>7. Cardinality(R) <= Cardinality(S \ P)
    BY <2>4, <2>5, FS_Subset
  <2> HIDE DEF P, R
  <2> QED BY SMTT(30), <1>1, <2>2, <2>3, <2>5, <2>6, <2>7 DEF R
<1> QED BY <1>2, <1>3

(* The pool keeps to max_orphan_count. *)
Fits(s) == Cardinality(s.orphans) <= MaxOrphans

(* The pool is finite. *)
LEMMA FinitePool ==
  ASSUME NEW s \in PoolStates
  PROVE  IsFiniteSet(s.orphans) /\ Cardinality(s.orphans) \in Nat
  BY PoolFields, OrphanAssumption, FS_Subset, FS_CardinalityType

(* An edit that queues nothing keeps the pool within its limit. *)
LEMMA FewerFit ==
  ASSUME NEW s \in PoolStates, NEW r \in PoolStates, r.orphans \subseteq s.orphans, Fits(s)
  PROVE  Fits(r)
<1>1. Cardinality(r.orphans) <= Cardinality(s.orphans)
  BY FinitePool, FS_Subset
<1> QED BY SMTT(30), <1>1, FinitePool, OrphanAssumption DEF Fits

(* prune_orphans brings a pool of any size within its limit. *)
LEMMA PruneFits ==
  ASSUME NEW s \in PoolStates
  PROVE  Fits(PruneOrphans(s))
<1> DEFINE fresh == RemoveOrphans(s, Expired(s, MaxAge))
           over  == Cardinality(fresh.orphans) - MaxOrphans
           out   == Oldest(fresh.orphans, fresh.received, over)
<1>1. fresh \in PoolStates
  BY RemoveFields
<1>2. PruneOrphans(s) = RemoveOrphans(fresh, out)
  BY DEF PruneOrphans
<1> HIDE DEF fresh
<1>3. /\ fresh.orphans \in SUBSET Nat /\ IsFiniteSet(fresh.orphans)
      /\ Cardinality(fresh.orphans) \in Nat
      /\ \A p \in fresh.orphans : fresh.received[p] \in Nat
  BY SMTT(30), <1>1, PoolFields, FinitePool, OrphanAssumption DEF AllBlocks, Times
<1>4. over \in Int /\ over <= Cardinality(fresh.orphans)
  BY SMTT(30), <1>3, OrphanAssumption
<1>5. Cardinality(fresh.orphans \ out) <= Cardinality(fresh.orphans) - over
  BY <1>3, <1>4, OldestAreEnough
<1>6. PruneOrphans(s).orphans = fresh.orphans \ out
  BY SMTT(30), <1>1, <1>2, RemoveFields
<1>7. Cardinality(fresh.orphans) - over = MaxOrphans
  BY SMTT(30), <1>3, OrphanAssumption
<1> QED BY <1>5, <1>6, <1>7 DEF Fits

-----------------------------------------------------------------------------
(* Every edit keeps the index free of dangling entries, and, when no parent *)
(* that an orphan waits for is suppressed, complete; and none leaves a pool *)
(* beyond its limit.                                                        *)

Sound(s, r) ==
  /\ r \in PoolStates
  /\ NoDangling(s) => NoDangling(r)
  /\ Tracked(s) => Tracked(r)
  /\ Fits(s) => Fits(r)

(* remove_queued_orphan keeps a pool sound: every entry goes with its orphan. *)
LEMMA RemoveSound ==
  ASSUME NEW s \in PoolStates, NEW S
  PROVE  Sound(s, RemoveOrphans(s, S))
<1> DEFINE r == RemoveOrphans(s, S)
<1>0. r \in PoolStates
  BY RemoveFields
<1>1. ASSUME NoDangling(s) PROVE NoDangling(r)
  BY SMTT(30), <1>1, RemoveFields, PoolFields DEF NoDangling
<1>2. ASSUME Tracked(s) PROVE Tracked(r)
  <2> SUFFICES ASSUME NEW o \in r.orphans, NEW p \in MissingParents(r, o)
               PROVE  o \in r.index[p] /\ ~Suppressed(r, p)
    BY DEF Tracked
  <2>1. o \in s.orphans /\ o \notin S /\ p \in MissingParents(s, o) /\ p \in AllBlocks
    BY SMTT(30), RemoveFields, PoolFields, OrphanAssumption DEF MissingParents, AllBlocks
  <2>2. o \in s.index[p] /\ ~Suppressed(s, p)
    BY <1>2, <2>1 DEF Tracked
  <2> QED BY SMTT(30), <2>1, <2>2, RemoveFields DEF Suppressed
<1>3. ASSUME Fits(s) PROVE Fits(r)
  BY SMTT(30), <1>0, <1>3, FewerFit, RemoveFields
<1> QED BY <1>0, <1>1, <1>2, <1>3 DEF Sound

(* index_orphan_block keeps a pool sound and indexes what it is given. *)
LEMMA IndexSound ==
  ASSUME NEW s \in PoolStates, NEW S \in SUBSET s.orphans
  PROVE  Sound(s, IndexOrphans(s, S))
<1> DEFINE r == IndexOrphans(s, S)
<1>a. S \in SUBSET Blocks
  BY PoolFields
<1>0. r \in PoolStates
  BY <1>a, IndexFields
<1>1. ASSUME NoDangling(s) PROVE NoDangling(r)
  BY SMTT(30), <1>a, <1>1, IndexFields, PoolFields DEF NoDangling
<1>2. ASSUME Tracked(s) PROVE Tracked(r)
  <2> SUFFICES ASSUME NEW o \in r.orphans, NEW p \in MissingParents(r, o)
               PROVE  o \in r.index[p] /\ ~Suppressed(r, p)
    BY DEF Tracked
  <2>1. o \in s.orphans /\ p \in MissingParents(s, o) /\ p \in AllBlocks
    BY SMTT(30), <1>a, IndexFields, PoolFields, OrphanAssumption DEF MissingParents, AllBlocks
  <2>2. o \in s.index[p] /\ ~Suppressed(s, p)
    BY <1>2, <2>1 DEF Tracked
  <2>3. p \in ActiveMissing(s, o)
    BY <2>1, <2>2 DEF ActiveMissing
  <2> QED BY SMTT(30), <1>a, <2>1, <2>2, <2>3, IndexFields DEF Suppressed
<1>3. ASSUME Fits(s) PROVE Fits(r)
  BY SMTT(30), <1>0, <1>3, FewerFit, <1>a, IndexFields
<1> QED BY <1>0, <1>1, <1>2, <1>3 DEF Sound

(* rebuild_orphan_missing_parent_index yields a sound pool. *)
LEMMA RebuildSound ==
  ASSUME NEW s \in PoolStates
  PROVE  Sound(s, Rebuild(s)) /\ NoDangling(Rebuild(s))
<1> DEFINE r == Rebuild(s)
<1>0. r \in PoolStates
  BY RebuildFields
<1>1. NoDangling(r)
  BY SMTT(30), RebuildFields, PoolFields DEF NoDangling
<1>2. ASSUME Tracked(s) PROVE Tracked(r)
  <2> SUFFICES ASSUME NEW o \in r.orphans, NEW p \in MissingParents(r, o)
               PROVE  o \in r.index[p] /\ ~Suppressed(r, p)
    BY DEF Tracked
  <2>1. o \in s.orphans /\ p \in MissingParents(s, o) /\ p \in AllBlocks
    BY RebuildFields, PoolFields, OrphanAssumption DEF MissingParents, AllBlocks
  <2>2. ~Suppressed(s, p)
    BY <1>2, <2>1 DEF Tracked
  <2>3. p \in ActiveMissing(s, o)
    BY <2>1, <2>2 DEF ActiveMissing
  <2> QED BY SMTT(30), <2>1, <2>2, <2>3, RebuildFields DEF Suppressed
<1>3. ASSUME Fits(s) PROVE Fits(r)
  BY <1>0, <1>3, FewerFit, RebuildFields
<1> QED BY <1>0, <1>1, <1>2, <1>3 DEF Sound

(* Giving up parents keeps a pool sound: all orphans that wait for them leave. *)
LEMMA ExhaustSound ==
  ASSUME now \in Times, NEW s \in PoolStates, NEW P, NEW t \in TermStates
  PROVE  Sound(s, Exhaust(s, P, t))
<1> DEFINE gone  == Exhaustible(s, P)
           mid   == Terminated(s, gone, t)
           evict == UNION {s.index[p] : p \in gone}
           r     == RemoveOrphans(mid, evict)
<1>0. mid \in PoolStates /\ r \in PoolStates /\ r = Exhaust(s, P, t)
  BY TerminatedFields, RemoveFields DEF Exhaust
<1>1. ASSUME NoDangling(s) PROVE NoDangling(r)
  <2>1. NoDangling(mid)
    BY SMTT(30), <1>1, TerminatedFields, PoolFields DEF NoDangling
  <2> QED BY <1>0, <2>1, RemoveSound DEF Sound
<1>2. ASSUME Tracked(s) PROVE Tracked(r)
  <2> SUFFICES ASSUME NEW o \in r.orphans, NEW p \in MissingParents(r, o)
               PROVE  o \in r.index[p] /\ ~Suppressed(r, p)
    BY DEF Tracked
  <2>1. /\ r.orphans = mid.orphans \ evict /\ r.dag = mid.dag /\ r.term = mid.term
        /\ \A q \in AllBlocks : r.index[q] = mid.index[q] \ {x \in evict : q \in mid.missing[x]}
    BY SMTT(30), <1>0, RemoveFields
  <2>2. /\ mid.orphans = s.orphans /\ mid.dag = s.dag
        /\ \A q \in AllBlocks : mid.index[q] = IF q \in gone THEN {} ELSE s.index[q]
        /\ \A q \in AllBlocks : q \notin gone => mid.term[q] = s.term[q]
    BY SMTT(30), TerminatedFields
  <2>3. o \in s.orphans /\ o \notin evict /\ p \in MissingParents(s, o) /\ p \in AllBlocks
    BY <2>1, <2>2, PoolFields, OrphanAssumption DEF MissingParents, AllBlocks
  <2>4. o \in s.index[p] /\ ~Suppressed(s, p)
    BY <1>2, <2>3 DEF Tracked
  <2>5. p \notin gone
    BY <2>3, <2>4
  <2> HIDE DEF gone, mid, evict, r
  <2> QED BY <2>1, <2>2, <2>3, <2>4, <2>5 DEF Suppressed
<1>3. ASSUME Fits(s) PROVE Fits(r)
  BY SMTT(30), <1>0, <1>3, FewerFit, TerminatedFields, RemoveFields
<1> QED BY <1>0, <1>1, <1>2, <1>3 DEF Sound

(* Dropping the index entries of accepted parents keeps a pool sound. *)
LEMMA DropSound ==
  ASSUME NEW s \in PoolStates
  PROVE  Sound(s, DropAccepted(s))
<1> DEFINE r == DropAccepted(s)
<1>0. r \in PoolStates
  BY DropFields
<1>1. ASSUME NoDangling(s) PROVE NoDangling(r)
  BY SMTT(30), <1>1, DropFields, PoolFields DEF NoDangling
<1>2. ASSUME Tracked(s) PROVE Tracked(r)
  <2> SUFFICES ASSUME NEW o \in r.orphans, NEW p \in MissingParents(r, o)
               PROVE  o \in r.index[p] /\ ~Suppressed(r, p)
    BY DEF Tracked
  <2>1. o \in s.orphans /\ p \in MissingParents(s, o) /\ p \in AllBlocks \ s.dag
    BY DropFields, PoolFields, OrphanAssumption DEF MissingParents, AllBlocks
  <2>2. o \in s.index[p] /\ ~Suppressed(s, p)
    BY <1>2, <2>1 DEF Tracked
  <2> QED BY <2>1, <2>2, DropFields DEF Suppressed
<1>3. ASSUME Fits(s) PROVE Fits(r)
  BY <1>0, <1>3, FewerFit, DropFields
<1> QED BY <1>0, <1>1, <1>2, <1>3 DEF Sound

(* terminalize_residual_waiting_missing_parents keeps a pool sound. *)
LEMMA TerminalizeSound ==
  ASSUME now \in Times, NEW s \in PoolStates, NEW age
  PROVE  Sound(s, Terminalize(s, age))
<1> DEFINE clean == DropAccepted(s)
<1>1. Sound(s, clean)
  BY DropSound
<1>2. Sound(clean, Exhaust(clean, Residual(clean, age), "quarantined"))
  BY <1>1, ExhaustSound DEF Sound, TermStates
<1>3. Terminalize(s, age) = Exhaust(clean, Residual(clean, age), "quarantined")
  BY DEF Terminalize
<1> QED BY <1>1, <1>2, <1>3 DEF Sound

(* prune_historical_terminal_missing_parents keeps a pool sound: it only lifts suppression. *)
LEMMA HistorySound ==
  ASSUME NEW s \in PoolStates
  PROVE  Sound(s, PruneHistory(s))
<1> DEFINE r == PruneHistory(s)
<1>0. r \in PoolStates
  BY HistoryFields
<1>1. ASSUME NoDangling(s) PROVE NoDangling(r)
  BY <1>1, HistoryFields, PoolFields DEF NoDangling
<1>2. ASSUME Tracked(s) PROVE Tracked(r)
  <2> SUFFICES ASSUME NEW o \in r.orphans, NEW p \in MissingParents(r, o)
               PROVE  o \in r.index[p] /\ ~Suppressed(r, p)
    BY DEF Tracked
  <2>1. o \in s.orphans /\ p \in MissingParents(s, o) /\ p \in AllBlocks
    BY HistoryFields, PoolFields, OrphanAssumption DEF MissingParents, AllBlocks
  <2>2. o \in s.index[p] /\ ~Suppressed(s, p)
    BY <1>2, <2>1 DEF Tracked
  <2> QED BY <2>1, <2>2, HistoryFields, NoEntryTypes DEF Suppressed
<1>3. ASSUME Fits(s) PROVE Fits(r)
  BY <1>0, <1>3, FewerFit, HistoryFields
<1> QED BY <1>0, <1>1, <1>2, <1>3 DEF Sound

(* prune_orphans keeps a pool sound. *)
LEMMA PruneSound ==
  ASSUME NEW s \in PoolStates
  PROVE  Sound(s, PruneOrphans(s))
<1> DEFINE fresh == RemoveOrphans(s, Expired(s, MaxAge))
           over  == Cardinality(fresh.orphans) - MaxOrphans
<1>1. Sound(s, fresh)
  BY RemoveSound
<1>2. Sound(fresh, RemoveOrphans(fresh, Oldest(fresh.orphans, fresh.received, over)))
  BY <1>1, RemoveSound DEF Sound
<1>3. PruneOrphans(s) = RemoveOrphans(fresh, Oldest(fresh.orphans, fresh.received, over))
  BY DEF PruneOrphans
<1> QED BY <1>1, <1>2, <1>3 DEF Sound

(* evict_stale_orphans_bounded keeps a pool sound. *)
LEMMA EvictSound ==
  ASSUME NEW s \in PoolStates
  PROVE  Sound(s, EvictStale(s))
  BY RemoveSound DEF EvictStale

(* queue_orphan_block keeps a pool sound: it reopens the missing parents first. *)
LEMMA QueueSound ==
  ASSUME now \in Times, NEW s \in PoolStates, NEW b \in Blocks \ s.orphans
  PROVE  Sound(s, QueueOrphan(s, b))
<1> DEFINE q == [Reopened(s, b) EXCEPT !.orphans = @ \cup {b}, !.received[b] = now]
           r == IndexOrphans(q, {b})
<1>1. /\ q \in PoolStates
      /\ q.dag = s.dag /\ q.orphans = s.orphans \cup {b}
      /\ q.missing = s.missing /\ q.index = s.index
      /\ \A p \in AllBlocks : q.term[p] = IF p \in MissingParents(s, b) THEN NoEntry
                                          ELSE s.term[p]
  BY QueuedFields
<1>2. QueueOrphan(s, b) = PruneOrphans(r)
  BY DEF QueueOrphan
<1> HIDE DEF q
<1>3. /\ r \in PoolStates /\ r.dag = q.dag /\ r.term = q.term /\ r.orphans = q.orphans
      /\ \A x \in Blocks : r.missing[x] = IF x \in {b} THEN ActiveMissing(q, x) ELSE q.missing[x]
      /\ \A p \in AllBlocks : r.index[p] = (q.index[p] \ {o \in {b} : p \in q.missing[o]})
                                \cup {o \in {b} : p \in ActiveMissing(q, o)}
  BY SMTT(30), <1>1, IndexFields
<1> HIDE DEF r
<1>4. ASSUME NoDangling(s) PROVE NoDangling(r)
  BY SMTT(30), <1>1, <1>3, <1>4, PoolFields DEF NoDangling
<1>5. ASSUME Tracked(s) PROVE Tracked(r)
  <2> SUFFICES ASSUME NEW o \in r.orphans, NEW p \in MissingParents(r, o)
               PROVE  o \in r.index[p] /\ ~Suppressed(r, p)
    BY DEF Tracked
  <2>1. p \in MissingParents(s, o) /\ p \in AllBlocks
    BY <1>1, <1>3, PoolFields, OrphanAssumption DEF MissingParents, AllBlocks
  <2>2. CASE o = b
    <3>1. q.term[p] = NoEntry
      BY <1>1, <2>1, <2>2
    <3>2. ~Suppressed(q, p)
      BY <3>1, NoEntryTypes DEF Suppressed
    <3>3. p \in ActiveMissing(q, b)
      BY <1>1, <2>1, <2>2, <3>2 DEF ActiveMissing, MissingParents
    <3> QED BY <1>3, <2>1, <2>2, <3>2, <3>3 DEF Suppressed
  <2>3. CASE o # b
    <3>1. o \in s.index[p] /\ ~Suppressed(s, p)
      BY <1>1, <1>3, <1>5, <2>1, <2>3 DEF Tracked
    <3> QED BY SMTT(30), <1>1, <1>3, <2>1, <2>3, <3>1, NoEntryTypes DEF Suppressed
  <2> QED BY <2>2, <2>3
<1>6. Sound(r, PruneOrphans(r))
  BY <1>3, PruneSound
<1>7. Fits(PruneOrphans(r))
  BY <1>3, PruneFits
<1> QED BY <1>2, <1>4, <1>5, <1>6, <1>7 DEF Sound

(* Accepting a block keeps a pool sound: fewer parents are missing. *)
LEMMA AcceptedSound ==
  ASSUME mem \in PoolStates, NEW b \in Blocks
  PROVE  Sound(mem, WithAccepted(b))
<1> DEFINE r == WithAccepted(b)
<1>0. r \in PoolStates
  BY AcceptedFields
<1>1. ASSUME NoDangling(mem) PROVE NoDangling(r)
  BY <1>1, AcceptedFields DEF NoDangling
<1>2. ASSUME Tracked(mem) PROVE Tracked(r)
  BY <1>2, AcceptedFields DEF Tracked, MissingParents, Suppressed
<1>3. ASSUME Fits(mem) PROVE Fits(r)
  BY <1>0, <1>3, FewerFit, AcceptedFields
<1> QED BY <1>0, <1>1, <1>2, <1>3 DEF Sound

(* The pruning that ends adopt_ready_orphans keeps a pool sound. *)
LEMMA SettledSound ==
  ASSUME NEW s \in PoolStates, NEW S
  PROVE  Sound(s, Settled(s, S)) /\ Settled(s, S).orphans = s.orphans
                                 /\ Settled(s, S).dag = s.dag
<1>1. (S \cap s.orphans) \ Ready(s, S) \in SUBSET s.orphans
  OBVIOUS
<1>2. (S \cap s.orphans) \ Ready(s, S) \in SUBSET Blocks
  BY <1>1, PoolFields
<1> QED BY <1>1, <1>2, IndexSound, IndexFields DEF Settled

(* Every ready orphan is a candidate. *)
Covers(s, S) == \A o \in s.orphans : MissingParents(s, o) = {} => o \in S

(* A round keeps the pool sound and keeps every ready orphan among the next candidates. *)
LEMMA RoundSound ==
  ASSUME now \in Times, NEW s \in PoolStates, NEW S
  PROVE  /\ Sound(s, RoundState(s, S))
         /\ RoundNext(s, S) \subseteq Blocks
         /\ Tracked(s) /\ Covers(s, S) => Covers(RoundState(s, S), RoundNext(s, S))
<1> DEFINE u == Settled(s, S)
           t == RemoveOrphans(u, Ready(s, S))
           r == RoundState(s, S)
           A == Accepted(s, S)
<1>1. /\ Sound(s, u) /\ u \in PoolStates /\ u.orphans = s.orphans /\ u.dag = s.dag
  BY SettledSound DEF Sound
<1>2. /\ Sound(u, t) /\ t \in PoolStates /\ t.orphans = s.orphans \ Ready(s, S)
      /\ \A p \in AllBlocks : t.index[p] = u.index[p] \ {o \in Ready(s, S) : p \in u.missing[o]}
  BY SMTT(30), <1>1, RemoveSound, RemoveFields DEF Sound
<1>3. /\ r \in PoolStates
      /\ r.dag = s.dag \cup A
      /\ r.orphans = t.orphans /\ r.missing = t.missing /\ r.index = t.index
      /\ \A p \in AllBlocks : r.term[p].state = IF p \in A THEN "resolved" ELSE s.term[p].state
  BY RoundFields
<1>4. A \subseteq Ready(s, S) /\ A \subseteq Blocks
  BY ReadyTypes
<1>5. RoundNext(s, S) = UNION {r.index[a] : a \in A}
  BY DEF RoundNext
<1> HIDE DEF u, t, r, A
<1>6. ASSUME NoDangling(s) PROVE NoDangling(r)
  <2>1. NoDangling(t)
    BY <1>1, <1>2, <1>6 DEF Sound
  <2> QED BY <1>3, <2>1 DEF NoDangling
<1>7. ASSUME Tracked(s), NEW o \in r.orphans, NEW p \in MissingParents(s, o)
      PROVE  p \in AllBlocks /\ o \in r.index[p] /\ ~Suppressed(s, p)
  <2>1. o \in s.orphans /\ o \notin Ready(s, S) /\ p \in AllBlocks /\ p \in MissingParents(u, o)
    BY <1>1, <1>2, <1>3, PoolFields, OrphanAssumption DEF MissingParents, AllBlocks
  <2>2. o \in u.index[p]
    BY <1>1, <1>7, <2>1 DEF Sound, Tracked
  <2>3. ~Suppressed(s, p)
    BY <1>7, <2>1 DEF Tracked
  <2> QED BY <1>2, <1>3, <2>1, <2>2, <2>3
<1>8. ASSUME Tracked(s) PROVE Tracked(r)
  <2> SUFFICES ASSUME NEW o \in r.orphans, NEW p \in MissingParents(r, o)
               PROVE  o \in r.index[p] /\ ~Suppressed(r, p)
    BY DEF Tracked
  <2>1. p \in MissingParents(s, o) /\ p \notin A
    BY <1>3 DEF MissingParents
  <2>2. p \in AllBlocks /\ o \in r.index[p] /\ ~Suppressed(s, p)
    BY <1>7, <1>8, <2>1
  <2> QED BY <1>3, <2>1, <2>2 DEF Suppressed
<1>9. ASSUME Tracked(s), Covers(s, S), NEW o \in r.orphans, MissingParents(r, o) = {}
      PROVE  o \in RoundNext(s, S)
  <2>1. o \in s.orphans /\ o \notin Ready(s, S)
    BY <1>2, <1>3
  <2>2. MissingParents(s, o) # {}
    BY <1>9, <2>1 DEF Covers, Ready
  <2>3. PICK p \in MissingParents(s, o) : TRUE
    BY <2>2
  <2>4. p \in A
    BY <1>3, <1>9, <2>3 DEF MissingParents
  <2>5. o \in r.index[p]
    BY <1>7, <1>9, <2>3
  <2> QED BY <1>5, <2>4, <2>5
<1>10. RoundNext(s, S) \subseteq Blocks
  BY SMTT(30), <1>3, <1>4, <1>5, PoolFields DEF AllBlocks
<1>11. r = RoundState(s, S)
  BY DEF r
<1>12. ASSUME Fits(s) PROVE Fits(r)
  BY <1>2, <1>3, <1>12, FewerFit
<1> QED BY <1>3, <1>6, <1>8, <1>9, <1>10, <1>11, <1>12 DEF Sound, Covers

-----------------------------------------------------------------------------
(* The invariant.  Sessions may suppress a parent that orphans wait for, so *)
(* completeness of the index is for nodes without them.                     *)

Good(s) ==
  /\ s \in PoolStates /\ NoDangling(s) /\ Fits(s)
  /\ "session" \notin Handlers => Tracked(s)

PoolInv ==
  /\ TypeOK
  /\ Good(mem) /\ Good(cand)
  /\ "session" \notin Handlers /\ pc \in FullPasses => Covers(cand, todo)

(* A sound change of a good pool yields a good pool. *)
LEMMA GoodSound ==
  ASSUME NEW s, NEW r, Good(s), Sound(s, r)
  PROVE  Good(r)
  BY DEF Good, Sound

(* The pool of a fresh node is good. *)
LEMMA GoodEmpty == Good(EmptyPool)
  BY SMTT(30), EmptyPoolTypes, FS_EmptySet, OrphanAssumption DEF Good, NoDangling, Tracked, Fits

(* The set of all queued orphans covers the ready ones. *)
LEMMA CoversAll ==
  ASSUME NEW s PROVE Covers(s, s.orphans)
  BY DEF Covers

(* The invariant holds initially. *)
LEMMA PoolInvInit ==
  ASSUME Init PROVE PoolInv
  BY SMTT(30), GoodEmpty, EmptyPoolTypes, OrphanAssumption
     DEF Init, PoolInv, TypeOK, FullPasses, PassNames, Times

(* The variables that are not pools, and the candidates of a new pass. *)
Frame ==
  /\ todo \subseteq Blocks /\ tried \subseteq Blocks /\ adopted \subseteq Blocks
  /\ owed \subseteq Blocks
  /\ pc \in PassNames \cup {"idle", "cleanup"}
  /\ now \in Times /\ faults \in 0 .. MaxFaults
  /\ "session" \notin Handlers /\ pc \in FullPasses => Covers(cand, todo)

(* The invariant is the conjunction of its parts. *)
LEMMA InvFrame == PoolInv <=> Frame /\ Good(mem) /\ Good(cand)
  BY DEF PoolInv, TypeOK, Frame, Good

(* A handler that replaces only the live pool, by a good one, keeps the invariant. *)
LEMMA IdleStep ==
  ASSUME Frame, Good(mem), Good(cand), pc = "idle", pc' = pc, cand' = cand,
         UNCHANGED <<todo, tried, adopted, faults>>, owed' \subseteq Blocks,
         now' \in Times, Good(mem')
  PROVE  Frame' /\ Good(mem)' /\ Good(cand)'
<1>1. "idle" \notin FullPasses
  BY DEF FullPasses, PassNames
<1>2. Good(mem)' /\ Good(cand)'
  BY SMTT(30) DEF Good, NoDangling, Tracked, Fits, MissingParents, Suppressed
<1> QED BY <1>1, <1>2 DEF Frame

(* Starting an adoption pass on a good clone keeps the invariant. *)
LEMMA StartPass ==
  ASSUME Frame, NEW p \in PassNames, NEW s, NEW S, S \subseteq Blocks, Good(s),
         p \in FullPasses => S = s.orphans,
         BeginPass(p, s, S), owed' \subseteq Blocks, UNCHANGED <<now, faults>>,
         Good(mem')
  PROVE  Frame' /\ Good(mem)' /\ Good(cand)'
<1>1. pc' = p /\ cand' = s /\ todo' = S /\ tried' = {} /\ adopted' = {}
  BY DEF BeginPass
<1>2. Good(mem)' /\ Good(cand)'
  BY <1>1 DEF Good, NoDangling, Tracked, Fits, MissingParents, Suppressed
<1>3. p \in FullPasses => Covers(cand, todo)'
  BY <1>1, CoversAll DEF Covers, MissingParents
<1> QED BY <1>1, <1>2, <1>3 DEF Frame

(* Ending a pass with a good live pool keeps the invariant. *)
LEMMA EndPass ==
  ASSUME Frame, cand' = EmptyPool, todo' = {}, tried' = {}, adopted' = {},
         pc' \in {"idle", "cleanup"},
         UNCHANGED <<owed, now>>, faults' \in 0 .. MaxFaults, Good(mem')
  PROVE  Frame' /\ Good(mem)' /\ Good(cand)'
<1>1. "idle" \notin FullPasses /\ "cleanup" \notin FullPasses
  BY DEF FullPasses, PassNames
<1>2. Good(mem)' /\ Good(cand)'
  BY GoodEmpty DEF Good, NoDangling, Tracked, Fits, MissingParents, Suppressed
<1> QED BY <1>1, <1>2 DEF Frame

(* Committing a good clone leaves a good live pool, also when the write fails. *)
LEMMA CommitGood ==
  ASSUME NEW s, Good(mem), Good(s), Commit(s), faults \in 0 .. MaxFaults
  PROVE  Good(mem') /\ faults' \in 0 .. MaxFaults
  BY SMTT(30), OrphanAssumption DEF Commit

(* The clone with which a pass ends is good. *)
LEMMA SettledGood ==
  ASSUME Good(cand) PROVE Good(Settled(cand, todo))
  BY SettledSound, GoodSound DEF Good

(* Every step preserves the invariant. *)
LEMMA PoolInvStep ==
  ASSUME PoolInv, [Next]_vars
  PROVE  PoolInv'
<1> USE DEF Good
<1>0. Frame /\ Good(mem) /\ Good(cand) /\ mem \in PoolStates /\ cand \in PoolStates
      /\ now \in Times /\ owed \subseteq Blocks /\ faults \in 0 .. MaxFaults
  BY InvFrame DEF Frame
<1> SUFFICES Frame' /\ Good(mem)' /\ Good(cand)'
  BY DEF PoolInv, TypeOK, Frame
<1>a. mem.orphans \subseteq Blocks /\ cand.orphans \subseteq Blocks
  BY <1>0, PoolFields
<1> HIDE DEF Good
<1>1. ASSUME NEW b \in Blocks, ReceiveOrphan(b) PROVE Frame' /\ Good(mem)' /\ Good(cand)'
  <2>1. Good(mem')
    BY <1>0, <1>1, QueueSound, GoodSound DEF ReceiveOrphan
  <2> QED BY <1>0, <1>1, <2>1, IdleStep DEF ReceiveOrphan
<1>2. ASSUME NEW b \in Blocks, AcceptInbound(b) PROVE Frame' /\ Good(mem)' /\ Good(cand)'
  <2> DEFINE grown == WithAccepted(b)
             start == IF \A p \in AllBlocks : grown.index[p] = {} THEN Rebuild(grown) ELSE grown
  <2>1. Good(grown) /\ grown \in PoolStates
    BY <1>0, AcceptedSound, GoodSound DEF Good
  <2>2. Good(start) /\ start \in PoolStates
    BY <2>1, RebuildSound, GoodSound DEF Good
  <2>3. mem' = grown /\ BeginPass("targeted", start, start.index[b]) /\ UNCHANGED <<owed, now, faults>>
    BY <1>2 DEF AcceptInbound
  <2>4. start.index[b] \subseteq Blocks
    BY <2>2, PoolFields DEF AllBlocks
  <2>5. "targeted" \in PassNames /\ "targeted" \notin FullPasses
    BY DEF PassNames, FullPasses
  <2> HIDE DEF grown, start
  <2> QED BY <1>0, <2>1, <2>2, <2>3, <2>4, <2>5, StartPass
<1>3. ASSUME NEW b \in Blocks, AcceptRpc(b) PROVE Frame' /\ Good(mem)' /\ Good(cand)'
  <2>1. Good(mem')
    BY <1>0, <1>3, AcceptedSound, GoodSound DEF AcceptRpc
  <2> QED BY <1>0, <1>3, <2>1, IdleStep DEF AcceptRpc
<1>4. ASSUME NEW b \in Blocks, AcceptSubmit(b) PROVE Frame' /\ Good(mem)' /\ Good(cand)'
  <2>1. Good(mem')
    BY <1>0, <1>4, AcceptedSound, GoodSound DEF AcceptSubmit
  <2> QED BY <1>0, <1>4, <2>1, IdleStep DEF AcceptSubmit
<1>5. ASSUME NEW b \in Blocks, SubmitAdoption(b) PROVE Frame' /\ Good(mem)' /\ Good(cand)'
  <2>1. BeginPass("submit", mem, mem.orphans) /\ owed' \subseteq Blocks
        /\ UNCHANGED <<now, faults>> /\ mem' = mem
    BY <1>0, <1>5 DEF SubmitAdoption
  <2>2. "submit" \in PassNames
    BY DEF PassNames
  <2> QED BY <1>0, <1>a, <2>1, <2>2, StartPass
<1>6. ASSUME NEW b \in Blocks, SubmitSkipsAdoption(b) PROVE Frame' /\ Good(mem)' /\ Good(cand)'
  <2>1. Good(mem)' /\ Good(cand)'
    BY SMTT(30), <1>0, <1>6 DEF SubmitSkipsAdoption, Good, NoDangling, Tracked, Fits, MissingParents, Suppressed
  <2> QED BY <1>0, <1>6, <2>1 DEF SubmitSkipsAdoption, Frame, Covers, MissingParents
<1>7. CASE RecoveryTick
  <2>1. Good(Rebuild(mem)) /\ Rebuild(mem).orphans = mem.orphans
    BY <1>0, RebuildSound, RebuildFields, GoodSound
  <2>2. "recovery" \in PassNames
    BY DEF PassNames
  <2> QED BY <1>0, <1>7, <1>a, <2>1, <2>2, StartPass DEF RecoveryTick
<1>8. CASE Quiescence
  <2>1. Good(Rebuild(mem)) /\ Rebuild(mem).orphans = mem.orphans
    BY <1>0, RebuildSound, RebuildFields, GoodSound
  <2>2. "quiescence" \in PassNames
    BY DEF PassNames
  <2> QED BY <1>0, <1>8, <1>a, <2>1, <2>2, StartPass DEF Quiescence
<1>9. CASE AdoptRound
  <2>1. Good(RoundState(cand, todo)) /\ RoundNext(cand, todo) \subseteq Blocks
    BY <1>0, RoundSound, GoodSound
  <2>2. Ready(cand, todo) \subseteq Blocks /\ Accepted(cand, todo) \subseteq Blocks
    BY <1>0, ReadyTypes
  <2>3. Good(mem)' /\ Good(cand)'
    BY SMTT(30), <1>0, <1>9, <2>1 DEF AdoptRound, Good, NoDangling, Tracked, Fits, MissingParents, Suppressed
  <2>4. "session" \notin Handlers /\ pc \in FullPasses =>
          Covers(RoundState(cand, todo), RoundNext(cand, todo))
    BY <1>0, RoundSound DEF Good, Frame
  <2>5. "session" \notin Handlers /\ pc' \in FullPasses => Covers(cand, todo)'
    BY <1>9, <2>4 DEF AdoptRound, Covers, MissingParents
  <2> QED BY <1>0, <1>9, <2>1, <2>2, <2>3, <2>5 DEF AdoptRound, Frame
<1>10. CASE FinishTargeted
  <2> DEFINE s == Settled(cand, todo)
  <2>1. Good(s) /\ s.orphans \subseteq Blocks
    BY <1>0, <1>a, SettledGood, SettledSound
  <2>2. cand' = s /\ todo' = s.orphans /\ pc' = "full"
        /\ UNCHANGED <<mem, tried, adopted, owed, now, faults>>
    BY <1>10 DEF FinishTargeted
  <2> HIDE DEF s
  <2>3. Good(mem)' /\ Good(cand)'
    BY SMTT(30), <1>0, <2>1, <2>2 DEF Good, NoDangling, Tracked, Fits, MissingParents, Suppressed
  <2>4. Covers(cand, todo)'
    BY <2>2, CoversAll DEF Covers, MissingParents
  <2> QED BY <1>0, <2>1, <2>2, <2>3, <2>4 DEF Frame, PassNames
<1>11. CASE FinishInbound
  <2>1. Good(mem') /\ faults' \in 0 .. MaxFaults
    BY <1>0, <1>11, SettledGood, CommitGood DEF FinishInbound
  <2> QED BY <1>0, <1>11, <2>1, EndPass DEF FinishInbound, Release
<1>12. CASE FinishSubmit
  <2>1. Good(mem') /\ faults' \in 0 .. MaxFaults
    BY <1>0, <1>12, SettledGood, CommitGood DEF FinishSubmit
  <2> QED BY <1>0, <1>12, <2>1, EndPass DEF FinishSubmit, Release
<1>13. CASE FinishRecovery
  <2>1. Good(mem') /\ faults' \in 0 .. MaxFaults
    BY <1>0, <1>13, SettledGood, CommitGood DEF FinishRecovery
  <2>2. pc' \in {"idle", "cleanup"}
    BY <1>13 DEF FinishRecovery
  <2> QED BY <1>0, <1>13, <2>1, <2>2, EndPass DEF FinishRecovery
<1>14. CASE RecoveryCleanup
  <2> DEFINE stale == EvictStale(Rebuild(mem))
             done  == Terminalize(stale, MaxAge)
  <2>1. Good(Rebuild(mem)) /\ Rebuild(mem) \in PoolStates
    BY <1>0, RebuildSound, GoodSound DEF Good
  <2>2. Good(stale) /\ stale \in PoolStates
    BY <2>1, EvictSound, GoodSound DEF Good
  <2>3. Good(done)
    BY <1>0, <2>2, TerminalizeSound, GoodSound
  <2>4. Commit(done) \/ (mem' = done /\ UNCHANGED faults)
    BY <1>14 DEF RecoveryCleanup
  <2>5. Good(mem') /\ faults' \in 0 .. MaxFaults
    BY <1>0, <2>3, <2>4, CommitGood
  <2>6. pc' = "idle" /\ UNCHANGED <<cand, todo, tried, adopted, owed, now>>
    BY <1>14 DEF RecoveryCleanup
  <2> HIDE DEF stale, done
  <2>7. Good(mem)' /\ Good(cand)'
    BY SMTT(30), <1>0, <2>5, <2>6 DEF Good, NoDangling, Tracked, Fits, MissingParents, Suppressed
  <2> QED BY <1>0, <2>5, <2>6, <2>7 DEF Frame, FullPasses, PassNames
<1>15. CASE RecoveryCleanupGuardFails
  <2>1. Good(Rebuild(mem)) /\ Rebuild(mem) \in PoolStates
    BY <1>0, RebuildSound, GoodSound DEF Good
  <2>2. Good(EvictStale(Rebuild(mem)))
    BY <2>1, EvictSound, GoodSound
  <2>3. mem' = EvictStale(Rebuild(mem)) /\ faults' = faults + 1 /\ faults < MaxFaults
        /\ pc' = "idle" /\ UNCHANGED <<cand, todo, tried, adopted, owed, now>>
    BY <1>15 DEF RecoveryCleanupGuardFails
  <2>4. Good(mem)' /\ Good(cand)'
    BY SMTT(30), <1>0, <2>2, <2>3 DEF Good, NoDangling, Tracked, Fits, MissingParents, Suppressed
  <2>5. faults' \in 0 .. MaxFaults
    BY SMTT(30), <1>0, <2>3, OrphanAssumption
  <2> QED BY <1>0, <2>3, <2>4, <2>5 DEF Frame, FullPasses, PassNames
<1>16. ASSUME NEW s \in PoolStates, Good(s), NEW g, QuiescenceContinues(s, g),
              UNCHANGED <<owed, now>>, faults' \in 0 .. MaxFaults
       PROVE  Frame' /\ Good(mem)' /\ Good(cand)'
  <2>1. CASE BeginPass("quiescence2", Rebuild(s), s.orphans) /\ UNCHANGED mem
    <3>1. Good(Rebuild(s)) /\ Rebuild(s).orphans = s.orphans /\ s.orphans \subseteq Blocks
      BY <1>16, RebuildSound, RebuildFields, PoolFields, GoodSound
    <3>2. pc' = "quiescence2" /\ cand' = Rebuild(s) /\ todo' = s.orphans
          /\ tried' = {} /\ adopted' = {} /\ mem' = mem
      BY <2>1 DEF BeginPass
    <3>3. Good(mem)' /\ Good(cand)'
      BY SMTT(30), <1>0, <3>1, <3>2 DEF Good, NoDangling, Tracked, Fits, MissingParents, Suppressed
    <3>4. Covers(cand, todo)'
      BY <3>1, <3>2 DEF Covers, MissingParents
    <3> QED BY <1>0, <1>16, <3>1, <3>2, <3>3, <3>4 DEF Frame, PassNames
  <2>2. CASE mem' = s /\ Release
    BY <1>0, <1>16, <2>2, EndPass DEF Release
  <2> QED BY <1>16, <2>1, <2>2 DEF QuiescenceContinues
<1>17. CASE FinishQuiescence
  <2> DEFINE first == Settled(cand, todo)
             done  == PruneHistory(Terminalize(first, QuiescenceAge))
  <2>1. Good(first) /\ first \in PoolStates
    BY <1>0, SettledGood DEF Good
  <2>2. Good(Terminalize(first, QuiescenceAge)) /\ Terminalize(first, QuiescenceAge) \in PoolStates
    BY <1>0, <2>1, TerminalizeSound, GoodSound DEF Good
  <2>3. Good(done) /\ done \in PoolStates
    BY <2>2, HistorySound, GoodSound DEF Good
  <2>4. QuiescenceContinues(done, adopted # {} \/ Terminalized(first, QuiescenceAge) # {})
        /\ UNCHANGED <<owed, now, faults>>
    BY <1>17 DEF FinishQuiescence
  <2> HIDE DEF first, done
  <2> QED BY <1>0, <1>16, <2>3, <2>4
<1>18. CASE FinishQuiescenceGuardFails
  <2> DEFINE done == PruneHistory(Settled(cand, todo))
  <2>1. Good(Settled(cand, todo)) /\ Settled(cand, todo) \in PoolStates
    BY <1>0, SettledGood DEF Good
  <2>2. Good(done) /\ done \in PoolStates
    BY <2>1, HistorySound, GoodSound DEF Good
  <2>3. QuiescenceContinues(done, adopted # {}) /\ UNCHANGED <<owed, now>>
        /\ faults' = faults + 1 /\ faults < MaxFaults
    BY <1>18 DEF FinishQuiescenceGuardFails
  <2>4. faults' \in 0 .. MaxFaults
    BY SMTT(30), <1>0, <2>3, OrphanAssumption
  <2> HIDE DEF done
  <2> QED BY <1>16, <2>2, <2>3, <2>4
<1>19. CASE FinishQuiescence2
  <2>1. Good(mem') /\ faults' \in 0 .. MaxFaults
    BY <1>0, <1>19, SettledGood DEF FinishQuiescence2
  <2> QED BY <1>0, <1>19, <2>1, EndPass DEF FinishQuiescence2, Release
<1>20. ASSUME NEW p \in Blocks, ExhaustParent(p) PROVE Frame' /\ Good(mem)' /\ Good(cand)'
  <2>1. CASE p \in mem.dag
    <3> DEFINE e == Entry("resolved", {})
               r == [mem EXCEPT !.term[p] = e]
               ter == [mem.term EXCEPT ![p] = e]
    <3>1. e \in Entries /\ e.state = "resolved"
      BY <1>0, EntryTypes DEF TermStates
    <3>2. ter \in [AllBlocks -> Entries] /\ r = [mem EXCEPT !.term = ter]
      BY <1>0, <3>1, PoolFields
    <3>3. \A q \in AllBlocks : ter[q].state \in {"resolved", mem.term[q].state}
      BY <1>0, <3>1, PoolFields
    <3> HIDE DEF e, ter, r
    <3>4. r \in PoolStates /\ r.dag = mem.dag /\ r.orphans = mem.orphans
          /\ r.missing = mem.missing /\ r.index = mem.index /\ r.term = ter
      BY <1>0, <3>2 DEF PoolStates
    <3>5. \A o \in mem.orphans : MissingParents(mem, o) \subseteq AllBlocks
      BY <1>a, OrphanAssumption DEF MissingParents, AllBlocks
    <3>6. Good(r)
      BY SMTT(30), <1>0, <3>3, <3>4, <3>5 DEF Good, NoDangling, Tracked, Fits, MissingParents, Suppressed
    <3>7. mem' = r
      BY <1>20, <2>1 DEF ExhaustParent, r, e
    <3> QED BY <1>0, <1>20, <3>6, <3>7, IdleStep DEF ExhaustParent
  <2>2. CASE p \notin mem.dag
    <3>1. Good(mem')
      BY <1>0, <1>20, <2>2, ExhaustSound, GoodSound DEF ExhaustParent, TermStates
    <3> QED BY <1>0, <1>20, <3>1, IdleStep DEF ExhaustParent
  <2> QED BY <2>1, <2>2
<1>21. ASSUME NEW p \in Blocks, MarkRequired(p) PROVE Frame' /\ Good(mem)' /\ Good(cand)'
  <2> DEFINE old == mem.term[p]
             e   == IF old.state = "none"
                    THEN [Entry("quarantined", mem.index[p]) EXCEPT !.required = "yes"]
                    ELSE [old EXCEPT !.required = "yes"]
             ter == [mem.term EXCEPT ![p] = e]
  <2>1. old \in Entries /\ mem.index[p] \in SUBSET Blocks
    BY <1>0, PoolFields DEF AllBlocks
  <2>2. e \in Entries
    BY <1>0, <2>1 DEF Entry, Entries, TermStates
  <2>3. ter \in [AllBlocks -> Entries] /\ mem' = [mem EXCEPT !.term = ter]
    BY <1>0, <1>21, <2>2, PoolFields DEF MarkRequired
  <2> HIDE DEF old, e, ter
  <2>4. mem' \in PoolStates /\ mem'.orphans = mem.orphans
        /\ mem'.missing = mem.missing /\ mem'.index = mem.index
    BY <1>0, <2>3 DEF PoolStates
  <2>5. Good(mem')
    BY <1>0, <1>21, <2>4 DEF Good, NoDangling, Fits, MarkRequired
  <2> QED BY <1>0, <1>21, <2>5, IdleStep DEF MarkRequired
<1>22. CASE Tick
  <2>1. Good(mem)' /\ Good(cand)'
    BY SMTT(30), <1>0, <1>22 DEF Tick, Good, NoDangling, Tracked, Fits, MissingParents, Suppressed
  <2>2. now' \in Times
    BY SMTT(30), <1>0, <1>22, OrphanAssumption DEF Tick, Times
  <2> QED BY <1>0, <1>22, <2>1, <2>2 DEF Tick, Frame, Covers, MissingParents
<1>23. CASE UNCHANGED vars
  <2>1. Good(mem)' /\ Good(cand)'
    BY SMTT(30), <1>0, <1>23 DEF vars, Good, NoDangling, Tracked, Fits, MissingParents, Suppressed
  <2> QED BY <1>0, <1>23, <2>1 DEF vars, Frame, Covers, MissingParents
<1> QED
  BY <1>1, <1>2, <1>3, <1>4, <1>5, <1>6, <1>7, <1>8, <1>9, <1>10, <1>11, <1>12, <1>13,
     <1>14, <1>15, <1>17, <1>18, <1>19, <1>20, <1>21, <1>22, <1>23 DEF Next, PassStep

-----------------------------------------------------------------------------
(* Every reachable state satisfies the inductive invariant of the orphan pool. *)
THEOREM PoolInvariant == Spec => []PoolInv
<1>1. Init => PoolInv
  BY PoolInvInit
<1>2. PoolInv /\ [Next]_vars => PoolInv'
  BY PoolInvStep
<1> QED BY <1>1, <1>2, PTL DEF Spec

(* Every reachable state of the pool, its clone and the running handler has *)
(* its type, whatever handlers run.                                         *)
THEOREM PoolTypeCorrect == Spec => []TypeOK
<1>1. PoolInv => TypeOK
  BY DEF PoolInv
<1> QED BY <1>1, PoolInvariant, PTL

(* Whatever handlers run, and whatever they clone, commit or fail to        *)
(* commit, the pool never holds more than max_orphan_count blocks: only     *)
(* queue_orphan_block_bounded adds to it, and its pruning leaves no more.   *)
THEOREM PoolKeepsItsLimit == Spec => []PoolBounded
<1>1. PoolInv => PoolBounded
  BY DEF PoolInv, Good, Fits, PoolBounded
<1> QED BY <1>1, PoolInvariant, PTL

(* Whatever handlers run, no index entry and no recorded parent outlives    *)
(* its orphan: remove_queued_orphan finds every entry through the recorded  *)
(* parents.                                                                 *)
THEOREM IndexNeverDangles == Spec => []NoDanglingIndex
<1>1. PoolInv => NoDanglingIndex
  BY DEF PoolInv, Good, NoDanglingIndex
<1> QED BY <1>1, PoolInvariant, PTL

(* On a node without selected-segment sessions every queued orphan is       *)
(* indexed under each parent it lacks, and no such parent is suppressed.    *)
THEOREM OrphansAreTracked ==
  ASSUME "session" \notin Handlers
  PROVE  Spec => []WaitingIsTracked
<1>1. PoolInv => WaitingIsTracked
  BY DEF PoolInv, Good, WaitingIsTracked
<1> QED BY <1>1, PoolInvariant, PTL

(* On a node without selected-segment sessions adopt_ready_orphans over the *)
(* whole pool stops only when no queued orphan has all its parents.         *)
THEOREM FullPassesDrain ==
  ASSUME "session" \notin Handlers
  PROVE  Spec => []FullPassDrains
<1>1. PoolInv => FullPassDrains
  BY DEF PoolInv, Covers, FullPassDrains, Ready
<1> QED BY <1>1, PoolInvariant, PTL

-----------------------------------------------------------------------------
(* How an orphan leaves the pool. *)

(* The recorded missing parents of an orphan are parents of it. *)
Named(s) == \A o \in Blocks : s.missing[o] \subseteq Parents[o]

(* r has no orphan that s has not, and the receive times of those it kept. *)
Fewer(s, r) ==
  /\ r.orphans \subseteq s.orphans
  /\ \A o \in r.orphans : r.received[o] = s.received[o]

(* r differs from s at most in the index, the recorded parents and the      *)
(* terminal entries.                                                        *)
SamePool(s, r) ==
  /\ r \in PoolStates
  /\ r.dag = s.dag /\ r.orphans = s.orphans /\ r.received = s.received
  /\ Named(s) => Named(r)

(* remove_queued_orphan keeps the times of the other orphans. *)
LEMMA RemoveFewer ==
  ASSUME NEW s \in PoolStates, NEW S
  PROVE  Fewer(s, RemoveOrphans(s, S)) /\ (Named(s) => Named(RemoveOrphans(s, S)))
<1> DEFINE r == RemoveOrphans(s, S)
           rec == [b \in Blocks |-> IF b \in S THEN 0 ELSE s.received[b]]
<1>1. r.received = rec
  BY DEF RemoveOrphans, PoolStates
<1>2. r.orphans = s.orphans \ S /\ r.orphans \subseteq Blocks
  BY RemoveFields, PoolFields
<1>3. \A o \in r.orphans : rec[o] = s.received[o]
  BY <1>2
<1>4. Named(s) => Named(r)
  BY SMTT(30), RemoveFields DEF Named
<1> QED BY <1>1, <1>2, <1>3, <1>4 DEF Fewer

(* What index_orphan_block records for an orphan are parents of it. *)
LEMMA ActiveNamed ==
  ASSUME NEW s, NEW b PROVE ActiveMissing(s, b) \subseteq Parents[b]
  BY DEF ActiveMissing, MissingParents

(* index_orphan_block leaves the pool as it is. *)
LEMMA IndexSame ==
  ASSUME NEW s \in PoolStates, NEW S \in SUBSET Blocks
  PROVE  SamePool(s, IndexOrphans(s, S))
<1>1. IndexOrphans(s, S).received = s.received
  BY DEF IndexOrphans, PoolStates
<1>2. \A b \in Blocks : IndexOrphans(s, S).missing[b] \in {ActiveMissing(s, b), s.missing[b]}
  BY SMTT(30), IndexFields
<1>3. Named(s) => Named(IndexOrphans(s, S))
  BY <1>2, ActiveNamed DEF Named
<1> QED BY <1>1, <1>3, IndexFields DEF SamePool

(* rebuild_orphan_missing_parent_index leaves the pool as it is. *)
LEMMA RebuildSame ==
  ASSUME NEW s \in PoolStates
  PROVE  SamePool(s, Rebuild(s)) /\ Named(Rebuild(s))
<1>1. Rebuild(s).received = s.received
  BY DEF Rebuild, PoolStates
<1>2. \A b \in Blocks : Rebuild(s).missing[b] \in {ActiveMissing(s, b), {}}
  BY RebuildFields
<1>3. Named(Rebuild(s))
  BY <1>2, ActiveNamed DEF Named
<1> QED BY <1>1, <1>3, RebuildFields DEF SamePool

(* The pruning of terminal entries leaves the pool as it is. *)
LEMMA HistorySame ==
  ASSUME NEW s \in PoolStates
  PROVE  SamePool(s, PruneHistory(s))
<1>1. PruneHistory(s).received = s.received
  BY DEF PruneHistory, PoolStates
<1>2. Named(s) => Named(PruneHistory(s))
  BY HistoryFields DEF Named
<1> QED BY <1>1, <1>2, HistoryFields DEF SamePool

(* Dropping the accepted parents leaves the pool as it is. *)
LEMMA DropSame ==
  ASSUME NEW s \in PoolStates
  PROVE  SamePool(s, DropAccepted(s))
<1>1. DropAccepted(s).received = s.received
  BY DEF DropAccepted, PoolStates
<1>2. Named(s) => Named(DropAccepted(s))
  BY DropFields DEF Named
<1> QED BY <1>1, <1>2, DropFields DEF SamePool

(* A terminal entry leaves the pool as it is, and says what it was made for. *)
LEMMA TerminatedSame ==
  ASSUME now \in Times, NEW s \in PoolStates, NEW gone, NEW t \in TermStates
  PROVE  /\ SamePool(s, Terminated(s, gone, t))
         /\ \A p \in AllBlocks : p \in gone => Terminated(s, gone, t).term[p].state = t
<1> DEFINE ter == [p \in AllBlocks |-> IF p \in gone THEN Entry(t, StillWaiting(s, gone, p))
                                       ELSE s.term[p]]
<1>1. Terminated(s, gone, t).received = s.received /\ Terminated(s, gone, t).term = ter
  BY DEF Terminated, PoolStates
<1>2. Named(s) => Named(Terminated(s, gone, t))
  BY SMTT(30), TerminatedFields DEF Named
<1>3. \A p \in AllBlocks : p \in gone => ter[p].state = t
  BY DEF Entry
<1> HIDE DEF ter
<1> QED BY SMTT(30), <1>1, <1>2, <1>3, TerminatedFields DEF SamePool

(* The pruning that ends adopt_ready_orphans leaves the pool as it is. *)
LEMMA SettledSame ==
  ASSUME NEW s \in PoolStates, NEW S
  PROVE  SamePool(s, Settled(s, S))
  BY IndexSame, ReadyTypes DEF Settled

(* r is s after some orphans were accepted or rejected. *)
Taken(s, r) ==
  /\ Fewer(s, r) /\ s.dag \subseteq r.dag
  /\ \A o \in s.orphans \ r.orphans : o \in r.dag \/ o \notin Valid

(* Some orphan has waited for p longer than age. *)
Overdue(s, p, age) == \E w \in s.orphans : p \in Parents[w] /\ now - s.received[w] > age

(* r is s after some orphans were accepted, rejected or given up. *)
GivenUp(s, r) ==
  /\ Fewer(s, r) /\ s.dag \subseteq r.dag
  /\ \A o \in s.orphans \ r.orphans :
       \/ o \in r.dag \/ o \notin Valid
       \/ \E p \in Parents[o] \ r.dag : Overdue(s, p, QuiescenceAge)

(* A round of adopt_ready_orphans only accepts and rejects. *)
LEMMA RoundTaken ==
  ASSUME now \in Times, NEW s \in PoolStates, NEW S
  PROVE  Taken(s, RoundState(s, S)) /\ (Named(s) => Named(RoundState(s, S)))
<1> DEFINE u == Settled(s, S)
           t == RemoveOrphans(u, Ready(s, S))
           r == RoundState(s, S)
<1>1. SamePool(s, u)
  BY SettledSame
<1>2. Fewer(u, t) /\ (Named(u) => Named(t)) /\ t.orphans = s.orphans \ Ready(s, S)
      /\ t \in PoolStates
  BY SMTT(30), <1>1, RemoveFewer, RemoveFields DEF SamePool
<1>3. r.received = t.received
  BY <1>2 DEF RoundState, PoolStates
<1>4. r.dag = s.dag \cup Accepted(s, S) /\ r.orphans = t.orphans /\ r.missing = t.missing
  BY RoundFields
<1> HIDE DEF u, t, r
<1>5. Fewer(s, r) /\ s.dag \subseteq r.dag
  BY <1>1, <1>2, <1>3, <1>4 DEF Fewer, SamePool
<1>6. \A o \in s.orphans \ r.orphans : o \in r.dag \/ o \notin Valid
  BY <1>2, <1>4 DEF Accepted
<1>7. Named(s) => Named(r)
  BY <1>1, <1>2, <1>4 DEF SamePool, Named
<1> QED BY <1>5, <1>6, <1>7 DEF Taken, r

(* terminally_exhaust_missing_parent removes the orphans indexed under the  *)
(* parents it gives up.                                                     *)
LEMMA ExhaustFewer ==
  ASSUME now \in Times, NEW s \in PoolStates, NEW P \in SUBSET AllBlocks, NEW t \in TermStates
  PROVE  LET r == Exhaust(s, P, t) IN
         /\ r \in PoolStates /\ r.dag = s.dag /\ Fewer(s, r) /\ (Named(s) => Named(r))
         /\ \A o \in s.orphans \ r.orphans :
              \E p \in P : p \notin s.dag /\ o \in s.index[p] /\ r.term[p].state = t
<1> DEFINE gone == Exhaustible(s, P)
           u == Terminated(s, gone, t)
           S == UNION {s.index[p] : p \in gone}
           r == Exhaust(s, P, t)
<1>1. SamePool(s, u) /\ \A p \in AllBlocks : p \in gone => u.term[p].state = t
  BY TerminatedSame
<1>2. r = RemoveOrphans(u, S)
  BY DEF Exhaust
<1>3. gone \subseteq P /\ \A p \in gone : p \notin s.dag
  BY DEF Exhaustible
<1>4. u \in PoolStates
  BY <1>1 DEF SamePool
<1> HIDE DEF gone, u, r
<1>5. /\ r \in PoolStates /\ r.dag = u.dag /\ r.term = u.term /\ r.orphans = u.orphans \ S
      /\ Fewer(u, r) /\ (Named(u) => Named(r))
  BY SMTT(30), <1>2, <1>4, RemoveFields, RemoveFewer
<1>6. Fewer(s, r) /\ r.dag = s.dag /\ (Named(s) => Named(r))
  BY <1>1, <1>5 DEF Fewer, SamePool
<1>7. ASSUME NEW o \in s.orphans \ r.orphans
      PROVE  \E p \in P : p \notin s.dag /\ o \in s.index[p] /\ r.term[p].state = t
  <2>1. o \in S
    BY <1>1, <1>5, <1>7 DEF SamePool
  <2>2. PICK p \in gone : o \in s.index[p]
    BY <2>1
  <2> QED BY <1>1, <1>3, <1>5, <2>2
<1> QED BY <1>5, <1>6, <1>7 DEF r

(* The oldest orphan waiting for a parent is one of them. *)
LEMMA OldestWaiterIsOne ==
  ASSUME NEW s \in PoolStates, NEW p \in AllBlocks, s.index[p] # {}
  PROVE  \E w \in s.index[p] : OldestWaiter(s)[p] = s.received[w]
<1> DEFINE T == {s.received[w] : w \in s.index[p]}
<1>1. s.index[p] \subseteq Blocks /\ s.received \in [Blocks -> Times]
  BY PoolFields
<1>2. T \subseteq Times
  BY <1>1
<1>3. T \in SUBSET Nat /\ T # {}
  BY SMTT(30), <1>2 DEF Times
<1>4. PICK m \in T : \A n \in T : m <= n
  BY <1>3, LeastNatural
<1>5. \A o \in s.index[p] : s.received[o] \in T
  BY Zenon
<1>6. \A o \in s.index[p] : s.received[o] >= m
  BY <1>3, <1>4, <1>5
<1>7. \E o \in s.index[p] : s.received[o] = m
  BY <1>4
<1>8. m \in Times
  BY <1>2, <1>4
<1>9. \E t \in Times : /\ \E o \in s.index[p] : s.received[o] = t
                       /\ \A o \in s.index[p] : s.received[o] >= t
  BY <1>6, <1>7, <1>8
<1> QED BY <1>9 DEF OldestWaiter

(* terminalize_residual_waiting_missing_parents gives up orphans whose      *)
(* parent, now quarantined, has kept some orphan waiting too long.          *)
LEMMA TerminalizeFewer ==
  ASSUME now \in Times, NEW s \in PoolStates, NEW age, NoDangling(s), Named(s)
  PROVE  LET r == Terminalize(s, age) IN
         /\ r \in PoolStates /\ r.dag = s.dag /\ Fewer(s, r) /\ Named(r)
         /\ \A o \in s.orphans \ r.orphans :
              \E p \in Parents[o] \ r.dag : Suppressed(r, p) /\ Overdue(s, p, age)
<1> DEFINE c == DropAccepted(s)
           P == Residual(c, age)
           r == Terminalize(s, age)
<1>1. SamePool(s, c) /\ c \in PoolStates
  BY DropSame DEF SamePool
<1>2. c.missing = s.missing
      /\ \A p \in AllBlocks : c.index[p] = IF p \in s.dag THEN {} ELSE s.index[p]
  BY DropFields
<1>3. r = Exhaust(c, P, "quarantined")
  BY DEF Terminalize
<1> HIDE DEF c, r
<1>4. P \in SUBSET AllBlocks
  BY DEF Residual, Oldest
<1>5. \A p \in P : c.index[p] # {} /\ now - OldestWaiter(c)[p] > age
  BY DEF Residual, Oldest
<1> HIDE DEF P
<1>6. /\ r \in PoolStates /\ r.dag = c.dag /\ Fewer(c, r) /\ (Named(c) => Named(r))
      /\ \A o \in c.orphans \ r.orphans :
           \E p \in P : p \notin c.dag /\ o \in c.index[p] /\ r.term[p].state = "quarantined"
  BY SMTT(30), <1>1, <1>3, <1>4, ExhaustFewer DEF TermStates
<1>7. r.dag = s.dag /\ Fewer(s, r) /\ Named(r)
  BY <1>1, <1>6 DEF SamePool, Fewer
<1>8. \A p \in AllBlocks : \A w \in c.index[p] : w \in s.orphans /\ p \in Parents[w]
  <2> SUFFICES ASSUME NEW p \in AllBlocks, NEW w \in c.index[p]
               PROVE  w \in s.orphans /\ p \in Parents[w]
    OBVIOUS
  <2>1. w \in s.index[p]
    BY <1>2
  <2>2. w \in s.orphans /\ p \in s.missing[w]
    BY <2>1 DEF NoDangling
  <2>3. w \in Blocks
    BY <2>2, PoolFields
  <2> QED BY <2>2, <2>3 DEF Named
<1>9. ASSUME NEW o \in s.orphans \ r.orphans
      PROVE  \E p \in Parents[o] \ r.dag : Suppressed(r, p) /\ Overdue(s, p, age)
  <2>1. PICK p \in P : p \notin c.dag /\ o \in c.index[p] /\ r.term[p].state = "quarantined"
    BY <1>1, <1>6, <1>9 DEF SamePool
  <2>2. p \in AllBlocks /\ p \in Parents[o]
    BY <1>4, <1>8, <2>1
  <2>3. PICK w \in c.index[p] : OldestWaiter(c)[p] = c.received[w]
    BY <1>1, <2>1, <2>2, OldestWaiterIsOne
  <2>4. now - s.received[w] > age
    BY <1>1, <1>5, <2>3 DEF SamePool
  <2>5. Overdue(s, p, age)
    BY <1>8, <2>2, <2>3, <2>4 DEF Overdue
  <2>6. Suppressed(r, p)
    BY <2>1 DEF Suppressed
  <2> QED BY <1>6, <2>1, <2>2, <2>5, <2>6
<1> QED BY <1>6, <1>7, <1>9 DEF r

(* Nothing is selected when no more than nothing is asked for. *)
LEMMA OldestOfFew ==
  ASSUME NEW S, IsFiniteSet(S), NEW at, NEW n \in Int, NEW o \in Oldest(S, at, n)
  PROVE  o \in S /\ n > 0
<1> DEFINE B == {q \in S : Before(at, q, o)}
<1>1. o \in S /\ Cardinality(B) < n
  BY DEF Oldest
<1>2. Cardinality(B) \in Nat
  BY FS_Subset, FS_CardinalityType
<1> HIDE DEF B
<1> QED BY SMTT(30), <1>1, <1>2

(* prune_orphans removes orphans that are too old, and others only when     *)
(* the pool is over its limit.                                              *)
LEMMA PruneFewer ==
  ASSUME NEW s \in PoolStates
  PROVE  LET r == PruneOrphans(s) IN
         /\ Fewer(s, r) /\ (Named(s) => Named(r))
         /\ \A o \in s.orphans \ r.orphans :
              now - s.received[o] > MaxAge \/ Cardinality(s.orphans) > MaxOrphans
<1> DEFINE old   == Expired(s, MaxAge)
           fresh == RemoveOrphans(s, old)
           over  == Cardinality(fresh.orphans) - MaxOrphans
           out   == Oldest(fresh.orphans, fresh.received, over)
           r     == PruneOrphans(s)
<1>1. r = RemoveOrphans(fresh, out)
  BY DEF PruneOrphans
<1>2. \A o \in old : now - s.received[o] > MaxAge
  BY DEF Expired
<1> HIDE DEF old, r
<1>3. /\ fresh \in PoolStates /\ Fewer(s, fresh) /\ (Named(s) => Named(fresh))
      /\ fresh.orphans = s.orphans \ old
  BY RemoveFields, RemoveFewer
<1> HIDE DEF fresh
<1>4. Fewer(fresh, r) /\ (Named(fresh) => Named(r)) /\ r.orphans = fresh.orphans \ out
  BY SMTT(30), <1>1, <1>3, RemoveFields, RemoveFewer
<1>5. Fewer(s, r) /\ (Named(s) => Named(r))
  BY <1>3, <1>4 DEF Fewer
<1>6. /\ IsFiniteSet(fresh.orphans) /\ Cardinality(fresh.orphans) \in Nat
      /\ Cardinality(s.orphans) \in Nat /\ Cardinality(fresh.orphans) <= Cardinality(s.orphans)
  <2>1. /\ IsFiniteSet(fresh.orphans) /\ Cardinality(fresh.orphans) \in Nat
        /\ IsFiniteSet(s.orphans) /\ Cardinality(s.orphans) \in Nat
    BY <1>3, FinitePool
  <2>2. fresh.orphans \subseteq s.orphans
    BY <1>3
  <2> QED BY <2>1, <2>2, FS_Subset
<1>7. MaxOrphans \in Nat /\ over \in Int
  BY SMTT(30), <1>6, OrphanAssumption
<1>8. ASSUME NEW o \in s.orphans \ r.orphans
      PROVE  now - s.received[o] > MaxAge \/ Cardinality(s.orphans) > MaxOrphans
  <2>1. o \in old \/ o \in out
    BY <1>3, <1>4
  <2>2. o \in out => over > 0
    BY <1>6, <1>7, OldestOfFew
  <2> HIDE DEF out
  <2> QED BY SMTT(30), <1>2, <1>6, <1>7, <2>1, <2>2
<1> QED BY <1>5, <1>8 DEF r

(* evict_stale_orphans_bounded removes orphans that are too old. *)
LEMMA EvictFewer ==
  ASSUME NEW s \in PoolStates
  PROVE  LET r == EvictStale(s) IN
         /\ r \in PoolStates /\ r.dag = s.dag /\ Fewer(s, r) /\ (Named(s) => Named(r))
         /\ \A o \in s.orphans \ r.orphans : now - s.received[o] > MaxAge
<1> DEFINE out == Oldest(Expired(s, MaxAge), s.received, EvictLimit)
<1>1. EvictStale(s) = RemoveOrphans(s, out)
  BY DEF EvictStale
<1>2. \A o \in out : now - s.received[o] > MaxAge
  BY DEF Oldest, Expired
<1> HIDE DEF out
<1> QED BY SMTT(30), <1>1, <1>2, RemoveFields, RemoveFewer

(* queue_orphan_block pushes orphans out of a full pool only. *)
LEMMA QueueFewer ==
  ASSUME now \in Times, NEW s \in PoolStates, NEW b \in Blocks \ s.orphans, Named(s)
  PROVE  LET r == QueueOrphan(s, b) IN
         /\ Named(r)
         /\ \A o \in s.orphans \ r.orphans :
              now - s.received[o] > MaxAge \/ Cardinality(s.orphans) >= MaxOrphans
<1> DEFINE q == [Reopened(s, b) EXCEPT !.orphans = @ \cup {b}, !.received[b] = now]
           i == IndexOrphans(q, {b})
           r == QueueOrphan(s, b)
<1>1. q \in PoolStates /\ q.orphans = s.orphans \cup {b} /\ q.missing = s.missing
  BY QueuedFields
<1>2. q.received = [s.received EXCEPT ![b] = now]
  <2>1. Reopened(s, b).received = s.received /\ b \in Blocks
        /\ DOMAIN Reopened(s, b) = DOMAIN s
    BY DEF Reopened, PoolStates
  <2> QED BY <2>1 DEF PoolStates
<1>3. r = PruneOrphans(i)
  BY DEF QueueOrphan
<1> HIDE DEF q, r
<1>4. SamePool(q, i)
  BY <1>1, IndexSame
<1> HIDE DEF i
<1>5. Named(i) /\ i \in PoolStates /\ i.orphans = s.orphans \cup {b}
  BY <1>1, <1>4 DEF SamePool, Named
<1>6. \A o \in s.orphans : i.received[o] = s.received[o]
  BY <1>2, <1>4, PoolFields DEF SamePool
<1>7. Named(r) /\ \A o \in i.orphans \ r.orphans :
                    now - i.received[o] > MaxAge \/ Cardinality(i.orphans) > MaxOrphans
  BY <1>3, <1>5, PruneFewer
<1>8. Cardinality(i.orphans) = Cardinality(s.orphans) + 1
  <2>1. IsFiniteSet(s.orphans) /\ b \notin s.orphans
    BY FinitePool
  <2> QED BY <1>5, <2>1, FS_AddElement
<1>9. MaxOrphans \in Nat /\ Cardinality(s.orphans) \in Nat
  BY FinitePool, OrphanAssumption
<1>10. ASSUME NEW o \in s.orphans \ r.orphans
       PROVE  now - s.received[o] > MaxAge \/ Cardinality(s.orphans) >= MaxOrphans
  BY SMTT(30), <1>5, <1>6, <1>7, <1>8, <1>9
<1> QED BY <1>7, <1>10 DEF r

(* Rounds and re-indexing add up. *)
LEMMA TakenTwice ==
  ASSUME NEW s, NEW t, NEW r, Taken(s, t), Taken(t, r)
  PROVE  Taken(s, r)
  BY DEF Taken, Fewer

(* Re-indexing after rounds that took some orphans. *)
LEMMA TakenSame ==
  ASSUME NEW s, NEW t, NEW r, Taken(s, t), SamePool(t, r)
  PROVE  Taken(s, r)
  BY DEF Taken, Fewer, SamePool

(* Re-indexing after orphans were given up. *)
LEMMA GivenUpSame ==
  ASSUME NEW s, NEW t, NEW r, GivenUp(s, t), SamePool(t, r)
  PROVE  GivenUp(s, r)
  BY DEF GivenUp, Fewer, SamePool

(* A pool from which orphans were only accepted or rejected. *)
LEMMA TakenGivenUp ==
  ASSUME NEW s, NEW r, Taken(s, r) PROVE GivenUp(s, r)
  BY DEF Taken, GivenUp

(* A pool is a part of itself. *)
LEMMA TakenNone ==
  ASSUME NEW s, NEW r, SamePool(s, r)
  PROVE  Taken(s, r)
  BY DEF Taken, Fewer, SamePool

(* Giving up orphans after rounds that took some. *)
LEMMA TakenThenGivenUp ==
  ASSUME NEW s, NEW t, NEW r, Taken(s, t), Fewer(t, r), r.dag = t.dag,
         \A o \in t.orphans \ r.orphans :
           \E p \in Parents[o] \ r.dag : Suppressed(r, p) /\ Overdue(t, p, QuiescenceAge)
  PROVE  GivenUp(s, r)
<1>1. Fewer(s, r) /\ s.dag \subseteq r.dag
  BY DEF Taken, Fewer
<1>2. \A p : Overdue(t, p, QuiescenceAge) => Overdue(s, p, QuiescenceAge)
  BY DEF Taken, Fewer, Overdue
<1>3. \A o \in s.orphans \ t.orphans : o \in r.dag \/ o \notin Valid
  BY DEF Taken
<1> QED BY <1>1, <1>2, <1>3 DEF GivenUp

-----------------------------------------------------------------------------
(* The invariant behind EvictionExplained: a clone that a handler works on  *)
(* has lost orphans of the live pool only for the reasons that its passes   *)
(* so far give, and the second pass of the final-quiescence cleanup finds   *)
(* no orphan to adopt.                                                      *)
LeaveInv ==
  /\ Named(mem) /\ Named(cand)
  /\ pc \in PassNames \ {"quiescence2"} => Taken(mem, cand)
  /\ pc = "quiescence2" => GivenUp(mem, cand) /\ Ready(cand, cand.orphans) = {}

(* Each orphan that this step removes from the live pool has a reason. *)
Explained ==
  \A o \in mem.orphans \ mem'.orphans :
    \/ o \in mem'.dag \/ o \notin Valid
    \/ now - mem.received[o] > MaxAge
    \/ Cardinality(mem.orphans) >= MaxOrphans
    \/ \E p \in Parents[o] \ mem'.dag :
         \/ Suppressed(mem', p)
         \/ \E w \in mem.orphans : p \in Parents[w] /\ now - mem.received[w] > QuiescenceAge

(* Nothing is to be explained when no orphan leaves. *)
LEMMA NoneLeave ==
  ASSUME mem'.orphans = mem.orphans PROVE Explained
  BY DEF Explained

(* A published clone explains the orphans it has lost. *)
LEMMA GivenUpExplained ==
  ASSUME GivenUp(mem, mem') PROVE Explained
  BY DEF GivenUp, Overdue, Explained

(* The invariant after a step, from what the step did to the two pools. *)
LEMMA AfterPass ==
  ASSUME Named(mem'), Named(cand'), pc' # "quiescence2",
         pc' \in PassNames => Taken(mem', cand')
  PROVE  LeaveInv'
  BY DEF LeaveInv, Named, Taken, Fewer

(* The same when the step starts the second pass of the quiescence cleanup. *)
LEMMA AfterQuiescence ==
  ASSUME Named(mem'), Named(cand'), pc' = "quiescence2", now' = now,
         GivenUp(mem', cand'), Ready(cand', cand'.orphans) = {}
  PROVE  LeaveInv'
<1>1. Named(mem)' /\ Named(cand)'
  BY DEF Named
<1>2. GivenUp(mem, cand)'
  BY DEF GivenUp, Fewer, Overdue
<1>3. Ready(cand, cand.orphans)' = {}
  BY DEF Ready, MissingParents
<1> QED BY <1>1, <1>2, <1>3 DEF LeaveInv

(* Time passing changes no reason. *)
LEMMA SameLater ==
  ASSUME LeaveInv, mem \in PoolStates, mem' = mem, cand' = cand, pc' = pc,
         now \in Int, now' \in Int, now <= now'
  PROVE  LeaveInv' /\ Explained
<1>1. Explained
  BY NoneLeave
<1>2. Named(mem)' /\ Named(cand)' /\ (pc' \in PassNames \ {"quiescence2"} => Taken(mem, cand)')
  BY DEF LeaveInv, Named, Taken, Fewer
<1>3. ASSUME pc' = "quiescence2" PROVE GivenUp(mem, cand)' /\ (Ready(cand, cand.orphans) = {})'
  <2>1. GivenUp(mem, cand) /\ Ready(cand, cand.orphans) = {}
    BY <1>3 DEF LeaveInv
  <2>2. \A w \in mem.orphans : mem.received[w] \in Int /\ QuiescenceAge \in Int
    BY SMTT(30), PoolFields, OrphanAssumption DEF Times
  <2>3. \A p : Overdue(mem, p, QuiescenceAge) => Overdue(mem, p, QuiescenceAge)'
    BY SMTT(30), <2>2 DEF Overdue
  <2>4. GivenUp(mem, cand)'
    BY <2>1, <2>3 DEF GivenUp, Fewer
  <2>5. (Ready(cand, cand.orphans) = {})'
    BY <2>1 DEF Ready, MissingParents
  <2> QED BY <2>4, <2>5
<1>4. LeaveInv'
  BY <1>2, <1>3 DEF LeaveInv
<1> QED BY <1>1, <1>4

(* A handler that is not in a pass edits the live pool only. *)
LEMMA IdleLeaves ==
  ASSUME LeaveInv, pc' = "idle", cand' = cand, Named(mem')
  PROVE  LeaveInv'
<1>1. "idle" \notin PassNames
  BY DEF PassNames
<1> QED BY <1>1, AfterPass DEF LeaveInv

(* A clone was published, or the write failed. *)
LEMMA CommitLeaves ==
  ASSUME LeaveInv, NEW s, Named(s), GivenUp(mem, s),
         mem' = s \/ mem' = mem
  PROVE  Explained /\ Named(mem')
  BY NoneLeave, GivenUpExplained DEF LeaveInv

(* The pool of a fresh node names no parent. *)
LEMMA EmptyNamed == Named(EmptyPool)
  BY EmptyPoolTypes DEF Named

(* The end of a pass. *)
LEMMA EndLeaves ==
  ASSUME cand' = EmptyPool, pc' \in {"idle", "cleanup"}, Named(mem')
  PROVE  LeaveInv'
<1>1. "idle" \notin PassNames /\ "cleanup" \notin PassNames /\ pc' # "quiescence2"
  BY DEF PassNames
<1> QED BY <1>1, AfterPass, EmptyNamed

(* Accepting a block leaves the pool as it is. *)
LEMMA AcceptedLeaves ==
  ASSUME mem \in PoolStates, NEW b \in Blocks, Named(mem), mem' = WithAccepted(b)
  PROVE  Explained /\ Named(mem')
<1>1. Explained
  BY AcceptedFields, NoneLeave
<1>2. Named(WithAccepted(b))
  BY AcceptedFields DEF Named
<1> QED BY <1>1, <1>2

(* The invariant holds initially. *)
LEMMA LeaveInit ==
  ASSUME Init PROVE LeaveInv
  BY EmptyNamed DEF Init, LeaveInv, PassNames

(* Every step preserves it, and explains the orphans that leave. *)
LEMMA LeaveStep ==
  ASSUME "session" \notin Handlers, PoolInv, LeaveInv, [Next]_vars
  PROVE  LeaveInv' /\ Explained
<1>0. /\ mem \in PoolStates /\ cand \in PoolStates /\ NoDangling(mem) /\ NoDangling(cand)
      /\ now \in Times /\ Named(mem) /\ Named(cand)
      /\ pc \in FullPasses => Covers(cand, todo)
  BY DEF PoolInv, TypeOK, Good, LeaveInv
<1>a. now \in Int
  BY SMTT(30), <1>0, OrphanAssumption DEF Times
<1>b. \A s \in PoolStates : SamePool(s, s)
  BY DEF SamePool
<1>1. ASSUME NEW b \in Blocks, ReceiveOrphan(b) PROVE LeaveInv' /\ Explained
  <2>1. mem' = QueueOrphan(mem, b) /\ pc' = "idle" /\ cand' = cand /\ b \notin mem.orphans
    BY <1>1 DEF ReceiveOrphan
  <2>2. Named(mem') /\ \A o \in mem.orphans \ mem'.orphans :
          now - mem.received[o] > MaxAge \/ Cardinality(mem.orphans) >= MaxOrphans
    BY <1>0, <2>1, QueueFewer
  <2>3. Explained
    BY <2>2 DEF Explained
  <2> QED BY <2>1, <2>2, <2>3, IdleLeaves
<1>2. ASSUME NEW b \in Blocks, AcceptInbound(b) PROVE LeaveInv' /\ Explained
  <2> DEFINE grown == WithAccepted(b)
             start == IF \A p \in AllBlocks : grown.index[p] = {} THEN Rebuild(grown) ELSE grown
  <2>1. mem' = grown /\ pc' = "targeted" /\ cand' = start
    BY <1>2 DEF AcceptInbound, BeginPass
  <2>2. grown \in PoolStates
    BY <1>0, AcceptedFields
  <2>3. SamePool(grown, start)
    BY <1>b, <2>2, RebuildSame
  <2>4. Explained /\ Named(grown)
    BY <1>0, <2>1, AcceptedLeaves
  <2> HIDE DEF grown, start
  <2>5. Taken(mem', cand') /\ Named(cand')
    BY <2>1, <2>3, <2>4, TakenNone DEF SamePool
  <2> QED BY <2>1, <2>4, <2>5, AfterPass
<1>3. ASSUME NEW b \in Blocks, AcceptRpc(b) \/ AcceptSubmit(b) PROVE LeaveInv' /\ Explained
  <2>1. mem' = WithAccepted(b) /\ pc' = "idle" /\ cand' = cand
    BY <1>3 DEF AcceptRpc, AcceptSubmit
  <2> QED BY <1>0, <2>1, AcceptedLeaves, IdleLeaves
<1>4. ASSUME NEW b \in Blocks, SubmitAdoption(b) PROVE LeaveInv' /\ Explained
  <2>1. mem' = mem /\ cand' = mem /\ pc' = "submit"
    BY <1>4 DEF SubmitAdoption, BeginPass
  <2>2. Taken(mem, mem)
    BY <1>0, <1>b, TakenNone
  <2> QED BY <1>0, <2>1, <2>2, AfterPass, NoneLeave
<1>5. ASSUME NEW b \in Blocks, SubmitSkipsAdoption(b) PROVE LeaveInv' /\ Explained
  <2>1. mem' = mem /\ cand' = cand /\ pc' = pc /\ now' = now
    BY <1>5 DEF SubmitSkipsAdoption
  <2> QED BY SMTT(30), <1>0, <1>a, <2>1, SameLater
<1>6. CASE RecoveryTick
  <2>1. mem' = Rebuild(mem) /\ cand' = Rebuild(mem) /\ pc' = "recovery"
    BY <1>6 DEF RecoveryTick, BeginPass
  <2>2. SamePool(mem, Rebuild(mem)) /\ Named(Rebuild(mem)) /\ Rebuild(mem) \in PoolStates
    BY <1>0, RebuildSame DEF SamePool
  <2>3. Taken(Rebuild(mem), Rebuild(mem))
    BY <1>b, <2>2, TakenNone
  <2>4. mem'.orphans = mem.orphans
    BY <2>1, <2>2 DEF SamePool
  <2> QED BY <2>1, <2>2, <2>3, <2>4, AfterPass, NoneLeave
<1>7. CASE Quiescence
  <2>1. mem' = mem /\ cand' = Rebuild(mem) /\ pc' = "quiescence"
    BY <1>7 DEF Quiescence, BeginPass
  <2>2. Taken(mem, Rebuild(mem)) /\ Named(Rebuild(mem))
    BY <1>0, RebuildSame, TakenNone
  <2> QED BY <1>0, <2>1, <2>2, AfterPass, NoneLeave
<1>8. CASE AdoptRound
  <2>1. mem' = mem /\ cand' = RoundState(cand, todo) /\ pc' = pc /\ pc \in PassNames
        /\ Ready(cand, todo) # {}
    BY <1>8 DEF AdoptRound, PassNames
  <2>2. Ready(cand, todo) \subseteq Ready(cand, cand.orphans)
    BY DEF Ready
  <2>3. pc # "quiescence2" /\ Taken(mem, cand)
    BY <2>1, <2>2 DEF LeaveInv
  <2>4. Taken(mem, RoundState(cand, todo)) /\ Named(RoundState(cand, todo))
    BY <1>0, <2>3, RoundTaken, TakenTwice
  <2> QED BY <1>0, <2>1, <2>3, <2>4, AfterPass, NoneLeave
<1>c. PICK s : s = Settled(cand, todo)
  OBVIOUS
<1>d. s \in PoolStates /\ SamePool(cand, s) /\ Named(s)
  BY <1>0, <1>c, SettledSame DEF SamePool
<1>9. CASE FinishTargeted
  <2>1. mem' = mem /\ cand' = s /\ pc = "targeted" /\ pc' = "full"
    BY <1>9, <1>c DEF FinishTargeted, PassOver
  <2>2. Taken(mem, cand)
    BY <2>1 DEF LeaveInv, PassNames
  <2>3. Taken(mem, s)
    BY <1>d, <2>2, TakenSame
  <2> QED BY <1>0, <1>d, <2>1, <2>3, AfterPass, NoneLeave
<1>10. CASE FinishInbound \/ FinishSubmit \/ FinishRecovery
  <2>1. /\ mem' = s \/ mem' = mem
        /\ pc \in {"full", "submit", "recovery"}
        /\ cand' = EmptyPool /\ pc' \in {"idle", "cleanup"}
    BY <1>10, <1>c DEF FinishInbound, FinishSubmit, FinishRecovery, PassOver, Commit, Release
  <2>2. Taken(mem, cand)
    BY <2>1 DEF LeaveInv, PassNames
  <2>3. GivenUp(mem, s)
    BY <1>d, <2>2, TakenSame, TakenGivenUp
  <2> QED BY <1>d, <2>1, <2>3, CommitLeaves, EndLeaves
<1>11. CASE RecoveryCleanup \/ RecoveryCleanupGuardFails
  <2>1. PICK b : b = Rebuild(mem)
    OBVIOUS
  <2>2. PICK stale : stale = EvictStale(b)
    OBVIOUS
  <2>3. PICK done : done = Terminalize(stale, MaxAge)
    OBVIOUS
  <2>4. mem' \in {mem, stale, done} /\ pc' = "idle" /\ cand' = cand
    BY <1>11, <2>1, <2>2, <2>3 DEF RecoveryCleanup, RecoveryCleanupGuardFails, Commit
  <2>5. SamePool(mem, b) /\ Named(b) /\ b \in PoolStates /\ NoDangling(b)
    BY <1>0, <2>1, RebuildSame, RebuildSound DEF SamePool, Sound
  <2>6. /\ stale \in PoolStates /\ stale.dag = b.dag /\ Fewer(b, stale) /\ Named(stale)
        /\ \A o \in b.orphans \ stale.orphans : now - b.received[o] > MaxAge
    BY <2>2, <2>5, EvictFewer
  <2>7. NoDangling(stale)
    BY <2>2, <2>5, EvictSound DEF Sound
  <2>8. /\ Named(done) /\ Fewer(stale, done)
        /\ \A o \in stale.orphans \ done.orphans : \E p \in Parents[o] \ done.dag : Suppressed(done, p)
    BY <1>0, <2>3, <2>6, <2>7, TerminalizeFewer
  <2>9. \A o \in mem.orphans \ stale.orphans : now - mem.received[o] > MaxAge
    BY <2>5, <2>6 DEF SamePool
  <2>10. CASE mem' = mem
    BY <1>0, <2>4, <2>10, NoneLeave, IdleLeaves
  <2>11. CASE mem' = stale
    <3>1. Explained
      BY <2>9, <2>11 DEF Explained
    <3> QED BY <2>4, <2>6, <2>11, <3>1, IdleLeaves
  <2>12. CASE mem' = done
    <3>1. \A o \in mem.orphans \ done.orphans :
            \/ now - mem.received[o] > MaxAge
            \/ \E p \in Parents[o] \ done.dag : Suppressed(done, p)
      BY <2>8, <2>9
    <3>2. Explained
      BY <2>12, <3>1 DEF Explained
    <3> QED BY <2>4, <2>8, <2>12, <3>2, IdleLeaves
  <2> QED BY <2>4, <2>10, <2>11, <2>12
<1>12. ASSUME NEW r \in PoolStates, NEW g, Named(r), GivenUp(mem, r), Ready(r, r.orphans) = {},
              QuiescenceContinues(r, g), now' = now
       PROVE  LeaveInv' /\ Explained
  <2>1. CASE BeginPass("quiescence2", Rebuild(r), r.orphans) /\ UNCHANGED mem
    <3>1. pc' = "quiescence2" /\ cand' = Rebuild(r) /\ mem' = mem
      BY <2>1 DEF BeginPass
    <3>2. SamePool(r, Rebuild(r)) /\ Named(Rebuild(r))
      BY RebuildSame
    <3>3. GivenUp(mem, Rebuild(r))
      BY <1>12, <3>2, GivenUpSame
    <3>4. Ready(Rebuild(r), Rebuild(r).orphans) = {}
      BY <1>12, <3>2 DEF SamePool, Ready, MissingParents
    <3> QED BY <1>0, <1>12, <3>1, <3>2, <3>3, <3>4, AfterQuiescence, NoneLeave
  <2>2. CASE mem' = r /\ Release
    <3>1. cand' = EmptyPool /\ pc' = "idle"
      BY <2>2 DEF Release
    <3> QED BY <1>12, <2>2, <3>1, CommitLeaves, EndLeaves
  <2> QED BY <1>12, <2>1, <2>2 DEF QuiescenceContinues
<1>13. ASSUME PassOver("quiescence")
       PROVE  Taken(mem, s) /\ NoDangling(s) /\ Ready(s, s.orphans) = {}
  <2>1. pc = "quiescence" /\ Ready(cand, todo) = {}
    BY <1>13 DEF PassOver
  <2>2. Taken(mem, cand) /\ Covers(cand, todo)
    BY <1>0, <2>1 DEF LeaveInv, PassNames, FullPasses
  <2>3. Taken(mem, s)
    BY <1>d, <2>2, TakenSame
  <2>4. NoDangling(s)
    BY <1>0, <1>c, SettledSound DEF Sound
  <2>5. Ready(cand, cand.orphans) = {}
    BY <2>1, <2>2 DEF Covers, Ready
  <2> QED BY <1>d, <2>3, <2>4, <2>5 DEF SamePool, Ready, MissingParents
<1>14. CASE FinishQuiescence
  <2>1. PICK t : t = Terminalize(s, QuiescenceAge)
    OBVIOUS
  <2>2. PICK r : r = PruneHistory(t)
    OBVIOUS
  <2>3. PassOver("quiescence") /\ now' = now
        /\ QuiescenceContinues(r, adopted # {} \/ Terminalized(s, QuiescenceAge) # {})
    BY <1>14, <1>c, <2>1, <2>2 DEF FinishQuiescence
  <2>4. Taken(mem, s) /\ NoDangling(s) /\ Ready(s, s.orphans) = {}
    BY <1>13, <2>3
  <2>5. /\ t \in PoolStates /\ t.dag = s.dag /\ Fewer(s, t) /\ Named(t)
        /\ \A o \in s.orphans \ t.orphans :
             \E p \in Parents[o] \ t.dag : Suppressed(t, p) /\ Overdue(s, p, QuiescenceAge)
    BY <1>0, <1>d, <2>1, <2>4, TerminalizeFewer
  <2>6. GivenUp(mem, t)
    BY <2>4, <2>5, TakenThenGivenUp
  <2>7. SamePool(t, r) /\ r \in PoolStates /\ Named(r)
    BY <2>2, <2>5, HistorySame DEF SamePool
  <2>8. GivenUp(mem, r)
    BY <2>6, <2>7, GivenUpSame
  <2>9. r.orphans \subseteq s.orphans /\ r.dag = s.dag
    BY <2>5, <2>7 DEF SamePool, Fewer
  <2>10. Ready(r, r.orphans) = {}
    BY <2>4, <2>9 DEF Ready, MissingParents
  <2> QED BY <1>12, <2>3, <2>7, <2>8, <2>10
<1>15. CASE FinishQuiescenceGuardFails
  <2>1. PICK r : r = PruneHistory(s)
    OBVIOUS
  <2>2. PassOver("quiescence") /\ now' = now /\ QuiescenceContinues(r, adopted # {})
    BY <1>15, <1>c, <2>1 DEF FinishQuiescenceGuardFails
  <2>3. Taken(mem, s) /\ Ready(s, s.orphans) = {}
    BY <1>13, <2>2
  <2>4. SamePool(s, r) /\ r \in PoolStates /\ Named(r)
    BY <1>d, <2>1, HistorySame DEF SamePool
  <2>5. GivenUp(mem, r)
    BY <2>3, <2>4, TakenGivenUp, GivenUpSame
  <2>6. Ready(r, r.orphans) = {}
    BY <2>3, <2>4 DEF SamePool, Ready, MissingParents
  <2> QED BY <1>12, <2>2, <2>4, <2>5, <2>6
<1>16. CASE FinishQuiescence2
  <2>1. pc = "quiescence2" /\ mem' = s /\ cand' = EmptyPool /\ pc' = "idle"
    BY <1>16, <1>c DEF FinishQuiescence2, PassOver, Release
  <2>2. GivenUp(mem, s)
    BY <1>d, <2>1, GivenUpSame DEF LeaveInv
  <2> QED BY <1>d, <2>1, <2>2, CommitLeaves, EndLeaves
<1>17. ASSUME NEW p \in Blocks, ExhaustParent(p) PROVE LeaveInv' /\ Explained
  <2>1. pc' = "idle" /\ cand' = cand
    BY <1>17 DEF ExhaustParent
  <2>2. CASE p \in mem.dag
    <3>1. mem' = [mem EXCEPT !.term[p] = Entry("resolved", {})]
      BY <1>17, <2>2 DEF ExhaustParent
    <3>2. mem'.orphans = mem.orphans /\ mem'.missing = mem.missing
      BY <1>0, <3>1 DEF PoolStates
    <3>3. Named(mem')
      BY <1>0, <3>2 DEF Named
    <3> QED BY <2>1, <3>2, <3>3, NoneLeave, IdleLeaves
  <2>3. CASE p \notin mem.dag
    <3>1. mem' = Exhaust(mem, {p}, "evicted")
      BY <1>17, <2>3 DEF ExhaustParent
    <3>2. {p} \in SUBSET AllBlocks /\ "evicted" \in TermStates
      BY DEF AllBlocks, TermStates
    <3>3. /\ mem'.dag = mem.dag /\ Named(mem')
          /\ \A o \in mem.orphans \ mem'.orphans :
               o \in mem.index[p] /\ mem'.term[p].state = "evicted"
      BY SMTT(30), <1>0, <3>1, <3>2, ExhaustFewer
    <3>4. ASSUME NEW o \in mem.orphans \ mem'.orphans
          PROVE  p \in Parents[o] \ mem'.dag /\ Suppressed(mem', p)
      <4>1. p \in mem.missing[o]
        BY <1>0, <3>3 DEF NoDangling, AllBlocks
      <4>2. o \in Blocks
        BY <1>0, PoolFields
      <4> QED BY <1>0, <2>3, <3>3, <4>1, <4>2 DEF Named, Suppressed
    <3>5. Explained
      BY <3>4 DEF Explained
    <3> QED BY <2>1, <3>3, <3>5, IdleLeaves
  <2> QED BY <2>2, <2>3
<1>18. CASE Tick
  <2>1. mem' = mem /\ cand' = cand /\ pc' = pc /\ now' = now + 1
    BY <1>18 DEF Tick
  <2> QED BY SMTT(30), <1>0, <1>a, <2>1, SameLater
<1>19. CASE UNCHANGED vars
  <2>1. mem' = mem /\ cand' = cand /\ pc' = pc /\ now' = now
    BY <1>19 DEF vars
  <2> QED BY SMTT(30), <1>0, <1>a, <2>1, SameLater
<1>20. \A p \in Blocks : ~MarkRequired(p)
  BY DEF MarkRequired
<1> QED
  BY <1>1, <1>2, <1>3, <1>4, <1>5, <1>6, <1>7, <1>8, <1>9, <1>10, <1>11, <1>14, <1>15,
     <1>16, <1>17, <1>18, <1>19, <1>20 DEF Next, PassStep

(* On a node without selected-segment sessions an orphan leaves the pool    *)
(* only for one of the documented reasons, whichever of the handlers took   *)
(* it out and however its adoption rounds, cleanups and failed writes       *)
(* followed each other.                                                     *)
THEOREM EvictionsAreExplained ==
  ASSUME "session" \notin Handlers
  PROVE  Spec => EvictionExplained
<1>1. Init => LeaveInv
  BY LeaveInit
<1>2. PoolInv /\ LeaveInv /\ [Next]_vars => LeaveInv' /\ Explained
  BY LeaveStep
<1>3. EvictionExplained <=> [][Explained]_vars
  BY DEF EvictionExplained, Explained
<1> QED BY <1>1, <1>2, <1>3, PoolInvariant, PTL DEF Spec

=============================================================================
