------------------------ MODULE BlockRequestsProofs ------------------------
(* Proofs about BlockRequests, for every set of blocks and peers and every  *)
(* limit.  The argument is local to the tracker: each of its operations     *)
(* keeps a tracker sound, and the handlers only combine operations.         *)
EXTENDS BlockRequests, FiniteSetTheorems, TLAPS

(* The leaves are for Zenon; those that need arithmetic or records name SMTT. *)
USE ZenonT(30)

-----------------------------------------------------------------------------
(* The invariants as properties of a tracker. *)

Bounded(s) ==
  /\ Cardinality(s.pend) <= MaxPending
  /\ \A p \in Peers : Cardinality(InFlight(s, p)) <= MaxPerPeer

Unfailed(s) == \A h \in s.pend : s.peer[h] \notin Failed(s, h)

Sound(s) == Bounded(s) /\ Unfailed(s) /\ s.exhausted \cap s.pend = {}

(* r is a sound tracker with the deferred children of s. *)
Keeps(r, s) ==
  r \in Trackers /\ Sound(r) /\ r.deferred = s.deferred /\ r.headers = s.headers

(* r has no request that s has not, and knows of no further failure. *)
Relaxes(r, s) ==
  /\ r.pend \subseteq s.pend
  /\ \A h \in r.pend : r.peer[h] = s.peer[h] /\ Failed(r, h) \subseteq Failed(s, h)
  /\ r.exhausted \cap r.pend = {}

(* The pending table is finite. *)
LEMMA FinitePending ==
  ASSUME NEW s \in Trackers, NEW S \in SUBSET s.pend
  PROVE  /\ IsFiniteSet(s.pend) /\ IsFiniteSet(S)
         /\ Cardinality(s.pend) \in Nat /\ Cardinality(S) \in Nat
         /\ Cardinality(S) <= Cardinality(s.pend)
  <1>1. s.pend \in SUBSET Hashes
    BY DEF Trackers
  <1>2. IsFiniteSet(s.pend)
    BY <1>1, FS_Subset, RequestAssumption
  <1> QED
    BY <1>2, FS_Subset, FS_CardinalityType

(* Fewer requests are as sound as more. *)
LEMMA RelaxedIsSound ==
  ASSUME NEW s \in Trackers, Sound(s), NEW r \in Trackers, Relaxes(r, s)
  PROVE  Sound(r)
  <1>1. Cardinality(r.pend) <= MaxPending
    <2>1. Cardinality(r.pend) <= Cardinality(s.pend) /\ Cardinality(s.pend) \in Nat
          /\ Cardinality(r.pend) \in Nat
      BY FinitePending DEF Relaxes
    <2> QED
      BY SMTT(30), <2>1, RequestAssumption DEF Sound, Bounded
  <1>2. ASSUME NEW p \in Peers
        PROVE  Cardinality(InFlight(r, p)) <= MaxPerPeer
    <2>1. InFlight(r, p) \subseteq InFlight(s, p) /\ InFlight(s, p) \subseteq s.pend
      BY DEF InFlight, Relaxes
    <2>2. IsFiniteSet(InFlight(s, p))
      BY <2>1, FinitePending
    <2>3. Cardinality(InFlight(r, p)) <= Cardinality(InFlight(s, p))
          /\ Cardinality(InFlight(s, p)) \in Nat /\ Cardinality(InFlight(r, p)) \in Nat
      BY <2>1, <2>2, FS_Subset, FS_CardinalityType
    <2>4. Cardinality(InFlight(s, p)) <= MaxPerPeer
      BY DEF Sound, Bounded
    <2> QED
      BY SMTT(30), <2>3, <2>4, RequestAssumption
  <1>3. Unfailed(r)
    BY DEF Unfailed, Sound, Relaxes
  <1> QED
    BY <1>1, <1>2, <1>3 DEF Sound, Bounded, Relaxes

-----------------------------------------------------------------------------
(* Waits stay within their bounds. *)

(* A capped number is within its cap. *)
LEMMA AtMostType ==
  ASSUME NEW n \in Nat, NEW limit \in Nat
  PROVE  AtMost(n, limit) \in 0 .. limit
  BY SMTT(30) DEF AtMost

(* The factor of a backoff is a number. *)
LEMMA ShiftType ==
  ASSUME NEW n \in 0 .. 6
  PROVE  Shift(n) \in Nat
  <1>1. AtMost(n, 6) = n
    BY SMTT(30) DEF AtMost
  <1>2. n + 1 \in 1 .. 7
    BY SMTT(30)
  <1>3. <<1, 2, 4, 8, 16, 32, 64>>[n + 1] \in Nat
    BY SMTT(30), <1>2
  <1> QED
    BY <1>1, <1>3 DEF Shift

(* A dropped hash only gets a longer backoff. *)
LEMMA DropKeeps ==
  ASSUME NEW s \in Trackers, Sound(s), NEW h \in Hashes
  PROVE  /\ Keeps(Drop(s, h), s)
         /\ Drop(s, h).pend = s.pend /\ Drop(s, h).exhausted = s.exhausted
  <1> DEFINE f == AtMost(s.fails[h] + 1, 6)
             w == AtMost(BackoffBase * Shift(f), MaxWait)
  <1>1. f \in 0 .. 6
    <2>1. s.fails[h] \in 0 .. 6
      BY DEF Trackers
    <2>2. s.fails[h] + 1 \in Nat
      BY SMTT(30), <2>1
    <2> QED
      BY <2>2, AtMostType
  <1>2. Shift(f) \in Nat /\ BackoffBase \in Nat /\ MaxWait \in Nat
    BY <1>1, ShiftType, RequestAssumption
  <1>3. \A a, b \in Nat : a * b \in Nat
    BY SMTT(30)
  <1>4. w \in 0 .. MaxWait
    BY <1>2, <1>3, AtMostType
  <1>5. Drop(s, h) = [s EXCEPT !.fails[h] = f, !.hold[h] = w]
    BY DEF Drop
  <1> HIDE DEF f, w
  <1>6. Drop(s, h) \in Trackers
    <2>1. /\ [s.fails EXCEPT ![h] = f] \in [Hashes -> 0 .. 6]
          /\ [s.hold EXCEPT ![h] = w] \in [Hashes -> 0 .. MaxWait]
      BY <1>1, <1>4 DEF Trackers
    <2> QED
      BY <2>1, <1>5 DEF Trackers
  <1>7. /\ Drop(s, h).pend = s.pend /\ Drop(s, h).exhausted = s.exhausted
        /\ Drop(s, h).deferred = s.deferred /\ Drop(s, h).headers = s.headers
        /\ Drop(s, h).peer = s.peer
        /\ Drop(s, h).notFound = s.notFound /\ Drop(s, h).timedOut = s.timedOut
    BY <1>5 DEF Trackers
  <1>8. Relaxes(Drop(s, h), s)
    BY <1>7 DEF Relaxes, Failed, Sound
  <1> QED
    BY <1>6, <1>7, <1>8, RelaxedIsSound DEF Keeps

-----------------------------------------------------------------------------
(* The operations on one request. *)

(* Forgetting a hash keeps the tracker sound. *)
LEMMA ForgetKeeps ==
  ASSUME NEW s \in Trackers, Sound(s), NEW h \in Hashes
  PROVE  /\ Keeps(Forget(s, h), s)
         /\ Forget(s, h).pend = s.pend /\ Forget(s, h).exhausted = s.exhausted
  <1>1. [s.fails EXCEPT ![h] = 0] \in [Hashes -> 0 .. 6]
    BY SMTT(30) DEF Trackers
  <1>2. Forget(s, h) \in Trackers
    BY <1>1 DEF Forget, Trackers
  <1>3. /\ Forget(s, h).pend = s.pend /\ Forget(s, h).exhausted = s.exhausted
        /\ Forget(s, h).deferred = s.deferred /\ Forget(s, h).headers = s.headers
        /\ Forget(s, h).peer = s.peer
        /\ Forget(s, h).notFound = s.notFound /\ Forget(s, h).timedOut = s.timedOut
    BY DEF Forget, Trackers
  <1>4. Relaxes(Forget(s, h), s)
    BY <1>3 DEF Relaxes, Failed, Sound
  <1> QED
    BY <1>2, <1>3, <1>4, RelaxedIsSound DEF Keeps

(* The fields of a tracker after a request was removed. *)
LEMMA RemoveFields ==
  ASSUME NEW s \in Trackers, NEW h \in Hashes
  PROVE  /\ Remove(s, h) \in Trackers
         /\ Remove(s, h).pend = s.pend \ {h} /\ Remove(s, h).exhausted = s.exhausted
         /\ Remove(s, h).deferred = s.deferred /\ Remove(s, h).headers = s.headers
         /\ \A x \in s.pend \ {h} : Remove(s, h).peer[x] = s.peer[x]
         /\ Remove(s, h).notFound = s.notFound /\ Remove(s, h).timedOut = s.timedOut
  <1>1. /\ [s.peer EXCEPT ![h] = NoPeer] \in [Hashes -> Peers \cup {NoPeer}]
        /\ [s.age EXCEPT ![h] = 0] \in [Hashes -> 0 .. MaxWait]
        /\ [s.tries EXCEPT ![h] = 0] \in [Hashes -> 0 .. RetryLimit]
    BY SMTT(30), RequestAssumption DEF Trackers
  <1>2. /\ Remove(s, h).pend = s.pend \ {h} /\ Remove(s, h).exhausted = s.exhausted
        /\ Remove(s, h).deferred = s.deferred /\ Remove(s, h).headers = s.headers
        /\ Remove(s, h).peer = [s.peer EXCEPT ![h] = NoPeer]
        /\ Remove(s, h).notFound = s.notFound /\ Remove(s, h).timedOut = s.timedOut
    BY DEF Remove, Trackers
  <1>3. Remove(s, h) \in Trackers
    BY <1>1 DEF Remove, Trackers
  <1>4. s.peer \in [Hashes -> Peers \cup {NoPeer}] /\ s.pend \subseteq Hashes
    BY DEF Trackers
  <1> QED
    BY <1>2, <1>3, <1>4

(* Removing a request keeps the tracker sound. *)
LEMMA RemoveKeeps ==
  ASSUME NEW s \in Trackers, Sound(s), NEW h \in Hashes
  PROVE  /\ Keeps(Remove(s, h), s)
         /\ Remove(s, h).pend = s.pend \ {h} /\ Remove(s, h).exhausted = s.exhausted
  <1>1. Relaxes(Remove(s, h), s)
    BY SMTT(30), RemoveFields DEF Relaxes, Failed, Sound
  <1> QED
    BY <1>1, RemoveFields, RelaxedIsSound DEF Keeps

(* A request may be put where there is room and the peer has not failed.    *)
LEMMA PutKeeps ==
  ASSUME NEW s \in Trackers, Sound(s), NEW h \in Hashes, NEW p \in Peers \cup {NoPeer},
         h \notin s.exhausted, p \notin Failed(s, h),
         Cardinality(s.pend \ {h}) < MaxPending,
         p \in Peers => Cardinality(InFlight(s, p) \ {h}) < MaxPerPeer
  PROVE  /\ Keeps(Put(s, h, p), s)
         /\ Put(s, h, p).pend = s.pend \cup {h} /\ Put(s, h, p).exhausted = s.exhausted
  <1> DEFINE r == Put(s, h, p)
  <1>1. /\ [s.peer EXCEPT ![h] = p] \in [Hashes -> Peers \cup {NoPeer}]
        /\ [s.age EXCEPT ![h] = 0] \in [Hashes -> 0 .. MaxWait]
        /\ [s.tries EXCEPT ![h] = 0] \in [Hashes -> 0 .. RetryLimit]
        /\ [s.fails EXCEPT ![h] = 0] \in [Hashes -> 0 .. 6]
        /\ [s.hold EXCEPT ![h] = 0] \in [Hashes -> 0 .. MaxWait]
    BY SMTT(30), RequestAssumption DEF Trackers
  <1>2. /\ r.pend = s.pend \cup {h} /\ r.exhausted = s.exhausted
        /\ r.deferred = s.deferred /\ r.headers = s.headers
        /\ r.peer = [s.peer EXCEPT ![h] = p]
        /\ r.notFound = s.notFound /\ r.timedOut = s.timedOut
    BY DEF Put, Trackers
  <1>3. r \in Trackers
    <2> DEFINE u == [s EXCEPT !.pend = @ \cup {h}, !.peer[h] = p, !.age[h] = 0]
    <2>1. u \in Trackers /\ u.tries = s.tries /\ u.fails = s.fails /\ u.hold = s.hold
      BY <1>1 DEF Trackers
    <2>2. r = [u EXCEPT !.tries[h] = 0, !.fails[h] = 0, !.hold[h] = 0]
      BY DEF Put
    <2> HIDE DEF u, r
    <2> QED
      BY <1>1, <2>1, <2>2 DEF Trackers
  <1>4. s.peer \in [Hashes -> Peers \cup {NoPeer}] /\ s.pend \subseteq Hashes
    BY DEF Trackers
  <1> HIDE DEF r
  <1>5. Cardinality(r.pend) <= MaxPending
    <2>1. IsFiniteSet(s.pend \ {h}) /\ Cardinality(s.pend \ {h}) \in Nat
      BY FinitePending
    <2>2. r.pend = (s.pend \ {h}) \cup {h}
      BY <1>2
    <2>3. Cardinality(r.pend) = Cardinality(s.pend \ {h}) + 1
      BY <2>1, <2>2, FS_AddElement
    <2> QED
      BY SMTT(30), <2>1, <2>3, RequestAssumption
  <1>6. ASSUME NEW q \in Peers
        PROVE  Cardinality(InFlight(r, q)) <= MaxPerPeer
    <2>1. IsFiniteSet(InFlight(s, q) \ {h}) /\ Cardinality(InFlight(s, q) \ {h}) \in Nat
      BY FinitePending DEF InFlight
    <2>2. CASE q = p
      <3>1. InFlight(r, q) = (InFlight(s, q) \ {h}) \cup {h}
        BY <1>2, <1>4, <2>2 DEF InFlight
      <3>2. Cardinality(InFlight(r, q)) = Cardinality(InFlight(s, q) \ {h}) + 1
        BY <2>1, <3>1, FS_AddElement
      <3> QED
        BY SMTT(30), <2>1, <2>2, <3>2, RequestAssumption
    <2>3. CASE q # p
      <3>1. InFlight(r, q) = InFlight(s, q) \ {h}
        BY <1>2, <1>4, <2>3 DEF InFlight
      <3>2. IsFiniteSet(InFlight(s, q)) /\ Cardinality(InFlight(s, q)) \in Nat
        BY FinitePending DEF InFlight
      <3>3. Cardinality(InFlight(s, q) \ {h}) <= Cardinality(InFlight(s, q))
        BY <3>2, FS_Subset
      <3>4. Cardinality(InFlight(s, q)) <= MaxPerPeer
        BY DEF Sound, Bounded
      <3> QED
        BY SMTT(30), <2>1, <3>1, <3>2, <3>3, <3>4, RequestAssumption
    <2> QED
      BY <2>2, <2>3
  <1>7. Unfailed(r)
    BY SMTT(30), <1>2, <1>4 DEF Unfailed, Sound, Failed
  <1>8. r.exhausted \cap r.pend = {}
    BY <1>2 DEF Sound
  <1>9. Sound(r)
    BY <1>5, <1>6, <1>7, <1>8 DEF Sound, Bounded
  <1> QED
    BY <1>2, <1>3, <1>9 DEF Keeps, r

(* The peers that failed to deliver are peers. *)
LEMMA FailedArePeers ==
  ASSUME NEW s \in Trackers, NEW h \in Hashes
  PROVE  Failed(s, h) \subseteq Peers /\ NoPeer \notin Failed(s, h)
  <1>1. s.notFound[h] \in SUBSET Peers /\ s.timedOut[h] \in SUBSET Peers
    BY DEF Trackers
  <1> QED
    BY <1>1, RequestAssumption DEF Failed

(* Leaving a request out of a count does not raise it. *)
LEMMA RoomWithout ==
  ASSUME NEW s \in Trackers, NEW h, NEW S \in SUBSET s.pend, NEW limit \in Nat,
         Cardinality(S) < limit
  PROVE  Cardinality(S \ {h}) < limit
  <1>1. IsFiniteSet(S) /\ Cardinality(S) \in Nat /\ Cardinality(S \ {h}) \in Nat
    BY FinitePending
  <1>2. Cardinality(S \ {h}) <= Cardinality(S)
    BY <1>1, FS_Subset
  <1> QED
    BY SMTT(30), <1>1, <1>2

(* A request to an available peer keeps the tracker sound. *)
LEMMA AvailableTakes ==
  ASSUME NEW s \in Trackers, Sound(s), NEW h \in Hashes, NEW ps \in SUBSET Peers,
         h \notin s.exhausted, ~Full(s), NEW p \in Available(s, h, ps) \cup {NoPeer}
  PROVE  /\ Keeps(Put(s, h, p), s)
         /\ Put(s, h, p).pend = s.pend \cup {h} /\ Put(s, h, p).exhausted = s.exhausted
  <1>1. p \in Peers \cup {NoPeer} /\ p \notin Failed(s, h)
    BY FailedArePeers DEF Available, Eligible
  <1>2. MaxPending \in Nat /\ MaxPerPeer \in Nat
    BY RequestAssumption
  <1>3. Cardinality(s.pend) < MaxPending
    BY SMTT(30), <1>2, FinitePending DEF Full
  <1>4. Cardinality(s.pend \ {h}) < MaxPending
    BY <1>2, <1>3, RoomWithout
  <1>5. p \in Peers => Cardinality(InFlight(s, p) \ {h}) < MaxPerPeer
    <2> SUFFICES ASSUME p \in Peers PROVE Cardinality(InFlight(s, p) \ {h}) < MaxPerPeer
      OBVIOUS
    <2>1. Cardinality(InFlight(s, p)) < MaxPerPeer
      BY RequestAssumption DEF Available
    <2>2. InFlight(s, p) \in SUBSET s.pend
      BY DEF InFlight
    <2> QED
      BY <1>2, <2>1, <2>2, RoomWithout
  <1> QED
    BY <1>1, <1>4, <1>5, PutKeeps

(* Sending a request again keeps the tracker sound. *)
LEMMA ReissueKeeps ==
  ASSUME NEW s \in Trackers, Sound(s), NEW h \in Hashes
  PROVE  /\ Keeps(Reissue(s, h), s)
         /\ Reissue(s, h).pend = s.pend /\ Reissue(s, h).exhausted = s.exhausted
  <1> DEFINE r == [s EXCEPT !.tries[h] = @ + 1, !.age[h] = 0]
  <1>1. CASE Elapsed(s, h) /\ ~(s.tries[h] >= RetryLimit)
    <2>1. s.tries[h] \in 0 .. RetryLimit /\ RetryLimit \in Nat /\ MaxWait \in Nat
      BY RequestAssumption DEF Trackers
    <2>2. s.tries[h] + 1 \in 0 .. RetryLimit /\ 0 \in 0 .. MaxWait
      BY SMTT(30), <1>1, <2>1
    <2>3. /\ [s.tries EXCEPT ![h] = s.tries[h] + 1] \in [Hashes -> 0 .. RetryLimit]
          /\ [s.age EXCEPT ![h] = 0] \in [Hashes -> 0 .. MaxWait]
      BY <2>2 DEF Trackers
    <2>4. r \in Trackers
      BY <2>3 DEF Trackers
    <2>5. /\ r.pend = s.pend /\ r.exhausted = s.exhausted /\ r.peer = s.peer
          /\ r.deferred = s.deferred /\ r.headers = s.headers
          /\ r.notFound = s.notFound /\ r.timedOut = s.timedOut
      BY DEF Trackers
    <2>6. Reissue(s, h) = r
      BY <1>1 DEF Reissue
    <2> HIDE DEF r
    <2>7. Relaxes(r, s)
      BY <2>5 DEF Relaxes, Failed, Sound
    <2> QED
      BY <2>4, <2>5, <2>6, <2>7, RelaxedIsSound DEF Keeps
  <1>2. CASE Elapsed(s, h) /\ s.tries[h] >= RetryLimit
    BY <1>2, DropKeeps DEF Reissue
  <1>3. CASE ~Elapsed(s, h)
    BY <1>3 DEF Reissue, Keeps
  <1> QED
    BY <1>1, <1>2, <1>3

(* request_block keeps the tracker sound and every pending request. *)
LEMMA IssueKeeps ==
  ASSUME NEW s \in Trackers, Sound(s), NEW h \in Hashes, NEW ps \in SUBSET Peers,
         NEW r \in Issue(s, h, ps)
  PROVE  Keeps(r, s) /\ s.pend \subseteq r.pend
  <1>1. CASE Refused(s, h)
    BY <1>1 DEF Issue, Keeps
  <1>2. CASE ~Refused(s, h) /\ h \in s.pend
    <2>1. r = Reissue(Forget(s, h), h)
      BY <1>2 DEF Issue
    <2>2. Keeps(Forget(s, h), s) /\ Forget(s, h).pend = s.pend
      BY ForgetKeeps
    <2>3. Forget(s, h) \in Trackers /\ Sound(Forget(s, h))
      BY <2>2 DEF Keeps
    <2>4. Keeps(r, Forget(s, h)) /\ r.pend = Forget(s, h).pend
      BY <2>1, <2>3, ReissueKeeps
    <2> QED
      BY <2>2, <2>4 DEF Keeps
  <1>3. CASE ~Refused(s, h) /\ h \notin s.pend /\ Full(s)
    BY <1>3, ForgetKeeps DEF Issue
  <1>4. CASE ~Refused(s, h) /\ h \notin s.pend /\ ~Full(s)
    <2>1. PICK p \in Available(s, h, ps) \cup {NoPeer} : r = Put(s, h, p)
      BY <1>4 DEF Issue
    <2>2. h \notin s.exhausted
      BY <1>4 DEF Refused
    <2> QED
      BY SMTT(30), <1>4, <2>1, <2>2, AvailableTakes
  <1> QED
    BY <1>1, <1>2, <1>3, <1>4

(* A request to one given peer keeps the tracker sound and every pending request. *)
LEMMA StrictKeeps ==
  ASSUME NEW s \in Trackers, Sound(s), NEW h \in Hashes, NEW p \in Peers
  PROVE  Keeps(Strict(s, h, p), s) /\ s.pend \subseteq Strict(s, h, p).pend
  <1> DEFINE full == h \in s.pend \/ Full(s) \/ p \in Failed(s, h)
                     \/ Cardinality(InFlight(s, p)) >= MaxPerPeer
  <1>1. CASE Refused(s, h)
    BY <1>1 DEF Strict, Keeps
  <1>2. CASE ~Refused(s, h) /\ full
    BY <1>2, ForgetKeeps DEF Strict
  <1>3. CASE ~Refused(s, h) /\ ~full
    <2>1. MaxPending \in Nat /\ MaxPerPeer \in Nat
      BY RequestAssumption
    <2>2. InFlight(s, p) \in SUBSET s.pend
      BY DEF InFlight
    <2>3. Cardinality(s.pend) \in Nat /\ Cardinality(InFlight(s, p)) \in Nat
      BY <2>2, FinitePending
    <2>4. Cardinality(s.pend) < MaxPending /\ Cardinality(InFlight(s, p)) < MaxPerPeer
      BY SMTT(30), <1>3, <2>1, <2>3 DEF Full
    <2>5. Cardinality(s.pend \ {h}) < MaxPending /\ Cardinality(InFlight(s, p) \ {h}) < MaxPerPeer
      BY <2>1, <2>2, <2>4, RoomWithout
    <2>6. Strict(s, h, p) = Put(s, h, p) /\ h \notin s.exhausted /\ p \notin Failed(s, h)
      BY <1>3 DEF Strict, Refused
    <2> QED
      BY SMTT(30), <2>5, <2>6, PutKeeps
  <1> QED
    BY <1>1, <1>2, <1>3

(* Moving a request to another peer keeps the tracker sound. *)
LEMMA PromoteKeeps ==
  ASSUME NEW s \in Trackers, Sound(s), NEW h \in Hashes, NEW p \in Peers
  PROVE  Keeps(Promote(s, h, p), s)
  <1> DEFINE full == p \in Failed(s, h) \/ Cardinality(s.pend \ {h}) >= MaxPending
                     \/ Cardinality(InFlight(s, p) \ {h}) >= MaxPerPeer
             u == Put(s, h, p)
             r == [u EXCEPT !.tries[h] = s.tries[h]]
  <1>1. CASE Refused(s, h)
    BY <1>1 DEF Promote, Keeps
  <1>2. CASE ~Refused(s, h) /\ full
    BY <1>2, ForgetKeeps DEF Promote
  <1>3. CASE ~Refused(s, h) /\ ~full
    <2>1. MaxPending \in Nat /\ MaxPerPeer \in Nat
      BY RequestAssumption
    <2>2. Cardinality(s.pend \ {h}) \in Nat /\ Cardinality(InFlight(s, p) \ {h}) \in Nat
      BY FinitePending DEF InFlight
    <2>3. Cardinality(s.pend \ {h}) < MaxPending /\ Cardinality(InFlight(s, p) \ {h}) < MaxPerPeer
      BY SMTT(30), <1>3, <2>1, <2>2
    <2>4. Promote(s, h, p) = r /\ h \notin s.exhausted /\ p \notin Failed(s, h)
      BY <1>3 DEF Promote, Refused
    <2>5. Keeps(u, s)
      BY <2>3, <2>4, PutKeeps
    <2>6. u \in Trackers /\ Sound(u)
      BY <2>5 DEF Keeps
    <2> HIDE DEF u
    <2>7. s.tries[h] \in 0 .. RetryLimit
      BY DEF Trackers
    <2>8. [u.tries EXCEPT ![h] = s.tries[h]] \in [Hashes -> 0 .. RetryLimit]
      BY <2>6, <2>7 DEF Trackers
    <2>9. r \in Trackers
      BY <2>6, <2>8 DEF Trackers
    <2>10. /\ r.pend = u.pend /\ r.exhausted = u.exhausted /\ r.peer = u.peer
           /\ r.deferred = u.deferred /\ r.headers = u.headers
           /\ r.notFound = u.notFound /\ r.timedOut = u.timedOut
      BY <2>6 DEF Trackers
    <2> HIDE DEF r
    <2>11. Relaxes(r, u)
      BY <2>6, <2>10 DEF Relaxes, Failed, Sound
    <2>12. Sound(r)
      BY <2>6, <2>9, <2>11, RelaxedIsSound
    <2> QED
      BY <2>4, <2>5, <2>9, <2>10, <2>12 DEF Keeps
  <1> QED
    BY <1>1, <1>2, <1>3

(* Giving up on a hash that is not pending keeps the tracker sound. *)
LEMMA ExhaustKeeps ==
  ASSUME NEW s \in Trackers, Sound(s), NEW h \in Hashes, h \notin s.pend
  PROVE  Keeps(Exhaust(s, h), s) /\ Exhaust(s, h).pend = s.pend
  <1> DEFINE u == Drop(s, h)
             r == [u EXCEPT !.exhausted = @ \cup {h}]
  <1>1. Keeps(u, s) /\ u.pend = s.pend
    BY DropKeeps
  <1>2. u \in Trackers /\ Sound(u)
    BY <1>1 DEF Keeps
  <1>3. Exhaust(s, h) = r
    BY DEF Exhaust
  <1> HIDE DEF u
  <1>4. r \in Trackers
    BY <1>2 DEF Trackers
  <1>5. /\ r.pend = u.pend /\ r.exhausted = u.exhausted \cup {h} /\ r.peer = u.peer
        /\ r.deferred = u.deferred /\ r.headers = u.headers
        /\ r.notFound = u.notFound /\ r.timedOut = u.timedOut
    BY <1>2 DEF Trackers
  <1> HIDE DEF r
  <1>6. Relaxes(r, u)
    BY <1>1, <1>2, <1>5 DEF Relaxes, Failed, Sound
  <1> QED
    BY <1>1, <1>2, <1>3, <1>4, <1>5, <1>6, RelaxedIsSound DEF Keeps

(* The next peer is asked only about a block that was in flight, hence not  *)
(* exhausted; the operation itself does not look.                           *)
LEMMA NextPeerKeeps ==
  ASSUME NEW s \in Trackers, Sound(s), NEW h \in Hashes, NEW ps \in SUBSET Peers,
         h \notin s.pend, h \notin s.exhausted, NEW r \in NextPeer(s, h, ps)
  PROVE  Keeps(r, s) /\ s.pend \subseteq r.pend
  <1>1. CASE ps = {}
    BY <1>1, DropKeeps DEF NextPeer
  <1>2. CASE ps # {} /\ Full(s)
    BY <1>2 DEF NextPeer, Keeps
  <1>3. CASE ps # {} /\ ~Full(s) /\ Available(s, h, ps) # {}
    <2>1. PICK p \in Available(s, h, ps) : r = Put(s, h, p)
      BY <1>3 DEF NextPeer
    <2> QED
      BY SMTT(30), <1>3, <2>1, AvailableTakes
  <1>4. CASE ps # {} /\ ~Full(s) /\ Available(s, h, ps) = {}
    BY <1>4, ExhaustKeeps DEF NextPeer
  <1> QED
    BY <1>1, <1>2, <1>3, <1>4

(* A hash that is settled leaves the tracker sound. *)
LEMMA ResolveKeeps ==
  ASSUME NEW s \in Trackers, Sound(s), NEW h \in Hashes
  PROVE  Keeps(Resolve(s, h), s)
  <1> DEFINE u == Remove(s, h)
             r == [u EXCEPT !.hold[h] = 0, !.fails[h] = 0, !.notFound[h] = {},
                            !.timedOut[h] = {}, !.exhausted = @ \ {h}]
  <1>1. Keeps(u, s)
    BY RemoveKeeps
  <1>2. u \in Trackers /\ Sound(u)
    BY <1>1 DEF Keeps
  <1>3. Resolve(s, h) = r
    BY DEF Resolve
  <1> HIDE DEF u
  <1>4. /\ [u.hold EXCEPT ![h] = 0] \in [Hashes -> 0 .. MaxWait]
        /\ [u.fails EXCEPT ![h] = 0] \in [Hashes -> 0 .. 6]
        /\ [u.notFound EXCEPT ![h] = {}] \in [Hashes -> SUBSET Peers]
        /\ [u.timedOut EXCEPT ![h] = {}] \in [Hashes -> SUBSET Peers]
    BY SMTT(30), <1>2, RequestAssumption DEF Trackers
  <1>5. r \in Trackers
    BY <1>2, <1>4 DEF Trackers
  <1>6. /\ r.pend = u.pend /\ r.exhausted = u.exhausted \ {h} /\ r.peer = u.peer
        /\ r.deferred = u.deferred /\ r.headers = u.headers
        /\ r.notFound = [u.notFound EXCEPT ![h] = {}]
        /\ r.timedOut = [u.timedOut EXCEPT ![h] = {}]
    BY <1>2 DEF Trackers
  <1> HIDE DEF r
  <1>7. \A x \in Hashes : Failed(r, x) \subseteq Failed(u, x)
    <2>1. u.notFound \in [Hashes -> SUBSET Peers] /\ u.timedOut \in [Hashes -> SUBSET Peers]
      BY <1>2 DEF Trackers
    <2> QED
      BY <1>6, <2>1 DEF Failed
  <1>8. Relaxes(r, u)
    BY <1>2, <1>5, <1>6, <1>7 DEF Relaxes, Sound, Trackers
  <1> QED
    BY <1>1, <1>2, <1>3, <1>5, <1>6, <1>8, RelaxedIsSound DEF Keeps

(* A request whose peer failed is removed together with the record of it,   *)
(* so that no request is left with the peer.                                *)
LEMMA FailedRequestKeeps ==
  ASSUME NEW s \in Trackers, Sound(s), NEW h \in s.pend,
         NEW u \in {RecordNotFound(s, h), RecordTimeout(s, h)}
  PROVE  /\ Keeps(Remove(u, h), s)
         /\ Remove(u, h).pend = s.pend \ {h} /\ Remove(u, h).exhausted = s.exhausted
  <1>1. /\ h \in Hashes /\ s.peer[h] \in Peers \cup {NoPeer}
        /\ s.notFound \in [Hashes -> SUBSET Peers] /\ s.timedOut \in [Hashes -> SUBSET Peers]
    BY DEF Trackers
  <1>2. /\ u \in Trackers
        /\ u.pend = s.pend /\ u.exhausted = s.exhausted /\ u.peer = s.peer
        /\ u.deferred = s.deferred /\ u.headers = s.headers
        /\ \A x \in s.pend \ {h} : u.notFound[x] = s.notFound[x] /\ u.timedOut[x] = s.timedOut[x]
    <2>1. CASE s.peer[h] = NoPeer
      BY <2>1 DEF RecordNotFound, RecordTimeout
    <2>2. CASE s.peer[h] # NoPeer /\ u = RecordNotFound(s, h)
      <3>1. u = [s EXCEPT !.notFound[h] = @ \cup {s.peer[h]}]
        BY <2>2 DEF RecordNotFound
      <3>2. [s.notFound EXCEPT ![h] = s.notFound[h] \cup {s.peer[h]}] \in [Hashes -> SUBSET Peers]
        BY <1>1, <2>2
      <3> QED
        BY <1>1, <3>1, <3>2 DEF Trackers
    <2>3. CASE s.peer[h] # NoPeer /\ u = RecordTimeout(s, h)
      <3>1. u = [s EXCEPT !.timedOut[h] = @ \cup {s.peer[h]}]
        BY <2>3 DEF RecordTimeout
      <3>2. [s.timedOut EXCEPT ![h] = s.timedOut[h] \cup {s.peer[h]}] \in [Hashes -> SUBSET Peers]
        BY <1>1, <2>3
      <3> QED
        BY <1>1, <3>1, <3>2 DEF Trackers
    <2> QED
      BY <2>1, <2>2, <2>3
  <1> DEFINE r == Remove(u, h)
  <1>3. /\ r \in Trackers
        /\ r.pend = s.pend \ {h} /\ r.exhausted = s.exhausted
        /\ r.deferred = s.deferred /\ r.headers = s.headers
        /\ \A x \in s.pend \ {h} : r.peer[x] = s.peer[x]
        /\ r.notFound = u.notFound /\ r.timedOut = u.timedOut
    BY SMTT(30), <1>1, <1>2, RemoveFields
  <1> HIDE DEF r
  <1>4. Relaxes(r, s)
    BY <1>2, <1>3 DEF Relaxes, Failed, Sound
  <1>5. Keeps(r, s)
    BY <1>3, <1>4, RelaxedIsSound DEF Keeps
  <1> QED
    BY <1>3, <1>5 DEF r

(* Fresh evidence that a peer has blocks keeps the tracker sound. *)
LEMMA FreshEvidenceKeeps ==
  ASSUME NEW s \in Trackers, Sound(s), NEW p \in Peers, NEW hs \in SUBSET Hashes
  PROVE  Keeps(FreshEvidence(s, p, hs), s)
  <1> DEFINE reopened == hs \cap s.exhausted
             minus(failed) == [h \in Hashes |->
                                 IF h \in reopened THEN {}
                                 ELSE IF h \in hs THEN failed[h] \ {p} ELSE failed[h]]
             cleared(f) == [h \in Hashes |-> IF h \in hs THEN 0 ELSE f[h]]
             nf == minus(s.notFound)
             nt == minus(s.timedOut)
             nh == cleared(s.hold)
             nl == cleared(s.fails)
             r == FreshEvidence(s, p, hs)
  <1>1. /\ s.notFound \in [Hashes -> SUBSET Peers] /\ s.timedOut \in [Hashes -> SUBSET Peers]
        /\ s.hold \in [Hashes -> 0 .. MaxWait] /\ s.fails \in [Hashes -> 0 .. 6]
        /\ s.pend \subseteq Hashes
    BY DEF Trackers
  <1>2. nf \in [Hashes -> SUBSET Peers] /\ nt \in [Hashes -> SUBSET Peers]
    BY <1>1
  <1>3. nh \in [Hashes -> 0 .. MaxWait] /\ nl \in [Hashes -> 0 .. 6]
    BY SMTT(30), <1>1, RequestAssumption
  <1>4. \A h \in Hashes : nf[h] \subseteq s.notFound[h] /\ nt[h] \subseteq s.timedOut[h]
    BY <1>1
  <1>5. r = [s EXCEPT !.exhausted = s.exhausted \ hs, !.notFound = nf, !.timedOut = nt,
                      !.hold = nh, !.fails = nl]
    BY DEF FreshEvidence, Trackers
  <1> HIDE DEF nf, nt, nh, nl, r
  <1>6. r \in Trackers
    BY <1>2, <1>3, <1>5 DEF Trackers
  <1>7. /\ r.pend = s.pend /\ r.exhausted = s.exhausted \ hs /\ r.peer = s.peer
        /\ r.deferred = s.deferred /\ r.headers = s.headers
        /\ r.notFound = nf /\ r.timedOut = nt
    BY <1>5 DEF Trackers
  <1>8. \A h \in Hashes : Failed(r, h) \subseteq Failed(s, h)
    BY <1>4, <1>7 DEF Failed
  <1>9. Relaxes(r, s)
    BY <1>1, <1>7, <1>8 DEF Relaxes, Sound
  <1> QED
    BY <1>6, <1>7, <1>9, RelaxedIsSound DEF Keeps, r

(* What a peer says it has keeps the tracker sound. *)
LEMMA SelectedAvailabilityKeeps ==
  ASSUME NEW s \in Trackers, Sound(s), NEW p \in Peers, NEW hs \in SUBSET Hashes
  PROVE  Keeps(SelectedAvailability(s, p, hs), s)
  <1> DEFINE u == [s EXCEPT !.have[p] = @ \cup hs]
  <1>1. s.have[p] \in SUBSET Hashes /\ s.have \in [Peers -> SUBSET Hashes]
    BY DEF Trackers
  <1>2. [s.have EXCEPT ![p] = s.have[p] \cup hs] \in [Peers -> SUBSET Hashes]
    BY <1>1
  <1>3. u \in Trackers
    BY <1>2 DEF Trackers
  <1>4. /\ u.pend = s.pend /\ u.exhausted = s.exhausted /\ u.peer = s.peer
        /\ u.deferred = s.deferred /\ u.headers = s.headers
        /\ u.notFound = s.notFound /\ u.timedOut = s.timedOut
    BY DEF Trackers
  <1>5. SelectedAvailability(s, p, hs) = FreshEvidence(u, p, hs)
    BY DEF SelectedAvailability
  <1> HIDE DEF u
  <1>6. Relaxes(u, s)
    BY <1>4 DEF Relaxes, Failed, Sound
  <1>7. Sound(u)
    BY <1>3, <1>6, RelaxedIsSound
  <1> QED
    BY SMTT(30), <1>3, <1>4, <1>5, <1>7, FreshEvidenceKeeps DEF Keeps

-----------------------------------------------------------------------------
(* The inductive invariant.  The loop's list of requests to retry holds     *)
(* requests in flight: NextPeer does not look whether a block is exhausted, *)
(* and is right not to only because a block in flight is not.  The block    *)
(* every node has is never a missing parent, so it is never asked for.      *)

DeferredIn(s, kn) ==
  /\ \A p \in Blocks : \A c \in s.deferred[p] : p \in Parents[c] /\ c \in s.headers
  /\ \A c \in s.headers \ kn : \A p \in Missing(c, kn) : c \in s.deferred[p]

IInv ==
  /\ TypeOK /\ Sound(t) /\ DeferredIn(t, known)
  /\ Origin \in known /\ retry \subseteq t.pend

(* The invariant holds initially. *)
LEMMA InvInit == Init => IInv
  <1> SUFFICES ASSUME Init PROVE IInv
    OBVIOUS
  <1>1. NewTracker \in Trackers
    <2>1. /\ [h \in Hashes |-> NoPeer] \in [Hashes -> Peers \cup {NoPeer}]
          /\ [h \in Hashes |-> 0] \in [Hashes -> 0 .. MaxWait]
          /\ [h \in Hashes |-> 0] \in [Hashes -> 0 .. RetryLimit]
          /\ [h \in Hashes |-> 0] \in [Hashes -> 0 .. 6]
          /\ [h \in Hashes |-> {}] \in [Hashes -> SUBSET Peers]
          /\ [p \in Peers |-> {}] \in [Peers -> SUBSET Hashes]
          /\ [p \in Blocks |-> {}] \in [Hashes \cup {Origin} -> SUBSET Hashes]
      BY SMTT(30), RequestAssumption DEF Blocks
    <2> QED
      BY <2>1 DEF NewTracker, Trackers
  <1>2. /\ t = NewTracker /\ t.pend = {} /\ t.exhausted = {} /\ t.headers = {}
        /\ t.deferred = [p \in Blocks |-> {}]
    BY DEF Init, NewTracker
  <1>3. TypeOK
    BY SMTT(30), <1>1, <1>2, RequestAssumption DEF Init, TypeOK, Blocks
  <1>4. Sound(t)
    <2>1. \A p \in Peers : InFlight(t, p) = {}
      BY <1>2 DEF InFlight
    <2>2. Cardinality({}) = 0 /\ MaxPending \in Nat /\ MaxPerPeer \in Nat
      BY FS_EmptySet, RequestAssumption
    <2>3. Bounded(t)
      BY SMTT(30), <1>2, <2>1, <2>2 DEF Bounded
    <2> QED
      BY <1>2, <2>3 DEF Sound, Unfailed
  <1>5. DeferredIn(t, known)
    BY <1>2 DEF DeferredIn
  <1> QED
    BY <1>3, <1>4, <1>5 DEF IInv, Init

(* A handler that keeps the tracker sound and its deferred children. *)
LEMMA KeepsInv ==
  ASSUME IInv, on' = on, Keeps(t', t), known' = known, retry' \subseteq t'.pend,
         peers' \subseteq Peers, orphans' \subseteq Hashes, expire' \subseteq Hashes,
         ask' \subseteq Hashes, via' \in {"peers", "none"}, pages' \in 0 .. MaxPages
  PROVE  IInv'
  <1>1. t' \in Trackers /\ Sound(t)' /\ t'.deferred = t.deferred /\ t'.headers = t.headers
    <2>1. Sound(t)' <=> Sound(t')
      BY DEF Sound, Bounded, Unfailed, InFlight, Failed
    <2> QED
      BY <2>1 DEF Keeps
  <1>2. DeferredIn(t, known)'
    BY <1>1 DEF IInv, DeferredIn, Missing
  <1>3. t'.pend \subseteq Hashes
    BY <1>1 DEF Trackers
  <1> QED
    BY <1>1, <1>2, <1>3 DEF IInv, TypeOK

(* A missing parent is a block that can be requested. *)
LEMMA MissingAreHashes ==
  ASSUME Origin \in known, NEW h \in Hashes
  PROVE  Missing(h, known) \subseteq Hashes
  BY SMTT(30), RequestAssumption DEF Missing

(* Working off the hashes to ask for preserves the invariant. *)
LEMMA AskStep ==
  ASSUME IInv, on' = on, AskNext
  PROVE  IInv'
  <1> DEFINE ps == IF via = "peers" THEN peers ELSE {}
  <1>1. PICK h \in ask : t' \in Issue(t, h, ps) /\ ask' = ask \ {h}
    BY DEF AskNext
  <1>2. h \in Hashes /\ ps \in SUBSET Peers /\ t \in Trackers /\ Sound(t)
    BY DEF IInv, TypeOK
  <1>3. Keeps(t', t) /\ t.pend \subseteq t'.pend
    BY <1>1, <1>2, IssueKeeps
  <1> QED
    BY <1>1, <1>3, KeepsInv DEF AskNext, IInv, TypeOK

(* Announcements and the recovery of roots preserve the invariant. *)
LEMMA StartStep ==
  ASSUME IInv, on' = on, NEW h \in Hashes, Announced(h) \/ RecoverRoots
  PROVE  IInv'
  <1>1. Keeps(t', t)
    BY DEF Announced, RecoverRoots, Keeps, IInv, TypeOK
  <1>2. ask' \subseteq Hashes /\ via' = "peers" /\ retry' = retry /\ expire' = expire
    BY DEF Announced, RecoverRoots, Asking, Roots, Wanted
  <1>3. UNCHANGED <<t, peers, known, orphans, pages>>
    BY DEF Announced, RecoverRoots
  <1> QED
    BY <1>1, <1>2, <1>3, KeepsInv DEF IInv, TypeOK

(* Requests to one given peer preserve the invariant. *)
LEMMA OnePeerStep ==
  ASSUME IInv, on' = on, NEW h \in Hashes, NEW p \in Peers,
         Frontier(h, p) \/ CompactFallback(h, p) \/ PromoteTo(h, p)
  PROVE  IInv'
  <1> t \in Trackers /\ Sound(t) /\ peers \in SUBSET Peers
    BY DEF IInv, TypeOK
  <1>1. Keeps(t', t)
    <2>1. CASE Frontier(h, p)
      <3>1. Keeps(Strict(t, h, p), t)
        BY StrictKeeps
      <3>2. Keeps(Resolve(Strict(t, h, p), h), Strict(t, h, p))
        BY <3>1, ResolveKeeps DEF Keeps
      <3>3. t' = Strict(t, h, p) \/ t' = Resolve(Strict(t, h, p), h)
        BY <2>1 DEF Frontier
      <3> QED
        BY <3>1, <3>2, <3>3 DEF Keeps
    <2>2. CASE CompactFallback(h, p)
      <3>1. Keeps(Strict(t, h, p), t)
        BY StrictKeeps
      <3>2. t' = Strict(t, h, p) \/ t' \in Issue(Strict(t, h, p), h, peers)
        BY <2>2 DEF CompactFallback
      <3>3. t' \in Issue(Strict(t, h, p), h, peers) => Keeps(t', Strict(t, h, p))
        BY <3>1, IssueKeeps DEF Keeps
      <3> QED
        BY <3>1, <3>2, <3>3 DEF Keeps
    <2>3. CASE PromoteTo(h, p)
      <3>1. Keeps(Promote(t, h, p), t)
        BY PromoteKeeps
      <3>2. Keeps(Resolve(Promote(t, h, p), h), Promote(t, h, p))
        BY <3>1, ResolveKeeps DEF Keeps
      <3>3. t' = Promote(t, h, p) \/ t' = Resolve(Promote(t, h, p), h)
        BY <2>3 DEF PromoteTo
      <3> QED
        BY <3>1, <3>2, <3>3 DEF Keeps
    <2> QED
      BY <2>1, <2>2, <2>3
  <1>2. /\ UNCHANGED <<peers, known, orphans, retry, expire, ask, via>>
        /\ retry = {} /\ pages' \in 0 .. MaxPages
    BY SMTT(30), RequestAssumption DEF Frontier, CompactFallback, PromoteTo, Idle, IInv, TypeOK
  <1> QED
    BY <1>1, <1>2, KeepsInv DEF IInv, TypeOK

(* Abandoned, rejected and orphaned blocks preserve the invariant. *)
LEMMA SettleStep ==
  ASSUME IInv, on' = on, NEW h \in Hashes, Abandon(h) \/ RejectBlock(h) \/ OrphanBlock(h)
  PROVE  IInv'
  <1>1. t' = Resolve(t, h) /\ retry' = retry /\ expire' = expire /\ retry = {}
    BY DEF Abandon, RejectBlock, OrphanBlock, Asking, Idle
  <1>2. Keeps(t', t)
    BY <1>1, ResolveKeeps DEF IInv, TypeOK
  <1>3. ask' \subseteq Hashes /\ via' \in {"peers", "none"}
    BY MissingAreHashes DEF Abandon, RejectBlock, OrphanBlock, Asking, IInv, TypeOK
  <1>4. UNCHANGED <<peers, known, pages>> /\ orphans' \subseteq Hashes
    BY DEF Abandon, RejectBlock, OrphanBlock, IInv, TypeOK
  <1> QED
    BY <1>1, <1>2, <1>3, <1>4, KeepsInv DEF IInv, TypeOK

(* Headers of a selected segment preserve the invariant. *)
LEMMA SelectedStep ==
  ASSUME IInv, on' = on, NEW p \in Peers, NEW hs \in SUBSET Hashes,
         NEW ps \in SUBSET Hashes, SelectedHeaders(p, hs, ps)
  PROVE  IInv'
  <1> DEFINE u == SelectedAvailability(t, p, hs)
  <1>1. Keeps(u, t)
    BY SelectedAvailabilityKeeps DEF IInv, TypeOK
  <1>2. t' = FreshEvidence(u, p, ps)
    BY DEF SelectedHeaders
  <1> HIDE DEF u
  <1>3. Keeps(t', u)
    BY <1>1, <1>2, FreshEvidenceKeeps DEF Keeps
  <1>4. Keeps(t', t)
    BY <1>1, <1>3 DEF Keeps
  <1>5. /\ UNCHANGED <<peers, known, orphans, retry, expire, ask, via>>
        /\ retry = {} /\ pages' \in 0 .. MaxPages
    BY SMTT(30), RequestAssumption DEF SelectedHeaders, Idle, IInv, TypeOK
  <1> QED
    BY <1>4, <1>5, KeepsInv DEF IInv, TypeOK

(* A peer that lacks the block preserves the invariant. *)
LEMMA MissingDataStep ==
  ASSUME IInv, on' = on, NEW h \in Hashes, NEW p \in Peers, BlockDataMissing(h, p)
  PROVE  IInv'
  <1> DEFINE u == Remove(RecordNotFound(t, h), h)
  <1>1. t \in Trackers /\ Sound(t) /\ h \in t.pend /\ peers \in SUBSET Peers
    BY DEF IInv, TypeOK, BlockDataMissing
  <1>2. Keeps(u, t) /\ u.pend = t.pend \ {h} /\ u.exhausted = t.exhausted
    BY <1>1, FailedRequestKeeps
  <1>3. t' \in NextPeer(u, h, peers)
    BY DEF BlockDataMissing
  <1> HIDE DEF u
  <1>4. h \notin u.pend /\ h \notin u.exhausted
    BY <1>1, <1>2 DEF Sound
  <1>5. Keeps(t', u)
    BY <1>1, <1>2, <1>3, <1>4, NextPeerKeeps DEF Keeps
  <1>6. Keeps(t', t)
    BY <1>2, <1>5 DEF Keeps
  <1>7. UNCHANGED <<peers, known, retry, expire, ask, via, pages>> /\ retry = {} /\ orphans' \subseteq Hashes
    BY DEF BlockDataMissing, GiveUp, Idle, IInv, TypeOK
  <1> QED
    BY <1>6, <1>7, KeepsInv DEF IInv, TypeOK

(* The retry of a request that timed out preserves the invariant. *)
LEMMA RetryStep ==
  ASSUME IInv, on' = on, RetryTimedOut
  PROVE  IInv'
  <1>1. PICK h \in retry : /\ t' \in NextPeer(Remove(RecordTimeout(t, h), h), h, peers)
                            /\ retry' = retry \ {h}
                            /\ IF h \in t'.exhausted THEN GiveUp(h) ELSE UNCHANGED orphans
    BY DEF RetryTimedOut
  <1> DEFINE u == Remove(RecordTimeout(t, h), h)
  <1>2. t \in Trackers /\ Sound(t) /\ h \in t.pend /\ h \in Hashes /\ peers \in SUBSET Peers
    BY DEF IInv, TypeOK
  <1>3. Keeps(u, t) /\ u.pend = t.pend \ {h} /\ u.exhausted = t.exhausted
    BY <1>2, FailedRequestKeeps
  <1>4. t' \in NextPeer(u, h, peers)
    BY <1>1
  <1> HIDE DEF u
  <1>5. h \notin u.pend /\ h \notin u.exhausted
    BY <1>2, <1>3 DEF Sound
  <1>6. Keeps(t', u) /\ u.pend \subseteq t'.pend
    BY <1>2, <1>3, <1>4, <1>5, NextPeerKeeps DEF Keeps
  <1>7. Keeps(t', t) /\ retry' \subseteq t'.pend
    BY <1>1, <1>3, <1>6 DEF Keeps, IInv
  <1>8. UNCHANGED <<peers, known, expire, ask, via, pages>> /\ orphans' \subseteq Hashes
    BY <1>1 DEF RetryTimedOut, GiveUp, IInv, TypeOK
  <1> QED
    BY <1>7, <1>8, KeepsInv DEF IInv, TypeOK

(* A request that used up its retries preserves the invariant. *)
LEMMA RestartStep ==
  ASSUME IInv, on' = on, RestartExpired
  PROVE  IInv'
  <1>1. PICK h \in expire : /\ t' \in (IF h \in Wanted(orphans, known) THEN Issue(t, h, peers) ELSE {t})
                             /\ expire' = expire \ {h}
                             /\ IF h \in t'.pend THEN UNCHANGED orphans ELSE GiveUp(h)
    BY DEF RestartExpired
  <1>2. t \in Trackers /\ Sound(t) /\ h \in Hashes /\ peers \in SUBSET Peers
    BY DEF IInv, TypeOK
  <1>3. Keeps(t', t)
    <2>1. t' \in Issue(t, h, peers) \/ t' = t
      BY <1>1
    <2>2. t' \in Issue(t, h, peers) => Keeps(t', t)
      BY <1>2, IssueKeeps
    <2> QED
      BY <1>2, <2>1, <2>2 DEF Keeps
  <1>4. /\ UNCHANGED <<peers, known, retry, ask, via, pages>> /\ retry = {}
        /\ orphans' \subseteq Hashes /\ expire' \subseteq Hashes
    BY <1>1 DEF RestartExpired, GiveUp, IInv, TypeOK
  <1> QED
    BY <1>3, <1>4, KeepsInv DEF IInv, TypeOK

(* Collecting the timeouts preserves the invariant. *)
LEMMA DrainStep ==
  ASSUME IInv, on' = on, DrainTimeouts
  PROVE  IInv'
  <1> DEFINE late == {h \in t.pend : Elapsed(t, h)}
             over == {h \in late : t.tries[h] >= RetryLimit}
             np == [h \in Hashes |-> IF h \in over THEN NoPeer ELSE t.peer[h]]
             na == [h \in Hashes |-> IF h \in late THEN 0 ELSE t.age[h]]
             nt == [h \in Hashes |-> IF h \in over THEN 0
                                     ELSE IF h \in late THEN t.tries[h] + 1 ELSE t.tries[h]]
  <1>1. /\ t \in Trackers /\ Sound(t) /\ t.pend \subseteq Hashes
        /\ t.peer \in [Hashes -> Peers \cup {NoPeer}] /\ t.age \in [Hashes -> 0 .. MaxWait]
        /\ t.tries \in [Hashes -> 0 .. RetryLimit]
    BY DEF IInv, TypeOK, Trackers
  <1>2. np \in [Hashes -> Peers \cup {NoPeer}] /\ \A h \in t.pend \ over : np[h] = t.peer[h]
    BY <1>1
  <1>3. na \in [Hashes -> 0 .. MaxWait]
    BY SMTT(30), <1>1, RequestAssumption
  <1>4. nt \in [Hashes -> 0 .. RetryLimit]
    <2> SUFFICES ASSUME NEW h \in Hashes PROVE nt[h] \in 0 .. RetryLimit
      OBVIOUS
    <2>1. t.tries[h] \in 0 .. RetryLimit /\ RetryLimit \in Nat
      BY <1>1, RequestAssumption
    <2>2. (h \in late /\ h \notin over) => t.tries[h] + 1 \in 0 .. RetryLimit
      BY SMTT(30), <2>1
    <2>3. nt[h] = IF h \in over THEN 0 ELSE IF h \in late THEN t.tries[h] + 1 ELSE t.tries[h]
      OBVIOUS
    <2> HIDE DEF nt, late, over
    <2> QED
      BY SMTT(30), <2>1, <2>2, <2>3
  <1>5. t' = [t EXCEPT !.pend = t.pend \ over, !.peer = np, !.age = na, !.tries = nt]
    BY <1>1 DEF DrainTimeouts, Trackers
  <1>6. retry' = late \ over /\ expire' = over
    BY DEF DrainTimeouts
  <1>7. late \subseteq t.pend /\ over \subseteq t.pend
    OBVIOUS
  <1> HIDE DEF late, over, np, na, nt
  <1>8. t' \in Trackers
    BY <1>1, <1>2, <1>3, <1>4, <1>5 DEF Trackers
  <1>9. /\ t'.pend = t.pend \ over /\ t'.exhausted = t.exhausted /\ t'.peer = np
        /\ t'.deferred = t.deferred /\ t'.headers = t.headers
        /\ t'.notFound = t.notFound /\ t'.timedOut = t.timedOut
    BY <1>1, <1>5 DEF Trackers
  <1>10. Relaxes(t', t)
    BY <1>1, <1>2, <1>9 DEF Relaxes, Failed, Sound
  <1>11. Keeps(t', t)
    BY <1>1, <1>8, <1>9, <1>10, RelaxedIsSound DEF Keeps
  <1>12. retry' \subseteq t'.pend /\ expire' \subseteq Hashes
    BY <1>1, <1>6, <1>7, <1>9
  <1>13. UNCHANGED <<peers, known, orphans, ask, via, pages>>
    BY DEF DrainTimeouts
  <1> QED
    BY <1>11, <1>12, <1>13, KeepsInv DEF IInv, TypeOK

(* Time passing preserves the invariant. *)
LEMMA TickStep ==
  ASSUME IInv, on' = on, Tick
  PROVE  IInv'
  <1> DEFINE na == [h \in Hashes |-> IF h \in t.pend THEN AtMost(t.age[h] + 1, MaxWait) ELSE 0]
             nh == [h \in Hashes |-> IF t.hold[h] > 0 THEN t.hold[h] - 1 ELSE 0]
  <1>1. /\ t \in Trackers /\ Sound(t) /\ MaxWait \in Nat
        /\ t.age \in [Hashes -> 0 .. MaxWait] /\ t.hold \in [Hashes -> 0 .. MaxWait]
    BY RequestAssumption DEF IInv, TypeOK, Trackers
  <1>2. na \in [Hashes -> 0 .. MaxWait]
    BY SMTT(30), <1>1 DEF AtMost
  <1>3. nh \in [Hashes -> 0 .. MaxWait]
    BY SMTT(30), <1>1
  <1>4. t' = [t EXCEPT !.age = na, !.hold = nh]
    BY <1>1 DEF Tick, Trackers
  <1> HIDE DEF na, nh
  <1>5. t' \in Trackers
    BY <1>1, <1>2, <1>3, <1>4 DEF Trackers
  <1>6. /\ t'.pend = t.pend /\ t'.exhausted = t.exhausted /\ t'.peer = t.peer
        /\ t'.deferred = t.deferred /\ t'.headers = t.headers
        /\ t'.notFound = t.notFound /\ t'.timedOut = t.timedOut
    BY <1>1, <1>4 DEF Trackers
  <1>7. Relaxes(t', t)
    BY <1>1, <1>6 DEF Relaxes, Failed, Sound
  <1>8. Keeps(t', t)
    BY <1>1, <1>5, <1>6, <1>7, RelaxedIsSound DEF Keeps
  <1>9. UNCHANGED <<peers, known, orphans, retry, expire, ask, via, pages>>
    BY DEF Tick
  <1> QED
    BY <1>6, <1>8, <1>9, KeepsInv DEF IInv, TypeOK

(* A block accepted elsewhere preserves the invariant. *)
LEMMA ElsewhereStep ==
  ASSUME IInv, on' = on, NEW h \in Hashes, AcceptElsewhere(h)
  PROVE  IInv'
  <1>1. /\ known' = known \cup {h}
        /\ UNCHANGED <<t, peers, orphans, retry, expire, ask, via, pages>>
    BY DEF AcceptElsewhere
  <1>2. TypeOK'
    BY <1>1 DEF IInv, TypeOK, Blocks
  <1>3. Sound(t)'
    BY <1>1 DEF IInv, Sound, Bounded, Unfailed, InFlight, Failed
  <1>4. DeferredIn(t, known)'
    BY <1>1 DEF IInv, DeferredIn, Missing
  <1> QED
    BY <1>1, <1>2, <1>3, <1>4 DEF IInv

(* Connections that change preserve the invariant. *)
LEMMA PeersStep ==
  ASSUME IInv, on' = on, PeersChange
  PROVE  IInv'
  <1>1. Keeps(t', t)
    BY DEF PeersChange, Keeps, IInv, TypeOK
  <1> QED
    BY <1>1, KeepsInv DEF PeersChange, IInv, TypeOK

(* A tracker whose requests are relaxed and whose deferred children are     *)
(* replaced. *)
LEMMA HeadersInv ==
  ASSUME IInv, on' = on, t' \in Trackers, Relaxes(t', t), DeferredIn(t', known'),
         known \subseteq known', known' \subseteq Blocks, retry = {}, retry' = {},
         peers' \subseteq Peers, orphans' \subseteq Hashes, expire' \subseteq Hashes,
         ask' \subseteq Hashes, via' \in {"peers", "none"}, pages' \in 0 .. MaxPages
  PROVE  IInv'
  <1>1. Sound(t')
    BY RelaxedIsSound DEF IInv, TypeOK
  <1>2. Sound(t)'
    BY <1>1 DEF Sound, Bounded, Unfailed, InFlight, Failed
  <1>3. DeferredIn(t, known)'
    BY DEF DeferredIn, Missing
  <1> QED
    BY <1>2, <1>3 DEF IInv, TypeOK

(* A page of headers preserves the invariant. *)
LEMMA HeadersStep ==
  ASSUME IInv, on' = on, NEW hs \in SUBSET Hashes, BlockHeaders(hs)
  PROVE  IInv'
  <1> DEFINE fresh == hs \ known
             nd == [p \in Blocks |->
                      (t.deferred[p] \ fresh) \cup {c \in fresh : p \in Missing(c, known)}]
  <1>1. /\ t \in Trackers /\ Sound(t) /\ t.headers \in SUBSET Hashes
        /\ t.deferred \in [Blocks -> SUBSET Hashes]
    BY DEF IInv, TypeOK, Trackers, Blocks
  <1>2. nd \in [Hashes \cup {Origin} -> SUBSET Hashes]
    BY <1>1 DEF Blocks
  <1>3. t' = [t EXCEPT !.deferred = nd, !.headers = t.headers \cup hs]
    BY <1>1 DEF BlockHeaders, Retrack, Trackers
  <1>4. \A p \in Blocks : nd[p] = (t.deferred[p] \ fresh) \cup {c \in fresh : p \in Missing(c, known)}
    OBVIOUS
  <1> HIDE DEF nd
  <1>5. t' \in Trackers
    BY <1>1, <1>2, <1>3 DEF Trackers
  <1>6. /\ t'.pend = t.pend /\ t'.exhausted = t.exhausted /\ t'.peer = t.peer
        /\ t'.deferred = nd /\ t'.headers = t.headers \cup hs
        /\ t'.notFound = t.notFound /\ t'.timedOut = t.timedOut
    BY <1>1, <1>3 DEF Trackers
  <1>7. Relaxes(t', t)
    BY <1>1, <1>6 DEF Relaxes, Failed, Sound
  <1>8. known' = known /\ retry = {} /\ retry' = {} /\ expire' = {} /\ via' = "none"
        /\ UNCHANGED <<peers, orphans>> /\ pages' \in 0 .. MaxPages
    BY SMTT(30), RequestAssumption DEF BlockHeaders, Asking, Idle, IInv, TypeOK
  <1>9. ask' \subseteq Hashes
    <2>1. \A h \in fresh : Missing(h, known) \subseteq Hashes
      BY MissingAreHashes DEF IInv
    <2> QED
      BY <2>1 DEF BlockHeaders, Asking
  <1>10. DeferredIn(t', known)
    <2>1. ASSUME NEW p \in Blocks, NEW c \in nd[p]
          PROVE  p \in Parents[c] /\ c \in t.headers \cup hs
      BY SMTT(30), <1>4, <2>1 DEF IInv, DeferredIn, Missing
    <2>2. ASSUME NEW c \in (t.headers \cup hs) \ known, NEW p \in Missing(c, known)
          PROVE  c \in nd[p]
      <3>1. p \in Blocks
        BY <1>1, <2>2, RequestAssumption DEF Missing, Blocks
      <3> QED
        BY <1>4, <2>2, <3>1 DEF IInv, DeferredIn
    <2> QED
      BY <1>6, <2>1, <2>2 DEF DeferredIn
  <1> QED
    BY <1>5, <1>7, <1>8, <1>9, <1>10, HeadersInv DEF IInv, TypeOK

(* An accepted block preserves the invariant. *)
LEMMA AcceptStep ==
  ASSUME IInv, on' = on, NEW h \in Hashes, AcceptBlock(h)
  PROVE  IInv'
  <1> DEFINE gone  == {h} \cup Adopted(h)
             done  == known \cup {h} \cup Adopted(h)
             wakes == t.deferred[h]
             clear(f, v) == [x \in Hashes |-> IF x \in gone THEN v ELSE f[x]]
             np == clear(t.peer, NoPeer)
             na == clear(t.age, 0)
             nt == clear(t.tries, 0)
             nh == clear(t.hold, 0)
             nl == clear(t.fails, 0)
             nn == clear(t.notFound, {})
             nm == clear(t.timedOut, {})
             nd == [p \in Blocks |->
                      IF p = h THEN {}
                      ELSE (t.deferred[p] \ wakes) \cup {c \in wakes : p \in Missing(c, done)}]
  <1>1. /\ t \in Trackers /\ Sound(t) /\ t.pend \in SUBSET Hashes
        /\ t.exhausted \in SUBSET Hashes
        /\ t.deferred \in [Blocks -> SUBSET Hashes] /\ h \in Blocks
    BY DEF IInv, TypeOK, Trackers, Blocks
  <1>2. Adopted(h) \subseteq orphans /\ Adopted(h) \subseteq Hashes
    BY DEF Adopted, IInv, TypeOK
  <1>3. /\ np \in [Hashes -> Peers \cup {NoPeer}] /\ na \in [Hashes -> 0 .. MaxWait]
        /\ nt \in [Hashes -> 0 .. RetryLimit] /\ nh \in [Hashes -> 0 .. MaxWait]
        /\ nl \in [Hashes -> 0 .. 6] /\ nn \in [Hashes -> SUBSET Peers]
        /\ nm \in [Hashes -> SUBSET Peers]
    BY SMTT(30), <1>1, RequestAssumption DEF Trackers
  <1>4. nd \in [Hashes \cup {Origin} -> SUBSET Hashes]
    BY <1>1 DEF Blocks
  <1> DEFINE u == [t EXCEPT !.pend = t.pend \ gone, !.peer = np, !.age = na, !.tries = nt,
                           !.hold = nh, !.fails = nl, !.notFound = nn, !.timedOut = nm,
                           !.exhausted = t.exhausted \ gone]
             r == Retrack(u, wakes, done)
  <1>5. t' = [r EXCEPT !.deferred[h] = {}]
    <2> DEFINE solved == [x \in Hashes |-> x \in gone]
               cleared(f, v) == [x \in Hashes |-> IF solved[x] THEN v ELSE f[x]]
    <2>1. /\ {x \in t.pend : ~solved[x]} = t.pend \ gone
          /\ {x \in t.exhausted : ~solved[x]} = t.exhausted \ gone
      BY <1>1
    <2>2. /\ cleared(t.peer, NoPeer) = np /\ cleared(t.age, 0) = na /\ cleared(t.tries, 0) = nt
          /\ cleared(t.hold, 0) = nh /\ cleared(t.fails, 0) = nl
          /\ cleared(t.notFound, {}) = nn /\ cleared(t.timedOut, {}) = nm
      BY Zenon
    <2> DEFINE v == [t EXCEPT !.pend = {x \in @ : ~solved[x]}, !.peer = cleared(@, NoPeer),
                     !.age = cleared(@, 0), !.tries = cleared(@, 0), !.hold = cleared(@, 0),
                     !.fails = cleared(@, 0), !.notFound = cleared(@, {}),
                     !.timedOut = cleared(@, {}), !.exhausted = {x \in @ : ~solved[x]}]
    <2>3. t' = [Retrack(v, wakes, done) EXCEPT !.deferred[h] = {}]
      BY DEF AcceptBlock
    <2>4. v = u
      <3> DEFINE v1 == [t EXCEPT !.pend = {x \in @ : ~solved[x]}, !.peer = cleared(@, NoPeer),
                                 !.age = cleared(@, 0)]
                 u1 == [t EXCEPT !.pend = t.pend \ gone, !.peer = np, !.age = na]
      <3>1. v1 = u1
        BY <1>1, <2>1, <2>2 DEF Trackers
      <3>2. /\ u1.tries = t.tries /\ u1.hold = t.hold /\ u1.fails = t.fails /\ u1.notFound = t.notFound
            /\ u1.timedOut = t.timedOut /\ u1.exhausted = t.exhausted
        BY <1>1 DEF Trackers
      <3>3. v = [v1 EXCEPT !.tries = cleared(@, 0), !.hold = cleared(@, 0),
                     !.fails = cleared(@, 0), !.notFound = cleared(@, {}),
                     !.timedOut = cleared(@, {}), !.exhausted = {x \in @ : ~solved[x]}]
        BY SMTT(30)
      <3>4. u = [u1 EXCEPT !.tries = nt, !.hold = nh, !.fails = nl, !.notFound = nn,
                           !.timedOut = nm, !.exhausted = t.exhausted \ gone]
        OBVIOUS
      <3>5. u1 \in Trackers
        BY <1>1, <1>3 DEF Trackers
      <3> HIDE DEF u1, v1, v, u, np, na, nt, nh, nl, nn, nm
      <3> QED
        BY <2>1, <2>2, <3>1, <3>2, <3>3, <3>4, <3>5 DEF Trackers
    <2> HIDE DEF v, u
    <2> QED
      BY <2>3, <2>4
  <1>6. /\ u \in Trackers
        /\ u.pend = t.pend \ gone /\ u.exhausted = t.exhausted \ gone /\ u.peer = np
        /\ u.notFound = nn /\ u.timedOut = nm
        /\ u.headers = t.headers /\ u.deferred = t.deferred
    <2> DEFINE u1 == [t EXCEPT !.pend = t.pend \ gone, !.peer = np, !.age = na, !.tries = nt]
    <2>1. /\ u1 \in Trackers /\ u1.pend = t.pend \ gone /\ u1.exhausted = t.exhausted
          /\ u1.peer = np /\ u1.headers = t.headers /\ u1.deferred = t.deferred
      BY <1>1, <1>3 DEF Trackers
    <2>2. u = [u1 EXCEPT !.hold = nh, !.fails = nl, !.notFound = nn, !.timedOut = nm,
                         !.exhausted = t.exhausted \ gone]
      OBVIOUS
    <2> HIDE DEF u, u1, np, na, nt, nh, nl, nn, nm
    <2> QED
      BY <1>1, <1>3, <2>1, <2>2 DEF Trackers
  <1>7. /\ \A x \in Hashes \ gone : np[x] = t.peer[x] /\ nn[x] = t.notFound[x] /\ nm[x] = t.timedOut[x]
        /\ \A p \in Blocks : nd[p] = IF p = h THEN {}
                                     ELSE (t.deferred[p] \ wakes) \cup {c \in wakes : p \in Missing(c, done)}
    OBVIOUS
  <1> HIDE DEF u, np, na, nt, nh, nl, nn, nm
  <1>8. t' = [u EXCEPT !.deferred = nd]
    <2> DEFINE rd == [p \in Blocks |->
                       (u.deferred[p] \ wakes) \cup {c \in wakes : p \in Missing(c, done)}]
    <2>1. r = [u EXCEPT !.deferred = rd]
      BY DEF Retrack
    <2>2. [rd EXCEPT ![h] = {}] = nd
      BY <1>1, <1>6
    <2> HIDE DEF rd, r, nd
    <2> QED
      BY <1>5, <1>6, <2>1, <2>2 DEF Trackers
  <1> HIDE DEF nd, r
  <1>9. /\ t' \in Trackers
        /\ t'.pend = t.pend \ gone /\ t'.exhausted = t.exhausted \ gone /\ t'.peer = np
        /\ t'.notFound = nn /\ t'.timedOut = nm
        /\ t'.headers = t.headers /\ t'.deferred = nd
    BY <1>4, <1>6, <1>8 DEF Trackers
  <1>10. Relaxes(t', t)
    BY <1>1, <1>7, <1>9 DEF Relaxes, Failed, Sound
  <1>11. /\ known' = done /\ orphans' \subseteq Hashes /\ retry = {} /\ retry' = {} /\ expire' = {}
         /\ via' = "none" /\ UNCHANGED <<peers, pages>> /\ ask' \subseteq Hashes
    BY <1>1 DEF AcceptBlock, Asking, Idle, IInv, TypeOK
  <1>12. known \subseteq known' /\ known' \subseteq Blocks
    BY <1>2, <1>11 DEF IInv, TypeOK, Blocks
  <1>13. DeferredIn(t', known')
    <2>1. ASSUME NEW p \in Blocks, NEW c \in nd[p]
          PROVE  p \in Parents[c] /\ c \in t.headers
      <3>1. c \in (t.deferred[p] \ wakes) \cup {x \in wakes : p \in Missing(x, done)}
        BY <1>7, <2>1
      <3>2. c \in t.deferred[p] \/ (c \in t.deferred[h] /\ p \in Missing(c, done))
        BY <3>1
      <3>3. p \in Missing(c, done) => p \in Parents[c]
        BY DEF Missing
      <3>4. \A q \in Blocks : \A x \in t.deferred[q] : q \in Parents[x] /\ x \in t.headers
        BY DEF IInv, DeferredIn
      <3> QED
        BY <1>1, <3>2, <3>3, <3>4
    <2>2. ASSUME NEW c \in t.headers \ done, NEW p \in Missing(c, done)
          PROVE  c \in nd[p]
      <3>1. p \in Blocks /\ p # h /\ p \in Missing(c, known) /\ c \notin known
        BY <1>1, <2>2, RequestAssumption DEF Missing, Blocks, IInv, TypeOK, Trackers
      <3>2. c \in t.deferred[p]
        BY <2>2, <3>1 DEF IInv, DeferredIn
      <3> QED
        BY <1>7, <2>2, <3>1, <3>2
    <2> HIDE DEF done
    <2> QED
      BY <1>9, <1>11, <2>1, <2>2 DEF DeferredIn
  <1> HIDE DEF done, gone, wakes
  <1> QED
    BY <1>9, <1>10, <1>11, <1>12, <1>13, HeadersInv DEF IInv, TypeOK

-----------------------------------------------------------------------------

(* Every step preserves the invariant. *)
LEMMA InvNext == IInv /\ [Next]_vars => IInv'
  <1> SUFFICES ASSUME IInv, [Next]_vars PROVE IInv'
    OBVIOUS
  <1>1. CASE UNCHANGED vars
    BY <1>1 DEF vars, IInv, TypeOK, Sound, Bounded, Unfailed, InFlight, Failed, DeferredIn, Missing
  <1>2. CASE Next
    <2>1. on' = on
      BY <1>2 DEF Next
    <2>2. CASE AskNext \/ RetryTimedOut \/ RestartExpired \/ DrainTimeouts \/ PeersChange \/ Tick
      BY <2>1, <2>2, AskStep, RetryStep, RestartStep, DrainStep, PeersStep, TickStep
    <2>3. CASE RecoverRoots
      <3>1. PICK h \in Hashes : TRUE
        BY <2>3 DEF RecoverRoots, Roots, Wanted
      <3> QED
        BY <2>1, <2>3, <3>1, StartStep
    <2>4. ASSUME NEW h \in Hashes,
                 \/ Announced(h) \/ Abandon(h) \/ AcceptBlock(h) \/ OrphanBlock(h)
                 \/ RejectBlock(h) \/ AcceptElsewhere(h)
          PROVE  IInv'
      BY <2>1, <2>4, StartStep, SettleStep, AcceptStep, ElsewhereStep
    <2>5. ASSUME NEW h \in Hashes, NEW p \in Peers,
                 Frontier(h, p) \/ CompactFallback(h, p) \/ PromoteTo(h, p) \/ BlockDataMissing(h, p)
          PROVE  IInv'
      BY <2>1, <2>5, OnePeerStep, MissingDataStep
    <2>6. ASSUME NEW hs \in SUBSET Hashes, BlockHeaders(hs)
          PROVE  IInv'
      BY <2>1, <2>6, HeadersStep
    <2>7. ASSUME NEW p \in Peers, NEW hs \in SUBSET Hashes,
                 SelectedHeaders(p, hs, UNION {Missing(h, known) : h \in hs} \ hs)
          PROVE  IInv'
      <3>1. \A h \in hs : Missing(h, known) \subseteq Hashes
        BY MissingAreHashes DEF IInv
      <3>2. UNION {Missing(h, known) : h \in hs} \ hs \in SUBSET Hashes
        BY <3>1
      <3> QED
        BY <2>1, <2>7, <3>2, SelectedStep
    <2> QED
      BY <1>2, <2>2, <2>3, <2>4, <2>5, <2>6, <2>7 DEF Next, Step, Work
  <1> QED
    BY <1>1, <1>2

(* The inductive invariant holds in every reachable state. *)
THEOREM Invariance == Spec => []IInv
  BY InvInit, InvNext, PTL DEF Spec

(* Every variable of the request tracker and of the loop around it keeps    *)
(* its type, whatever the limits: retry counters, backoffs and waits stay   *)
(* within theirs.                                                           *)
THEOREM RequestTypesCorrect == Spec => []TypeOK
  <1>1. IInv => TypeOK
    BY DEF IInv
  <1> QED
    BY <1>1, Invariance, PTL

(* No handler, and no sequence of handlers, timeouts and peer changes, puts *)
(* more requests in flight than max_pending, or than max_pending_per_peer   *)
(* to one peer, for every value of the two limits.                          *)
THEOREM LimitsHold == Spec => []RequestsBounded
  <1>1. IInv => RequestsBounded
    BY DEF IInv, Sound, Bounded, RequestsBounded
  <1> QED
    BY <1>1, Invariance, PTL

(* A request is never in flight to a peer that answered not-found or timed  *)
(* out for the block, however requests are moved, promoted and restarted.   *)
THEOREM FailedPeersNotReasked == Spec => []NeverReasked
  <1>1. IInv => NeverReasked
    BY DEF IInv, Sound, Unfailed, NeverReasked
  <1> QED
    BY <1>1, Invariance, PTL

(* A block declared exhausted is not in flight, although the retry of a     *)
(* timed-out request does not look at the verdict.                          *)
THEOREM ExhaustedStaysOut == Spec => []ExhaustedNotPending
  <1>1. IInv => ExhaustedNotPending
    BY DEF IInv, Sound, ExhaustedNotPending
  <1> QED
    BY <1>1, Invariance, PTL

(* A block known by its header waits under each parent it misses, so the    *)
(* arrival of the last one finds it, in every order of headers and blocks   *)
(* and for every block graph.                                               *)
THEOREM ChildrenWaitUnderParents == Spec => []DeferredUnderEveryParent
  <1>1. IInv => DeferredUnderEveryParent
    BY DEF IInv, DeferredIn, DeferredUnderEveryParent
  <1> QED
    BY <1>1, Invariance, PTL
=============================================================================
