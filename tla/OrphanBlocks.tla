---------------------------- MODULE OrphanBlocks ----------------------------
(***************************************************************************)
(* The orphan pool of pulsedagd: blocks that arrived before their parents. *)
(*                                                                         *)
(* A ChainState holds the pool in five maps that have to agree: the queued *)
(* blocks, the time each was received, the missing parents recorded for    *)
(* each, the inverse index from a missing parent to the orphans waiting    *)
(* for it, and the terminal entries of parents the node gave up on.        *)
(* Inbound blocks, the recovery tick, the final-quiescence cleanup, the    *)
(* mining submit, request exhaustion and selected-segment sessions all     *)
(* edit them.                                                              *)
(*                                                                         *)
(* A handler holds the chain write lock while it works, mostly on a clone  *)
(* of the state.  The adoption loop is one step per round, taken on cand   *)
(* while the lock is held; nothing else runs meanwhile.                    *)
(*                                                                         *)
(* Abstractions.  Blocks are naturals, whose order stands for the order on *)
(* hashes.  Validity is the constant set Valid.  Time is a small clock.    *)
(* An index entry that is the empty set stands for an absent key.          *)
(***************************************************************************)
EXTENDS Integers, FiniteSets

CONSTANTS
  Blocks,      \* blocks that can arrive, the genesis block aside
  Genesis,
  Parents,     \* header.parents
  Valid,       \* blocks that validate_block accepts once the parents are known
  Handlers,    \* the handlers this node runs
  MaxOrphans,  \* max_orphan_count
  MaxAge,      \* DEFAULT_ORPHAN_MAX_AGE_MS
  QuiescenceAge,  \* FINAL_QUIESCENCE_NO_PROGRESS_SECS
  EvictLimit,  \* ORPHAN_RECOVERY_REVALIDATE_EVICT_LIMIT, FINAL_QUIESCENCE_CLEANUP_LIMIT
  HistoryLimit,   \* DEFAULT_TERMINAL_MISSING_PARENT_HISTORY_LIMIT
  MaxTime,     \* bound: clock ticks
  MaxFaults    \* bound: storage calls that fail

AllBlocks == Blocks \cup {Genesis}

AllHandlers == {"p2p", "rpc", "submit", "recovery", "quiescence", "exhaust", "session"}

Times == 0 .. MaxTime

ASSUME OrphanAssumption ==
  /\ AllBlocks \subseteq Nat /\ Genesis \notin Blocks
  /\ IsFiniteSet(Blocks)
  /\ Parents \in [AllBlocks -> SUBSET AllBlocks]
  /\ \A b \in Blocks : Parents[b] # {} /\ b \notin Parents[b]
  /\ Valid \subseteq Blocks
  /\ Handlers \subseteq AllHandlers
  /\ MaxOrphans \in Nat /\ MaxAge \in Nat /\ QuiescenceAge \in Nat
  /\ EvictLimit \in Nat \ {0} /\ HistoryLimit \in Nat
  /\ MaxTime \in Nat /\ MaxFaults \in Nat

VARIABLES
  mem,     \* the live ChainState
  cand,    \* the clone a handler works on
  todo,    \* candidates of the adoption loop
  tried,   \* orphans the running handler retried
  adopted, \* orphans the running handler accepted
  owed,    \* blocks accepted by a mining submit that has yet to adopt orphans
  pc,      \* the handler that holds the chain lock, or "idle"
  now,
  faults

vars == <<mem, cand, todo, tried, adopted, owed, pc, now, faults>>

TermStates == {"none", "evicted", "quarantined", "resolved"}

Entries == [state : TermStates, required : {"yes", "no"},
            waiting : SUBSET Blocks, at : Times]

(* The part of ChainState that the orphan pool reads and writes. *)
PoolStates ==
  [dag : SUBSET AllBlocks, orphans : SUBSET Blocks,
   received : [Blocks -> Times],
   missing : [Blocks -> SUBSET AllBlocks],
   index : [AllBlocks -> SUBSET Blocks],
   term : [AllBlocks -> Entries]]

NoEntry == [state |-> "none", required |-> "no", waiting |-> {}, at |-> 0]

Entry(state, waiting) ==
  [state |-> state, required |-> "no", waiting |-> waiting, at |-> now]

EmptyPool ==
  [dag |-> {Genesis}, orphans |-> {},
   received |-> [b \in Blocks |-> 0],
   missing |-> [b \in Blocks |-> {}],
   index |-> [p \in AllBlocks |-> {}],
   term |-> [p \in AllBlocks |-> NoEntry]]

-----------------------------------------------------------------------------
(* Reading the pool. *)

MissingParents(s, b) == Parents[b] \ s.dag

(* suppress_terminal_missing_parent_retry; no caller creates the Exhausted  *)
(* and ExhaustedResidual states.                                            *)
Suppressed(s, p) == s.term[p].state \in {"evicted", "quarantined"}

ActiveMissing(s, b) == {p \in MissingParents(s, b) : ~Suppressed(s, p)}

Ready(s, S) == {o \in S \cap s.orphans : MissingParents(s, o) = {}}

(* orphan_missing_roots: walk through queued parents to the unknown ones. *)
MissingRoots(s, b) ==
  LET Up(S) == S \cup UNION {MissingParents(s, p) : p \in S \cap s.orphans}
      walk[n \in 0 .. Cardinality(Blocks)] ==
        IF n = 0 THEN MissingParents(s, b) ELSE Up(walk[n - 1])
  IN  walk[Cardinality(Blocks)] \ s.orphans

ActiveBlocker(s, p) == s.index[p] # {} \/ s.term[p].waiting \cap s.orphans # {}

(* Stable selection of the n oldest by (time, hash), as the sorts do. *)
Before(at, p, q) == at[p] < at[q] \/ (at[p] = at[q] /\ p < q)

Oldest(S, at, n) == {p \in S : Cardinality({q \in S : Before(at, q, p)}) < n}

-----------------------------------------------------------------------------
(* Editing the pool.  Orphans are indexed and removed independently of one  *)
(* another, so the loops over sorted hashes are written for a whole set.    *)

RemoveOrphans(s, S) ==
  [s EXCEPT !.orphans = @ \ S,
            !.received = [b \in Blocks |-> IF b \in S THEN 0 ELSE @[b]],
            !.missing = [b \in Blocks |-> IF b \in S THEN {} ELSE @[b]],
            !.index = [p \in AllBlocks |-> @[p] \ {o \in S : p \in s.missing[o]}]]

IndexOrphansAddingOnly(s, S) ==
  [s EXCEPT !.missing = [b \in Blocks |->
                           IF b \in S THEN ActiveMissing(s, b) ELSE @[b]],
            !.index = [p \in AllBlocks |->
                         @[p] \cup {o \in S : p \in ActiveMissing(s, o)}]]

IndexOrphans(s, S) ==
  [s EXCEPT !.missing = [b \in Blocks |->
                           IF b \in S THEN ActiveMissing(s, b) ELSE @[b]],
            !.index = [p \in AllBlocks |->
                         (@[p] \ {o \in S : p \in s.missing[o]})
                           \cup {o \in S : p \in ActiveMissing(s, o)}]]

Rebuild(s) ==
  [s EXCEPT !.missing = [b \in Blocks |->
                           IF b \in s.orphans THEN ActiveMissing(s, b) ELSE {}],
            !.index = [p \in AllBlocks |->
                         {o \in s.orphans : p \in ActiveMissing(s, o)}]]

Expired(s, age) == {o \in s.orphans : now - s.received[o] > age}

PruneOrphansLate(s) ==
  LET fresh == RemoveOrphans(s, Expired(s, MaxAge))
      over  == Cardinality(fresh.orphans) - MaxOrphans - 1
  IN  RemoveOrphans(fresh, Oldest(fresh.orphans, fresh.received, over))

PruneOrphans(s) ==
  LET fresh == RemoveOrphans(s, Expired(s, MaxAge))
      over  == Cardinality(fresh.orphans) - MaxOrphans
  IN  RemoveOrphans(fresh, Oldest(fresh.orphans, fresh.received, over))

Reopened(s, b) ==
  [s EXCEPT !.term = [p \in AllBlocks |->
                        IF p \in MissingParents(s, b) THEN NoEntry ELSE @[p]]]

QueueOrphanStillSuppressed(s, b) ==
  LET queued == [s EXCEPT !.orphans = @ \cup {b}, !.received[b] = now]
  IN  PruneOrphans(IndexOrphans(queued, {b}))

(* queue_orphan_block_bounded of a block that is not queued yet. *)
QueueOrphan(s, b) ==
  LET queued == [Reopened(s, b) EXCEPT !.orphans = @ \cup {b}, !.received[b] = now]
  IN  PruneOrphans(IndexOrphans(queued, {b}))

EvictStaleOfAnyAge(s) ==
  RemoveOrphans(s, Oldest(s.orphans, s.received, EvictLimit))

EvictStale(s) ==
  RemoveOrphans(s, Oldest(Expired(s, MaxAge), s.received, EvictLimit))

(* The receive time of the oldest orphan waiting for each parent. *)
OldestWaiter(s) ==
  [p \in AllBlocks |->
     IF s.index[p] = {} THEN now
     ELSE CHOOSE t \in Times : /\ \E o \in s.index[p] : s.received[o] = t
                               /\ \A o \in s.index[p] : s.received[o] >= t]

(* terminally_exhaust_missing_parent with evict_dependents, as all callers  *)
(* pass it, for the parents in P in the order of their oldest orphan; state *)
(* is the terminal state they get.                                          *)
Exhaustible(s, P) ==
  {p \in P : p \notin s.dag /\ s.term[p].required = "no" /\ ~Suppressed(s, p)}

StillWaiting(s, gone, p) ==
  s.index[p] \ UNION {s.index[q] : q \in {r \in gone : Before(OldestWaiter(s), r, p)}}

Terminated(s, gone, state) ==
  [s EXCEPT !.index = [p \in AllBlocks |-> IF p \in gone THEN {} ELSE @[p]],
            !.term = [p \in AllBlocks |->
                        IF p \in gone THEN Entry(state, StillWaiting(s, gone, p)) ELSE @[p]]]

Exhaust(s, P, state) ==
  RemoveOrphans(Terminated(s, Exhaustible(s, P), state),
                UNION {s.index[p] : p \in Exhaustible(s, P)})

(* terminalize_residual_waiting_missing_parents; the guarded form first     *)
(* drops the entries of indexed parents that turn out to be accepted.       *)
DropAccepted(s) ==
  [s EXCEPT !.index = [p \in AllBlocks |-> IF p \in s.dag THEN {} ELSE @[p]],
            !.term = [p \in AllBlocks |->
                        IF p \in s.dag /\ s.index[p] # {} THEN NoEntry ELSE @[p]]]

ResidualOfAnyAge(s, age) ==
  LET waited == {p \in AllBlocks \ s.dag : s.index[p] # {}}
  IN  Oldest(waited, OldestWaiter(s), EvictLimit)

Residual(s, age) ==
  LET aged == {p \in AllBlocks \ s.dag :
                 s.index[p] # {} /\ now - OldestWaiter(s)[p] > age}
  IN  Oldest(aged, OldestWaiter(s), EvictLimit)

Terminalize(s, age) ==
  LET clean == DropAccepted(s)
  IN  Exhaust(clean, Residual(clean, age), "quarantined")

Terminalized(s, age) == Exhaustible(DropAccepted(s), Residual(DropAccepted(s), age))

(* prune_historical_terminal_missing_parents. *)
PruneHistory(s) ==
  LET history == {p \in AllBlocks : s.term[p].state # "none" /\ ~ActiveBlocker(s, p)}
      at      == [p \in AllBlocks |-> s.term[p].at]
      drop    == Oldest(history, at, Cardinality(history) - HistoryLimit)
  IN  [s EXCEPT !.term = [p \in AllBlocks |-> IF p \in drop THEN NoEntry ELSE @[p]]]

-----------------------------------------------------------------------------
(* One round of adopt_ready_orphans_with_result: candidates that still wait *)
(* are indexed again, ready ones leave the pool and are accepted or         *)
(* rejected, and the orphans indexed under an accepted one are next.  The   *)
(* MissingParent outcome cannot occur: a ready orphan's parents are in dag. *)

Settled(s, S) == IndexOrphans(s, (S \cap s.orphans) \ Ready(s, S))

Accepted(s, S) == (Ready(s, S) \cap Valid) \ s.dag

RoundState(s, S) ==
  LET taken == RemoveOrphans(Settled(s, S), Ready(s, S))
  IN  [taken EXCEPT !.dag = @ \cup Accepted(s, S),
                    !.term = [p \in AllBlocks |->
                                IF p \in Accepted(s, S) THEN Entry("resolved", {})
                                ELSE @[p]]]

RoundNext(s, S) == UNION {RoundState(s, S).index[a] : a \in Accepted(s, S)}

AdoptRoundOnce ==
  /\ pc \in {"targeted", "full", "submit", "recovery", "quiescence", "quiescence2"}
  /\ Ready(cand, todo) # {}
  /\ cand' = RoundState(cand, todo)
  /\ todo' = {}
  /\ tried' = tried \cup Ready(cand, todo)
  /\ adopted' = adopted \cup Accepted(cand, todo)
  /\ UNCHANGED <<mem, owed, pc, now, faults>>

AdoptRound ==
  /\ pc \in {"targeted", "full", "submit", "recovery", "quiescence", "quiescence2"}
  /\ Ready(cand, todo) # {}
  /\ cand' = RoundState(cand, todo)
  /\ todo' = RoundNext(cand, todo)
  /\ tried' = tried \cup Ready(cand, todo)
  /\ adopted' = adopted \cup Accepted(cand, todo)
  /\ UNCHANGED <<mem, owed, pc, now, faults>>

(* A pass is over when no candidate is ready. *)
PassOver(p) == pc = p /\ Ready(cand, todo) = {}

Release == cand' = EmptyPool /\ todo' = {} /\ tried' = {} /\ adopted' = {} /\ pc' = "idle"

BeginPass(p, s, S) ==
  pc' = p /\ cand' = s /\ todo' = S /\ tried' = {} /\ adopted' = {}

(* commit_candidate_chain_state: publish s, or keep the live state when the *)
(* write fails.                                                             *)
Commit(s) ==
  \/ mem' = s /\ UNCHANGED faults
  \/ faults < MaxFaults /\ faults' = faults + 1 /\ UNCHANGED mem

-----------------------------------------------------------------------------
(* Inbound blocks. *)

ReceiveOrphan(b) ==
  /\ "p2p" \in Handlers /\ pc = "idle"
  /\ b \notin mem.dag /\ MissingParents(mem, b) # {} /\ b \notin mem.orphans
  /\ mem' = QueueOrphan(mem, b)
  /\ UNCHANGED <<cand, todo, tried, adopted, owed, pc, now, faults>>

Acceptable(b) == b \in Valid /\ b \notin mem.dag /\ MissingParents(mem, b) = {}

WithAccepted(b) == [mem EXCEPT !.dag = @ \cup {b}]

AcceptInbound(b) ==
  LET grown == WithAccepted(b)
      start == IF \A p \in AllBlocks : grown.index[p] = {} THEN Rebuild(grown) ELSE grown
  IN  /\ "p2p" \in Handlers /\ pc = "idle" /\ Acceptable(b)
      /\ mem' = grown
      /\ BeginPass("targeted", start, start.index[b])
      /\ UNCHANGED <<owed, now, faults>>

FinishTargeted ==
  LET s == Settled(cand, todo)
  IN  /\ PassOver("targeted")
      /\ cand' = s /\ todo' = s.orphans /\ pc' = "full"
      /\ UNCHANGED <<mem, tried, adopted, owed, now, faults>>

FinishInbound ==
  /\ PassOver("full")
  /\ IF tried # {} THEN Commit(Settled(cand, todo)) ELSE UNCHANGED <<mem, faults>>
  /\ Release
  /\ UNCHANGED <<owed, now>>

-----------------------------------------------------------------------------
(* Blocks accepted through the RPC server. *)

AcceptRpc(b) ==
  /\ "rpc" \in Handlers /\ pc = "idle" /\ Acceptable(b)
  /\ mem' = WithAccepted(b)
  /\ UNCHANGED <<cand, todo, tried, adopted, owed, pc, now, faults>>

AcceptSubmit(b) ==
  /\ "submit" \in Handlers /\ pc = "idle" /\ Acceptable(b)
  /\ mem' = WithAccepted(b)
  /\ owed' = owed \cup {b}
  /\ UNCHANGED <<cand, todo, tried, adopted, pc, now, faults>>

(* perform_orphan_adoption takes the lock again, or gives up when it is     *)
(* busy for too long.                                                       *)
SubmitAdoption(b) ==
  /\ b \in owed /\ pc = "idle"
  /\ owed' = owed \ {b}
  /\ BeginPass("submit", mem, mem.orphans)
  /\ UNCHANGED <<mem, now, faults>>

SubmitSkipsAdoption(b) ==
  /\ b \in owed /\ pc # "idle"
  /\ owed' = owed \ {b}
  /\ UNCHANGED <<mem, cand, todo, tried, adopted, pc, now, faults>>

FinishSubmit ==
  /\ PassOver("submit")
  /\ IF adopted # {} THEN Commit(Settled(cand, todo)) ELSE UNCHANGED <<mem, faults>>
  /\ Release
  /\ UNCHANGED <<owed, now>>

-----------------------------------------------------------------------------
(* The recovery tick. *)

RecoveryTickUnindexedOnly ==
  /\ "recovery" \in Handlers /\ pc = "idle" /\ mem.orphans # {}
  /\ mem' = Rebuild(mem)
  /\ BeginPass("recovery", Rebuild(mem), UNION {Rebuild(mem).index[p] : p \in AllBlocks})
  /\ UNCHANGED <<owed, now, faults>>

RecoveryTick ==
  /\ "recovery" \in Handlers /\ pc = "idle" /\ mem.orphans # {}
  /\ mem' = Rebuild(mem)
  /\ BeginPass("recovery", Rebuild(mem), mem.orphans)
  /\ UNCHANGED <<owed, now, faults>>

(* Whether a root can be requested is up to the request tracker; with no    *)
(* root at all none can.                                                    *)
FinishRecovery ==
  /\ PassOver("recovery")
  /\ IF tried # {} THEN Commit(Settled(cand, todo)) ELSE UNCHANGED <<mem, faults>>
  /\ \/ pc' = "cleanup"
     \/ pc' = "idle" /\ \E o \in mem'.orphans : MissingRoots(mem', o) # {}
  /\ cand' = EmptyPool /\ todo' = {} /\ tried' = {} /\ adopted' = {}
  /\ UNCHANGED <<owed, now>>

(* Revalidate, evict stale orphans, terminalize; the result is persisted    *)
(* first only if it removed something.                                      *)
RecoveryCleanup ==
  /\ pc = "cleanup"
  /\ \E stale \in {EvictStale(Rebuild(mem))} : \E done \in {Terminalize(stale, MaxAge)} :
       IF done.orphans # mem.orphans \/ Terminalized(stale, MaxAge) # {}
       THEN Commit(done)
       ELSE mem' = done /\ UNCHANGED faults
  /\ pc' = "idle"
  /\ UNCHANGED <<cand, todo, tried, adopted, owed, now>>

(* The storage lookup of a missing parent fails, or finds a record of it:   *)
(* nothing is terminalized.  The rebuilt index has no accepted parent that  *)
(* the guard could have dropped before.                                     *)
RecoveryCleanupGuardFails ==
  LET stale == EvictStale(Rebuild(mem))
  IN  /\ pc = "cleanup" /\ faults < MaxFaults
      /\ \E p \in AllBlocks \ stale.dag : stale.index[p] # {}
      /\ mem' = stale
      /\ faults' = faults + 1
      /\ pc' = "idle"
      /\ UNCHANGED <<cand, todo, tried, adopted, owed, now>>

-----------------------------------------------------------------------------
(* The final-quiescence cleanup edits the live state under the lock, and    *)
(* keeps it when the write that follows fails.                              *)

Quiescence ==
  /\ "quiescence" \in Handlers /\ pc = "idle" /\ mem.orphans # {}
  /\ BeginPass("quiescence", Rebuild(mem), mem.orphans)
  /\ UNCHANGED <<mem, owed, now, faults>>

QuiescenceContinues(s, progress) ==
  IF progress
  THEN BeginPass("quiescence2", Rebuild(s), s.orphans) /\ UNCHANGED mem
  ELSE mem' = s /\ Release

FinishQuiescence ==
  LET first == Settled(cand, todo)
      done  == Terminalize(first, QuiescenceAge)
  IN  /\ PassOver("quiescence")
      /\ QuiescenceContinues(PruneHistory(done),
                             adopted # {} \/ Terminalized(first, QuiescenceAge) # {})
      /\ UNCHANGED <<owed, now, faults>>

FinishQuiescenceGuardFails ==
  LET first == Settled(cand, todo)
  IN  /\ PassOver("quiescence") /\ faults < MaxFaults
      /\ \E p \in AllBlocks \ first.dag : first.index[p] # {}
      /\ QuiescenceContinues(PruneHistory(first), adopted # {})
      /\ faults' = faults + 1
      /\ UNCHANGED <<owed, now>>

FinishQuiescence2 ==
  /\ PassOver("quiescence2")
  /\ mem' = Settled(cand, todo)
  /\ Release
  /\ UNCHANGED <<owed, now, faults>>

-----------------------------------------------------------------------------
(* Verdicts on single parents, and the clock. *)

(* Every peer failed to deliver p.  An accepted p is recorded as resolved.  *)
ExhaustParent(p) ==
  /\ "exhaust" \in Handlers /\ pc = "idle"
  /\ mem' = IF p \in mem.dag THEN [mem EXCEPT !.term[p] = Entry("resolved", {})]
            ELSE Exhaust(mem, {p}, "evicted")
  /\ UNCHANGED <<cand, todo, tried, adopted, owed, pc, now, faults>>

(* A selected-segment session needs p, unknown when its headers were read. *)
MarkRequired(p) ==
  /\ "session" \in Handlers /\ pc = "idle"
  /\ mem' = [mem EXCEPT !.term[p] =
               IF @.state = "none"
               THEN [Entry("quarantined", mem.index[p]) EXCEPT !.required = "yes"]
               ELSE [@ EXCEPT !.required = "yes"]]
  /\ UNCHANGED <<cand, todo, tried, adopted, owed, pc, now, faults>>

Tick ==
  /\ now < MaxTime
  /\ now' = now + 1
  /\ UNCHANGED <<mem, cand, todo, tried, adopted, owed, pc, faults>>

Init ==
  /\ mem = EmptyPool /\ cand = EmptyPool
  /\ todo = {} /\ tried = {} /\ adopted = {} /\ owed = {}
  /\ pc = "idle" /\ now = 0 /\ faults = 0

PassStep ==
  \/ AdoptRound \/ FinishTargeted \/ FinishInbound \/ FinishSubmit
  \/ FinishRecovery \/ RecoveryCleanup \/ RecoveryCleanupGuardFails
  \/ FinishQuiescence \/ FinishQuiescenceGuardFails \/ FinishQuiescence2

Next ==
  \/ \E b \in Blocks : ReceiveOrphan(b) \/ AcceptInbound(b) \/ AcceptRpc(b)
  \/ \E b \in Blocks : AcceptSubmit(b) \/ SubmitAdoption(b) \/ SubmitSkipsAdoption(b)
  \/ RecoveryTick \/ Quiescence \/ PassStep
  \/ \E p \in Blocks : ExhaustParent(p) \/ MarkRequired(p)
  \/ Tick

Spec == Init /\ [][Next]_vars

(* A handler that holds the lock runs to its end.  The tick is an interval  *)
(* task, and the tokio lock it waits for is fair.                           *)
FairSpec == Spec /\ WF_vars(PassStep) /\ SF_vars(RecoveryTick)

-----------------------------------------------------------------------------
(* Properties. *)

PassNames == {"targeted", "full", "submit", "recovery", "quiescence", "quiescence2"}

(* Passes that start from every queued orphan. *)
FullPasses == PassNames \ {"targeted"}

(* Every variable has its type. *)
TypeOK ==
  /\ mem \in PoolStates /\ cand \in PoolStates
  /\ todo \subseteq Blocks /\ tried \subseteq Blocks /\ adopted \subseteq Blocks
  /\ owed \subseteq Blocks
  /\ pc \in PassNames \cup {"idle", "cleanup"}
  /\ now \in Times /\ faults \in 0 .. MaxFaults

NoDangling(s) ==
  /\ \A p \in AllBlocks : s.index[p] \subseteq {o \in s.orphans : p \in s.missing[o]}
  /\ \A o \in Blocks \ s.orphans : s.missing[o] = {}

(* However an orphan leaves the pool - adopted, rejected, aged, pushed out  *)
(* or terminally evicted - the index and the recorded parents go with it.   *)
NoDanglingIndex == NoDangling(mem) /\ NoDangling(cand)

(* The pool never holds more than max_orphan_count blocks. *)
PoolBounded == Cardinality(mem.orphans) <= MaxOrphans

Tracked(s) ==
  \A o \in s.orphans : \A p \in MissingParents(s, o) :
    o \in s.index[p] /\ ~Suppressed(s, p)

(* A queued orphan is indexed under each of its parents that is not yet     *)
(* accepted, and none of them is suppressed, so the parent's arrival finds  *)
(* it and the recovery requests the parent.                                 *)
WaitingIsTracked == Tracked(mem) /\ Tracked(cand)

(* When an adoption pass over the whole pool is over, no orphan left in it  *)
(* is ready, although a round looks only at the orphans indexed under the   *)
(* blocks that the round before accepted.                                   *)
FullPassDrains ==
  pc \in FullPasses /\ Ready(cand, todo) = {} =>
    \A o \in cand.orphans : MissingParents(cand, o) # {}

(* An orphan leaves the pool only because it was accepted, is invalid or    *)
(* already accepted, is too old, was pushed out of a full pool, or waits    *)
(* for a parent that was given up or has kept some orphan waiting too long. *)
EvictionExplained ==
  [][\A o \in mem.orphans \ mem'.orphans :
       \/ o \in mem'.dag \/ o \notin Valid
       \/ now - mem.received[o] > MaxAge
       \/ Cardinality(mem.orphans) >= MaxOrphans
       \/ \E p \in Parents[o] \ mem'.dag :
            \/ Suppressed(mem', p)
            \/ \E w \in mem.orphans : p \in Parents[w] /\ now - mem.received[w] > QuiescenceAge]_vars

(* An orphan whose parents are all accepted leaves the pool in the end,     *)
(* whatever handler accepted them and whichever adoption was skipped,       *)
(* dropped or failed.                                                       *)
ReadyOrphansLeave ==
  \A o \in Blocks : (o \in mem.orphans /\ Parents[o] \subseteq mem.dag)
                      ~> (o \notin mem.orphans)

=============================================================================
