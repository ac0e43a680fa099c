---------------------------- MODULE BlockRequests ----------------------------
(* The GetBlock requests of pulsedagd (apps/pulsedagd/src/block_request.rs). *)
(* BlockRequestTracker decides which block is asked of which peer, rotates a *)
(* request to another peer when one fails it, backs off, and declares a      *)
(* block exhausted when no peer is left.  It belongs to the inbound event    *)
(* loop, so its operations never interleave with each other; the handlers    *)
(* that make several of them process their work lists retry, expire and ask  *)
(* before the loop takes the next event, while time and the set of connected *)
(* peers go on changing.                                                     *)
(*                                                                           *)
(* Time appears only as differences: the seconds since a request was last    *)
(* sent, up to the longest wait, and the seconds a backoff still lasts.      *)
(* The rotation index picks some peer among the available ones.  Counters    *)
(* and the request history of the status endpoint are left out.  The inputs  *)
(* note_peer_inventory, note_peer_set_changed, note_peer_tip_ancestry,       *)
(* note_peer_sync_state and note_quiescence_recovery_window have no caller   *)
(* in the program.                                                           *)
EXTENDS Naturals, FiniteSets

CONSTANTS Setups,       \* sets of handlers; a node runs one of them
          Hashes,       \* blocks; naturals, in the order of their hashes
          Parents,      \* the parents of each block
          Origin,       \* the block every node has
          Peers,
          NoPeer,       \* a request that is not addressed to one peer
          Timeout,      \* seconds before a request is sent again
          RetryLimit,
          MaxPending, MaxPerPeer,
          BackoffBase,  \* DEFAULT_BLOCK_REQUEST_BACKOFF_SECS
          MaxWait,      \* MAX_BLOCK_REQUEST_BACKOFF_SECS
          RootLimit,    \* ORPHAN_RECOVERY_ROOT_REQUEST_LIMIT
          MaxPages      \* bound: header pages and promotions

AllHandlers == {"announce", "headers", "orphan", "recovery", "frontier", "compact", "selected", "rpc"}

ASSUME RequestAssumption ==
  /\ Setups \subseteq SUBSET AllHandlers
  /\ Hashes \subseteq Nat /\ Origin \notin Hashes
  /\ Parents \in [Hashes -> SUBSET (Hashes \cup {Origin})]
  /\ IsFiniteSet(Hashes) /\ IsFiniteSet(Peers) /\ NoPeer \notin Peers
  /\ {Timeout, MaxPending, MaxPerPeer, BackoffBase, MaxWait} \subseteq Nat \ {0}
  /\ Timeout <= MaxWait /\ RootLimit \in Nat /\ RetryLimit \in Nat /\ MaxPages \in Nat

VARIABLES on,       \* the handlers that run; it never changes
          t,        \* the tracker
          peers,    \* the peers that take requests
          known,    \* blocks in the DAG
          orphans,  \* blocks that wait for a parent
          retry, expire,  \* timed-out requests the loop has yet to handle
          ask,      \* blocks the running handler has yet to request
          via,      \* the peers it offers: the connected ones, or none
          pages     \* header pages and promotions so far

vars == <<on, t, peers, known, orphans, retry, expire, ask, via, pages>>

Blocks == Hashes \cup {Origin}

Trackers == [pend : SUBSET Hashes,
             peer : [Hashes -> Peers \cup {NoPeer}],
             age : [Hashes -> 0 .. MaxWait],
             tries : [Hashes -> 0 .. RetryLimit],
             hold : [Hashes -> 0 .. MaxWait],   \* seconds the backoff lasts
             fails : [Hashes -> 0 .. 6],        \* 0: no backoff entry
             notFound : [Hashes -> SUBSET Peers],
             timedOut : [Hashes -> SUBSET Peers],
             exhausted : SUBSET Hashes,
             have : [Peers -> SUBSET Hashes],   \* peer_hints.inventory
             headers : SUBSET Hashes,
             deferred : [Hashes \cup {Origin} -> SUBSET Hashes]]

NewTracker ==
  [pend |-> {}, peer |-> [h \in Hashes |-> NoPeer],
   age |-> [h \in Hashes |-> 0], tries |-> [h \in Hashes |-> 0],
   hold |-> [h \in Hashes |-> 0], fails |-> [h \in Hashes |-> 0],
   notFound |-> [h \in Hashes |-> {}], timedOut |-> [h \in Hashes |-> {}],
   exhausted |-> {}, have |-> [p \in Peers |-> {}],
   headers |-> {}, deferred |-> [p \in Blocks |-> {}]]

-----------------------------------------------------------------------------
(* Waits and capacity. *)

AtMost(n, limit) == IF n < limit THEN n ELSE limit

(* 1 << n.min(6) *)
Shift(n) == <<1, 2, 4, 8, 16, 32, 64>>[AtMost(n, 6) + 1]

RetryAfter(n) == AtMost(Timeout * Shift(n), MaxWait)

Elapsed(s, h) == s.age[h] >= RetryAfter(s.tries[h])

Drop(s, h) ==
  LET f == AtMost(s.fails[h] + 1, 6)
  IN  [s EXCEPT !.fails[h] = f, !.hold[h] = AtMost(BackoffBase * Shift(f), MaxWait)]

InFlight(s, p) == {h \in s.pend : s.peer[h] = p}

Full(s) == Cardinality(s.pend) >= MaxPending

Failed(s, h) == s.notFound[h] \cup s.timedOut[h]

(* Scores are positive exactly for the peers known to have the block; if    *)
(* there are any, the others are not considered.                            *)
Eligible(s, h, ps) ==
  LET hinted == {p \in ps : h \in s.have[p]}
  IN  IF hinted # {} THEN hinted ELSE ps

AvailableIgnoringTimeouts(s, h, ps) ==
  {p \in Eligible(s, h, ps) : p \notin s.notFound[h] /\ Cardinality(InFlight(s, p)) < MaxPerPeer}

Available(s, h, ps) ==
  {p \in Eligible(s, h, ps) : p \notin Failed(s, h) /\ Cardinality(InFlight(s, p)) < MaxPerPeer}

ReadinessSticky(s, h) ==
  IF h \in s.pend THEN "pending"
  ELSE IF s.fails[h] > 0 \/ Full(s) THEN "limited" ELSE "requestable"

(* classify_getblock_for_peers *)
Readiness(s, h) ==
  IF h \in s.pend THEN "pending"
  ELSE IF s.hold[h] > 0 \/ Full(s) THEN "limited" ELSE "requestable"

-----------------------------------------------------------------------------
(* Issuing requests. *)

RefusedByBackoff(s, h) == s.hold[h] > 0

(* Common early returns; is_backing_off removes an entry that has elapsed.  *)
Refused(s, h) == h \in s.exhausted \/ s.hold[h] > 0

Forget(s, h) == [s EXCEPT !.fails[h] = 0]

Put(s, h, p) ==
  [s EXCEPT !.pend = @ \cup {h}, !.peer[h] = p, !.age[h] = 0, !.tries[h] = 0,
            !.fails[h] = 0, !.hold[h] = 0]

Remove(s, h) ==
  [s EXCEPT !.pend = @ \ {h}, !.peer[h] = NoPeer, !.age[h] = 0, !.tries[h] = 0]

(* A pending request that waited long enough is sent once more; past the    *)
(* limit the hash backs off and stays pending.                              *)
Reissue(s, h) ==
  IF ~Elapsed(s, h) THEN s
  ELSE IF s.tries[h] >= RetryLimit THEN Drop(s, h)
  ELSE [s EXCEPT !.tries[h] = @ + 1, !.age[h] = 0]

IssueUnbounded(s, h, ps) ==
  IF Refused(s, h) THEN {s}
  ELSE IF h \in s.pend THEN {Reissue(Forget(s, h), h)}
  ELSE LET free == Available(s, h, ps)
       IN  {Put(s, h, p) : p \in IF free = {} THEN {NoPeer} ELSE free}

(* should_issue_getblock_for_peers: the states it may leave.                *)
Issue(s, h, ps) ==
  IF Refused(s, h) THEN {s}
  ELSE IF h \in s.pend THEN {Reissue(Forget(s, h), h)}
  ELSE IF Full(s) THEN {Forget(s, h)}
  ELSE LET free == Available(s, h, ps)
       IN  {Put(s, h, p) : p \in IF free = {} THEN {NoPeer} ELSE free}

StrictBelowGlobal(s, h, p) ==
  IF Refused(s, h) THEN s
  ELSE IF h \in s.pend \/ Full(s) \/ p \in Failed(s, h) THEN Forget(s, h)
  ELSE Put(s, h, p)

StrictAnyPeer(s, h, p) ==
  IF Refused(s, h) THEN s
  ELSE IF h \in s.pend \/ Full(s) \/ Cardinality(InFlight(s, p)) >= MaxPerPeer
  THEN Forget(s, h)
  ELSE Put(s, h, p)

(* should_issue_getblock_from_peer *)
Strict(s, h, p) ==
  IF Refused(s, h) THEN s
  ELSE IF h \in s.pend \/ Full(s) \/ p \in Failed(s, h)
          \/ Cardinality(InFlight(s, p)) >= MaxPerPeer
  THEN Forget(s, h)
  ELSE Put(s, h, p)

PromoteUnchecked(s, h, p) ==
  IF Refused(s, h) \/ p \in Failed(s, h) THEN s
  ELSE [Put(s, h, p) EXCEPT !.tries[h] = s.tries[h]]

PromoteFailedPeer(s, h, p) ==
  LET others == s.pend \ {h}
  IN  IF Refused(s, h) THEN s
      ELSE IF Cardinality(others) >= MaxPending \/ Cardinality(InFlight(s, p) \ {h}) >= MaxPerPeer
      THEN Forget(s, h)
      ELSE [Put(s, h, p) EXCEPT !.tries[h] = s.tries[h]]

(* promote_getblock_to_peer moves a pending request, or makes one.          *)
Promote(s, h, p) ==
  LET others == s.pend \ {h}
  IN  IF Refused(s, h) THEN s
      ELSE IF p \in Failed(s, h) \/ Cardinality(others) >= MaxPending
              \/ Cardinality(InFlight(s, p) \ {h}) >= MaxPerPeer
      THEN Forget(s, h)
      ELSE [Put(s, h, p) EXCEPT !.tries[h] = s.tries[h]]

Exhaust(s, h) == [Drop(s, h) EXCEPT !.exhausted = @ \cup {h}]

(* retry_after_peer_failure, once the failed request is removed.  At the    *)
(* global limit the request is lost without a backoff.                      *)
NextPeer(s, h, ps) ==
  IF ps = {} THEN {Drop(s, h)}
  ELSE IF Full(s) THEN {s}
  ELSE LET free == Available(s, h, ps)
       IN  IF free # {} THEN {Put(s, h, p) : p \in free} ELSE {Exhaust(s, h)}

Resolve(s, h) ==
  [Remove(s, h) EXCEPT !.hold[h] = 0, !.fails[h] = 0, !.notFound[h] = {},
                       !.timedOut[h] = {}, !.exhausted = @ \ {h}]

-----------------------------------------------------------------------------
(* Evidence from a validated selected-header page of peer p: an exhausted   *)
(* block is reopened for every peer, another one for p.                     *)
FreshEvidence(s, p, hs) ==
  LET reopened == hs \cap s.exhausted
      minus(failed) == [h \in Hashes |->
                          IF h \in reopened THEN {}
                          ELSE IF h \in hs THEN failed[h] \ {p} ELSE failed[h]]
      cleared(f) == [h \in Hashes |-> IF h \in hs THEN 0 ELSE f[h]]
  IN  [s EXCEPT !.exhausted = @ \ hs,
                !.notFound = minus(@), !.timedOut = minus(@),
                !.hold = cleared(@), !.fails = cleared(@)]

SelectedAvailability(s, p, hs) ==
  FreshEvidence([s EXCEPT !.have[p] = @ \cup hs], p, hs)

(* Header-driven fetching: a child waits until its parents are in kn.       *)
Missing(h, kn) == Parents[h] \ kn

RetrackOnce(s, children, kn) ==
  [s EXCEPT !.deferred = [p \in Blocks |->
                            (@[p] \ children) \cup {c \in children : Missing(c, kn) = {p}}]]

(* track_deferred_child and remove_deferred_child *)
Retrack(s, children, kn) ==
  [s EXCEPT !.deferred = [p \in Blocks |->
                            (@[p] \ children) \cup {c \in children : p \in Missing(c, kn)}]]

-----------------------------------------------------------------------------
(* Handlers of the event loop. *)

Idle == retry = {} /\ expire = {} /\ ask = {}

(* Parents that orphans wait for, and those a peer must be asked for. *)
Wanted(os, kn) == {p \in Hashes \ kn : \E o \in os : p \in Parents[o]}

Roots == Wanted(orphans, known) \ orphans

(* A handler that offers the blocks hs to should_issue_getblock. *)
Asking(hs, offered) == ask' = hs /\ via' = offered /\ UNCHANGED <<retry, expire>>

AskNext ==
  /\ ask # {}
  /\ \E h \in ask :
       /\ t' \in Issue(t, h, IF via = "peers" THEN peers ELSE {})
       /\ ask' = ask \ {h}
  /\ UNCHANGED <<peers, known, orphans, retry, expire, via, pages>>

(* An announced block, tip or inventory entry that is not in the DAG. *)
Announced(h) ==
  /\ "announce" \in on /\ Idle /\ h \notin known
  /\ Asking({h}, "peers")
  /\ UNCHANGED <<t, peers, known, orphans, pages>>

(* Headers outside a selected segment: children are deferred, parents whose *)
(* header is unknown are asked for.                                         *)
BlockHeaders(hs) ==
  LET fresh  == hs \ known
      blocks == {h \in fresh : Missing(h, known) = {}}
      parents == UNION {Missing(h, known) : h \in fresh} \ (t.headers \cup hs)
  IN  /\ "headers" \in on /\ Idle /\ hs # {} /\ pages < MaxPages
      /\ t' = [Retrack(t, fresh, known) EXCEPT !.headers = @ \cup hs]
      /\ Asking(blocks \cup parents, "none")
      /\ pages' = pages + 1
      /\ UNCHANGED <<peers, known, orphans>>

(* The periodic tick asks for the roots of the orphan backlog, the first    *)
(* ones in the order of their hashes.                                       *)
RecoverRoots ==
  LET ready == {h \in Roots : Readiness(t, h) = "requestable"}
      roots == {h \in ready : Cardinality({x \in ready : x < h}) < RootLimit}
  IN  /\ "recovery" \in on /\ Idle /\ peers # {} /\ roots # {}
      /\ Asking(roots, "peers")
      /\ UNCHANGED <<t, peers, known, orphans, pages>>

(* A frontier batch asks one peer only; a request that cannot be sent is    *)
(* forgotten with all that was known about the block.                       *)
Frontier(h, p) ==
  /\ "frontier" \in on /\ Idle /\ h \notin known \cup t.pend
  /\ \E s \in {Strict(t, h, p)} :
       t' \in {s} \cup IF h \in s.pend THEN {Resolve(s, h)} ELSE {}
  /\ UNCHANGED <<peers, known, orphans, retry, expire, ask, via, pages>>

(* A compact reconstruction of peer p gave up: its sender first, else any.  *)
CompactFallback(h, p) ==
  /\ "compact" \in on /\ Idle /\ h \notin t.pend
  /\ \E first \in {Strict(t, h, p)} :
       t' \in IF h \in first.pend THEN {first} ELSE Issue(first, h, peers)
  /\ UNCHANGED <<peers, known, orphans, retry, expire, ask, via, pages>>

(* A selected segment asks its peer; here too a failed send forgets all.    *)
PromoteTo(h, p) ==
  /\ "selected" \in on /\ Idle /\ h \notin known /\ pages < MaxPages
  /\ \E s \in {Promote(t, h, p)} :
       t' \in {s} \cup IF h \in s.pend /\ s.peer[h] = p /\ s.age[h] = 0 THEN {Resolve(s, h)} ELSE {}
  /\ pages' = pages + 1
  /\ UNCHANGED <<peers, known, orphans, retry, expire, ask, via>>

(* A validated page of selected headers hs with prerequisite parents ps.    *)
SelectedHeaders(p, hs, ps) ==
  /\ "selected" \in on /\ Idle /\ hs # {} /\ pages < MaxPages
  /\ t' = FreshEvidence(SelectedAvailability(t, p, hs), p, ps)
  /\ pages' = pages + 1
  /\ UNCHANGED <<peers, known, orphans, retry, expire, ask, via>>

(* An abandoned selected segment forgets the requests it owns. *)
Abandon(h) ==
  /\ "selected" \in on /\ Idle /\ h \in t.pend
  /\ t' = Resolve(t, h)
  /\ UNCHANGED <<peers, known, orphans, retry, expire, ask, via, pages>>

-----------------------------------------------------------------------------
(* Blocks arrive. *)

(* The pool drops the orphans that wait for h when it is given up. *)
GiveUp(h) == orphans' = {o \in orphans : h \notin Parents[o]}

(* Orphans that become acceptable once h is. *)
Adopted(h) ==
  {o \in orphans : \A s \in SUBSET orphans :
     (\A c \in orphans : Parents[c] \subseteq known \cup {h} \cup s => c \in s) => o \in s}

AcceptBlock(h) ==
  LET done   == known \cup {h} \cup Adopted(h)
      solved == [x \in Hashes |-> x \in {h} \cup Adopted(h)]
      wakes  == t.deferred[h]
      clear(f, v) == [x \in Hashes |-> IF solved[x] THEN v ELSE f[x]]
      s == [t EXCEPT !.pend = {x \in @ : ~solved[x]}, !.peer = clear(@, NoPeer),
                     !.age = clear(@, 0), !.tries = clear(@, 0), !.hold = clear(@, 0),
                     !.fails = clear(@, 0), !.notFound = clear(@, {}),
                     !.timedOut = clear(@, {}), !.exhausted = {x \in @ : ~solved[x]}]
  IN  /\ Idle /\ h \notin known \cup orphans /\ Parents[h] \subseteq known
      /\ known' = done
      /\ orphans' = orphans \ Adopted(h)
      /\ t' = [Retrack(s, wakes, done) EXCEPT !.deferred[h] = {}]
      /\ Asking({c \in wakes : Missing(c, done) = {}}, "none")
      /\ UNCHANGED <<peers, pages>>

(* A block with missing parents is queued, and its parents are asked for.   *)
OrphanBlock(h) ==
  /\ "orphan" \in on /\ Idle /\ h \notin known \cup orphans /\ Missing(h, known) # {}
  /\ orphans' = orphans \cup {h}
  /\ t' = Resolve(t, h)
  /\ Asking(Missing(h, known), "peers")
  /\ UNCHANGED <<peers, known, pages>>

(* A block that is rejected or already known settles its request. *)
RejectBlock(h) ==
  /\ Idle
  /\ t' = Resolve(t, h)
  /\ UNCHANGED <<peers, known, orphans, retry, expire, ask, via, pages>>

(* A block accepted over RPC: the tracker is not told. *)
AcceptElsewhere(h) ==
  /\ "rpc" \in on
  /\ h \notin known \cup orphans /\ Parents[h] \subseteq known
  /\ known' = known \cup {h}
  /\ UNCHANGED <<t, peers, orphans, retry, expire, ask, via, pages>>

-----------------------------------------------------------------------------
(* Failures. *)

RecordNotFound(s, h) ==
  IF s.peer[h] = NoPeer THEN s ELSE [s EXCEPT !.notFound[h] = @ \cup {s.peer[h]}]

RecordTimeout(s, h) ==
  IF s.peer[h] = NoPeer THEN s ELSE [s EXCEPT !.timedOut[h] = @ \cup {s.peer[h]}]

(* Peer p does not have h.  Only the peer that was asked is believed, or    *)
(* any peer if the request was not addressed.                               *)
BlockDataMissing(h, p) ==
  /\ Idle /\ h \in t.pend /\ t.peer[h] \in {p, NoPeer}
  /\ t' \in NextPeer(Remove(RecordNotFound(t, h), h), h, peers)
  /\ IF h \in t'.exhausted THEN GiveUp(h) ELSE UNCHANGED orphans
  /\ UNCHANGED <<peers, known, retry, expire, ask, via, pages>>

DrainKeepingExpired ==
  LET late == {h \in t.pend : Elapsed(t, h) /\ t.tries[h] < RetryLimit}
  IN  /\ Idle /\ late # {}
      /\ t' = [t EXCEPT !.age = [h \in Hashes |-> IF h \in late THEN 0 ELSE @[h]],
                        !.tries = [h \in Hashes |-> IF h \in late THEN @[h] + 1 ELSE @[h]]]
      /\ retry' = late /\ expire' = {}
      /\ UNCHANGED <<peers, known, orphans, ask, via, pages>>

(* drain_timeouts, once per loop iteration. *)
DrainTimeouts ==
  LET late == {h \in t.pend : Elapsed(t, h)}
      over == {h \in late : t.tries[h] >= RetryLimit}
      rest(f, v) == [h \in Hashes |-> IF h \in over THEN v ELSE f[h]]
  IN  /\ Idle /\ late # {}
      /\ t' = [t EXCEPT !.pend = @ \ over, !.peer = rest(@, NoPeer),
                        !.age = [h \in Hashes |-> IF h \in late THEN 0 ELSE @[h]],
                        !.tries = [h \in Hashes |-> IF h \in over THEN 0
                                                    ELSE IF h \in late THEN @[h] + 1 ELSE @[h]]]
      /\ retry' = late \ over /\ expire' = over
      /\ UNCHANGED <<peers, known, orphans, ask, via, pages>>

RetryTimedOut ==
  /\ retry # {}
  /\ \E h \in retry :
       /\ \A x \in retry : h <= x
       /\ t' \in NextPeer(Remove(RecordTimeout(t, h), h), h, peers)
       /\ retry' = retry \ {h}
       /\ IF h \in t'.exhausted THEN GiveUp(h) ELSE UNCHANGED orphans
  /\ UNCHANGED <<peers, known, expire, ask, via, pages>>

(* An expired request starts anew if an orphan still waits for the block;   *)
(* if it cannot, the block is given up.                                     *)
RestartExpired ==
  /\ retry = {} /\ expire # {}
  /\ \E h \in expire :
       /\ \A x \in expire : h <= x
       /\ t' \in IF h \in Wanted(orphans, known) THEN Issue(t, h, peers) ELSE {t}
       /\ expire' = expire \ {h}
       /\ IF h \in t'.pend THEN UNCHANGED orphans ELSE GiveUp(h)
  /\ UNCHANGED <<peers, known, retry, ask, via, pages>>

-----------------------------------------------------------------------------
(* Peers come and go, and time passes, also within a handler. *)

PeersChange ==
  /\ peers' \in SUBSET Peers /\ peers' # peers
  /\ UNCHANGED <<t, known, orphans, retry, expire, ask, via, pages>>

Tick ==
  /\ t' = [t EXCEPT !.age = [h \in Hashes |-> IF h \in t.pend THEN AtMost(@[h] + 1, MaxWait) ELSE 0],
                    !.hold = [h \in Hashes |-> IF @[h] > 0 THEN @[h] - 1 ELSE 0]]
  /\ UNCHANGED <<peers, known, orphans, retry, expire, ask, via, pages>>

Init ==
  /\ on \in Setups
  /\ t = NewTracker /\ peers = {} /\ known = {Origin} /\ orphans = {}
  /\ retry = {} /\ expire = {} /\ ask = {} /\ via = "none" /\ pages = 0

Work == AskNext \/ RetryTimedOut \/ RestartExpired

Step ==
  \/ Work \/ DrainTimeouts \/ RecoverRoots \/ PeersChange \/ Tick
  \/ \E h \in Hashes :
       \/ Announced(h) \/ Abandon(h)
       \/ AcceptBlock(h) \/ OrphanBlock(h) \/ RejectBlock(h) \/ AcceptElsewhere(h)
  \/ \E h \in Hashes, p \in Peers :
       Frontier(h, p) \/ CompactFallback(h, p) \/ PromoteTo(h, p) \/ BlockDataMissing(h, p)
  \/ \E hs \in SUBSET Hashes : BlockHeaders(hs)
  \/ \E p \in Peers, hs \in SUBSET Hashes : SelectedHeaders(p, hs, UNION {Missing(h, known) : h \in hs} \ hs)

Next == Step /\ UNCHANGED on

Spec == Init /\ [][Next]_vars

(* The loop runs its handlers to the end.  Each pass of the loop, whether   *)
(* an event or its one-second timer started it, begins with the timeouts,   *)
(* and every fifth one recovers the orphan backlog, so neither is starved   *)
(* by events.                                                               *)
FairSpec ==
  /\ Spec /\ WF_vars(Work /\ UNCHANGED on) /\ WF_vars(Tick /\ UNCHANGED on)
  /\ SF_vars(DrainTimeouts /\ UNCHANGED on) /\ SF_vars(RecoverRoots /\ UNCHANGED on)

-----------------------------------------------------------------------------
(* Properties. *)

(* Every variable has its type. *)
TypeOK ==
  /\ on \in Setups /\ t \in Trackers /\ peers \subseteq Peers
  /\ known \subseteq Blocks /\ orphans \subseteq Hashes
  /\ retry \subseteq Hashes /\ expire \subseteq Hashes /\ ask \subseteq Hashes
  /\ via \in {"peers", "none"} /\ pages \in 0 .. MaxPages

(* Whichever handlers issue, move or restart requests, no more than         *)
(* max_pending are in flight, nor more than max_pending_per_peer to a peer. *)
RequestsBounded ==
  /\ Cardinality(t.pend) <= MaxPending
  /\ \A p \in Peers : Cardinality(InFlight(t, p)) <= MaxPerPeer

(* A request is never in flight to a peer that already failed that block.   *)
NeverReasked == \A h \in t.pend : t.peer[h] \notin Failed(t, h)

(* An exhausted block is never in flight: only new evidence or the block    *)
(* itself ends the verdict, and the requests it suppresses.                 *)
ExhaustedNotPending == t.exhausted \cap t.pend = {}

(* A block whose header is known but which is not in the DAG waits under     *)
(* every parent it misses, and only under parents of its own, so that the    *)
(* arrival of the last one finds it, in whatever order they come.            *)
DeferredUnderEveryParent ==
  /\ \A p \in Blocks : \A c \in t.deferred[p] : p \in Parents[c] /\ c \in t.headers
  /\ \A c \in t.headers \ known : \A p \in Missing(c, known) : c \in t.deferred[p]

(* A request in flight ends: with the block, or when every peer had its     *)
(* turn, or when no peer or no capacity is left to try.                     *)
RequestsEnd == \A h \in Hashes : (h \in t.pend) ~> (h \notin t.pend)

(* A parent that the orphan backlog waits for is requested in the end,      *)
(* unless it was given up before, or no peer is connected.  This holds      *)
(* while the limits leave room for every root: the tick offers the lowest   *)
(* RootLimit hashes and the tracker takes MaxPending, and a root beyond     *)
(* either may wait for ever behind others that are asked again and again.   *)
RootsAreRequested ==
  \A h \in Hashes : (h \in Roots) ~> (h \in t.pend \/ h \in t.exhausted \/ h \notin Roots \/ peers = {})

(* A block is declared exhausted only when each connected peer has failed   *)
(* it: terminal_reason says all_direct_request_capable_peers_exhausted.     *)
ExhaustionAsksEveryPeer ==
  [][\A h \in t'.exhausted \ t.exhausted : peers \subseteq Failed(t', h)]_vars

(* An exhausted root is never classified as requestable: a test says that   *)
(* it is classified terminally.                                             *)
ExhaustedRootIsTerminal == \A h \in Roots \cap t.exhausted : Readiness(t, h) # "requestable"

=============================================================================
