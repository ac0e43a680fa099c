----------------------------- MODULE FastSync -----------------------------
(***************************************************************************)
(* Fast sync: how an activated-v2 node replaces its state by a snapshot of *)
(* a peer.  The daemon's event loop runs drive and then one event; drive   *)
(* probes peers, selects a source and asks it for the transfer summary,    *)
(* the commitment pages and the chunks, one kind at a time.  Chunks are    *)
(* kept in a quarantine on disk until the last one arrives, then the whole *)
(* snapshot is imported.  Live blocks are held back meanwhile; blocks      *)
(* submitted by a local miner are not.                                     *)
(*                                                                         *)
(* A snapshot is named by the peer that exported it and the number of the  *)
(* export: each export carries the second it was made in, so a peer asked  *)
(* again answers with the same snapshot or with a new one.  Digests are    *)
(* not modelled: a message names the transfer it belongs to.               *)
(***************************************************************************)
EXTENDS Integers, FiniteSets

CONSTANTS
    Peers,          \* the other nodes, as positive numbers: ids in their order
    Best,           \* Best[p]: the selected height peer p advertises
    Boundary,       \* Boundary[p]: the prune boundary of p's snapshots, 0 if none
    MaxExports,     \* bound: the exports each peer makes
    ChunkCount,     \* the chunks of a snapshot
    BatchSize,      \* the chunks of one request
    LocalBlocks,    \* blocks that reach this node, live or from its miner
    Level,          \* Level[b]: the height of block b
    Histories,      \* the sets of blocks the node may have at the start
    MaxMishaps,     \* bound: lost messages, answers after their timer, failed writes
    Setups          \* the sets of things that may happen, one for each behaviour

Events ==
    {"lose", "late", "disconnect", "peerRestart", "crash", "storage",
     "afterwrite", "live", "mine", "overlap", "peers", "exports", "paged"}

ASSUME ConstantsAssumption ==
    /\ Peers \subseteq Nat \ {0}
    /\ Best \in [Peers -> Nat] /\ Boundary \in [Peers -> Nat]
    /\ MaxExports \in Nat \ {0} /\ ChunkCount \in Nat \ {0}
    /\ BatchSize \in Nat \ {0} /\ MaxMishaps \in Nat
    /\ Level \in [LocalBlocks -> Nat \ {0}]
    /\ Setups \subseteq SUBSET Events /\ Histories \subseteq SUBSET LocalBlocks

NoPeer == 0
NoTransfer == <<0, 0>>
Transfers == Peers \X (1..MaxExports)
Chunks == 0..(ChunkCount - 1)
ChainStates == [base : Transfers \union {NoTransfer}, blocks : SUBSET LocalBlocks]
GenesisState == [base |-> NoTransfer, blocks |-> {}]

\* A message between this node and peer; the fields its kind does not use are
\* NoTransfer, 0 and {}.
Message(kind, peer, transfer, start, chunks) ==
    [kind |-> kind, peer |-> peer, transfer |-> transfer, start |-> start, chunks |-> chunks]
Requests == {"probe", "getSummary", "getPage", "getChunks"}
Responses == {"capabilities", "summary", "page", "chunk"}
Messages ==
    [kind : Requests \union Responses, peer : Peers, transfer : Transfers \union {NoTransfer},
     start : Chunks, chunks : SUBSET Chunks]

\* The state of the downloader: what controller and daemon runtime remember.
Downloaders ==
    [caps : SUBSET Peers, src : Peers \union {NoPeer},
     summary : Transfers \union {NoTransfer}, pages : 0..ChunkCount,
     plan : Transfers \union {NoTransfer}, missing : SUBSET Chunks, inflight : SUBSET Chunks,
     pending : {"none", "summary", "commitments", "chunks"},
     flags : SUBSET {"clean", "handoff", "fallback", "imported"},
     elapsed : SUBSET {"request", "discovery", "standby"}, probed : SUBSET Peers]

VARIABLES
    on,         \* the things that may happen in this behaviour
    d,          \* the downloader: controller and daemon runtime
    net,        \* messages in transit
    conn,       \* connected peers
    book,       \* peers whose capabilities this node's session book holds
    granted,    \* peers whose session books hold this node's capabilities
    recalled,   \* peers whose controllers know this node's capabilities
    serving,    \* serving[p]: the transfer of p's serving session
    exports,    \* exports[p]: the snapshots p has exported
    parts,      \* the quarantine: <<transfer, chunk>> pairs on disk
    disk,       \* the state a restart loads
    memory,     \* the chain behind the lock
    building,   \* the imported state the event loop replays blocks on
    left,       \* the live blocks still to replay
    pc,         \* where the event loop is: loop, write, import or replay
    mining,     \* the blocks a submission holds the chain lock for
    mishaps     \* lost messages, answers after their timer and failed writes so far

peerVars == <<granted, recalled, serving, exports>>
linkVars == <<conn, book>>
chainVars == <<disk, memory, building, left, pc>>
vars == <<on, d, net, conn, book, granted, recalled, serving, exports, parts,
          disk, memory, building, left, pc, mining, mishaps>>

-----------------------------------------------------------------------------
(* The downloader.                                                         *)

\* Flags: clean (no block on disk at startup), handoff, fallback, imported.
\* Elapsed timers: request, discovery, standby.
NewDownloader(state) ==
    [caps |-> {}, src |-> NoPeer, summary |-> NoTransfer, pages |-> 0,
     plan |-> NoTransfer, missing |-> {}, inflight |-> {}, pending |-> "none",
     flags |-> IF state = GenesisState THEN {"clean"} ELSE {},
     elapsed |-> {"standby"}, probed |-> {}]

AuthorityActive(x) ==
    /\ "imported" \notin x.flags
    /\ "handoff" \in x.flags \/ ("clean" \in x.flags /\ "fallback" \notin x.flags)

HoldsLiveEvents(x) ==
    AuthorityActive(x) /\ ("handoff" \in x.flags \/ x.src # NoPeer)

SetPending(x, kind) == [x EXCEPT !.pending = kind, !.elapsed = @ \ {"request"}]
ClearPending(x) == SetPending(x, "none")
PendingIsFresh(x, kind) == x.pending = kind /\ "request" \notin x.elapsed

AbandonSource(x) ==
    [ClearPending(x) EXCEPT !.src = NoPeer, !.summary = NoTransfer, !.pages = 0,
                            !.plan = NoTransfer, !.missing = {}, !.inflight = {}]

\* The height h is above the best height of the state.
Above(h, state) ==
    /\ state.base = NoTransfer => h > 0
    /\ \A p \in Peers : p = state.base[1] => h > Best[p]
    /\ \A b \in state.blocks : h > Level[b]

\* The eligible peer with the highest advertised height, the smallest id first.
SourceCandidates(state) == {p \in conn \intersect book : Above(Best[p], state)}
BestSource(state) ==
    {p \in SourceCandidates(state) :
        \A q \in SourceCandidates(state) : Best[p] > Best[q] \/ (Best[p] = Best[q] /\ p <= q)}

MaybeSelectSource(x, state) ==
    IF x.src = NoPeer /\ BestSource(state) \intersect x.caps # {}
    THEN [ClearPending(x) EXCEPT !.src = CHOOSE p \in BestSource(state) : TRUE]
    ELSE x

\* The chunks of the next request: the lowest missing ones not in flight, all
\* missing ones when the answers to the last request are overdue.
Unasked(x) == x.missing \ x.inflight
OverdueNever(x) == FALSE
Overdue(x) == Unasked(x) = {} /\ ~PendingIsFresh(x, "chunks")
Wanted(x) == IF Overdue(x) THEN x.missing ELSE Unasked(x)
FirstWanted(x) == {i \in Wanted(x) : Cardinality({j \in Wanted(x) : j < i}) < BatchSize}

\* The request next_request returns, as a set of at most one message.
NextRequest(x) ==
    IF x.src = NoPeer THEN {}
    ELSE IF x.summary = NoTransfer
    THEN IF PendingIsFresh(x, "summary") THEN {}
         ELSE {Message("getSummary", x.src, NoTransfer, 0, {})}
    ELSE IF x.plan = NoTransfer
    THEN IF PendingIsFresh(x, "commitments") \/ x.pages >= ChunkCount THEN {}
         ELSE {Message("getPage", x.src, x.summary, x.pages, {})}
    ELSE IF FirstWanted(x) = {} THEN {}
         ELSE {Message("getChunks", x.src, x.summary, 0, FirstWanted(x))}

\* What next_request leaves behind when it returns the request m.
AfterRequest(x, m) ==
    CASE m.kind = "getSummary" -> SetPending(x, "summary")
      [] m.kind = "getPage" -> SetPending(x, "commitments")
      [] m.kind = "getChunks" ->
            [SetPending(x, "chunks") EXCEPT
                !.inflight = (IF Overdue(x) THEN {} ELSE @) \union m.chunks]

ToProbe(x) == {p \in conn : p \notin x.caps /\ p \notin x.probed}

\* drive up to the request: probes recorded, source selected or given up on.
Positioned(x) ==
    LET probing == [x EXCEPT !.probed = @ \union ToProbe(x)]
        picked == IF AuthorityActive(x) \/ "standby" \in x.elapsed
                  THEN MaybeSelectSource(probing, memory) ELSE probing
    IN  IF /\ "clean" \in x.flags /\ x.flags \intersect {"handoff", "fallback"} = {}
           /\ picked.src = NoPeer /\ "discovery" \in x.elapsed
        THEN [picked EXCEPT !.flags = @ \union {"fallback"}]
        ELSE picked

\* drive: the downloader after it, and the messages it sends.  A request to a
\* peer the session book does not hold is not sent, but counts as pending.
Driven(x) ==
    IF "imported" \in x.flags THEN x
    ELSE LET y == Positioned(x)
         IN  IF NextRequest(y) = {} THEN y
             ELSE AfterRequest(y, CHOOSE m \in NextRequest(y) : TRUE)

DriveSends(x) ==
    IF "imported" \in x.flags THEN {}
    ELSE LET y == Positioned(x)
         IN  {Message("probe", p, NoTransfer, 0, {}) : p \in ToProbe(x)} \union
             {m \in NextRequest(y) :
                /\ AuthorityActive(y) \/ m.kind = "getSummary"
                /\ m.peer \in conn \intersect book}

-----------------------------------------------------------------------------
(* Responses.  Each is handled in an iteration of the event loop, after drive. *)

Mishap(kind) == kind \in on /\ mishaps < MaxMishaps /\ mishaps' = mishaps + 1

Init ==
    /\ on \in Setups
    /\ memory \in [base : {NoTransfer}, blocks : Histories]
    /\ disk = memory /\ building = memory
    /\ d = NewDownloader(disk)
    /\ net = {} /\ conn = {} /\ book = {} /\ granted = {} /\ recalled = {}
    /\ serving = [p \in Peers |-> NoTransfer] /\ exports = [p \in Peers |-> 0]
    /\ parts = {} /\ left = {} /\ mining = {} /\ pc = "loop" /\ mishaps = 0

\* The event loop takes an event: drive needs the chain lock for a moment.
AtLoop == pc = "loop" /\ mining = {}

\* The response m is taken from the network and handed to the daemon, which
\* needs a capability session with the peer unless m opens one.
Takes(m) ==
    /\ AtLoop
    /\ m \in net /\ m.kind \in Responses /\ m.peer \in conn
    /\ m.kind = "capabilities" \/ m.peer \in book
    /\ net' = (net \ {m}) \union DriveSends(d)

\* An error: the source is given up on when it is the one that answered.
Failed(x, m) ==
    LET y == IF x.src = m.peer THEN AbandonSource(x) ELSE x
    IN  IF m.kind = "summary" /\ ~AuthorityActive(y)
        THEN [y EXCEPT !.elapsed = @ \ {"standby"}] ELSE y

ReceiveCapabilities(m) ==
    /\ Takes(m) /\ m.kind = "capabilities"
    /\ book' = book \union {m.peer}
    /\ d' = [Driven(d) EXCEPT !.caps = @ \union {m.peer}]
    /\ UNCHANGED <<on, conn, peerVars, parts, chainVars, mining, mishaps>>

\* A summary out of authority decides whether a pruning handoff is needed.
HandoffNeeded(m) == Above(Boundary[m.peer], memory) /\ Boundary[m.peer] <= Best[m.peer]
ApplySummary(x, m) ==
    IF AuthorityActive(x) THEN x
    ELSE IF HandoffNeeded(m)
    THEN [x EXCEPT !.flags = (@ \union {"handoff"}) \ {"fallback"}, !.elapsed = @ \union {"standby"}]
    ELSE [AbandonSource(x) EXCEPT !.elapsed = @ \ {"standby"}]

SummaryFits(x, m) == x.src = m.peer /\ x.summary \in {NoTransfer, m.transfer}

ReceiveSummary(m) ==
    /\ Takes(m) /\ m.kind = "summary"
    /\ LET x == Driven(d)
           known == [ClearPending(x) EXCEPT !.summary = m.transfer]
       IN  d' = IF SummaryFits(x, m) THEN ApplySummary(known, m) ELSE Failed(x, m)
    /\ UNCHANGED <<on, linkVars, peerVars, parts, chainVars, mining, mishaps>>

\* The chunks of transfer t the quarantine holds.
Persisted(t) == {i \in Chunks : <<t, i>> \in parts}

\* The last page fixes the plan: what the quarantine holds is not asked for again.
PageFits(x, m) == x.src = m.peer /\ x.summary = m.transfer /\ x.pages = m.start
PageEnd(m) == IF "paged" \in on THEN m.start + 1 ELSE ChunkCount
AddPageAsking(x, m) ==
    [ClearPending(x) EXCEPT !.pages = PageEnd(m), !.plan = x.summary, !.missing = Chunks]
AddPage(x, m) ==
    LET y == [ClearPending(x) EXCEPT !.pages = PageEnd(m)]
    IN  IF PageEnd(m) = ChunkCount
        THEN [y EXCEPT !.plan = x.summary, !.missing = Chunks \ Persisted(x.summary)]
        ELSE y

ReceivePage(m) ==
    /\ Takes(m) /\ m.kind = "page"
    /\ LET x == Driven(d)
       IN  \/ /\ d' = IF PageFits(x, m) THEN AddPage(x, m) ELSE Failed(x, m)
              /\ UNCHANGED mishaps
           \/ /\ PageFits(x, m) /\ PageEnd(m) = ChunkCount /\ Mishap("storage")
              /\ d' = Failed(x, m)
    /\ UNCHANGED <<on, linkVars, peerVars, parts, chainVars, mining>>

\* A chunk goes to the quarantine; when none is missing the import follows.
ChunkFits(x, m) == x.src = m.peer /\ x.summary = m.transfer /\ x.plan # NoTransfer
AddChunk(x, m) ==
    LET y == [x EXCEPT !.missing = @ \ m.chunks, !.inflight = @ \ m.chunks]
    IN  IF y.inflight = {} THEN ClearPending(y) ELSE y

ReceiveChunk(m) ==
    /\ Takes(m) /\ m.kind = "chunk"
    /\ LET x == Driven(d)
       IN  \/ /\ ChunkFits(x, m)
              /\ d' = AddChunk(x, m)
              /\ parts' = parts \union ({x.plan} \X m.chunks)
              /\ pc' = IF d'.missing = {} THEN "write" ELSE "loop"
              /\ UNCHANGED mishaps
           \/ /\ IF ChunkFits(x, m) THEN Mishap("storage") ELSE UNCHANGED mishaps
              /\ d' = Failed(x, m)
              /\ UNCHANGED <<parts, pc>>
    /\ UNCHANGED <<on, linkVars, peerVars, disk, memory, building, left, mining>>

-----------------------------------------------------------------------------
(* The import, the replay of live blocks, and the switch of the memory.    *)

\* The import is one write batch and asks for no lock of the chain; without
\* overlap in the setup, no submission is between its check and its write.
Importable == pc = "write" /\ ("overlap" \in on \/ mining = {})
InstalledKeepingBlocks == [base |-> d.plan, blocks |-> disk.blocks]
InstalledState == [base |-> d.plan, blocks |-> {}]

Import ==
    /\ Importable
    /\ Persisted(d.plan) = Chunks
    /\ disk' = InstalledState /\ building' = InstalledState
    /\ parts' = {x \in parts : x[1] # d.plan}
    /\ d' = [ClearPending(d) EXCEPT !.flags = @ \union {"imported"}]
    /\ pc' = "import"
    /\ UNCHANGED <<on, net, linkVars, peerVars, memory, left, mining, mishaps>>

\* The chunks are not all there, or the import fails before its batch is written.
ImportFails ==
    /\ Importable
    /\ IF Persisted(d.plan) = Chunks THEN Mishap("storage") ELSE UNCHANGED mishaps
    /\ d' = AbandonSource(d)
    /\ pc' = "loop"
    /\ UNCHANGED <<on, net, linkVars, peerVars, parts, disk, memory, building, left, mining>>

\* The batch is written but the quarantine cannot be cleared.
ImportUncleared ==
    /\ Importable
    /\ Persisted(d.plan) = Chunks /\ Mishap("afterwrite")
    /\ disk' = InstalledState /\ building' = InstalledState
    /\ d' = AbandonSource(d)
    /\ pc' = "loop"
    /\ UNCHANGED <<on, net, linkVars, peerVars, parts, memory, left, mining>>

\* Everything is written but the imported state cannot be loaded back.
ReloadFails ==
    /\ pc = "import" /\ Mishap("afterwrite")
    /\ pc' = "loop"
    /\ UNCHANGED <<on, d, net, linkVars, peerVars, parts, disk, memory, building, left, mining>>

\* The live blocks the snapshot does not cover: those above its prune boundary.
HandoffBlocks ==
    {b \in memory.blocks : \A p \in Peers : p = building.base[1] => Level[b] > Boundary[p]}

CloneLive ==
    /\ pc = "import" /\ mining = {}
    /\ left' = HandoffBlocks
    /\ pc' = "replay"
    /\ UNCHANGED <<on, d, net, linkVars, peerVars, parts, disk, memory, building, mining, mishaps>>

\* Lowest first; the replay accepts and persists the block, or rejects it.
ReplayBlock(b) ==
    /\ pc = "replay" /\ b \in left /\ \A c \in left : Level[b] <= Level[c]
    /\ left' = left \ {b}
    /\ \/ /\ building' = [building EXCEPT !.blocks = @ \union {b}]
          /\ disk' = building'
       \/ UNCHANGED <<building, disk>>
    /\ UNCHANGED <<on, d, net, linkVars, peerVars, parts, memory, pc, mining, mishaps>>

Publish ==
    /\ pc = "replay" /\ left = {} /\ mining = {}
    /\ memory' = building
    /\ pc' = "loop"
    /\ UNCHANGED <<on, d, net, linkVars, peerVars, parts, disk, building, left, mining, mishaps>>

-----------------------------------------------------------------------------
(* The other events of the loop, and the miner's submissions.              *)

\* An iteration without an event, or with a live event that is held back.
Idle ==
    /\ AtLoop
    /\ d' = Driven(d)
    /\ net' = net \union DriveSends(d)
    /\ UNCHANGED <<on, linkVars, peerVars, parts, chainVars, mining, mishaps>>

\* A live block is accepted and persisted under the chain lock.
LiveBlock(b) ==
    /\ AtLoop /\ "live" \in on
    /\ ~HoldsLiveEvents(Driven(d))
    /\ b \notin memory.blocks
    /\ d' = Driven(d)
    /\ net' = net \union DriveSends(d)
    /\ memory' = [memory EXCEPT !.blocks = @ \union {b}]
    /\ disk' = memory'
    /\ UNCHANGED <<on, linkVars, peerVars, parts, building, left, pc, mining, mishaps>>

\* A submission takes the chain lock and goes on if disk and memory agree; the
\* code compares generation, best height and preferred tip of the two states.
DurableUnchecked == TRUE
DurableMatches == disk = memory
SubmitChecked(b) ==
    /\ "mine" \in on /\ mining = {}
    /\ b \notin memory.blocks
    /\ DurableMatches
    /\ mining' = {b}
    /\ UNCHANGED <<on, d, net, linkVars, peerVars, parts, chainVars, mishaps>>

\* It persists the block with the memory's state, or the block is rejected.
SubmitDone(b) ==
    /\ b \in mining
    /\ mining' = {}
    /\ \/ /\ memory' = [memory EXCEPT !.blocks = @ \union {b}]
          /\ disk' = memory'
       \/ UNCHANGED <<memory, disk>>
    /\ UNCHANGED <<on, d, net, linkVars, peerVars, parts, building, left, pc, mishaps>>

-----------------------------------------------------------------------------
(* Peers, the network, time and crashes.                                   *)

\* The answers of peer p, whose session is for the transfer held, to m.
Answers(m, held) ==
    CASE m.kind = "probe" -> {Message("capabilities", m.peer, NoTransfer, 0, {})}
      [] m.kind = "getSummary" -> {Message("summary", m.peer, held, 0, {})}
      [] m.kind = "getPage" ->
            {Message("page", m.peer, held, m.start, {}) : x \in {held} \intersect {m.transfer}}
      [] m.kind = "getChunks" ->
            {Message("chunk", m.peer, held, 0, {i}) :
                i \in {j \in m.chunks : held = m.transfer}}

\* The export a summary is made of: the last one within a second, or a new one.
ExportsOf(p) ==
    {n \in {exports[p], exports[p] + 1} \intersect (1..MaxExports) : n = 1 \/ "exports" \in on}

\* A summary request opens a new session on a fresh export.
Serve(m) ==
    /\ m \in net /\ m.kind \in Requests /\ m.peer \in conn
    /\ m.kind = "probe" \/ m.peer \in granted
    /\ IF m.kind = "getSummary"
       THEN \E n \in ExportsOf(m.peer) :
                /\ exports' = [exports EXCEPT ![m.peer] = n]
                /\ serving' = [serving EXCEPT ![m.peer] = <<m.peer, n>>]
       ELSE UNCHANGED <<exports, serving>>
    /\ net' = (net \ {m}) \union Answers(m, serving'[m.peer])
    /\ UNCHANGED <<on, d, linkVars, granted, recalled, parts, chainVars, mining, mishaps>>

\* A request the peer's session book does not authorize is dropped.
Refuse(m) ==
    /\ m \in net /\ m.kind \in Requests \ {"probe"} /\ m.peer \in conn \ granted
    /\ net' = net \ {m}
    /\ UNCHANGED <<on, d, linkVars, peerVars, parts, chainVars, mining, mishaps>>

\* A peer probes this node once, and gets its capabilities.
PeerProbes(p) ==
    /\ p \in conn \ recalled
    /\ granted' = granted \union {p} /\ recalled' = recalled \union {p}
    /\ UNCHANGED <<on, d, net, linkVars, serving, exports, parts, chainVars, mining, mishaps>>

Connect(p) ==
    /\ p \notin conn /\ (p = 1 \/ "peers" \in on)
    /\ conn' = conn \union {p}
    /\ UNCHANGED <<on, d, net, book, peerVars, parts, chainVars, mining, mishaps>>

\* Both session books forget the other end; the controllers do not.
Disconnect(p) ==
    /\ "disconnect" \in on /\ p \in conn
    /\ conn' = conn \ {p} /\ book' = book \ {p} /\ granted' = granted \ {p}
    /\ net' = {m \in net : m.peer # p}
    /\ UNCHANGED <<on, d, recalled, serving, exports, parts, chainVars, mining, mishaps>>

PeerRestarts(p) ==
    /\ "peerRestart" \in on
    /\ conn' = conn \ {p} /\ book' = book \ {p} /\ granted' = granted \ {p}
    /\ recalled' = recalled \ {p}
    /\ serving' = [serving EXCEPT ![p] = NoTransfer]
    /\ net' = {m \in net : m.peer # p}
    /\ UNCHANGED <<on, d, exports, parts, chainVars, mining, mishaps>>

Lose(m) ==
    /\ m \in net /\ Mishap("lose")
    /\ net' = net \ {m}
    /\ UNCHANGED <<on, d, linkVars, peerVars, parts, chainVars, mining>>

\* A request's timer runs out with nothing in transit, or before the answer.
Overtakes ==
    \/ net = {} /\ UNCHANGED mishaps
    \/ net # {} /\ Mishap("late")

Elapse(timer) ==
    /\ timer \notin d.elapsed
    /\ IF timer = "request" THEN d.pending # "none" /\ Overtakes ELSE UNCHANGED mishaps
    /\ d' = [d EXCEPT !.elapsed = @ \union {timer}]
    /\ UNCHANGED <<on, net, linkVars, peerVars, parts, chainVars, mining>>

ProbeDue(p) ==
    /\ p \in d.probed \ d.caps /\ Overtakes
    /\ d' = [d EXCEPT !.probed = @ \ {p}]
    /\ UNCHANGED <<on, net, linkVars, peerVars, parts, chainVars, mining>>

\* The node stops at any point and starts again from its disk.
Restart ==
    /\ "crash" \in on
    /\ memory' = disk
    /\ d' = NewDownloader(disk)
    /\ net' = {} /\ conn' = {} /\ book' = {} /\ granted' = {}
    /\ left' = {} /\ mining' = {} /\ pc' = "loop"
    /\ UNCHANGED <<on, recalled, serving, exports, parts, disk, building, mishaps>>

-----------------------------------------------------------------------------
Receive(m) ==
    \/ ReceiveCapabilities(m)
    \/ ReceiveSummary(m)
    \/ ReceivePage(m)
    \/ ReceiveChunk(m)

ImportSteps ==
    \/ Import
    \/ ImportFails
    \/ ImportUncleared
    \/ ReloadFails
    \/ CloneLive
    \/ \E b \in LocalBlocks : ReplayBlock(b)
    \/ Publish

Next ==
    \/ \E m \in net : Receive(m) \/ Serve(m) \/ Refuse(m) \/ Lose(m)
    \/ ImportSteps
    \/ Idle
    \/ \E b \in LocalBlocks : LiveBlock(b) \/ SubmitChecked(b) \/ SubmitDone(b)
    \/ \E p \in Peers :
        PeerProbes(p) \/ Connect(p) \/ Disconnect(p) \/ PeerRestarts(p) \/ ProbeDue(p)
    \/ \E t \in {"request", "discovery", "standby"} : Elapse(t)
    \/ Restart

Spec == Init /\ [][Next]_vars

\* Something goes on as long as something can: the loop, its timers, messages.
Progress ==
    \/ ImportSteps
    \/ Idle
    \/ \E m \in net : Receive(m) \/ Serve(m) \/ Refuse(m)
    \/ \E t \in {"request", "discovery", "standby"} : Elapse(t)
    \/ \E p \in Peers : ProbeDue(p)

\* Peers stay reachable, and probe a node they do not know.
Fairness ==
    /\ WF_vars(Progress)
    /\ WF_vars(\E p \in Peers : Connect(p) \/ PeerProbes(p))

FairSpec == Spec /\ Fairness

-----------------------------------------------------------------------------
(* Properties.                                                             *)

\* Every variable has its type.
TypeOK ==
    /\ on \in Setups
    /\ d \in Downloaders
    /\ net \subseteq Messages
    /\ conn \subseteq Peers /\ book \subseteq Peers
    /\ granted \subseteq Peers /\ recalled \subseteq Peers
    /\ serving \in [Peers -> Transfers \union {NoTransfer}]
    /\ exports \in [Peers -> 0..MaxExports]
    /\ parts \subseteq Transfers \X Chunks
    /\ disk \in ChainStates /\ memory \in ChainStates /\ building \in ChainStates
    /\ left \subseteq LocalBlocks /\ mining \subseteq LocalBlocks
    /\ pc \in {"loop", "write", "import", "replay"} /\ mishaps \in 0..MaxMishaps

\* While a plan is being downloaded, the chunks the controller still asks for
\* are exactly those the quarantine on disk lacks, whatever was lost, repeated,
\* interrupted by a crash or resumed from an earlier attempt
\* (accept_response, begin_fast_sync_network_persisted_resume_v1).
MissingAgrees ==
    d.plan # NoTransfer /\ "imported" \notin d.flags =>
        d.plan = d.summary /\ d.missing = Chunks \ Persisted(d.plan)

\* Whenever the event loop is between events and no submission is under way,
\* a restart would load the state the node serves: an import, the blocks
\* replayed on it and the submissions refused meanwhile leave no difference
\* (the durable check of post_activated_v2_mining_submit, the handoff of main).
DiskMatchesMemory ==
    pc = "loop" /\ mining = {} /\ "overlap" \notin on /\ "afterwrite" \notin on =>
        disk = memory

\* The doc comment of holds_live_p2p_events says live events are held "so
\* import cannot race live acceptance": between events disk and memory agree.
ImportCannotRace == pc = "loop" /\ mining = {} => disk = memory

\* A chunk leaves the quarantine only with the import of its transfer: giving
\* up on a source, choosing another and restarting keep what was downloaded
\* (clear_fast_sync_network_resume_v1 is called after the import alone).
ChunksKept ==
    [][\A x \in parts \ parts' : disk'.base = x[1] /\ pc' = "import"]_vars

\* The promise of an atomic bootstrap: this specification implements it.
Store == INSTANCE BootstrapStore WITH Snapshots <- Transfers, Own <- NoTransfer

\* The state on disk is one whole state at every moment, installed before the
\* memory switches to it (import_complete_fast_sync_bootstrap_v1 and main).
ImplementsStore == Store!Spec

\* When no peer disconnects and answers come before their timers, authority
\* over the live events is given back: the download completes even if messages
\* are lost, or the node falls back to normal sync (drive, next_request).
AuthorityEnds ==
    (on \subseteq {"lose", "live", "peers", "exports", "paged"} /\ AuthorityActive(d)) ~> ~AuthorityActive(d)
=============================================================================
