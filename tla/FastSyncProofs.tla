-------------------------- MODULE FastSyncProofs --------------------------
(***************************************************************************)
(* For every set of peers, every size of snapshot and every set-up: the    *)
(* controller and the quarantine agree on what is missing, the node        *)
(* implements BootstrapStore, and downloaded chunks are kept.              *)
(***************************************************************************)
EXTENDS FastSync, TLAPS

(* The leaves are for Zenon; those that need arithmetic or records name SMTT. *)
USE ZenonT(30)

\* What drive leaves alone.
Keeps(x, y) ==
    /\ y.summary = x.summary /\ y.plan = x.plan /\ y.missing = x.missing
    /\ y.pages = x.pages /\ y.caps = x.caps
    /\ y.flags \ {"fallback"} = x.flags \ {"fallback"}

\* SetPending and ClearPending change the pending request and its timer only.
LEMMA PendingType ==
    ASSUME NEW x \in Downloaders, NEW k \in {"none", "summary", "commitments", "chunks"}
    PROVE  SetPending(x, k) \in Downloaders /\ Keeps(x, SetPending(x, k)) /\ SetPending(x, k).src = x.src
           /\ SetPending(x, k).inflight = x.inflight
           /\ SetPending(x, k).flags = x.flags
  BY DEF SetPending, Downloaders, Keeps

\* AbandonSource forgets the transfer and keeps what peers and flags say.
LEMMA AbandonType ==
    ASSUME NEW x \in Downloaders
    PROVE  /\ AbandonSource(x) \in Downloaders
           /\ AbandonSource(x).plan = NoTransfer /\ AbandonSource(x).flags = x.flags
<1>1. ClearPending(x) \in Downloaders /\ ClearPending(x).flags = x.flags
  BY PendingType DEF ClearPending
<1>2. 0 \in 0..ChunkCount
  BY SMTT(30), ConstantsAssumption
<1> QED
  BY <1>1, <1>2 DEF AbandonSource, Downloaders

\* Selecting a source changes the source and the pending request only.
LEMMA SelectType ==
    ASSUME NEW x \in Downloaders, NEW state, conn \subseteq Peers
    PROVE  /\ MaybeSelectSource(x, state) \in Downloaders
           /\ Keeps(x, MaybeSelectSource(x, state))
           /\ MaybeSelectSource(x, state).flags = x.flags
<1>1. CASE x.src = NoPeer /\ BestSource(state) \intersect x.caps # {}
  <2> DEFINE p == CHOOSE q \in BestSource(state) : TRUE
  <2>1. p \in BestSource(state)
    BY <1>1
  <2>2. p \in Peers
    BY <2>1 DEF BestSource, SourceCandidates
  <2>3. ClearPending(x) \in Downloaders /\ Keeps(x, ClearPending(x)) /\ ClearPending(x).flags = x.flags
    BY PendingType DEF ClearPending
  <2>4. MaybeSelectSource(x, state) = [ClearPending(x) EXCEPT !.src = p]
    BY <1>1 DEF MaybeSelectSource
  <2> HIDE DEF p
  <2> QED
    BY SMTT(30), <2>2, <2>3, <2>4 DEF Downloaders, Keeps
<1>2. CASE ~(x.src = NoPeer /\ BestSource(state) \intersect x.caps # {})
  BY <1>2 DEF MaybeSelectSource, Keeps
<1> QED
  BY <1>1, <1>2

\* The first half of drive.
LEMMA PositionedType ==
    ASSUME NEW x \in Downloaders, conn \subseteq Peers
    PROVE  Positioned(x) \in Downloaders /\ Keeps(x, Positioned(x))
<1> DEFINE probing == [x EXCEPT !.probed = @ \union ToProbe(x)]
           picked == IF AuthorityActive(x) \/ "standby" \in x.elapsed
                     THEN MaybeSelectSource(probing, memory) ELSE probing
<1>1. probing \in Downloaders /\ Keeps(x, probing) /\ probing.flags = x.flags
  BY DEF ToProbe, Downloaders, Keeps
<1>2. picked \in Downloaders /\ Keeps(probing, picked) /\ picked.flags = probing.flags
  <2>1. CASE AuthorityActive(x) \/ "standby" \in x.elapsed
    <3> HIDE DEF probing
    <3> QED
      BY <1>1, <2>1, SelectType
  <2>2. CASE ~(AuthorityActive(x) \/ "standby" \in x.elapsed)
    <3> HIDE DEF probing
    <3> QED
      BY <1>1, <2>2 DEF Keeps
  <2> QED
    BY <2>1, <2>2
<1>3. Positioned(x) = picked \/ Positioned(x) = [picked EXCEPT !.flags = @ \union {"fallback"}]
  BY DEF Positioned
<1> HIDE DEF picked, probing
<1>4. Keeps(x, picked)
  BY <1>1, <1>2 DEF Keeps
<1> QED
  BY SMTT(30), <1>2, <1>3, <1>4 DEF Downloaders, Keeps

\* The request of next_request is a message to the source.
LEMMA RequestType ==
    ASSUME NEW x \in Downloaders, NEW m \in NextRequest(x)
    PROVE  m \in Messages /\ m.kind \in {"getSummary", "getPage", "getChunks"}
<1>1. x.src \in Peers
  BY DEF NextRequest, Downloaders
<1>2. 0 \in Chunks
  BY SMTT(30), ConstantsAssumption DEF Chunks
<1>3. CASE m = Message("getSummary", x.src, NoTransfer, 0, {})
  BY <1>1, <1>2, <1>3 DEF Message, Messages, Requests, Responses
<1>4. CASE m = Message("getPage", x.src, x.summary, x.pages, {}) /\ ~(x.pages >= ChunkCount)
  <2>1. x.pages \in Chunks
    BY SMTT(30), <1>4, ConstantsAssumption DEF Chunks, Downloaders
  <2> QED
    BY <1>1, <1>4, <2>1 DEF Message, Messages, Requests, Responses, Downloaders
<1>5. CASE m = Message("getChunks", x.src, x.summary, 0, FirstWanted(x))
  <2>1. FirstWanted(x) \subseteq Chunks
    BY DEF FirstWanted, Wanted, Unasked, Downloaders
  <2> QED
    BY <1>1, <1>2, <1>5, <2>1 DEF Message, Messages, Requests, Responses, Downloaders
<1> QED
  BY <1>3, <1>4, <1>5 DEF NextRequest

\* Recording the request changes the pending request and the chunks in flight only.
LEMMA AfterRequestType ==
    ASSUME NEW x \in Downloaders, NEW m \in Messages,
           m.kind \in {"getSummary", "getPage", "getChunks"}
    PROVE  AfterRequest(x, m) \in Downloaders /\ Keeps(x, AfterRequest(x, m))
<1>1. CASE m.kind = "getSummary"
  BY <1>1, PendingType DEF AfterRequest
<1>2. CASE m.kind = "getPage"
  BY <1>2, PendingType DEF AfterRequest
<1>3. CASE m.kind = "getChunks"
  <2> DEFINE y == SetPending(x, "chunks")
             f == (IF Overdue(x) THEN {} ELSE y.inflight) \union m.chunks
  <2>1. y \in Downloaders /\ Keeps(x, y)
    BY PendingType
  <2>2. f \subseteq Chunks
    BY <2>1 DEF Downloaders, Messages
  <2>3. AfterRequest(x, m) = [y EXCEPT !.inflight = f]
    BY <1>3 DEF AfterRequest
  <2> HIDE DEF y, f
  <2> QED
    BY SMTT(30), <2>1, <2>2, <2>3 DEF Downloaders, Keeps
<1> QED
  BY <1>1, <1>2, <1>3

\* drive keeps the transfer, and sends messages.
LEMMA DrivenType ==
    ASSUME NEW x \in Downloaders, conn \subseteq Peers
    PROVE  /\ Driven(x) \in Downloaders /\ Keeps(x, Driven(x))
           /\ DriveSends(x) \subseteq Messages
           /\ \A m \in DriveSends(x) : m.kind \in Requests
<1> DEFINE y == Positioned(x)
<1>1. y \in Downloaders /\ Keeps(x, y)
  BY PositionedType
<1>2. 0 \in Chunks
  BY SMTT(30), ConstantsAssumption DEF Chunks
<1>3. \A p \in ToProbe(x) : Message("probe", p, NoTransfer, 0, {}) \in Messages
  BY <1>2 DEF ToProbe, Message, Messages, Requests
<1>4. \A m \in NextRequest(y) : m \in Messages /\ m.kind \in Requests
  <2> HIDE DEF y
  <2> QED
    BY <1>1, RequestType DEF Requests
<1>5. DriveSends(x) \subseteq
        {Message("probe", p, NoTransfer, 0, {}) : p \in ToProbe(x)} \union NextRequest(y)
  BY DEF DriveSends
<1>6. Driven(x) \in Downloaders /\ Keeps(x, Driven(x))
  <2>1. CASE "imported" \in x.flags \/ NextRequest(y) = {}
    BY <1>1, <2>1 DEF Driven, Keeps
  <2>2. CASE "imported" \notin x.flags /\ NextRequest(y) # {}
    <3> DEFINE m == CHOOSE m \in NextRequest(y) : TRUE
    <3>1. m \in NextRequest(y)
      BY <2>2
    <3>2. Driven(x) = AfterRequest(y, m)
      BY <2>2 DEF Driven
    <3> HIDE DEF y, m
    <3>3. m \in Messages /\ m.kind \in {"getSummary", "getPage", "getChunks"}
      BY <1>1, <3>1, RequestType
    <3>4. Driven(x) \in Downloaders /\ Keeps(y, Driven(x))
      BY <1>1, <3>2, <3>3, AfterRequestType
    <3> QED
      BY <1>1, <3>4 DEF Keeps
  <2> QED
    BY <2>1, <2>2
<1>7. \A m \in DriveSends(x) : m \in Messages /\ m.kind \in Requests
  <2> HIDE DEF y
  <2> QED
    BY SMTT(30), <1>3, <1>4, <1>5 DEF Message, Requests
<1> QED
  BY <1>6, <1>7

\* The error path gives the transfer up or leaves it alone.
LEMMA FailedType ==
    ASSUME NEW x \in Downloaders, NEW m
    PROVE  /\ Failed(x, m) \in Downloaders
           /\ Failed(x, m).flags = x.flags
           /\ \/ Failed(x, m).plan = NoTransfer
              \/ Keeps(x, Failed(x, m))
<1> DEFINE y == IF x.src = m.peer THEN AbandonSource(x) ELSE x
<1>1. /\ y \in Downloaders /\ y.flags = x.flags
      /\ y.plan = NoTransfer \/ Keeps(x, y)
  BY AbandonType DEF Keeps
<1>2. Failed(x, m) = y \/ Failed(x, m) = [y EXCEPT !.elapsed = y.elapsed \ {"standby"}]
  BY DEF Failed
<1> HIDE DEF y
<1> QED
  BY SMTT(30), <1>1, <1>2 DEF Downloaders, Keeps

\* The inductive invariant of the download: a snapshot is written only when
\* there is a plan for one.
DownloadInv ==
    /\ TypeOK
    /\ MissingAgrees
    /\ pc = "write" => d.plan \in Transfers

\* A fresh downloader has no plan.
LEMMA NewDownloaderType ==
    ASSUME NEW state
    PROVE  NewDownloader(state) \in Downloaders /\ NewDownloader(state).plan = NoTransfer
<1>1. 0 \in 0..ChunkCount
  BY SMTT(30), ConstantsAssumption
<1> QED
  BY <1>1 DEF NewDownloader, Downloaders

\* Flags and timers change independently of the rest.
LEMMA FlagsType ==
    ASSUME NEW x \in Downloaders, NEW f \in SUBSET {"clean", "handoff", "fallback", "imported"},
           NEW e \in SUBSET {"request", "discovery", "standby"}
    PROVE  [x EXCEPT !.flags = f, !.elapsed = e] \in Downloaders
  BY DEF Downloaders

\* A summary is recorded, or the source is given up on; the plan is kept or dropped.
LEMMA SummaryType ==
    ASSUME NEW x \in Downloaders, NEW m \in Messages, NEW y,
           y = ApplySummary([ClearPending(x) EXCEPT !.summary = m.transfer], m)
    PROVE  /\ y \in Downloaders
           /\ "imported" \in y.flags <=> "imported" \in x.flags
           /\ \/ y.plan = NoTransfer
              \/ y.plan = x.plan /\ y.missing = x.missing /\ y.summary = m.transfer
<1> DEFINE z == [ClearPending(x) EXCEPT !.summary = m.transfer]
<1>1. ClearPending(x) \in Downloaders /\ Keeps(x, ClearPending(x)) /\ ClearPending(x).flags = x.flags
  BY PendingType DEF ClearPending
<1>2. /\ z \in Downloaders /\ z.flags = x.flags
      /\ z.plan = x.plan /\ z.missing = x.missing /\ z.summary = m.transfer
  BY <1>1 DEF Downloaders, Keeps, Messages
<1>3. AbandonSource(z) \in Downloaders /\ AbandonSource(z).plan = NoTransfer /\ AbandonSource(z).flags = z.flags
  <2> HIDE DEF z
  <2> QED
    BY <1>2, AbandonType
<1>4. \/ y = z
      \/ y = [z EXCEPT !.flags = (z.flags \union {"handoff"}) \ {"fallback"},
                       !.elapsed = z.elapsed \union {"standby"}]
      \/ y = [AbandonSource(z) EXCEPT !.elapsed = AbandonSource(z).elapsed \ {"standby"}]
  BY DEF ApplySummary
<1> HIDE DEF z
<1>5. CASE y = z
  BY <1>2, <1>5
<1>6. CASE y = [z EXCEPT !.flags = (z.flags \union {"handoff"}) \ {"fallback"},
                         !.elapsed = z.elapsed \union {"standby"}]
  <2> DEFINE f == (z.flags \union {"handoff"}) \ {"fallback"}
             e == z.elapsed \union {"standby"}
  <2>1. f \subseteq {"clean", "handoff", "fallback", "imported"}
    BY <1>2 DEF Downloaders
  <2>2. e \subseteq {"request", "discovery", "standby"}
    BY <1>2 DEF Downloaders
  <2>3. "imported" \in f <=> "imported" \in x.flags
    BY <1>2
  <2>4. y = [z EXCEPT !.flags = f, !.elapsed = e]
    BY <1>6
  <2> HIDE DEF f, e
  <2>5. y \in Downloaders
    <3>1. [z EXCEPT !.flags = f, !.elapsed = e] \in Downloaders
      BY <1>2, <2>1, <2>2, FlagsType
    <3> QED
      BY <2>4, <3>1
  <2>6. y.flags = f /\ y.plan = z.plan /\ y.missing = z.missing /\ y.summary = z.summary
    BY <1>2, <2>4 DEF Downloaders
  <2> QED
    BY <1>2, <2>3, <2>5, <2>6
<1>7. CASE y = [AbandonSource(z) EXCEPT !.elapsed = AbandonSource(z).elapsed \ {"standby"}]
  <2> DEFINE a == AbandonSource(z)
  <2>1. a \in Downloaders /\ a.plan = NoTransfer /\ a.flags = x.flags
    BY <1>2, <1>3
  <2>2. y = [a EXCEPT !.elapsed = a.elapsed \ {"standby"}]
    BY <1>7
  <2> HIDE DEF a
  <2> QED
    BY SMTT(30), <2>1, <2>2 DEF Downloaders
<1> QED
  BY <1>4, <1>5, <1>6, <1>7

\* A page is counted; the last one makes the plan of what the quarantine lacks.
LEMMA PageType ==
    ASSUME NEW x \in Downloaders, NEW m \in Messages
    PROVE  /\ AddPage(x, m) \in Downloaders /\ AddPage(x, m).flags = x.flags
           /\ AddPage(x, m).summary = x.summary
           /\ \/ AddPage(x, m).plan = x.plan /\ AddPage(x, m).missing = x.missing
              \/ /\ AddPage(x, m).plan = x.summary
                 /\ AddPage(x, m).missing = Chunks \ Persisted(x.summary)
<1> DEFINE c == ClearPending(x)
           y == [c EXCEPT !.pages = PageEnd(m)]
<1>1. c \in Downloaders /\ Keeps(x, c) /\ c.flags = x.flags
  BY PendingType DEF ClearPending
<1>2. PageEnd(m) \in 0..ChunkCount
  BY SMTT(30), ConstantsAssumption DEF PageEnd, Messages, Chunks
<1>3. \/ AddPage(x, m) = y
      \/ AddPage(x, m) = [y EXCEPT !.plan = x.summary, !.missing = Chunks \ Persisted(x.summary)]
  BY DEF AddPage
<1> HIDE DEF c
<1>4. y \in Downloaders /\ Keeps(c, [y EXCEPT !.pages = c.pages]) /\ y.flags = c.flags
  BY <1>1, <1>2 DEF Downloaders, Keeps
<1>5. y.summary = x.summary /\ y.plan = x.plan /\ y.missing = x.missing /\ y.flags = x.flags
  BY <1>1 DEF Downloaders, Keeps
<1> HIDE DEF y
<1> DEFINE lacking == Chunks \ Persisted(x.summary)
           z == [y EXCEPT !.plan = x.summary, !.missing = lacking]
<1>6. lacking \subseteq Chunks
  OBVIOUS
<1>7. AddPage(x, m) = y \/ AddPage(x, m) = z
  BY <1>3
<1> HIDE DEF lacking
<1>8. /\ z \in Downloaders /\ z.flags = x.flags /\ z.summary = x.summary
      /\ z.plan = x.summary /\ z.missing = lacking
  BY <1>4, <1>5, <1>6 DEF Downloaders
<1> HIDE DEF z
<1> QED
  BY <1>4, <1>5, <1>7, <1>8 DEF lacking

\* A chunk that arrived is no longer missing.
LEMMA ChunkType ==
    ASSUME NEW x \in Downloaders, NEW m \in Messages
    PROVE  /\ AddChunk(x, m) \in Downloaders /\ AddChunk(x, m).flags = x.flags
           /\ AddChunk(x, m).summary = x.summary /\ AddChunk(x, m).plan = x.plan
           /\ AddChunk(x, m).missing = x.missing \ m.chunks
<1> DEFINE y == [x EXCEPT !.missing = @ \ m.chunks, !.inflight = @ \ m.chunks]
<1>1. /\ y \in Downloaders /\ y.flags = x.flags /\ y.summary = x.summary /\ y.plan = x.plan
      /\ y.missing = x.missing \ m.chunks
  BY DEF Downloaders
<1>2. AddChunk(x, m) = y \/ AddChunk(x, m) = ClearPending(y)
  BY DEF AddChunk
<1> HIDE DEF y
<1>3. ClearPending(y) \in Downloaders /\ Keeps(y, ClearPending(y)) /\ ClearPending(y).flags = y.flags
  BY <1>1, PendingType DEF ClearPending
<1> QED
  BY <1>1, <1>2, <1>3 DEF Keeps

\* A node that has just started has no plan.
LEMMA DownloadInit == Init => DownloadInv
<1> SUFFICES ASSUME Init PROVE DownloadInv
  OBVIOUS
<1>1. memory \in ChainStates /\ disk \in ChainStates /\ building \in ChainStates
  BY ConstantsAssumption DEF Init, ChainStates
<1>2. d \in Downloaders /\ d.plan = NoTransfer
  BY NewDownloaderType DEF Init
<1>3. exports \in [Peers -> 0..MaxExports] /\ mishaps \in 0..MaxMishaps
  BY SMTT(30), ConstantsAssumption DEF Init
<1>4. TypeOK
  BY <1>1, <1>2, <1>3 DEF Init, TypeOK
<1> QED
  BY <1>2, <1>4 DEF Init, DownloadInv, MissingAgrees

\* Mishaps stay within their bound.
LEMMA MishapType ==
    ASSUME NEW k, Mishap(k), mishaps \in 0..MaxMishaps
    PROVE  mishaps' \in 0..MaxMishaps
  BY SMTT(30), ConstantsAssumption DEF Mishap

\* A downloader that keeps the transfer keeps agreeing with the quarantine.
LEMMA KeepsAgrees ==
    ASSUME MissingAgrees, parts' = parts, NEW y, Keeps(d, y), d' = y
    PROVE  MissingAgrees'
<1>1. "imported" \in y.flags <=> "imported" \in d.flags
  BY DEF Keeps
<1>2. y.plan = d.plan /\ y.missing = d.missing /\ y.summary = d.summary
  BY DEF Keeps
<1> QED
  BY <1>1, <1>2 DEF MissingAgrees, Persisted, Chunks

\* Each kind of response preserves the invariant.
LEMMA ReceiveKeepsInv ==
    ASSUME DownloadInv, NEW m \in net, Receive(m)
    PROVE  DownloadInv'
<1> DEFINE x == Driven(d)
<1>1. /\ m \in Messages /\ m \in net /\ AtLoop /\ net' = (net \ {m}) \union DriveSends(d)
      /\ d \in Downloaders /\ conn \subseteq Peers
  BY DEF DownloadInv, TypeOK, Receive, ReceiveCapabilities, ReceiveSummary, ReceivePage,
         ReceiveChunk, Takes
<1>2. /\ x \in Downloaders /\ Keeps(d, x) /\ DriveSends(d) \subseteq Messages
  BY <1>1, DrivenType
<1>3. net' \subseteq Messages
  BY <1>1, <1>2 DEF DownloadInv, TypeOK
<1>4. "imported" \in x.flags <=> "imported" \in d.flags
  BY <1>2 DEF Keeps
<1>5. /\ x.plan # NoTransfer /\ "imported" \notin x.flags =>
            x.plan = x.summary /\ x.missing = Chunks \ Persisted(x.plan)
  BY <1>2, <1>4 DEF DownloadInv, MissingAgrees, Keeps
<1>6. Failed(x, m) \in Downloaders
      /\ (parts' = parts /\ d' = Failed(x, m) => MissingAgrees')
  <2> HIDE DEF x
  <2>1. /\ Failed(x, m) \in Downloaders /\ Failed(x, m).flags = x.flags
        /\ Failed(x, m).plan = NoTransfer \/ Keeps(x, Failed(x, m))
    BY <1>2, FailedType
  <2> SUFFICES ASSUME parts' = parts, d' = Failed(x, m) PROVE MissingAgrees'
    BY <2>1
  <2>2. CASE Failed(x, m).plan = NoTransfer
    BY <2>2 DEF MissingAgrees
  <2>3. CASE Keeps(x, Failed(x, m))
    <3>1. Keeps(d, Failed(x, m))
      BY <1>2, <2>3 DEF Keeps
    <3> QED
      BY <3>1, KeepsAgrees DEF DownloadInv
  <2> QED
    BY <2>1, <2>2, <2>3
<1> HIDE DEF x
<1>7. CASE ReceiveCapabilities(m)
  <2>1. d' = [x EXCEPT !.caps = x.caps \union {m.peer}]
    BY <1>7 DEF ReceiveCapabilities, x
  <2>2. m.peer \in Peers
    BY <1>1 DEF Messages
  <2>3. d' \in Downloaders /\ d'.plan = x.plan /\ d'.missing = x.missing
        /\ d'.summary = x.summary /\ d'.flags = x.flags
    BY <1>2, <2>1, <2>2 DEF Downloaders
  <2>4. parts' = parts /\ pc' = pc
    BY <1>7 DEF ReceiveCapabilities, chainVars
  <2>5. TypeOK'
    BY <1>3, <1>7, <2>2, <2>3 DEF ReceiveCapabilities, DownloadInv, TypeOK, chainVars, peerVars
  <2>6. MissingAgrees'
    BY <1>5, <2>3, <2>4 DEF MissingAgrees, Persisted
  <2> QED
    BY <1>1, <2>4, <2>5, <2>6 DEF DownloadInv, AtLoop
<1>8. CASE ReceiveSummary(m)
  <2> DEFINE z == ApplySummary([ClearPending(x) EXCEPT !.summary = m.transfer], m)
  <2>1. /\ z \in Downloaders
        /\ "imported" \in z.flags <=> "imported" \in x.flags
        /\ \/ z.plan = NoTransfer
           \/ z.plan = x.plan /\ z.missing = x.missing /\ z.summary = m.transfer
    BY <1>1, <1>2, SummaryType
  <2>2. \/ SummaryFits(x, m) /\ d' = z
        \/ d' = Failed(x, m)
    BY <1>8 DEF ReceiveSummary, x
  <2>3. parts' = parts /\ pc' = pc
    BY <1>8 DEF ReceiveSummary, chainVars
  <2> HIDE DEF z
  <2>4. d' \in Downloaders
    BY <1>6, <2>1, <2>2
  <2>5. TypeOK'
    BY <1>3, <1>8, <2>4 DEF ReceiveSummary, DownloadInv, TypeOK, chainVars, peerVars, linkVars
  <2>6. MissingAgrees'
    <3>1. CASE d' = Failed(x, m)
      BY <1>6, <2>3, <3>1
    <3>2. CASE SummaryFits(x, m) /\ d' = z
      <4>1. SUFFICES ASSUME z.plan # NoTransfer, "imported" \notin z.flags
                     PROVE  z.plan = z.summary /\ z.missing = Chunks \ Persisted(z.plan)
        BY <2>3, <3>2 DEF MissingAgrees, Persisted
      <4>2. z.plan = x.plan /\ z.missing = x.missing /\ z.summary = m.transfer
        BY <2>1, <4>1
      <4>3. x.plan = x.summary /\ x.missing = Chunks \ Persisted(x.plan)
        BY <1>5, <2>1, <4>1, <4>2
      <4>4. x.summary = m.transfer
        BY <3>2, <4>1, <4>2, <4>3 DEF SummaryFits
      <4> QED
        BY <4>2, <4>3, <4>4
    <3> QED
      BY <2>2, <3>1, <3>2
  <2> QED
    BY <1>1, <2>3, <2>5, <2>6 DEF DownloadInv, AtLoop
<1>9. CASE ReceivePage(m)
  <2>1. \/ d' = AddPage(x, m) /\ mishaps' = mishaps
        \/ d' = Failed(x, m) /\ mishaps' = mishaps
        \/ d' = Failed(x, m) /\ Mishap("storage")
    BY <1>9 DEF ReceivePage, x
  <2>2. parts' = parts /\ pc' = pc
    BY <1>9 DEF ReceivePage, chainVars
  <2>3. /\ AddPage(x, m) \in Downloaders /\ AddPage(x, m).flags = x.flags
        /\ AddPage(x, m).summary = x.summary
        /\ \/ AddPage(x, m).plan = x.plan /\ AddPage(x, m).missing = x.missing
           \/ /\ AddPage(x, m).plan = x.summary
              /\ AddPage(x, m).missing = Chunks \ Persisted(x.summary)
    BY <1>1, <1>2, PageType
  <2>4. d' \in Downloaders /\ mishaps' \in 0..MaxMishaps
    BY <1>6, <2>1, <2>3, MishapType DEF DownloadInv, TypeOK
  <2>5. TypeOK'
    BY <1>3, <1>9, <2>4 DEF ReceivePage, DownloadInv, TypeOK, chainVars, peerVars, linkVars
  <2>6. MissingAgrees'
    <3>1. CASE d' = Failed(x, m)
      BY <1>6, <2>2, <3>1
    <3>2. CASE d' = AddPage(x, m)
      BY <1>5, <2>2, <2>3, <3>2 DEF MissingAgrees, Persisted
    <3> QED
      BY <2>1, <3>1, <3>2
  <2> QED
    BY <1>1, <2>2, <2>5, <2>6 DEF DownloadInv, AtLoop
<1>10. CASE ReceiveChunk(m)
  <2>1. \/ /\ ChunkFits(x, m) /\ d' = AddChunk(x, m) /\ mishaps' = mishaps
           /\ parts' = parts \union ({x.plan} \X m.chunks)
           /\ pc' \in {"write", "loop"}
        \/ /\ d' = Failed(x, m) /\ (mishaps' = mishaps \/ Mishap("storage"))
           /\ parts' = parts /\ pc' = pc
    BY <1>10 DEF ReceiveChunk, x
  <2>2. /\ AddChunk(x, m) \in Downloaders /\ AddChunk(x, m).flags = x.flags
        /\ AddChunk(x, m).summary = x.summary /\ AddChunk(x, m).plan = x.plan
        /\ AddChunk(x, m).missing = x.missing \ m.chunks
    BY <1>1, <1>2, ChunkType
  <2>3. d' \in Downloaders /\ mishaps' \in 0..MaxMishaps
    BY <1>6, <2>1, <2>2, MishapType DEF DownloadInv, TypeOK
  <2>4. /\ ChunkFits(x, m) => x.plan \in Transfers
        /\ m.chunks \subseteq Chunks
    BY <1>1, <1>2 DEF ChunkFits, Downloaders, Messages
  <2>5. parts' \subseteq Transfers \X Chunks
    BY <2>1, <2>4 DEF DownloadInv, TypeOK
  <2>6. pc' \in {"write", "loop"}
    BY <1>1, <2>1 DEF AtLoop
  <2>7. TypeOK'
    BY <1>3, <1>10, <2>3, <2>5, <2>6 DEF ReceiveChunk, DownloadInv, TypeOK, peerVars, linkVars
  <2>8. MissingAgrees' /\ (pc' = "write" => d'.plan \in Transfers)
    <3>1. CASE d' = Failed(x, m) /\ parts' = parts /\ pc' = pc
      BY <1>1, <1>6, <3>1 DEF AtLoop
    <3>2. CASE /\ ChunkFits(x, m) /\ d' = AddChunk(x, m)
               /\ parts' = parts \union ({x.plan} \X m.chunks)
      <4>1. \A i \in Chunks : <<x.plan, i>> \in parts' <=> (<<x.plan, i>> \in parts \/ i \in m.chunks)
        BY <3>2
      <4>2. {i \in Chunks : <<x.plan, i>> \in parts'} = Persisted(x.plan) \union m.chunks
        BY <2>4, <4>1 DEF Persisted
      <4>3. /\ d'.plan = x.plan /\ d'.summary = x.summary /\ d'.flags = x.flags
            /\ d'.missing = x.missing \ m.chunks
        BY <2>2, <3>2
      <4>4. Persisted(d.plan)' = Persisted(x.plan) \union m.chunks
        BY <4>2, <4>3 DEF Persisted, Chunks
      <4>5. MissingAgrees'
        BY <1>5, <4>3, <4>4 DEF MissingAgrees, Chunks
      <4> QED
        BY <2>4, <3>2, <4>3, <4>5
    <3> QED
      BY <2>1, <3>1, <3>2
  <2> QED
    BY <2>7, <2>8 DEF DownloadInv
<1> QED
  BY <1>7, <1>8, <1>9, <1>10 DEF Receive

\* The import and what follows it.
LEMMA ImportKeepsInv ==
    ASSUME DownloadInv, ImportSteps
    PROVE  DownloadInv'
<1>1. d \in Downloaders
  BY DEF DownloadInv, TypeOK
<1>2. /\ AbandonSource(d) \in Downloaders
      /\ AbandonSource(d).plan = NoTransfer
  BY <1>1, AbandonType
<1>3. pc = "write" => InstalledState \in ChainStates
  BY DEF DownloadInv, InstalledState, ChainStates
<1>4. CASE Import
  <2>1. /\ ClearPending(d) \in Downloaders
    BY <1>1, PendingType DEF ClearPending
  <2>2. d' = [ClearPending(d) EXCEPT !.flags = ClearPending(d).flags \union {"imported"}]
    BY <1>4 DEF Import
  <2>3. d' \in Downloaders /\ "imported" \in d'.flags
    BY <2>1, <2>2 DEF Downloaders
  <2>4. parts' \subseteq parts
    BY <1>4 DEF Import
  <2>5. TypeOK'
    BY <1>3, <1>4, <2>3, <2>4 DEF Import, Importable, DownloadInv, TypeOK, linkVars, peerVars
  <2> QED
    BY <1>4, <2>3, <2>5 DEF Import, DownloadInv, MissingAgrees
<1>5. CASE ImportFails
  <2>1. mishaps' \in 0..MaxMishaps
    BY <1>5, MishapType DEF ImportFails, DownloadInv, TypeOK
  <2>2. TypeOK'
    BY <1>2, <1>5, <2>1 DEF ImportFails, DownloadInv, TypeOK, linkVars, peerVars
  <2> QED
    BY <1>2, <1>5, <2>2 DEF ImportFails, DownloadInv, MissingAgrees
<1>6. CASE ImportUncleared
  <2>1. mishaps' \in 0..MaxMishaps
    BY <1>6, MishapType DEF ImportUncleared, DownloadInv, TypeOK
  <2>2. TypeOK'
    BY <1>2, <1>3, <1>6, <2>1 DEF ImportUncleared, Importable, DownloadInv, TypeOK, linkVars, peerVars
  <2> QED
    BY <1>2, <1>6, <2>2 DEF ImportUncleared, DownloadInv, MissingAgrees
<1>7. CASE ReloadFails
  <2>1. mishaps' \in 0..MaxMishaps
    BY <1>7, MishapType DEF ReloadFails, DownloadInv, TypeOK
  <2> QED
    BY <1>7, <2>1 DEF ReloadFails, DownloadInv, TypeOK, MissingAgrees, Persisted, linkVars, peerVars
<1>8. CASE CloneLive
  <2>1. HandoffBlocks \subseteq LocalBlocks
    BY DEF HandoffBlocks, DownloadInv, TypeOK, ChainStates
  <2> QED
    BY <1>8, <2>1 DEF CloneLive, DownloadInv, TypeOK, MissingAgrees, Persisted, linkVars, peerVars
<1>9. ASSUME NEW b \in LocalBlocks, ReplayBlock(b) PROVE DownloadInv'
  <2>1. building' \in ChainStates /\ disk' \in ChainStates
    BY SMTT(30), <1>9 DEF ReplayBlock, DownloadInv, TypeOK, ChainStates
  <2> QED
    BY <1>9, <2>1 DEF ReplayBlock, DownloadInv, TypeOK, MissingAgrees, Persisted, linkVars, peerVars
<1>10. CASE Publish
  BY <1>10 DEF Publish, DownloadInv, TypeOK, MissingAgrees, Persisted, linkVars, peerVars
<1> QED
  BY <1>4, <1>5, <1>6, <1>7, <1>8, <1>9, <1>10 DEF ImportSteps

\* The answers of a peer are messages to this node.
LEMMA AnswersType ==
    ASSUME NEW m \in Messages, m.kind \in Requests, NEW t \in Transfers \union {NoTransfer}
    PROVE  /\ Answers(m, t) \subseteq Messages
           /\ \A r \in Answers(m, t) : r.kind \in Responses /\ r.peer = m.peer
<1>1. m.peer \in Peers /\ m.start \in Chunks /\ m.chunks \subseteq Chunks /\ 0 \in Chunks
  BY SMTT(30), ConstantsAssumption DEF Messages, Chunks
<1>2. CASE m.kind = "probe"
  BY SMTT(30), <1>1, <1>2 DEF Answers, Message, Messages, Responses
<1>3. CASE m.kind = "getSummary"
  BY SMTT(30), <1>1, <1>3 DEF Answers, Message, Messages, Responses
<1>4. CASE m.kind = "getPage"
  BY SMTT(30), <1>1, <1>4 DEF Answers, Message, Messages, Responses
<1>5. CASE m.kind = "getChunks"
  BY SMTT(30), <1>1, <1>5 DEF Answers, Message, Messages, Responses
<1> QED
  BY <1>2, <1>3, <1>4, <1>5 DEF Requests

\* Peers and the network do not touch the downloader or the quarantine.
LEMMA PeersKeepInv ==
    ASSUME DownloadInv,
           \/ \E m \in net : Serve(m) \/ Refuse(m) \/ Lose(m)
           \/ \E p \in Peers : PeerProbes(p) \/ Connect(p) \/ Disconnect(p) \/ PeerRestarts(p)
    PROVE  DownloadInv'
<1>1. UNCHANGED <<on, d, parts, chainVars, mining>>
  BY DEF Serve, Refuse, Lose, PeerProbes, Connect, Disconnect, PeerRestarts
<1>2. MissingAgrees' /\ (pc' = "write" => d'.plan \in Transfers)
  BY <1>1 DEF DownloadInv, MissingAgrees, Persisted, chainVars
<1>3. ASSUME NEW m \in net, Serve(m) PROVE TypeOK'
  <2>1. m \in Messages /\ m.peer \in Peers /\ m.kind \in Requests
    BY <1>3 DEF Serve, DownloadInv, TypeOK, Messages
  <2>2. exports' \in [Peers -> 0..MaxExports] /\ serving' \in [Peers -> Transfers \union {NoTransfer}]
    <3>1. CASE m.kind = "getSummary"
      <4>1. PICK n \in ExportsOf(m.peer) :
                /\ exports' = [exports EXCEPT ![m.peer] = n]
                /\ serving' = [serving EXCEPT ![m.peer] = <<m.peer, n>>]
        BY <1>3, <3>1 DEF Serve
      <4>2. n \in 1..MaxExports /\ n \in 0..MaxExports
        BY SMTT(30), ConstantsAssumption DEF ExportsOf
      <4>3. <<m.peer, n>> \in Transfers
        BY <2>1, <4>2 DEF Transfers
      <4> QED
        BY <2>1, <4>1, <4>2, <4>3 DEF DownloadInv, TypeOK
    <3>2. CASE m.kind # "getSummary"
      BY <1>3, <3>2 DEF Serve, DownloadInv, TypeOK
    <3> QED
      BY <3>1, <3>2
  <2>3. serving'[m.peer] \in Transfers \union {NoTransfer}
    BY <2>1, <2>2
  <2>4. net' \subseteq Messages
    BY <1>3, <2>1, <2>3, AnswersType DEF Serve, DownloadInv, TypeOK
  <2> QED
    BY <1>1, <1>3, <2>2, <2>4 DEF Serve, DownloadInv, TypeOK, chainVars, linkVars
<1>4. ASSUME NEW m \in net, Refuse(m) \/ Lose(m) PROVE TypeOK'
  <2>1. mishaps' \in 0..MaxMishaps
    BY <1>4, MishapType DEF Refuse, Lose, DownloadInv, TypeOK
  <2> QED
    BY <1>1, <1>4, <2>1 DEF Refuse, Lose, DownloadInv, TypeOK, chainVars, linkVars, peerVars
<1>5. ASSUME NEW p \in Peers, PeerProbes(p) \/ Connect(p) \/ Disconnect(p) PROVE TypeOK'
  BY <1>1, <1>5 DEF PeerProbes, Connect, Disconnect, DownloadInv, TypeOK, chainVars, linkVars, peerVars
<1>6. ASSUME NEW p \in Peers, PeerRestarts(p) PROVE TypeOK'
  <2>1. serving' \in [Peers -> Transfers \union {NoTransfer}]
    BY <1>6 DEF PeerRestarts, DownloadInv, TypeOK
  <2> QED
    BY <1>1, <1>6, <2>1 DEF PeerRestarts, DownloadInv, TypeOK, chainVars
<1> QED
  BY <1>2, <1>3, <1>4, <1>5, <1>6 DEF DownloadInv

\* The other events of the loop, the miner, the timers and a restart.
LEMMA LoopKeepsInv ==
    ASSUME DownloadInv,
           \/ Idle
           \/ \E b \in LocalBlocks : LiveBlock(b) \/ SubmitChecked(b) \/ SubmitDone(b)
           \/ \E p \in Peers : ProbeDue(p)
           \/ \E t \in {"request", "discovery", "standby"} : Elapse(t)
           \/ Restart
    PROVE  DownloadInv'
<1>1. d \in Downloaders /\ conn \subseteq Peers /\ net \subseteq Messages /\ mishaps \in 0..MaxMishaps
  BY DEF DownloadInv, TypeOK
<1>2. Driven(d) \in Downloaders /\ Keeps(d, Driven(d)) /\ DriveSends(d) \subseteq Messages
  BY <1>1, DrivenType
<1>3. Overtakes => mishaps' \in 0..MaxMishaps
  BY <1>1, MishapType DEF Overtakes
<1>4. CASE Idle
  <2>1. net' \subseteq Messages /\ d' \in Downloaders
    BY <1>1, <1>2, <1>4 DEF Idle
  <2>2. TypeOK'
    BY <1>4, <2>1 DEF Idle, DownloadInv, TypeOK, chainVars, linkVars, peerVars
  <2>3. MissingAgrees'
    BY <1>2, <1>4, KeepsAgrees DEF Idle, DownloadInv
  <2> QED
    BY <1>4, <2>2, <2>3 DEF Idle, DownloadInv, AtLoop, chainVars
<1>5. ASSUME NEW b \in LocalBlocks, LiveBlock(b) PROVE DownloadInv'
  <2>1. net' \subseteq Messages /\ d' \in Downloaders
    BY <1>1, <1>2, <1>5 DEF LiveBlock
  <2>2. memory' \in ChainStates /\ disk' \in ChainStates
    BY <1>5 DEF LiveBlock, DownloadInv, TypeOK, ChainStates
  <2>3. TypeOK'
    BY <1>5, <2>1, <2>2 DEF LiveBlock, DownloadInv, TypeOK, linkVars, peerVars
  <2>4. MissingAgrees'
    BY <1>2, <1>5, KeepsAgrees DEF LiveBlock, DownloadInv
  <2> QED
    BY <1>5, <2>3, <2>4 DEF LiveBlock, DownloadInv, AtLoop
<1>6. ASSUME NEW b \in LocalBlocks, SubmitChecked(b) PROVE DownloadInv'
  BY <1>6 DEF SubmitChecked, DownloadInv, TypeOK, MissingAgrees, Persisted, chainVars, linkVars, peerVars
<1>7. ASSUME NEW b \in LocalBlocks, SubmitDone(b) PROVE DownloadInv'
  <2>1. memory' \in ChainStates /\ disk' \in ChainStates
    BY SMTT(30), <1>7 DEF SubmitDone, DownloadInv, TypeOK, ChainStates
  <2> QED
    BY <1>7, <2>1 DEF SubmitDone, DownloadInv, TypeOK, MissingAgrees, Persisted, linkVars, peerVars
<1>8. ASSUME NEW p \in Peers, ProbeDue(p) PROVE DownloadInv'
  <2>1. d' = [d EXCEPT !.probed = d.probed \ {p}]
    BY <1>8 DEF ProbeDue
  <2>2. d' \in Downloaders /\ Keeps(d, d')
    BY <1>1, <2>1 DEF Downloaders, Keeps
  <2>3. TypeOK'
    BY <1>3, <1>8, <2>2 DEF ProbeDue, DownloadInv, TypeOK, chainVars, linkVars, peerVars
  <2>4. MissingAgrees'
    BY <1>8, <2>2, KeepsAgrees DEF ProbeDue, DownloadInv
  <2> QED
    BY <1>8, <2>2, <2>3, <2>4 DEF ProbeDue, DownloadInv, Keeps, chainVars, Transfers
<1>9. ASSUME NEW t \in {"request", "discovery", "standby"}, Elapse(t) PROVE DownloadInv'
  <2>1. d' = [d EXCEPT !.elapsed = d.elapsed \union {t}]
    BY <1>9 DEF Elapse
  <2>2. d' \in Downloaders /\ Keeps(d, d')
    BY <1>1, <2>1 DEF Downloaders, Keeps
  <2>3. mishaps' \in 0..MaxMishaps
    BY <1>1, <1>3, <1>9 DEF Elapse
  <2>4. TypeOK'
    BY <1>9, <2>2, <2>3 DEF Elapse, DownloadInv, TypeOK, chainVars, linkVars, peerVars
  <2>5. MissingAgrees'
    BY <1>9, <2>2, KeepsAgrees DEF Elapse, DownloadInv
  <2> QED
    BY <1>9, <2>2, <2>4, <2>5 DEF Elapse, DownloadInv, Keeps, chainVars, Transfers
<1>10. CASE Restart
  <2>1. d' \in Downloaders /\ d'.plan = NoTransfer
    BY <1>10, NewDownloaderType DEF Restart
  <2> QED
    BY <1>10, <2>1 DEF Restart, DownloadInv, TypeOK, MissingAgrees
<1> QED
  BY <1>4, <1>5, <1>6, <1>7, <1>8, <1>9, <1>10

\* The download's inductive invariant holds in every behaviour.
THEOREM DownloadInvariant == Spec => []DownloadInv
<1>1. Init => DownloadInv
  BY DownloadInit
<1>2. DownloadInv /\ [Next]_vars => DownloadInv'
  <2> SUFFICES ASSUME DownloadInv, [Next]_vars PROVE DownloadInv'
    OBVIOUS
  <2>1. CASE UNCHANGED vars
    BY <2>1 DEF vars, DownloadInv, TypeOK, MissingAgrees, Persisted
  <2>2. ASSUME NEW m \in net, Receive(m) PROVE DownloadInv'
    BY <2>2, ReceiveKeepsInv
  <2>3. CASE ImportSteps
    BY <2>3, ImportKeepsInv
  <2>4. CASE \/ \E m \in net : Serve(m) \/ Refuse(m) \/ Lose(m)
             \/ \E p \in Peers : PeerProbes(p) \/ Connect(p) \/ Disconnect(p) \/ PeerRestarts(p)
    BY <2>4, PeersKeepInv
  <2>5. CASE \/ Idle
             \/ \E b \in LocalBlocks : LiveBlock(b) \/ SubmitChecked(b) \/ SubmitDone(b)
             \/ \E p \in Peers : ProbeDue(p)
             \/ \E t \in {"request", "discovery", "standby"} : Elapse(t)
             \/ Restart
    BY <2>5, LoopKeepsInv
  <2> QED
    BY <2>1, <2>2, <2>3, <2>4, <2>5 DEF Next
<1> QED
  BY <1>1, <1>2, PTL DEF Spec

\* For every set of peers and every number of chunks, the chunks asked for are
\* exactly those the quarantine lacks (accept_response).
THEOREM MissingAlwaysAgrees == Spec => []MissingAgrees
<1>1. DownloadInv => MissingAgrees
  BY DEF DownloadInv
<1> QED
  BY <1>1, DownloadInvariant, PTL

\* For every value of the constants the node's disk and memory go through the
\* steps of BootstrapStore only (import_complete_fast_sync_bootstrap_v1, main).
THEOREM FastSyncRefinesStore == Spec => ImplementsStore
<1>1. Init => Store!Init
  <2> SUFFICES ASSUME Init PROVE Store!Init
    OBVIOUS
  <2>1. disk \in [base : {NoTransfer}, blocks : SUBSET LocalBlocks] /\ memory = disk /\ building = disk
    BY ConstantsAssumption DEF Init
  <2> QED
    BY <2>1 DEF Store!Init
<1>2. DownloadInv /\ [Next]_vars => [Store!Next]_(Store!vars)
  <2> SUFFICES ASSUME DownloadInv, [Next]_vars PROVE Store!Next \/ UNCHANGED Store!vars
    OBVIOUS
  <2>1. CASE UNCHANGED <<disk, memory, building>>
    BY <2>1 DEF Store!vars
  <2>2. CASE Import \/ ImportUncleared
    <3>1. d.plan \in Transfers
      BY <2>2 DEF Import, ImportUncleared, Importable, DownloadInv
    <3>2. Store!Install(d.plan)
      BY <2>2 DEF Import, ImportUncleared, InstalledState, Store!Install
    <3> QED
      BY <3>1, <3>2 DEF Store!Next
  <2>3. ASSUME NEW b \in LocalBlocks, ReplayBlock(b) PROVE Store!Next \/ UNCHANGED Store!vars
    <3>1. Store!Replay(b) \/ UNCHANGED Store!vars
      BY <2>3 DEF ReplayBlock, Store!Replay, Store!With, Store!vars
    <3> QED
      BY <3>1 DEF Store!Next
  <2>4. CASE Publish
    BY <2>4 DEF Publish, Store!Publish, Store!Next
  <2>5. CASE Restart
    BY <2>5 DEF Restart, Store!Restart, Store!Next
  <2>6. ASSUME NEW b \in LocalBlocks, LiveBlock(b) \/ SubmitDone(b)
        PROVE  Store!Next \/ UNCHANGED Store!vars
    <3>1. Store!Accept(b) \/ UNCHANGED Store!vars
      BY <2>6 DEF LiveBlock, SubmitDone, Store!Accept, Store!With, Store!vars
    <3> QED
      BY <3>1 DEF Store!Next
  <2>7. ASSUME NEW m \in net, Receive(m) \/ Serve(m) \/ Refuse(m) \/ Lose(m)
        PROVE  UNCHANGED <<disk, memory, building>>
    BY <2>7 DEF Receive, ReceiveCapabilities, ReceiveSummary, ReceivePage, ReceiveChunk,
                Serve, Refuse, Lose, chainVars
  <2>8. CASE \/ ImportFails \/ ReloadFails \/ CloneLive \/ Idle
             \/ \E b \in LocalBlocks : SubmitChecked(b)
             \/ \E p \in Peers : PeerProbes(p) \/ Connect(p) \/ Disconnect(p) \/ PeerRestarts(p) \/ ProbeDue(p)
             \/ \E t \in {"request", "discovery", "standby"} : Elapse(t)
    <3>1. UNCHANGED <<disk, memory, building>>
      BY <2>8 DEF ImportFails, ReloadFails, CloneLive, Idle, SubmitChecked, PeerProbes, Connect,
                  Disconnect, PeerRestarts, ProbeDue, Elapse, chainVars
    <3> QED
      BY <2>1, <3>1
  <2>9. CASE UNCHANGED vars
    BY <2>1, <2>9 DEF vars
  <2> QED
    BY <2>1, <2>2, <2>3, <2>4, <2>5, <2>6, <2>7, <2>8, <2>9 DEF Next, ImportSteps
<1> QED
  BY <1>1, <1>2, DownloadInvariant, PTL DEF Spec, ImplementsStore, Store!Spec

\* For every value of the constants a chunk leaves the quarantine only with the
\* import of its transfer (clear_fast_sync_network_resume_v1).
THEOREM ChunksAreKept == Spec => ChunksKept
<1> DEFINE Left == \A x \in parts \ parts' : disk'.base = x[1] /\ pc' = "import"
<1>1. [Next]_vars => [Left]_vars
  <2> SUFFICES ASSUME Next PROVE Left
    OBVIOUS
  <2>1. CASE parts \subseteq parts'
    BY <2>1
  <2>2. CASE Import
    BY <2>2 DEF Import, InstalledState
  <2>3. ASSUME NEW m \in net, Receive(m) \/ Serve(m) \/ Refuse(m) \/ Lose(m) PROVE parts \subseteq parts'
    BY <2>3 DEF Receive, ReceiveCapabilities, ReceiveSummary, ReceivePage, ReceiveChunk,
                Serve, Refuse, Lose
  <2>4. CASE \/ ImportFails \/ ImportUncleared \/ ReloadFails \/ CloneLive \/ Publish \/ Idle \/ Restart
             \/ \E b \in LocalBlocks : ReplayBlock(b) \/ LiveBlock(b) \/ SubmitChecked(b) \/ SubmitDone(b)
             \/ \E p \in Peers : PeerProbes(p) \/ Connect(p) \/ Disconnect(p) \/ PeerRestarts(p) \/ ProbeDue(p)
             \/ \E t \in {"request", "discovery", "standby"} : Elapse(t)
    <3>1. parts' = parts
      BY <2>4 DEF ImportFails, ImportUncleared, ReloadFails, CloneLive, Publish, Idle, Restart,
                  ReplayBlock, LiveBlock, SubmitChecked, SubmitDone, PeerProbes, Connect,
                  Disconnect, PeerRestarts, ProbeDue, Elapse
    <3> QED
      BY <2>1, <3>1
  <2> QED
    BY <2>1, <2>2, <2>3, <2>4 DEF Next, ImportSteps
<1> QED
  BY <1>1, PTL DEF Spec, ChunksKept

-------------------------------------------------------------------------------

(***************************************************************************)
(* Disk and memory agree whenever the event loop is between events.        *)
(*                                                                         *)
(* A download comes from its source, and a source is never the peer the    *)
(* memory's own snapshot came from; so an import leaves disk and memory on *)
(* different snapshots, and the durable check of a submission fails until  *)
(* the memory switches.  A second import of the same snapshot would break  *)
(* the argument; with two chunks or more a late chunk cannot complete one. *)
(***************************************************************************)

\* A transfer belongs to the peer that exported it.
Owned(t, p) == t # NoTransfer => t[1] = p

\* What the downloader knows comes from its source.
TransferInv(x) ==
    /\ Owned(x.summary, x.src) /\ Owned(x.plan, x.src)
    /\ x.plan # NoTransfer => x.pages = ChunkCount

\* What messages carry.
NetInv ==
    /\ \A p \in Peers : Owned(serving[p], p)
    /\ \A m \in net : m.kind \in Responses => Owned(m.transfer, m.peer)
    /\ \A m \in net : m.kind = "chunk" => \E i \in Chunks : m.chunks = {i}

\* After an import there is nothing left to complete another one.
ImportedInv ==
    "imported" \in d.flags =>
        /\ d.plan = NoTransfer => d.src = NoPeer
        /\ d.plan # NoTransfer => d.missing = {}
        /\ pc # "write" /\ d.plan # NoTransfer => Persisted(d.plan) = {}
        /\ pc = "write" => Persisted(d.plan) # Chunks

SourceInv ==
    /\ NetInv
    /\ TransferInv(d)
    /\ "imported" \notin d.flags /\ d.src # NoPeer => d.src # memory.base[1]
    /\ pc \in {"import", "replay"} => "imported" \in d.flags
    /\ pc = "write" => d.missing = {}
    /\ ImportedInv

\* Between the batch of the import and the switch, no submission is under way.
HandoffInv ==
    "overlap" \notin on /\ "afterwrite" \notin on =>
        /\ pc \in {"loop", "write"} => disk = memory
        /\ pc \in {"import", "replay"} =>
                mining = {} /\ disk = building /\ building.base # memory.base

\* drive selects a source only when there is none, and never the peer the
\* memory's snapshot came from.
Sourced(x, y) ==
    y.src = x.src \/ (x.src = NoPeer /\ y.src \in Peers /\ y.src # memory.base[1])

\* maybe_select_source compares heights with the memory's best height.
LEMMA SelectSource ==
    ASSUME NEW x \in Downloaders, conn \subseteq Peers
    PROVE  Sourced(x, MaybeSelectSource(x, memory))
<1>1. CASE x.src = NoPeer /\ BestSource(memory) \intersect x.caps # {}
  <2> DEFINE p == CHOOSE q \in BestSource(memory) : TRUE
  <2>1. p \in BestSource(memory)
    BY <1>1
  <2>2. p \in Peers /\ Above(Best[p], memory)
    BY <2>1 DEF BestSource, SourceCandidates
  <2>3. MaybeSelectSource(x, memory) = [ClearPending(x) EXCEPT !.src = p]
    BY <1>1 DEF MaybeSelectSource
  <2>4. ClearPending(x) \in Downloaders
    BY PendingType DEF ClearPending
  <2> HIDE DEF p
  <2>5. p # memory.base[1]
    BY SMTT(30), <2>2, ConstantsAssumption DEF Above
  <2> QED
    BY <1>1, <2>2, <2>3, <2>4, <2>5 DEF Sourced, Downloaders
<1>2. CASE ~(x.src = NoPeer /\ BestSource(memory) \intersect x.caps # {})
  BY <1>2 DEF MaybeSelectSource, Sourced
<1> QED
  BY <1>1, <1>2

\* The same holds for drive, which does nothing after an import.
LEMMA DrivenSource ==
    ASSUME NEW x \in Downloaders, conn \subseteq Peers
    PROVE  Sourced(x, Driven(x)) /\ ("imported" \in x.flags => Driven(x) = x)
<1> DEFINE probing == [x EXCEPT !.probed = @ \union ToProbe(x)]
           picked == IF AuthorityActive(x) \/ "standby" \in x.elapsed
                     THEN MaybeSelectSource(probing, memory) ELSE probing
           y == Positioned(x)
<1>1. probing \in Downloaders /\ probing.src = x.src
  BY DEF ToProbe, Downloaders
<1>2. picked \in Downloaders /\ Sourced(x, picked)
  <2>1. CASE AuthorityActive(x) \/ "standby" \in x.elapsed
    <3> HIDE DEF probing
    <3>1. /\ MaybeSelectSource(probing, memory) \in Downloaders
          /\ Sourced(probing, MaybeSelectSource(probing, memory))
      BY <1>1, SelectType, SelectSource
    <3> QED
      BY <1>1, <2>1, <3>1 DEF Sourced
  <2>2. CASE ~(AuthorityActive(x) \/ "standby" \in x.elapsed)
    <3> HIDE DEF probing
    <3> QED
      BY <1>1, <2>2 DEF Sourced
  <2> QED
    BY <2>1, <2>2
<1>3. y = picked \/ y = [picked EXCEPT !.flags = @ \union {"fallback"}]
  BY DEF Positioned
<1> HIDE DEF picked, probing
<1>4. y.src = picked.src
  BY <1>2, <1>3 DEF Downloaders
<1>5. y \in Downloaders
  BY PositionedType
<1>6. Sourced(x, y)
  BY <1>2, <1>4 DEF Sourced
<1>7. CASE "imported" \in x.flags \/ NextRequest(y) = {}
  BY <1>6, <1>7 DEF Driven, Sourced
<1>8. CASE "imported" \notin x.flags /\ NextRequest(y) # {}
  <2> DEFINE m == CHOOSE m \in NextRequest(y) : TRUE
  <2>1. m \in NextRequest(y)
    BY <1>8
  <2>2. Driven(x) = AfterRequest(y, m)
    BY <1>8 DEF Driven
  <2> HIDE DEF y, m
  <2>3. m.kind \in {"getSummary", "getPage", "getChunks"}
    BY <1>5, <2>1, RequestType
  <2>4. /\ SetPending(y, "chunks") \in Downloaders /\ SetPending(y, "chunks").src = y.src
        /\ SetPending(y, "summary").src = y.src /\ SetPending(y, "commitments").src = y.src
    BY <1>5, PendingType
  <2>5. AfterRequest(y, m).src = y.src
    <3>1. CASE m.kind = "getSummary"
      BY <2>4, <3>1 DEF AfterRequest
    <3>2. CASE m.kind = "getPage"
      BY <2>4, <3>2 DEF AfterRequest
    <3>3. CASE m.kind = "getChunks"
      BY <2>4, <3>3 DEF AfterRequest, Downloaders
    <3> QED
      BY <2>3, <3>1, <3>2, <3>3
  <2> QED
    BY <1>6, <1>8, <2>2, <2>5 DEF Sourced
<1> QED
  BY <1>7, <1>8

\* What the operations on the transfer do to its source.
LEMMA AbandonSourceless ==
    ASSUME NEW x \in Downloaders
    PROVE  /\ AbandonSource(x).src = NoPeer /\ AbandonSource(x).summary = NoTransfer
           /\ AbandonSource(x).plan = NoTransfer
<1>1. ClearPending(x) \in Downloaders
  BY PendingType DEF ClearPending
<1> QED
  BY <1>1 DEF AbandonSource, Downloaders

\* An error gives up the source with its transfer, or keeps both.
LEMMA FailedSource ==
    ASSUME NEW x \in Downloaders, NEW m
    PROVE  \/ /\ Failed(x, m).src = NoPeer /\ Failed(x, m).summary = NoTransfer
              /\ Failed(x, m).plan = NoTransfer
           \/ Keeps(x, Failed(x, m)) /\ Failed(x, m).src = x.src
<1> DEFINE y == IF x.src = m.peer THEN AbandonSource(x) ELSE x
<1>1. /\ y \in Downloaders
      /\ \/ y.src = NoPeer /\ y.summary = NoTransfer /\ y.plan = NoTransfer
         \/ Keeps(x, y) /\ y.src = x.src
  BY AbandonType, AbandonSourceless DEF Keeps
<1>2. Failed(x, m) = y \/ Failed(x, m) = [y EXCEPT !.elapsed = y.elapsed \ {"standby"}]
  BY DEF Failed
<1> HIDE DEF y
<1> QED
  BY <1>1, <1>2 DEF Downloaders, Keeps

\* A summary keeps the source and is recorded as its transfer, or both are given up.
LEMMA SummarySource ==
    ASSUME NEW x \in Downloaders, NEW m \in Messages, NEW y,
           y = ApplySummary([ClearPending(x) EXCEPT !.summary = m.transfer], m)
    PROVE  \/ y.src = NoPeer /\ y.summary = NoTransfer /\ y.plan = NoTransfer
           \/ /\ y.src = x.src /\ y.summary = m.transfer /\ y.plan = x.plan
              /\ y.pages = x.pages /\ y.missing = x.missing
<1> DEFINE z == [ClearPending(x) EXCEPT !.summary = m.transfer]
<1>1. ClearPending(x) \in Downloaders /\ Keeps(x, ClearPending(x)) /\ ClearPending(x).src = x.src
  BY PendingType DEF ClearPending
<1>2. /\ z \in Downloaders /\ z.src = x.src /\ z.pages = x.pages
      /\ z.plan = x.plan /\ z.missing = x.missing /\ z.summary = m.transfer
  BY <1>1 DEF Downloaders, Keeps, Messages
<1>3. /\ AbandonSource(z) \in Downloaders /\ AbandonSource(z).src = NoPeer
      /\ AbandonSource(z).summary = NoTransfer /\ AbandonSource(z).plan = NoTransfer
  <2> HIDE DEF z
  <2> QED
    BY <1>2, AbandonType, AbandonSourceless
<1>4. \/ y = z
      \/ \E f, e : y = [z EXCEPT !.flags = f, !.elapsed = e]
      \/ \E e : y = [AbandonSource(z) EXCEPT !.elapsed = e]
  BY DEF ApplySummary
<1> HIDE DEF z
<1>5. ASSUME NEW f, NEW e, y = [z EXCEPT !.flags = f, !.elapsed = e]
      PROVE  /\ y.src = z.src /\ y.summary = z.summary /\ y.plan = z.plan
             /\ y.pages = z.pages /\ y.missing = z.missing
  BY <1>2, <1>5 DEF Downloaders
<1>6. ASSUME NEW e, y = [AbandonSource(z) EXCEPT !.elapsed = e]
      PROVE  y.src = NoPeer /\ y.summary = NoTransfer /\ y.plan = NoTransfer
  BY <1>3, <1>6 DEF Downloaders
<1>7. CASE y = z
  BY <1>2, <1>7
<1>8. CASE \E f, e : y = [z EXCEPT !.flags = f, !.elapsed = e]
  <2>1. /\ y.src = z.src /\ y.summary = z.summary /\ y.plan = z.plan
        /\ y.pages = z.pages /\ y.missing = z.missing
    BY <1>5, <1>8
  <2> QED
    BY <1>2, <2>1
<1>9. CASE \E e : y = [AbandonSource(z) EXCEPT !.elapsed = e]
  BY <1>6, <1>9
<1> QED
  BY <1>4, <1>7, <1>8, <1>9

\* A page keeps the source; a plan is made only by the last page.
LEMMA PageSource ==
    ASSUME NEW x \in Downloaders, NEW m \in Messages
    PROVE  /\ AddPage(x, m).src = x.src
           /\ \/ AddPage(x, m).plan = x.plan /\ AddPage(x, m).pages = PageEnd(m)
              \/ AddPage(x, m).plan = x.summary /\ AddPage(x, m).pages = ChunkCount
<1> DEFINE c == ClearPending(x)
           y == [c EXCEPT !.pages = PageEnd(m)]
<1>1. c \in Downloaders /\ Keeps(x, c) /\ c.src = x.src
  BY PendingType DEF ClearPending
<1>2. \/ AddPage(x, m) = y
      \/ /\ PageEnd(m) = ChunkCount
         /\ AddPage(x, m) = [y EXCEPT !.plan = x.summary, !.missing = Chunks \ Persisted(x.summary)]
  BY DEF AddPage
<1> HIDE DEF c
<1> QED
  BY <1>1, <1>2 DEF Downloaders, Keeps

\* A chunk changes neither the source nor the pages.
LEMMA ChunkSource ==
    ASSUME NEW x \in Downloaders, NEW m \in Messages
    PROVE  AddChunk(x, m).src = x.src /\ AddChunk(x, m).pages = x.pages
<1> DEFINE y == [x EXCEPT !.missing = @ \ m.chunks, !.inflight = @ \ m.chunks]
<1>1. y \in Downloaders /\ y.src = x.src /\ y.pages = x.pages
  BY DEF Downloaders
<1>2. AddChunk(x, m) = y \/ AddChunk(x, m) = ClearPending(y)
  BY DEF AddChunk
<1> HIDE DEF y
<1>3. Keeps(y, ClearPending(y)) /\ ClearPending(y).src = y.src
  BY <1>1, PendingType DEF ClearPending
<1> QED
  BY <1>1, <1>2, <1>3 DEF Keeps

\* A node that has just started has no source.
LEMMA SourceInit == Init => SourceInv /\ HandoffInv
<1> SUFFICES ASSUME Init PROVE SourceInv /\ HandoffInv
  OBVIOUS
<1>1. d.plan = NoTransfer /\ d.summary = NoTransfer /\ d.src = NoPeer /\ "imported" \notin d.flags
  BY DEF Init, NewDownloader
<1>2. NetInv
  BY DEF Init, NetInv, Owned
<1> QED
  BY <1>1, <1>2 DEF Init, SourceInv, HandoffInv, TransferInv, ImportedInv, Owned

\* A peer is not the source of a snapshot of no one.
LEMMA OwnedByNobody ==
    ASSUME NEW t \in Transfers \union {NoTransfer}, Owned(t, NoPeer)
    PROVE  t = NoTransfer
  BY ConstantsAssumption DEF Owned, NoPeer, Transfers

\* The source after drive.
LEMMA DrivenInv ==
    ASSUME TypeOK, SourceInv
    PROVE  /\ TransferInv(Driven(d))
           /\ "imported" \notin Driven(d).flags /\ Driven(d).src # NoPeer =>
                    Driven(d).src # memory.base[1]
<1> DEFINE x == Driven(d)
<1>1. d \in Downloaders /\ conn \subseteq Peers
  BY DEF TypeOK
<1>2. x \in Downloaders /\ Keeps(d, x) /\ Sourced(d, x)
  BY <1>1, DrivenType, DrivenSource
<1> SUFFICES /\ TransferInv(x)
             /\ "imported" \notin x.flags /\ x.src # NoPeer => x.src # memory.base[1]
  OBVIOUS
<1> HIDE DEF x
<1>3. "imported" \in x.flags <=> "imported" \in d.flags
  BY <1>2 DEF Keeps
<1>4. CASE x.src = d.src
  BY <1>2, <1>3, <1>4 DEF SourceInv, TransferInv, Keeps
<1>5. CASE d.src = NoPeer /\ x.src # memory.base[1]
  <2>1. d.summary = NoTransfer /\ d.plan = NoTransfer
    BY <1>1, <1>5, OwnedByNobody DEF SourceInv, TransferInv, Downloaders
  <2>2. x.summary = NoTransfer /\ x.plan = NoTransfer
    BY <1>2, <2>1 DEF Keeps
  <2> QED
    BY <1>5, <2>2 DEF TransferInv, Owned
<1> QED
  BY <1>2, <1>4, <1>5 DEF Sourced

\* The messages of drive are requests.
LEMMA DriveNet ==
    ASSUME TypeOK, NetInv, NEW m, net' = (net \ {m}) \union DriveSends(d) \/ net' = net \union DriveSends(d),
           serving' = serving
    PROVE  NetInv'
<1>1. \A r \in DriveSends(d) : r.kind \in Requests
  BY DrivenType DEF TypeOK
<1>2. \A r \in net' : r \in net \/ r.kind \in Requests
  BY <1>1
<1>3. \A r \in net' : r.kind \in Responses => r \in net
  BY <1>2 DEF Requests, Responses
<1>4. \A r \in net' : r.kind \in Responses => Owned(r.transfer, r.peer)
  BY <1>3 DEF NetInv
<1>5. \A r \in net' : r.kind = "chunk" => \E i \in Chunks : r.chunks = {i}
  BY <1>3 DEF NetInv, Responses
<1> QED
  BY <1>4, <1>5 DEF NetInv, Owned, Chunks

\* The conjuncts that do not depend on the network, for a downloader y in
\* memory state with the quarantine unchanged and the loop between events.
LoopInv(y) ==
    /\ TransferInv(y)
    /\ "imported" \notin y.flags /\ y.src # NoPeer => y.src # memory.base[1]
    /\ "imported" \in y.flags =>
        /\ y.plan = NoTransfer => y.src = NoPeer
        /\ y.plan # NoTransfer => y.missing = {} /\ Persisted(y.plan) = {}

\* Between events that is enough.
LEMMA LoopInvSuffices ==
    ASSUME NEW y, LoopInv(y), d' = y, parts' = parts, pc' = "loop", memory'.base = memory.base, NetInv'
    PROVE  SourceInv'
  BY DEF LoopInv, SourceInv, ImportedInv, TransferInv, Persisted, Owned, Chunks

\* drive preserves it.
LEMMA DrivenLoopInv ==
    ASSUME TypeOK, SourceInv, pc = "loop"
    PROVE  LoopInv(Driven(d))
<1> DEFINE x == Driven(d)
<1>1. d \in Downloaders /\ conn \subseteq Peers
  BY DEF TypeOK
<1>2. /\ Keeps(d, x) /\ ("imported" \in d.flags => x = d)
      /\ TransferInv(x)
      /\ "imported" \notin x.flags /\ x.src # NoPeer => x.src # memory.base[1]
  BY <1>1, DrivenType, DrivenSource, DrivenInv
<1> SUFFICES LoopInv(x)
  OBVIOUS
<1> HIDE DEF x
<1>3. "imported" \in x.flags => x = d
  BY <1>2 DEF Keeps
<1> QED
  BY <1>2, <1>3 DEF LoopInv, SourceInv, ImportedInv

\* Responses preserve the invariant.
LEMMA ReceiveKeepsSource ==
    ASSUME ChunkCount >= 2, DownloadInv, SourceInv, HandoffInv, NEW m \in net, Receive(m)
    PROVE  SourceInv' /\ HandoffInv'
<1> DEFINE x == Driven(d)
<1>1. /\ m \in Messages /\ pc = "loop" /\ net' = (net \ {m}) \union DriveSends(d)
      /\ d \in Downloaders /\ conn \subseteq Peers /\ m.kind \in Responses
      /\ serving' = serving /\ memory' = memory /\ disk' = disk /\ on' = on
      /\ pc' \in {"loop", "write"}
  BY DEF DownloadInv, TypeOK, Receive, ReceiveCapabilities, ReceiveSummary, ReceivePage,
         ReceiveChunk, Takes, AtLoop, chainVars, peerVars
<1>2. HandoffInv'
  BY <1>1 DEF HandoffInv
<1>3. NetInv'
  BY <1>1, DriveNet DEF DownloadInv, SourceInv
<1>4. x \in Downloaders /\ LoopInv(x)
  BY <1>1, DrivenType, DrivenLoopInv DEF DownloadInv
<1>5. Owned(m.transfer, m.peer) /\ m.peer \in Peers /\ m.peer # NoPeer
  BY <1>1, ConstantsAssumption DEF SourceInv, NetInv, Messages, NoPeer
<1>6. LoopInv(Failed(x, m))
  <2> HIDE DEF x
  <2>1. Failed(x, m).flags = x.flags
    BY <1>4, FailedType
  <2>2. CASE /\ Failed(x, m).src = NoPeer /\ Failed(x, m).summary = NoTransfer
             /\ Failed(x, m).plan = NoTransfer
    BY <2>2 DEF LoopInv, TransferInv, Owned
  <2>3. CASE Keeps(x, Failed(x, m)) /\ Failed(x, m).src = x.src
    BY <1>4, <2>1, <2>3 DEF LoopInv, TransferInv, Keeps
  <2> QED
    BY <1>4, <2>2, <2>3, FailedSource
<1>7. SUFFICES SourceInv'
  BY <1>2
<1> HIDE DEF x
<1>8. CASE ReceiveCapabilities(m)
  <2> DEFINE y == [x EXCEPT !.caps = x.caps \union {m.peer}]
  <2>1. d' = y /\ parts' = parts /\ pc' = "loop"
    BY <1>1, <1>8 DEF ReceiveCapabilities, chainVars, x
  <2>2. /\ y.src = x.src /\ y.plan = x.plan /\ y.summary = x.summary /\ y.pages = x.pages
        /\ y.missing = x.missing /\ y.flags = x.flags
    BY <1>4 DEF Downloaders
  <2> HIDE DEF y
  <2>3. LoopInv(y)
    BY <1>4, <2>2 DEF LoopInv, TransferInv
  <2> QED
    BY <1>1, <1>3, <2>1, <2>3, LoopInvSuffices
<1>9. CASE ReceiveSummary(m)
  <2> DEFINE z == ApplySummary([ClearPending(x) EXCEPT !.summary = m.transfer], m)
  <2>1. parts' = parts /\ pc' = "loop"
    BY <1>1, <1>9 DEF ReceiveSummary, chainVars
  <2>2. \/ SummaryFits(x, m) /\ d' = z
        \/ d' = Failed(x, m)
    BY <1>9 DEF ReceiveSummary, x
  <2>3. /\ "imported" \in z.flags <=> "imported" \in x.flags
        /\ \/ z.src = NoPeer /\ z.summary = NoTransfer /\ z.plan = NoTransfer
           \/ /\ z.src = x.src /\ z.summary = m.transfer /\ z.plan = x.plan
              /\ z.pages = x.pages /\ z.missing = x.missing
    BY SMTT(30), <1>1, <1>4, SummaryType, SummarySource
  <2> HIDE DEF z
  <2>4. CASE SummaryFits(x, m) /\ d' = z
    <3>1. Owned(m.transfer, x.src)
      BY <1>5, <2>4 DEF SummaryFits
    <3>2. CASE z.src = NoPeer /\ z.summary = NoTransfer /\ z.plan = NoTransfer
      <4>1. LoopInv(z)
        BY <3>2 DEF LoopInv, TransferInv, Owned
      <4> QED
        BY <1>1, <1>3, <2>1, <2>4, <4>1, LoopInvSuffices
    <3>3. CASE /\ z.src = x.src /\ z.summary = m.transfer /\ z.plan = x.plan
               /\ z.pages = x.pages /\ z.missing = x.missing
      <4>1. LoopInv(z)
        BY <1>4, <2>3, <3>1, <3>3 DEF LoopInv, TransferInv
      <4> QED
        BY <1>1, <1>3, <2>1, <2>4, <4>1, LoopInvSuffices
    <3> QED
      BY <2>3, <3>2, <3>3
  <2>5. CASE d' = Failed(x, m)
    BY <1>1, <1>3, <1>6, <2>1, <2>5, LoopInvSuffices
  <2> QED
    BY <2>2, <2>4, <2>5
<1>10. CASE ReceivePage(m)
  <2>1. parts' = parts /\ pc' = "loop"
    BY <1>1, <1>10 DEF ReceivePage, chainVars
  <2>2. \/ PageFits(x, m) /\ d' = AddPage(x, m)
        \/ d' = Failed(x, m)
    BY <1>10 DEF ReceivePage, x
  <2>3. CASE PageFits(x, m) /\ d' = AddPage(x, m)
    <3> DEFINE y == AddPage(x, m)
    <3>1. /\ y.src = x.src /\ y.flags = x.flags /\ y.summary = x.summary
          /\ \/ y.plan = x.plan
             \/ y.plan = x.summary /\ y.pages = ChunkCount
      BY <1>1, <1>4, PageType, PageSource
    <3>2. x.plan = NoTransfer
      <4>1. x.pages # ChunkCount
        BY SMTT(30), <1>1, <2>3, ConstantsAssumption DEF PageFits, Messages, Chunks
      <4> QED
        BY <1>4, <4>1 DEF LoopInv, TransferInv
    <3>3. "imported" \notin x.flags
      BY <1>4, <1>5, <2>3, <3>2 DEF LoopInv, PageFits
    <3> HIDE DEF y
    <3>4. LoopInv(y)
      BY <1>4, <3>1, <3>2, <3>3 DEF LoopInv, TransferInv, Owned
    <3> QED
      BY <1>1, <1>3, <2>1, <2>3, <3>4, LoopInvSuffices DEF y
  <2>4. CASE d' = Failed(x, m)
    BY <1>1, <1>3, <1>6, <2>1, <2>4, LoopInvSuffices
  <2> QED
    BY <2>2, <2>3, <2>4
<1>11. CASE ReceiveChunk(m)
  <2>1. \/ /\ ChunkFits(x, m) /\ d' = AddChunk(x, m)
           /\ parts' = parts \union ({x.plan} \X m.chunks)
           /\ pc' = IF d'.missing = {} THEN "write" ELSE "loop"
        \/ d' = Failed(x, m) /\ parts' = parts /\ pc' = "loop"
    BY <1>1, <1>11 DEF ReceiveChunk, x
  <2>2. CASE d' = Failed(x, m) /\ parts' = parts /\ pc' = "loop"
    BY <1>1, <1>3, <1>6, <2>2, LoopInvSuffices
  <2>3. CASE /\ ChunkFits(x, m) /\ d' = AddChunk(x, m)
             /\ parts' = parts \union ({x.plan} \X m.chunks)
             /\ pc' = IF d'.missing = {} THEN "write" ELSE "loop"
    <3>1. /\ d'.flags = x.flags /\ d'.summary = x.summary /\ d'.plan = x.plan
          /\ d'.missing = x.missing \ m.chunks /\ d'.src = x.src /\ d'.pages = x.pages
      BY <1>1, <1>4, <2>3, ChunkType, ChunkSource
    <3>2. PICK i \in Chunks : m.chunks = {i}
      BY <1>11 DEF ReceiveChunk, SourceInv, NetInv
    <3>3. x.plan # NoTransfer
      BY <2>3 DEF ChunkFits
    <3>4. ASSUME "imported" \in x.flags
          PROVE  pc' = "write" /\ d'.missing = {} /\ Persisted(d.plan)' # Chunks
      <4>1. x.missing = {} /\ Persisted(x.plan) = {}
        BY <1>4, <3>3, <3>4 DEF LoopInv
      <4>2. \A j \in Chunks : <<x.plan, j>> \in parts' => j = i
        BY <2>3, <3>2, <4>1 DEF Persisted
      <4>3. PICK j \in Chunks : j # i
        <5>1. 0 \in Chunks /\ 1 \in Chunks
          BY SMTT(30), ConstantsAssumption DEF Chunks
        <5> QED
          BY SMTT(30), <5>1
      <4>4. j \notin Persisted(d.plan)'
        BY <3>1, <4>2, <4>3 DEF Persisted
      <4> QED
        BY <2>3, <3>1, <4>1, <4>3, <4>4
    <3>5. ImportedInv'
      <4> SUFFICES ASSUME "imported" \in d'.flags PROVE ImportedInv'
        BY DEF ImportedInv
      <4>1. pc' = "write" /\ d'.missing = {} /\ Persisted(d.plan)' # Chunks /\ d'.plan # NoTransfer
        BY <3>1, <3>3, <3>4
      <4> QED
        BY <4>1 DEF ImportedInv, Chunks
    <3>6. TransferInv(d)'
      BY <1>4, <3>1 DEF LoopInv, TransferInv, Owned
    <3>7. "imported" \notin d'.flags /\ d'.src # NoPeer => d'.src # memory'.base[1]
      BY <1>1, <1>4, <3>1 DEF LoopInv
    <3> QED
      BY <1>3, <2>3, <3>5, <3>6, <3>7 DEF SourceInv
  <2> QED
    BY <2>1, <2>2, <2>3
<1> QED
  BY <1>8, <1>9, <1>10, <1>11 DEF Receive

\* The import and what follows it preserve the invariant.
LEMMA ImportKeepsSource ==
    ASSUME DownloadInv, SourceInv, HandoffInv, ImportSteps
    PROVE  SourceInv' /\ HandoffInv'
<1>1. d \in Downloaders
  BY DEF DownloadInv, TypeOK
<1>2. net' = net /\ serving' = serving /\ on' = on
  BY DEF ImportSteps, Import, ImportFails, ImportUncleared, ReloadFails, CloneLive, ReplayBlock,
         Publish, peerVars
<1>3. NetInv'
  BY <1>2 DEF SourceInv, NetInv, Owned, Chunks
<1>4. /\ AbandonSource(d).src = NoPeer /\ AbandonSource(d).summary = NoTransfer
      /\ AbandonSource(d).plan = NoTransfer
  BY <1>1, AbandonSourceless
<1>5. CASE Import
  <2>1. /\ ClearPending(d) \in Downloaders /\ Keeps(d, ClearPending(d))
        /\ ClearPending(d).src = d.src
    BY <1>1, PendingType DEF ClearPending
  <2>2. d' = [ClearPending(d) EXCEPT !.flags = ClearPending(d).flags \union {"imported"}]
    BY <1>5 DEF Import
  <2>3. /\ d'.src = d.src /\ d'.plan = d.plan /\ d'.summary = d.summary /\ d'.pages = d.pages
        /\ d'.missing = d.missing /\ "imported" \in d'.flags
    BY <2>1, <2>2 DEF Downloaders, Keeps
  <2>4. pc = "write" /\ pc' = "import" /\ Persisted(d.plan) = Chunks /\ memory' = memory
    BY <1>5 DEF Import, Importable
  <2>5. "imported" \notin d.flags /\ d.missing = {} /\ d.plan \in Transfers
    BY <2>4 DEF SourceInv, ImportedInv, DownloadInv
  <2>6. d.plan # NoTransfer /\ d.plan[1] # NoPeer
    BY SMTT(30), <2>5, ConstantsAssumption DEF Transfers, NoTransfer, NoPeer
  <2>7. d.plan # memory.base
    BY <2>5, <2>6 DEF SourceInv, TransferInv, Owned
  <2>8. Persisted(d.plan)' = {}
    <3>1. \A i : <<d.plan, i>> \notin parts'
      BY <1>5 DEF Import
    <3> QED
      BY <2>3, <3>1 DEF Persisted
  <2>9. ImportedInv'
    BY <2>3, <2>4, <2>5, <2>6, <2>8 DEF ImportedInv
  <2>10. TransferInv(d)'
    BY <2>3 DEF SourceInv, TransferInv, Owned
  <2>11. SourceInv'
    BY <1>3, <2>3, <2>4, <2>9, <2>10 DEF SourceInv
  <2>12. HandoffInv'
    <3>1. disk' = building' /\ building'.base = d.plan
      BY <1>5 DEF Import, InstalledState
    <3>2. "overlap" \notin on => mining' = {}
      BY <1>5 DEF Import, Importable
    <3> QED
      BY <1>2, <2>4, <2>7, <3>1, <3>2 DEF HandoffInv
  <2> QED
    BY <2>11, <2>12
<1>6. CASE ImportFails \/ ImportUncleared
  <2>1. d' = AbandonSource(d) /\ pc' = "loop" /\ pc = "write"
    BY <1>6 DEF ImportFails, ImportUncleared, Importable
  <2>2. SourceInv'
    BY <1>3, <1>4, <2>1 DEF SourceInv, TransferInv, ImportedInv, Owned
  <2>3. "afterwrite" \notin on => disk' = disk /\ memory' = memory
    BY <1>6 DEF ImportFails, ImportUncleared, Mishap
  <2> QED
    BY <1>2, <2>1, <2>2, <2>3 DEF HandoffInv
<1>7. CASE ReloadFails \/ CloneLive
  <2>1. d' = d /\ parts' = parts /\ memory' = memory /\ pc = "import" /\ pc' \in {"loop", "replay"}
    BY <1>7 DEF ReloadFails, CloneLive
  <2>2. "imported" \in d.flags
    BY <2>1 DEF SourceInv
  <2>3. SourceInv'
    BY <1>3, <2>1, <2>2 DEF SourceInv, TransferInv, ImportedInv, Owned, Persisted, Chunks
  <2>4. "afterwrite" \notin on =>
            pc' = "replay" /\ mining' = mining /\ disk' = disk /\ building' = building
    BY <1>7 DEF ReloadFails, CloneLive, Mishap
  <2> QED
    BY <1>2, <2>1, <2>3, <2>4 DEF HandoffInv
<1>8. ASSUME NEW b \in LocalBlocks, ReplayBlock(b) PROVE SourceInv' /\ HandoffInv'
  <2>1. d' = d /\ parts' = parts /\ memory' = memory /\ pc' = pc /\ pc = "replay" /\ mining' = mining
    BY <1>8 DEF ReplayBlock
  <2>2. SourceInv'
    BY <1>3, <2>1 DEF SourceInv, TransferInv, ImportedInv, Owned, Persisted, Chunks
  <2>3. /\ disk' = building' \/ (disk' = disk /\ building' = building)
        /\ building'.base = building.base
    BY <1>8 DEF ReplayBlock, DownloadInv, TypeOK, ChainStates
  <2> QED
    BY <1>2, <2>1, <2>2, <2>3 DEF HandoffInv
<1>9. CASE Publish
  <2>1. /\ d' = d /\ parts' = parts /\ memory' = building /\ pc' = "loop" /\ pc = "replay"
        /\ disk' = disk
    BY <1>9 DEF Publish
  <2>2. "imported" \in d.flags
    BY <2>1 DEF SourceInv
  <2>3. SourceInv'
    BY <1>3, <2>1, <2>2 DEF SourceInv, TransferInv, ImportedInv, Owned, Persisted, Chunks
  <2> QED
    BY <1>2, <2>1, <2>3 DEF HandoffInv
<1> QED
  BY <1>5, <1>6, <1>7, <1>8, <1>9 DEF ImportSteps

\* A peer answers with what it exported, one chunk to a message.
LEMMA AnswersOwned ==
    ASSUME NEW m \in Messages, m.kind \in Requests, NEW t, Owned(t, m.peer)
    PROVE  \A r \in Answers(m, t) :
                /\ Owned(r.transfer, r.peer)
                /\ r.kind = "chunk" => \E i \in Chunks : r.chunks = {i}
<1>1. m.chunks \subseteq Chunks
  BY DEF Messages
<1>2. CASE m.kind = "probe"
  BY SMTT(30), <1>2 DEF Answers, Message, Owned
<1>3. CASE m.kind = "getSummary"
  BY SMTT(30), <1>3 DEF Answers, Message
<1>4. CASE m.kind = "getPage"
  BY SMTT(30), <1>4 DEF Answers, Message
<1>5. CASE m.kind = "getChunks"
  BY SMTT(30), <1>1, <1>5 DEF Answers, Message
<1> QED
  BY <1>2, <1>3, <1>4, <1>5 DEF Requests

\* Peers and the network preserve the invariant.
LEMMA PeersKeepSource ==
    ASSUME DownloadInv, SourceInv, HandoffInv,
           \/ \E m \in net : Serve(m) \/ Refuse(m) \/ Lose(m)
           \/ \E p \in Peers : PeerProbes(p) \/ Connect(p) \/ Disconnect(p) \/ PeerRestarts(p)
    PROVE  SourceInv' /\ HandoffInv'
<1>1. UNCHANGED <<on, d, parts, chainVars, mining>>
  BY DEF Serve, Refuse, Lose, PeerProbes, Connect, Disconnect, PeerRestarts
<1>2. HandoffInv'
  BY <1>1 DEF HandoffInv, chainVars
<1>3. NetInv' => SourceInv'
  BY <1>1 DEF SourceInv, TransferInv, ImportedInv, Owned, Persisted, Chunks, chainVars
<1>4. ASSUME NEW m \in net, Serve(m) PROVE NetInv'
  <2>1. m \in Messages /\ m.peer \in Peers /\ m.kind \in Requests
        /\ serving \in [Peers -> Transfers \union {NoTransfer}]
    BY <1>4 DEF Serve, DownloadInv, TypeOK, Messages
  <2>2. \A p \in Peers : Owned(serving'[p], p)
    <3>1. CASE m.kind = "getSummary"
      <4>1. PICK n \in ExportsOf(m.peer) : serving' = [serving EXCEPT ![m.peer] = <<m.peer, n>>]
        BY <1>4, <3>1 DEF Serve
      <4> QED
        BY <2>1, <4>1 DEF SourceInv, NetInv, Owned
    <3>2. CASE m.kind # "getSummary"
      BY <1>4, <3>2 DEF Serve, SourceInv, NetInv, Owned
    <3> QED
      BY <3>1, <3>2
  <2>3. \A r \in Answers(m, serving'[m.peer]) :
                /\ Owned(r.transfer, r.peer)
                /\ r.kind = "chunk" => \E i \in Chunks : r.chunks = {i}
    BY <2>1, <2>2, AnswersOwned
  <2>4. net' = (net \ {m}) \union Answers(m, serving'[m.peer])
    BY <1>4 DEF Serve
  <2>5. \A r \in net' : r.kind \in Responses => Owned(r.transfer, r.peer)
    BY <2>3, <2>4 DEF SourceInv, NetInv
  <2>6. \A r \in net' : r.kind = "chunk" => \E i \in Chunks : r.chunks = {i}
    BY <2>3, <2>4 DEF SourceInv, NetInv
  <2> QED
    BY <2>2, <2>5, <2>6 DEF NetInv, Owned, Chunks
<1>5. ASSUME net' \subseteq net, serving' = serving PROVE NetInv'
  BY <1>5 DEF SourceInv, NetInv, Owned, Chunks
<1>6. ASSUME NEW m \in net, Refuse(m) \/ Lose(m) PROVE NetInv'
  BY <1>5, <1>6 DEF Refuse, Lose, peerVars
<1>7. ASSUME NEW p \in Peers, PeerProbes(p) \/ Connect(p) \/ Disconnect(p) PROVE NetInv'
  BY <1>5, <1>7 DEF PeerProbes, Connect, Disconnect, peerVars
<1>8. ASSUME NEW p \in Peers, PeerRestarts(p) PROVE NetInv'
  <2>1. net' \subseteq net /\ serving' = [serving EXCEPT ![p] = NoTransfer]
    BY <1>8 DEF PeerRestarts
  <2>2. \A q \in Peers : Owned(serving'[q], q)
    BY <2>1 DEF DownloadInv, TypeOK, SourceInv, NetInv, Owned
  <2> QED
    BY <2>1, <2>2 DEF SourceInv, NetInv, Owned, Chunks
<1> QED
  BY <1>2, <1>3, <1>4, <1>6, <1>7, <1>8

\* The other events, the miner, the timers and a restart preserve the invariant.
LEMMA LoopKeepsSource ==
    ASSUME DownloadInv, SourceInv, HandoffInv,
           \/ Idle
           \/ \E b \in LocalBlocks : LiveBlock(b) \/ SubmitChecked(b) \/ SubmitDone(b)
           \/ \E p \in Peers : ProbeDue(p)
           \/ \E t \in {"request", "discovery", "standby"} : Elapse(t)
           \/ Restart
    PROVE  SourceInv' /\ HandoffInv'
<1>1. d \in Downloaders /\ memory \in ChainStates
  BY DEF DownloadInv, TypeOK
<1>2. ASSUME Idle \/ \E b \in LocalBlocks : LiveBlock(b) PROVE SourceInv' /\ HandoffInv'
  <2>1. /\ d' = Driven(d) /\ net' = net \union DriveSends(d) /\ parts' = parts
        /\ pc = "loop" /\ pc' = "loop" /\ serving' = serving /\ on' = on
        /\ (disk' = disk /\ memory' = memory) \/ disk' = memory'
    BY <1>2 DEF Idle, LiveBlock, AtLoop, chainVars, peerVars
  <2>2. memory'.base = memory.base
    BY <1>1, <1>2 DEF Idle, LiveBlock, chainVars, ChainStates
  <2>3. NetInv'
    BY <2>1, DriveNet DEF DownloadInv, SourceInv
  <2>4. SourceInv'
    BY <2>1, <2>2, <2>3, DrivenLoopInv, LoopInvSuffices DEF DownloadInv
  <2> QED
    BY <2>1, <2>4 DEF HandoffInv
<1>3. ASSUME NEW b \in LocalBlocks, SubmitChecked(b) PROVE SourceInv' /\ HandoffInv'
  <2>1. UNCHANGED <<d, net, serving, parts, pc, memory, disk, building, on>> /\ disk = memory
    BY <1>3 DEF SubmitChecked, DurableMatches, chainVars, peerVars
  <2>2. SourceInv'
    BY <2>1 DEF SourceInv, NetInv, TransferInv, ImportedInv, Owned, Persisted, Chunks
  <2> QED
    BY <2>1, <2>2 DEF HandoffInv
<1>4. ASSUME NEW b \in LocalBlocks, SubmitDone(b) PROVE SourceInv' /\ HandoffInv'
  <2>1. UNCHANGED <<d, net, serving, parts, pc, on>> /\ mining # {}
    BY <1>4 DEF SubmitDone, peerVars
  <2>2. /\ memory'.base = memory.base
        /\ (disk' = disk /\ memory' = memory) \/ disk' = memory'
    BY <1>1, <1>4 DEF SubmitDone, ChainStates
  <2>3. SourceInv'
    BY <2>1, <2>2 DEF SourceInv, NetInv, TransferInv, ImportedInv, Owned, Persisted, Chunks
  <2> QED
    BY <2>1, <2>2, <2>3 DEF HandoffInv
<1>5. ASSUME \/ \E p \in Peers : ProbeDue(p)
             \/ \E t \in {"request", "discovery", "standby"} : Elapse(t)
      PROVE  SourceInv' /\ HandoffInv'
  <2>1. UNCHANGED <<net, serving, parts, pc, on, disk, memory, building, mining>>
    BY <1>5 DEF ProbeDue, Elapse, chainVars, peerVars
  <2>2. /\ d'.src = d.src /\ d'.plan = d.plan /\ d'.summary = d.summary /\ d'.pages = d.pages
        /\ d'.missing = d.missing /\ d'.flags = d.flags
    BY <1>1, <1>5 DEF ProbeDue, Elapse, Downloaders
  <2>3. NetInv' /\ TransferInv(d)'
    BY <2>1, <2>2 DEF SourceInv, NetInv, TransferInv, Owned, Chunks
  <2>4. ImportedInv'
    BY <2>1, <2>2 DEF SourceInv, ImportedInv, Persisted, Chunks
  <2>5. SourceInv'
    BY <2>1, <2>2, <2>3, <2>4 DEF SourceInv
  <2> QED
    BY <2>1, <2>5 DEF HandoffInv
<1>6. CASE Restart
  <2>1. /\ d'.src = NoPeer /\ d'.plan = NoTransfer /\ d'.summary = NoTransfer
        /\ "imported" \notin d'.flags
    BY <1>6 DEF Restart, NewDownloader
  <2>2. net' = {} /\ serving' = serving /\ pc' = "loop" /\ memory' = disk /\ disk' = disk
    BY <1>6 DEF Restart
  <2>3. NetInv'
    BY <2>2 DEF SourceInv, NetInv, Owned
  <2>4. SourceInv'
    BY <2>1, <2>2, <2>3 DEF SourceInv, TransferInv, ImportedInv, Owned
  <2> QED
    BY <2>2, <2>4 DEF HandoffInv
<1> QED
  BY <1>2, <1>3, <1>4, <1>5, <1>6

\* For every set of peers and blocks and every snapshot of two chunks or more:
\* between events a restart would load the state the node serves, unless a
\* submission overlaps the import's batch or a step after the batch fails
\* (post_activated_v2_mining_submit, main).
THEOREM DiskAlwaysMatchesMemory ==
    ASSUME ChunkCount >= 2
    PROVE  Spec => []DiskMatchesMemory
<1>1. Init => SourceInv /\ HandoffInv
  BY SourceInit
<1>2. DownloadInv /\ SourceInv /\ HandoffInv /\ [Next]_vars => SourceInv' /\ HandoffInv'
  <2> SUFFICES ASSUME DownloadInv, SourceInv, HandoffInv, [Next]_vars
               PROVE  SourceInv' /\ HandoffInv'
    OBVIOUS
  <2>1. CASE UNCHANGED vars
    BY <2>1 DEF vars, SourceInv, NetInv, TransferInv, ImportedInv, Owned, Persisted, Chunks, HandoffInv
  <2>2. ASSUME NEW m \in net, Receive(m) PROVE SourceInv' /\ HandoffInv'
    BY <2>2, ReceiveKeepsSource
  <2>3. CASE ImportSteps
    BY <2>3, ImportKeepsSource
  <2>4. CASE \/ \E m \in net : Serve(m) \/ Refuse(m) \/ Lose(m)
             \/ \E p \in Peers : PeerProbes(p) \/ Connect(p) \/ Disconnect(p) \/ PeerRestarts(p)
    BY <2>4, PeersKeepSource
  <2>5. CASE \/ Idle
             \/ \E b \in LocalBlocks : LiveBlock(b) \/ SubmitChecked(b) \/ SubmitDone(b)
             \/ \E p \in Peers : ProbeDue(p)
             \/ \E t \in {"request", "discovery", "standby"} : Elapse(t)
             \/ Restart
    BY <2>5, LoopKeepsSource
  <2> QED
    BY <2>1, <2>2, <2>3, <2>4, <2>5 DEF Next
<1>3. HandoffInv => DiskMatchesMemory
  BY DEF HandoffInv, DiskMatchesMemory
<1> QED
  BY <1>1, <1>2, <1>3, DownloadInvariant, PTL DEF Spec
===========================================================================
