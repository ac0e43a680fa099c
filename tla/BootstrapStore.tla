------------------------- MODULE BootstrapStore -------------------------
(***************************************************************************)
(* What a node that bootstraps from a peer's snapshot promises about its   *)
(* chain.  The state on disk is always one whole state: the state the node *)
(* grew itself or a complete snapshot of a peer, with blocks accepted on   *)
(* top of it.  A snapshot is installed on disk first; blocks the node held *)
(* before are replayed on it; only then does the memory switch to it.      *)
(***************************************************************************)
CONSTANTS
    Snapshots,      \* the snapshots peers can export
    Own,            \* stands for the state grown from genesis
    LocalBlocks     \* the blocks this node can accept

States == [base : Snapshots \union {Own}, blocks : SUBSET LocalBlocks]

VARIABLES
    disk,       \* the state a restart would load
    memory,     \* the state the node serves
    building    \* the installed snapshot, with the blocks replayed on it so far

vars == <<disk, memory, building>>

With(state, b) == [state EXCEPT !.blocks = @ \union {b}]

Init ==
    /\ disk \in [base : {Own}, blocks : SUBSET LocalBlocks]
    /\ memory = disk
    /\ building = disk

\* A block enters memory and disk in one step.
Accept(b) ==
    /\ memory' = With(memory, b)
    /\ disk' = With(memory, b)
    /\ UNCHANGED building

\* A snapshot replaces the whole state on disk and nothing in memory.
Install(t) ==
    /\ disk' = [base |-> t, blocks |-> {}]
    /\ building' = disk'
    /\ UNCHANGED memory

\* A block the node held before is accepted on top of the snapshot.
Replay(b) ==
    /\ building' = With(building, b)
    /\ disk' = building'
    /\ UNCHANGED memory

\* The memory switches to the snapshot and the blocks replayed on it.
Publish ==
    /\ memory' = building
    /\ UNCHANGED <<disk, building>>

\* A restart loads what is on disk.
Restart ==
    /\ memory' = disk
    /\ UNCHANGED <<disk, building>>

Next ==
    \/ \E b \in LocalBlocks : Accept(b) \/ Replay(b)
    \/ \E t \in Snapshots : Install(t)
    \/ Publish
    \/ Restart

Spec == Init /\ [][Next]_vars
=============================================================================
