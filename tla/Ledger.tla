------------------------------- MODULE Ledger -------------------------------
(***************************************************************************)
(* What the agent promises about the snapshots it takes, whatever queues,  *)
(* files and goroutines it uses: it lets go of a snapshot only when the    *)
(* collector has accepted it or when the agent has given it up, and never  *)
(* takes hold of one again.  A snapshot may be delivered more than once.   *)
(***************************************************************************)
EXTENDS Naturals

VARIABLES
    captured,   \* snapshots taken so far, numbered 1..captured
    held,       \* snapshots in memory or on disk
    delivered,  \* snapshots the collector has accepted
    givenUp     \* snapshots written off, or lost with the process

vars == <<captured, held, delivered, givenUp>>

Init ==
    /\ captured = 0
    /\ held = {}
    /\ delivered = {}
    /\ givenUp = {}

\* A new snapshot is in the agent's hands.
Capture ==
    /\ captured' = captured + 1
    /\ held' = held \cup {captured + 1}
    /\ UNCHANGED <<delivered, givenUp>>

\* Snapshots are accepted or given up; what is released is accounted for.
Settle ==
    /\ delivered \subseteq delivered' /\ delivered' \subseteq 1..captured
    /\ givenUp \subseteq givenUp'     /\ givenUp' \subseteq 1..captured
    /\ held' \subseteq held
    /\ held \ held' \subseteq delivered' \cup givenUp'
    /\ UNCHANGED captured

Next == Capture \/ Settle

Spec == Init /\ [][Next]_vars

=============================================================================
