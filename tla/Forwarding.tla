------------------------------- MODULE Forwarding -------------------------------
(***************************************************************************)
(* What the audit forwarder promises one sink (docs/sinks.md, "Delivery    *)
(* rules"): the events accepted are tried in the order they were accepted, *)
(* each at most Retries times, and each is settled (sent, or dropped for   *)
(* that sink) before the next is tried.  A collector may see an event      *)
(* again when a try that failed had reached it.                            *)
(***************************************************************************)
EXTENDS Naturals, Sequences, FiniteSets

CONSTANTS Records, Retries

VARIABLES
    accepted,   \* events the queue took, oldest first
    settled,    \* how many of them are done with
    received    \* what the collector got

Init == accepted = <<>> /\ settled = 0 /\ received = <<>>

Accept ==
    /\ \E r \in Records : accepted' = Append(accepted, r)
    /\ UNCHANGED <<settled, received>>

Due == accepted[settled + 1]
Copies(r) == Cardinality({k \in DOMAIN received : received[k] = r})

\* A try reaches the collector; the forwarder may think it failed.
Reach ==
    /\ settled < Len(accepted) /\ Copies(Due) < Retries
    /\ received' = Append(received, Due)
    /\ settled' \in {settled, settled + 1}
    /\ UNCHANGED accepted

GiveUp ==
    /\ settled < Len(accepted)
    /\ settled' = settled + 1
    /\ UNCHANGED <<accepted, received>>

Next == Accept \/ Reach \/ GiveUp

Spec == Init /\ [][Next]_<<accepted, settled, received>>
================================================================================
