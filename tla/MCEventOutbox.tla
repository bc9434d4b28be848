---------------------------- MODULE MCEventOutbox ----------------------------
(* Small instances of EventOutbox for TLC.                                 *)
EXTENDS EventOutbox, TLC

CONSTANTS e1, e2, d1, d2, j1, j2

\* No event's job has a deterministic id, as those of malware and intelligence jobs; every
\* event's job has one of its own, as those of parse jobs of different files.
NoKeys == [e \in Events |-> None]
OwnKeys == [e \in Events |-> e]

\* The column as prisma db push creates it, without the check constraint of
\* prisma/migrations/20260807_add_constraints, which refuses "processed".
AnyStatus == {"pending", "processing", "processed", "failed", "dlq"}
=============================================================================
