--------------------------- MODULE MCResumePipeline ---------------------------
(* Small instances of ResumePipeline for TLC.                              *)
EXTENDS ResumePipeline, TLC

CONSTANTS u1, u2, alice, good, bad

OneUser == [u \in Uploads |-> alice]

SameFile == [u \in Uploads |-> good]

\* The columns as prisma db push creates them.
AnyState == {"pending", "scanning", "clean", "infected", "error"}
=============================================================================
