-------------------------- MODULE MCEmailApplication --------------------------
(* Small instances of EmailApplication for TLC.                            *)
EXTENDS EmailApplication, TLC

CONSTANTS e1, e2, e3, c1, c2

\* e1 and e2 are about one opportunity, e3 about another.
Opportunities == [e \in Emails |-> IF e = e3 THEN e3 ELSE e1]
===============================================================================
