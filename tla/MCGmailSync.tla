----------------------------- MODULE MCGmailSync -----------------------------
(* Small instances of GmailSync for TLC.                                   *)
EXTENDS GmailSync

CONSTANTS first, delta, p1, p2
=============================================================================
