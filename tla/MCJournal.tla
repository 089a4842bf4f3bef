------------------------------ MODULE MCJournal ------------------------------
(* Small instances of the executor's journal for TLC.                      *)
EXTENDS Journal, TLC

CONSTANTS p1, p2, t1, t2

\* Two instances on hosts of their own.
OwnTokens == (p1 :> "host-1") @@ (p2 :> "host-2")

=============================================================================
