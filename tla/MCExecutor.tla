------------------------------ MODULE MCExecutor ------------------------------
(* Small instances of the execution service for TLC.                       *)
EXTENDS ExecutorProperties, TLC

CONSTANTS e1, e2, x1, k1, k2

\* Two entries under keys of their own, or two deliveries competing for one key.
TwoKeys == (e1 :> k1) @@ (e2 :> k2)
OneKey  == (e1 :> k1) @@ (e2 :> k1)

\* An entry and a close of what it bought.
EntryAndExit == (e1 :> k1) @@ (x1 :> k2)

\* Notionals: different ones that do not fit the caps together, and a single one.
Unequal == (e1 :> 2) @@ (e2 :> 1)
Alone   == e1 :> 2

=============================================================================
