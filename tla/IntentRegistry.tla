--------------------------- MODULE IntentRegistry ---------------------------
(***************************************************************************)
(* The intent life cycle of libs/execution (state/intent.ts) and the way   *)
(* the executor rebuilds it from its journal (idempotency/intents.ts).  A  *)
(* registry is a function from idempotency keys to life-cycle states; a    *)
(* key that was never claimed is "none".  State in memory and the state a  *)
(* restart would replay are two such functions, advanced by the operators  *)
(* below.                                                                  *)
(***************************************************************************)

Terminal == {"COMPLETED", "EXPIRED", "CANCELLED", "FAILED"}

LifeState == {"none", "CREATED", "AUTHORIZED", "APPROVED", "EXECUTING"} \cup Terminal

\* The transition table ALLOWED; an unclaimed key advances nowhere.
Allowed(s) ==
  CASE s = "CREATED"    -> {"AUTHORIZED", "EXPIRED", "CANCELLED", "FAILED"}
    [] s = "AUTHORIZED" -> {"APPROVED", "EXECUTING", "EXPIRED", "CANCELLED", "FAILED"}
    [] s = "APPROVED"   -> {"EXECUTING", "EXPIRED", "CANCELLED", "FAILED"}
    [] s = "EXECUTING"  -> {"COMPLETED", "FAILED"}
    [] OTHER            -> {}

\* advance() answers false and changes nothing when the table refuses the step.
Advance(s, to) == IF to \in Allowed(s) THEN to ELSE s

\* Mutant: a claim starts in the attempt's state instead of the life cycle's.
ClaimPrepared(s) == IF s = "none" THEN "PREPARED" ELSE s

\* claim(): a known key keeps the entry it has.
Claim(s) == IF s = "none" THEN "CREATED" ELSE s

-----------------------------------------------------------------------------
(* What one journal line does to the replayed registry (fromJournal).      *)

\* Mutant: CREATED is not walked through AUTHORIZED first.
ReplaySubmittedDirect(s) == Advance(s, "EXECUTING")

ReplaySubmitted(s) ==
  Advance(IF s = "CREATED" THEN "AUTHORIZED" ELSE s, "EXECUTING")

ReplayResult(s, outcome) ==
  LET walked == IF outcome = "COMPLETED" THEN ReplaySubmitted(s) ELSE s
  IN  Advance(walked, outcome)

=============================================================================
