---------------------------- MODULE MCRedelivery ----------------------------
(* Six parts that share no state, for TLC, in which one thing is delivered  *)
(* twice, asked twice, or handled by two at once: the executor under one    *)
(* idempotency key, the paper account with its two sellers, the             *)
(* risk-authorizer, the arming of a Release, a held position that is        *)
(* evaluated while it is sold, and the questions about an open position. A  *)
(* behaviour is a behaviour of one of them, chosen at the start, with the   *)
(* others at rest.                                                          *)
EXTENDS MCExecutor, PaperAccount, Authorizer, ReleaseArming, HeldSafety,
        Reassessment

CONSTANTS c1, c2, monitor, actions, r1, r2, a1, a2

VARIABLE part

redeliveryVars == <<part, vars, paperVars, authorizerVars, armingVars, heldVars, reassessVars>>

RedeliveryInit ==
  /\ part \in {"executor", "account", "authorizer", "arming", "held", "reassessment"}
  /\ Init /\ PaperInit /\ AuthorizerInit /\ ArmingInit /\ HeldInit /\ ReassessInit

InExecutor == part = "executor" /\ UNCHANGED <<part, paperVars, authorizerVars, armingVars, heldVars, reassessVars>>
InAccount == part = "account" /\ UNCHANGED <<part, vars, authorizerVars, armingVars, heldVars, reassessVars>>
InAuthorizer == part = "authorizer" /\ UNCHANGED <<part, vars, paperVars, armingVars, heldVars, reassessVars>>
InArming == part = "arming" /\ UNCHANGED <<part, vars, paperVars, authorizerVars, heldVars, reassessVars>>
InHeld == part = "held" /\ UNCHANGED <<part, vars, paperVars, authorizerVars, armingVars, reassessVars>>
InReassessment ==
  part = "reassessment" /\ UNCHANGED <<part, vars, paperVars, authorizerVars, armingVars, heldVars>>

RedeliveryNext ==
  \/ InExecutor /\ Next
  \/ InAccount /\ PaperNext
  \/ InAuthorizer /\ AuthorizerNext
  \/ InArming /\ ArmingNext
  \/ InHeld /\ HeldNext
  \/ InReassessment /\ ReassessNext

\* Automations of an open position, scaled: the heartbeat, the excursion, the safety state.
Cooldowns == [t \in Triggers |-> IF t = "security" THEN 0 ELSE 2]
Intervals == [t \in Triggers |-> CASE t = "heartbeat" -> 4 [] t = "excursion" -> 3 [] OTHER -> 1]

RedeliverySpec == RedeliveryInit /\ [][RedeliveryNext]_redeliveryVars

(* The journal and the handlers of the executor, and the rows, quantities,  *)
(* calls and requests of the five parts beside it, stay within their types. *)
RedeliveryTypeOK ==
  /\ TypeOK /\ PaperTypeOK /\ AuthorizerTypeOK /\ ArmingTypeOK /\ HeldTypeOK
  /\ ReassessTypeOK

=============================================================================
