-------------------------- MODULE ExecutorProperties --------------------------
(***************************************************************************)
(* What the execution service must and must not do, over the state of      *)
(* Executor.tla.                                                           *)
(***************************************************************************)
EXTENDS Executor

\* A transaction leaves the service only after its signature and the intention to submit it
\* were journaled (D12, the persist-before-submit drill), whatever crashed in between; and a
\* transaction that exists outside is always one a restart knows to look for or has resolved.
PersistBeforeSubmit ==
  \A a \in Attempts :
    sends[a] > 0 => /\ a \in prepared \cap signed \cap submitted
                    /\ a \in unresolved \/ outcomes[a] # {}

\* Redelivered, retried or replayed after a crash, one idempotency key sends at most one
\* transaction, once (INV-04).
AtMostOncePerKey ==
  \A a, b \in Attempts :
    sends[a] > 0 /\ sends[b] > 0 /\ Key[a] = Key[b] => a = b /\ sends[a] = 1

\* Where a handler can only be once its attempt was journaled as PREPARED, and where it can
\* only be as long as it has sent nothing.
BeforeSend == {"prepared", "ordering", "signing", "signed", "submitted"}
Working    == BeforeSend \cup
              {"executing", "awaiting", "observing", "exiting", "completing", "failing"}

KeysClaimed == \A a \in prepared : jlife[Key[a]] # "none" /\ life[Key[a]] # "none"

OneHolder == \A a, b \in prepared : Key[a] = Key[b] => a = b

WorkersHold == \A a \in Attempts : pc[a] \in Working => a \in prepared

SendsJournaled ==
  \A a \in Attempts :
    /\ sends[a] > 0 => a \in prepared \cap signed \cap submitted /\ sends[a] = 1
    /\ pc[a] \in BeforeSend => sends[a] = 0
    /\ pc[a] = "signed" => a \in signed
    /\ pc[a] = "submitted" => a \in signed \cap submitted

SignedPending == \A a \in signed : a \in unresolved \/ outcomes[a] # {}

\* Why a key sends only once: the claim is held, in memory and in the journal a restart would
\* replay, by the one attempt that was prepared under it; only that attempt's handler gets to
\* the network, past the journal lines it has to leave behind, and a restart never goes there
\* again.
ClaimGuardsSend == KeysClaimed /\ OneHolder /\ WorkersHold /\ SendsJournaled /\ SignedPending

\* A failed or expired outcome is journaled only of a transaction that is not on chain and
\* can never get there (INV-23): what the owner of the intent may safely retry.
NotLandedIsFinal ==
  \A a \in Attempts :
    outcomes[a] \cap {"FAILED", "EXPIRED"} # {} => tx[a] \notin {"sent", "landed", "final"}

\* Handler, tracker and recovery may all resolve an attempt. They never disagree, they
\* complete it only on finalized evidence (INV-22), and what memory holds to be terminal is
\* what a restart would replay.
OutcomesStand ==
  /\ \A a \in Attempts :
       /\ Cardinality(outcomes[a]) <= 1
       /\ "COMPLETED" \in outcomes[a] => tx[a] = "final"
  /\ \A k \in Keys : life[k] \in Terminal => jlife[k] = life[k]

-----------------------------------------------------------------------------
(* Exposure.  These speak of entries: no exit is in play where they hold.  *)

\* The ledger never counts less than the wallet holds (INV-08), so that the caps checked
\* against it bound what is really at risk.
LedgerCoversCustody == custody <= Aggregate(ledger)

\* Everything held and everything that may still land.
AtRisk == custody + SumFunctionOnSet(Notional, {e \in Entries : tx[e] = "sent"})

\* What the wallet can come to hold stays under the deployment caps (INV-08), and so does
\* what only the signer can protect (INV-09), whichever entries race for the room left.
AtRiskWithinCaps ==
  /\ AtRisk <= AggregateCap
  /\ SumFunctionOnSet(Notional, {e \in Monitored : tx[e] \in {"sent", "landed", "final"}})
       <= OutageCap

\* Once an entry is settled, its exposure is exactly its cost or nothing.
SettledLedgerIsExact ==
  \A e \in Entries :
    outcomes[e] # {} =>
      ExposureOf(ledger[e]) = IF outcomes[e] = {"COMPLETED"} THEN Notional[e] ELSE 0

-----------------------------------------------------------------------------
(* Pause.                                                                  *)

\* The pause of an emergency command is in force until an operator clears it.
EmergencyPauseStands == standing => pause # "off"

\* A close command that ends after its transaction was sent leaves the service paused.
CloseLeavesPause ==
  [][\A x \in Exits :
       pc[x] # "done" /\ pc'[x] = "done" /\ sends[x] > 0 => pause' # "off"]_vars

-----------------------------------------------------------------------------
(* Progress and refinement.                                                *)

\* Every signed transaction is resolved in the end, across crashes, reorgs and silent views.
EventuallyResolved == <>[](unresolved = {})

\* A pause the tracker applied does not outlive its cause.
TrackerPauseLifts ==
  pause \in {"REORG", "DIVERGENCE"} ~> pause \notin {"REORG", "DIVERGENCE"}

\* What became of a key, over the attempts that carry it.
OfKey(k) == {a \in Attempts : Key[a] = k}

EffectOf(k) ==
  LET onChain(s) == {a \in OfKey(k) : tx[a] \in s}
  IN  CASE Cardinality(onChain({"landed", "final"})) > 1 -> "twice"
        [] onChain({"final"}) # {} -> "final"
        [] onChain({"landed"}) # {} -> "provisional"
        [] onChain({"failed", "dead"}) # {} -> "never"
        [] \E a \in OfKey(k) : outcomes[a] \ {"COMPLETED"} # {} -> "never"
        [] OTHER -> "none"

Promise == INSTANCE IntentPromise WITH
  effect <- [k \in Keys |-> EffectOf(k)],
  told <- [k \in Keys |-> UNION {outcomes[a] : a \in OfKey(k)}]

\* The service, with all its crashes and races, keeps the promise IntentPromise.tla states.
KeepsPromise == Promise!Spec

=============================================================================
