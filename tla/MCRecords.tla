------------------------------ MODULE MCRecords ------------------------------
(* Seven components that share no state, for TLC: the agent cycle, the      *)
(* import of the executor's journal, the position shadow, custody           *)
(* reconciliation, a replay run, closes in an outage, and the death proof.  *)
(* A behaviour is a behaviour of one of them, chosen at the start, with the *)
(* others at rest and fairness asked of the one that runs: a formula about  *)
(* one component holds of it here exactly when it holds in that component's *)
(* own specification.                                                       *)
EXTENDS AgentCycle, JournalImport, ShadowSync, Reconciliation, Replay,
        OutageClose, FinalityViews

CONSTANTS h1, h2, o1, o2, b1, b2, v1, v2, s1

VARIABLE part

recordVars == <<part, agentVars, importVars, shadowVars, reconVars, replayVars,
                outageVars, vars>>

RecordsInit ==
  /\ part \in {"agent", "import", "shadow", "custody", "replay", "outage", "views"}
  /\ AgentInit /\ ImportInit /\ ShadowInit /\ ReconInit /\ ReplayInit /\ OutageInit /\ Init
  /\ part # "shadow" => book = b1
  /\ part # "custody" => ~agree

InAgent == part = "agent" /\ UNCHANGED <<part, importVars, shadowVars, reconVars, replayVars, outageVars, vars>>
InImport == part = "import" /\ UNCHANGED <<part, agentVars, shadowVars, reconVars, replayVars, outageVars, vars>>
InShadow == part = "shadow" /\ UNCHANGED <<part, agentVars, importVars, reconVars, replayVars, outageVars, vars>>
InCustody == part = "custody" /\ UNCHANGED <<part, agentVars, importVars, shadowVars, replayVars, outageVars, vars>>
InReplay == part = "replay" /\ UNCHANGED <<part, agentVars, importVars, shadowVars, reconVars, outageVars, vars>>
InOutage ==
  part = "outage" /\ UNCHANGED <<part, agentVars, importVars, shadowVars, reconVars, replayVars, vars>>
InViews ==
  part = "views"
  /\ UNCHANGED <<part, agentVars, importVars, shadowVars, reconVars, replayVars, outageVars>>

RecordsNext ==
  \/ InAgent /\ AgentNext
  \/ InImport /\ ImportNext
  \/ InShadow /\ ShadowNext
  \/ InCustody /\ ReconNext
  \/ InReplay /\ ReplayNext
  \/ InOutage /\ OutageNext
  \/ InViews /\ Next

RecordsSpec ==
  /\ RecordsInit /\ [][RecordsNext]_recordVars
  /\ WF_agentVars(InAgent /\ RunnerStep)
  /\ WF_importVars(InImport /\ Pull) /\ WF_importVars(InImport /\ SetReviewGate)
  /\ SF_importVars(InImport /\ ImportEntry)
  /\ WF_shadowVars(InShadow /\ ShadowStep) /\ WF_shadowVars(InShadow /\ DatabaseReturns)
  /\ SF_shadowVars(InShadow /\ \E s \in pushes : Awaited(s))
  /\ \A r \in Runners : WF_reconVars(InCustody /\ PassStep(r))
  /\ WF_patrol(InOutage /\ PatrolStep)
  /\ \A c \in Commands : c[1] \notin NoMarket => WF_commands(InOutage /\ HandlerStep(c))

\* Two positions of an outage: the first cannot be sold, the second has tokens in two accounts.
ClosesUnderWay == {<<1, 1>>, <<2, 1>>, <<2, 2>>}
TwoUnits == [p \in Positions |-> 2]
SecondAside == [p \in Positions |-> p - 1]

(* The rows, quantities and cursors of the seven stay within their types.  *)
RecordsTypeOK ==
  /\ AgentTypeOK /\ ImportTypeOK /\ ShadowTypeOK /\ ReconTypeOK /\ ReplayTypeOK
  /\ OutageTypeOK /\ TypeOK

=============================================================================
