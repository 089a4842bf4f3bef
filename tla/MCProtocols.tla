----------------------------- MODULE MCProtocols -----------------------------
(* Six protocols that share no state, for TLC: the runtime session, the     *)
(* processing of queue messages, the lease of a role, critical alerts, the  *)
(* audit ledger with its copy, and the executor's journal. A behaviour is a *)
(* behaviour of one of them, chosen at the start, with the others at rest   *)
(* and fairness asked of the one that runs.                                 *)
EXTENDS Session, QueueProcessing, RoleLease, Notifications, AuditTrail, MCJournal

CONSTANTS m1, m2, h1, h2, k1, w1, w2, inApp, telegram, email

VARIABLE part

protocolVars == <<part, sessionVars, queueVars, leaseVars, alertVars, auditVars, vars>>

\* m2 repeats m1: its producer sent the same work twice.
KeyOfMessage == [m \in {m1, m2} |-> k1]

\* A rollout: m2 is of a newer contract set than h2.
RefusesMessage == [h \in {h1, h2} |-> IF h = h2 THEN {m2} ELSE {}]

ProtocolsInit ==
  /\ part \in {"session", "queue", "lease", "alerts", "audit", "journal"}
  /\ SessionInit /\ QueueInit /\ LeaseInit /\ AlertInit /\ AuditInit /\ Init

InSession == part = "session" /\ UNCHANGED <<part, queueVars, leaseVars, alertVars, auditVars, vars>>
InQueue == part = "queue" /\ UNCHANGED <<part, sessionVars, leaseVars, alertVars, auditVars, vars>>
InLease == part = "lease" /\ UNCHANGED <<part, sessionVars, queueVars, alertVars, auditVars, vars>>
InAlerts == part = "alerts" /\ UNCHANGED <<part, sessionVars, queueVars, leaseVars, auditVars, vars>>
InAudit == part = "audit" /\ UNCHANGED <<part, sessionVars, queueVars, leaseVars, alertVars, vars>>
InJournal == part = "journal" /\ UNCHANGED <<part, sessionVars, queueVars, leaseVars, alertVars, auditVars>>

ProtocolsNext ==
  \/ InSession /\ SessionNext
  \/ InQueue /\ QueueNext
  \/ InLease /\ LeaseNext
  \/ InAlerts /\ AlertNext
  \/ InAudit /\ AuditNext
  \/ InJournal /\ Next

ProtocolsSpec ==
  /\ ProtocolsInit /\ [][ProtocolsNext]_protocolVars
  /\ WF_sessionVars(InSession /\ RoleStep)
  /\ \A h \in Consumers : WF_queueVars(InQueue /\ ConsumerStep(h))
  /\ \A m \in Msgs : SF_queueVars(InQueue /\ Deliver(m)) /\ WF_queueVars(InQueue /\ LeaseLapses(m))
  /\ WF_alertVars(InAlerts /\ TellerStep) /\ SF_alertVars(InAlerts /\ TimePasses)
  /\ WF_auditVars(InAudit /\ CheckerStep)

(* The rows, requests, messages, claims, leases, alerts, events and lines   *)
(* stay within their types.                                                 *)
ProtocolsTypeOK == SessionTypeOK /\ QueueTypeOK /\ LeaseTypeOK /\ AlertTypeOK /\ AuditTypeOK /\ TypeOK

=============================================================================
