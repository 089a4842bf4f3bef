----------------------------- MODULE Authorizer -----------------------------
(* The risk-authorizer's authorize() requests, as concurrent as calls the   *)
(* worker gave up on make them: the ledger of what it signed (in memory),   *)
(* the rows it writes, the projection and the chain it reads, and the clock *)
(* that expires envelopes. Every envelope is for one unit of settlement.    *)
EXTENDS Integers, FiniteSets

CONSTANTS
  Requests,        \* authorize() calls; the nonce a call signs under is the call
  ClearedCycles,   \* cycles the worker asks an authorization for
  MaxInFlight,     \* policy.maxInFlightExposureIncreasing
  Budget,          \* settlement that may be exposed
  MaxProjections,  \* bound: projections written
  MaxDeaths       \* bound: restarts of the authorizer

ASSUME AuthorizerAssumption ==
  /\ {MaxInFlight, Budget, MaxDeaths} \subseteq Nat /\ MaxProjections \in Nat \ {0}
  /\ IsFiniteSet(Requests)

VARIABLES
  calls,           \* request -> where it is, and what it has read
  issued,          \* the ledger: nonces entered in this process
  lastSequence,    \* of the projection accepted last
  evaluated,       \* cycles with a risk_evaluation_id
  envelopes,       \* rows of trading.risk_authorizations
  intents,         \* request -> lifecycle_state of its intent row
  listed,          \* envelopes a cycle of live-entry has read and not delivered
  lapsed,         \* envelopes whose expiresAt has passed
  chain,           \* entries the executor sent: flying, landed, dead
  projection,      \* the newest one: its sequence, and the exposure it shows
  deaths,
  overlap, outlived, rejected  \* history: what CapitalSignedOnce does not promise through

authorizerVars == <<calls, issued, lastSequence, evaluated, envelopes, intents, listed, lapsed, chain,
                    projection, deaths, overlap, outlived, rejected>>
memory == <<calls, issued, lastSequence, overlap>>
stored == <<evaluated, envelopes, intents>>
beyond == <<listed, lapsed, chain, projection, deaths, outlived, rejected>>

Ended == {"denied", "ended"}
Unsent == [at |-> "unsent", cycle |-> "none", lapsed |-> {}, seen |-> [sequence |-> 0, exposure |-> 0]]
Denied == [Unsent EXCEPT !.at = "denied"]

AuthorizerInit ==
  /\ calls = [r \in Requests |-> Unsent] /\ issued = {} /\ lastSequence = 0
  /\ evaluated = {} /\ envelopes = {} /\ intents = [r \in Requests |-> "none"]
  /\ lapsed = {} /\ listed = {} /\ chain = [flying |-> {}, landed |-> {}, dead |-> {}]
  /\ projection = [sequence |-> 1, exposure |-> 0]
  /\ deaths = 0 /\ overlap = FALSE /\ outlived = FALSE /\ rejected = {}

CycleOf(r) == calls[r].cycle
Sent == chain.flying \cup chain.landed \cup chain.dead
Goes(r, at) == calls' = [calls EXCEPT ![r].at = at]
IsDenied(r) == calls' = [calls EXCEPT ![r] = Denied]

----------------------------------------------------------------------------
\* listCyclesAwaitingEntry, then authorize() takes the clock.
ReceiveRequest(r, c) ==
  /\ calls[r] = Unsent /\ c \notin evaluated
  /\ calls' = [calls EXCEPT ![r] = [Unsent EXCEPT !.at = "load", !.cycle = c, !.lapsed = lapsed]]
  /\ UNCHANGED <<issued, lastSequence, stored, beyond, overlap>>

LoadProjection(r) ==
  /\ calls[r].at = "load"
  /\ calls' = [calls EXCEPT ![r].at = "chain", ![r].seen = projection]
  /\ UNCHANGED <<issued, lastSequence, stored, beyond, overlap>>

\* The projection may claim less than the chain, never more; nor go back.
VerifyProjection(r) ==
  /\ calls[r].at = "chain"
  /\ IF calls[r].seen.exposure >= Cardinality(chain.landed) /\ calls[r].seen.sequence >= lastSequence
     THEN Goes(r, "cycle") ELSE IsDenied(r)
  /\ UNCHANGED <<issued, lastSequence, stored, beyond, overlap>>

\* nonceForCycle, before the audit evidence is hashed.
CheckCycle(r) ==
  /\ calls[r].at = "cycle"
  /\ IF \E i \in issued : CycleOf(i) = CycleOf(r) THEN IsDenied(r) ELSE Goes(r, "evaluate")
  /\ UNCHANGED <<issued, lastSequence, stored, beyond, overlap>>

\* Mutant: what has expired by now, and not when the request began, is not pending.
OpenNow(r) == IF r \in Requests THEN issued \ lapsed ELSE {}

\* open(now): now is the clock the request started with.
OpenFor(r) == issued \ calls[r].lapsed

\* evaluateEntry: the limit on authorizations in flight, and the capital left.
Evaluate(r) ==
  /\ calls[r].at = "evaluate"
  /\ LET pending == Cardinality(OpenFor(r))
     IN  IF pending < MaxInFlight /\ calls[r].seen.exposure + pending < Budget THEN Goes(r, "sign") ELSE IsDenied(r)
  /\ overlap' = (overlap \/ \E q \in Requests : calls[q].at = "sign")
  /\ UNCHANGED <<issued, lastSequence, stored, beyond>>

Deny(r) ==
  /\ calls[r].at \in {"load", "chain", "cycle", "evaluate"}
  /\ IsDenied(r)
  /\ UNCHANGED <<issued, lastSequence, stored, beyond, overlap>>

\* The envelope is signed and entered in the ledger; what was read is done with.
Issue(r) ==
  /\ calls[r].at = "sign"
  /\ issued' = issued \cup {r} /\ lastSequence' = calls[r].seen.sequence
  /\ calls' = [calls EXCEPT ![r] = [Unsent EXCEPT !.at = "evaluation", !.cycle = CycleOf(r)]]
  /\ UNCHANGED <<stored, beyond, overlap>>

\* recordAuthorization, transaction by transaction; a cycle is evaluated once.
RecordRiskEvaluation(r) ==
  /\ calls[r].at = "evaluation"
  /\ IF CycleOf(r) \in evaluated THEN Goes(r, "ended") ELSE Goes(r, "intent")
  /\ evaluated' = evaluated \cup {CycleOf(r)}
  /\ UNCHANGED <<issued, lastSequence, envelopes, intents, beyond, overlap>>

CreateEntryIntent(r) ==
  /\ calls[r].at = "intent"
  /\ intents' = [intents EXCEPT ![r] = "AUTHORIZED"] /\ Goes(r, "store")
  /\ UNCHANGED <<issued, lastSequence, evaluated, envelopes, beyond, overlap>>

StoreEnvelope(r) ==
  /\ calls[r].at = "store"
  /\ envelopes' = envelopes \cup {r}
  /\ Goes(r, "ended")
  /\ UNCHANGED <<issued, lastSequence, evaluated, intents, beyond, overlap>>

PersistThrows(r) ==
  /\ calls[r].at \in {"evaluation", "intent", "store"}
  /\ Goes(r, "ended")
  /\ UNCHANGED <<issued, lastSequence, stored, beyond, overlap>>

\* listOpenAuthorizations.
SettledIntents == {"COMPLETED", "CANCELLED", "FAILED"}
\* Mutant: what the executor has begun with is not open any more.
OpenUnexecuted == {r \in envelopes : intents[r] = "AUTHORIZED"}

OpenAuthorizations == {r \in envelopes : intents[r] \notin SettledIntents}

\* The process dies and create() rebuilds the ledger before it listens.
Restart ==
  /\ deaths < MaxDeaths /\ deaths' = deaths + 1
  /\ calls' = [r \in Requests |->
                 CASE calls[r].at \in Ended \cup {"unsent"} -> calls[r]
                   [] calls[r].at \in {"evaluation", "intent", "store"} -> [calls[r] EXCEPT !.at = "ended"]
                   [] OTHER -> Denied]
  /\ issued' = OpenAuthorizations /\ lastSequence' = 0
  /\ UNCHANGED <<stored, listed, lapsed, chain, projection, overlap, outlived, rejected>>

----------------------------------------------------------------------------
\* listAuthorizedIntentsAwaitingExecution: what live-entry delivers is read here.
ListAwaiting(r) ==
  /\ r \in envelopes \ (lapsed \cup listed) /\ intents[r] = "AUTHORIZED"
  /\ listed' = listed \cup {r}
  /\ UNCHANGED <<memory, stored, lapsed, chain, projection, deaths, outlived, rejected>>

\* The delivery is late or lost, or the executor, which looks at the clock and
\* at its registry but not at the row, sends.
Execute(r) ==
  /\ r \in listed \ (lapsed \cup Sent) /\ listed' = listed \ {r}
  /\ chain' = [chain EXCEPT !.flying = @ \cup {r}]
  /\ UNCHANGED <<memory, stored, lapsed, projection, deaths, outlived, rejected>>

\* It lands, or it never will.
Settle(r) ==
  /\ r \in chain.flying
  /\ \/ /\ chain' = [chain EXCEPT !.flying = @ \ {r}, !.landed = @ \cup {r}]
        /\ outlived' = (outlived \/ r \in lapsed)
     \/ /\ chain' = [chain EXCEPT !.flying = @ \ {r}, !.dead = @ \cup {r}]
        /\ UNCHANGED outlived
  /\ UNCHANGED <<memory, stored, listed, lapsed, projection, deaths, rejected>>

\* persistExecution when the handler returns, advanceAttemptFinality later,
\* both best effort: the row may say less than the chain, or nothing yet.
PersistExecution(r) ==
  /\ r \in Sent
  /\ \E state \in {"EXECUTING"} \cup (IF r \in chain.landed THEN {"COMPLETED"} ELSE {})
                    \cup (IF r \in chain.dead THEN {"FAILED"} ELSE {}) :
       intents' = [intents EXCEPT ![r] = state]
  /\ UNCHANGED <<memory, evaluated, envelopes, beyond>>

\* REJECT_AUTHORIZATION cancels the row, whatever it says.
OperatorRejects(r) ==
  /\ r \in envelopes
  /\ intents' = [intents EXCEPT ![r] = "CANCELLED"] /\ rejected' = rejected \cup {r}
  /\ UNCHANGED <<memory, evaluated, envelopes, listed, lapsed, chain, projection, deaths, outlived>>

\* The clock passes expiresAt of a signed envelope; one that was read and not
\* sent is refused from now on.
ExpiryPasses(r) ==
  /\ r \in (issued \cup envelopes) \ lapsed
  /\ lapsed' = lapsed \cup {r} /\ listed' = listed \ {r}
  /\ UNCHANGED <<memory, stored, chain, projection, deaths, outlived, rejected>>

WriteProjection ==
  /\ projection.sequence < MaxProjections
  /\ projection' = [sequence |-> projection.sequence + 1, exposure |-> Cardinality(chain.landed)]
  /\ UNCHANGED <<memory, stored, listed, lapsed, chain, deaths, outlived, rejected>>

AuthorizeStep(r) ==
  \/ (\E c \in ClearedCycles : ReceiveRequest(r, c)) \/ LoadProjection(r) \/ VerifyProjection(r) \/ CheckCycle(r) \/ Evaluate(r)
  \/ Deny(r) \/ Issue(r) \/ RecordRiskEvaluation(r) \/ CreateEntryIntent(r) \/ StoreEnvelope(r) \/ PersistThrows(r)

AuthorizerNext ==
  \/ \E r \in Requests :
       \/ AuthorizeStep(r) \/ ListAwaiting(r) \/ Execute(r) \/ Settle(r)
       \/ PersistExecution(r) \/ OperatorRejects(r) \/ ExpiryPasses(r)
  \/ Restart \/ WriteProjection

AuthorizerSpec == AuthorizerInit /\ [][AuthorizerNext]_authorizerVars

----------------------------------------------------------------------------
AuthorizerTypeOK ==
  /\ \A r \in Requests : calls[r].at \in Ended \cup
       {"unsent", "load", "chain", "cycle", "evaluate", "sign", "evaluation", "intent", "store"}
  /\ UNION {issued, envelopes, listed, lapsed, Sent, rejected} \subseteq Requests
  /\ lastSequence \in 0..MaxProjections /\ evaluated \subseteq ClearedCycles
  /\ intents \in [Requests -> {"none", "AUTHORIZED", "EXECUTING"} \cup SettledIntents]
  /\ projection \in [sequence : 1..MaxProjections, exposure : Nat] /\ deaths \in 0..MaxDeaths

\* What an envelope may still spend.
Spendable(r) ==
  r \in chain.flying \/ (r \in envelopes \ (lapsed \cup Sent) /\ intents[r] = "AUTHORIZED")

(* What has landed and what can still land is within the budget, however    *)
(* old the projection a request was judged on, and whatever landed, expired *)
(* or crashed while it was judged; and an envelope that may still spend is  *)
(* in the ledger of the process that is running until it expires, also      *)
(* after a restart, unless an operator rejected it. Three things break the  *)
(* sum, and are excluded: two requests between their evaluation and their   *)
(* entry in the ledger; a flight that outlives its envelope, which the      *)
(* ledger forgets at expiry; and an entry that is sent although an operator *)
(* rejected it, which a restarted ledger does not load.                     *)
CapitalSignedOnce ==
  /\ \A r \in envelopes \ (lapsed \cup rejected) : Spendable(r) => r \in issued
  /\ ~overlap /\ ~outlived /\ chain.flying \cap lapsed = {} /\ rejected \cap Sent = {} =>
       Cardinality(chain.landed) + Cardinality({r \in Requests : Spendable(r)}) <= Budget
=============================================================================
