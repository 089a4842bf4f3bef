------------------------------- MODULE Executor -------------------------------
(***************************************************************************)
(* The execution service: ExecutorPipeline (pipeline/pipeline.ts) with the *)
(* live adapter it drives, its idempotency registry, exposure ledger,      *)
(* local pause, finality tracker and restart recovery, over one wallet     *)
(* that trades one non-settlement mint.                                    *)
(*                                                                         *)
(* A step is the code between two awaits.  An append to the journal takes  *)
(* effect in the step that calls it (Journal.tla opens that window), so a  *)
(* crash can fall between any two appends; what the service reads back     *)
(* after it is what the journal variables hold.                            *)
(*                                                                         *)
(* An attempt is an entry (POST /v1/execute) or an emergency exit (one     *)
(* action of a close command).  The chain is modelled by the fate of each  *)
(* attempt's transaction; the RPC views may lag behind it and, when        *)
(* ViewsDiverge, contradict each other, but a proof of death is sound:     *)
(* FinalityViews.tla examines how the code obtains one.                    *)
(***************************************************************************)
EXTENDS IntentRegistry, ExposureLedger, FiniteSets

CONSTANTS
  Entries,        \* intents that open exposure
  Exits,          \* emergency close actions
  Keys,           \* idempotency keys
  Key,            \* the key each attempt carries
  Notional,       \* maxInputAmount of each entry
  Monitored,      \* entries authorized LIVE_AUTO under MONITORED_EXIT protection
  MaxSell,        \* the most one emergency action sells
  PerEntryCap, AggregateCap, OutageCap,   \* deployment guardrails
  ViewsDiverge,   \* may two RPC views contradict each other?
  LiveRecovery,   \* does an operator call POST /v1/recover while the service serves?
  MaxCrashes,     \* bound: crashes of the process
  MaxRollbacks,   \* bound: confirmed transactions rolled back
  None            \* no attempt

Attempts == Entries \cup Exits

ASSUME ConstantsOK ==
  /\ Entries \cap Exits = {}
  /\ None \notin Attempts
  /\ IsFiniteSet(Entries)
  /\ Key \in [Attempts -> Keys]
  /\ Notional \in [Entries -> Nat \ {0}]
  /\ Monitored \subseteq Entries
  /\ MaxSell \in Nat \ {0}
  /\ PerEntryCap \in Nat /\ AggregateCap \in Nat /\ OutageCap \in Nat
  /\ ViewsDiverge \in BOOLEAN /\ LiveRecovery \in BOOLEAN
  /\ MaxCrashes \in Nat /\ MaxRollbacks \in Nat

VARIABLES
  \* the journal, as its readers reduce it
  jlife,        \* per key: the state a replay of the journal gives it
  prepared,     \* attempts with an ATTEMPT_PREPARED line
  signed,       \* attempts with an ATTEMPT_SIGNED line
  submitted,    \* attempts with an ATTEMPT_SUBMITTED line
  unresolved,   \* attempts whose last SIGNED, SUBMITTED or RESULT line is no RESULT
  observed,     \* per attempt: the last of its OBSERVED and REORG_PENDING lines
  outcomes,     \* per attempt: the life cycles its RESULT lines carry
  ledger,       \* per entry: what the exposure events amount to
  plan,         \* per exit: the amounts of its PREPARED line
  pause,        \* the local pause: "off" or its reason
  \* the memory of the process
  mode,         \* "recovering" until the restart's recovery pass ends, then "up"
  life,         \* per key: the registry
  pc,           \* per attempt: where its handler awaits
  releases,     \* per exit and for the tracker: ledger releases still to apply
  tpc, ttodo, tcur, tprior, tunsure,    \* the finality tracker's pass
  rpc, rtodo, rcur,                     \* a recovery pass
  \* the world
  tx,           \* per attempt: the fate of its signed transaction
  sends,        \* per attempt: how often a transaction of it was sent
  custody,      \* units of the mint the wallet holds
  expired,      \* attempts whose authorization or bounds have expired
  standing,     \* an emergency command's pause was applied and no operator cleared it since
  crashes, rollbacks

journalVars == <<jlife, prepared, signed, submitted, unresolved, observed, outcomes, ledger, plan, pause>>
handlerVars == <<mode, life, pc, releases>>
trackVars   == <<tpc, ttodo, tcur, tprior, tunsure>>
recoverVars == <<rpc, rtodo, rcur>>
worldVars   == <<tx, sends, custody, expired, standing, crashes, rollbacks>>
vars == <<journalVars, handlerVars, trackVars, recoverVars, worldVars>>

Releasers == Exits \cup {None}     \* None stands for the tracker

HandlerPc == {"idle", "verified", "custody", "prepared", "ordering", "signing", "signed",
              "submitted", "executing", "awaiting", "observing", "exiting", "completing",
              "failing", "pausing", "done"}
TxFate == {"unsent", "sent", "landed", "final", "failed", "dead"}

JournalOK ==
  /\ jlife \in [Keys -> LifeState]
  /\ prepared \subseteq Attempts /\ signed \subseteq Attempts
  /\ submitted \subseteq Attempts /\ unresolved \subseteq Attempts
  /\ observed \in [Attempts -> {"none", "CONFIRMED", "REORG"}]
  /\ outcomes \in [Attempts -> SUBSET Terminal]
  /\ ledger \in [Entries -> OpenEntry]
  /\ plan \in [Exits -> [sold : Nat, held : Nat]]
  /\ pause \in {"off", "REORG", "DIVERGENCE", "EMERGENCY"}

HandlersOK ==
  /\ mode \in {"recovering", "up"}
  /\ life \in [Keys -> LifeState]
  /\ pc \in [Attempts -> HandlerPc]
  /\ releases \in [Releasers -> SUBSET (Entries \X Nat)]

PassesOK ==
  /\ tpc \in {"idle", "scan", "reading", "exiting", "completing", "observing", "failing",
              "pausing", "clearing"}
  /\ ttodo \subseteq Attempts /\ tcur \in Attempts \cup {None}
  /\ tprior \in {"none", "CONFIRMED", "REORG"} /\ tunsure \in BOOLEAN
  /\ rpc \in {"idle", "expiring", "expired", "scan", "completing", "failing"}
  /\ rtodo \subseteq Attempts /\ rcur \in Attempts \cup {None}

WorldOK ==
  /\ tx \in [Attempts -> TxFate] /\ sends \in [Attempts -> Nat]
  /\ custody \in Nat /\ expired \subseteq Attempts /\ standing \in BOOLEAN
  /\ crashes \in Nat /\ rollbacks \in Nat

TypeOK == JournalOK /\ HandlersOK /\ PassesOK /\ WorldOK

Init ==
  /\ jlife = [k \in Keys |-> "none"] /\ life = jlife
  /\ prepared = {} /\ signed = {} /\ submitted = {} /\ unresolved = {}
  /\ observed = [a \in Attempts |-> "none"]
  /\ outcomes = [a \in Attempts |-> {}]
  /\ ledger = [e \in Entries |-> Closed]
  /\ plan = [x \in Exits |-> [sold |-> 0, held |-> 0]]
  /\ pause = "off"
  /\ mode = "up"
  /\ pc = [a \in Attempts |-> "idle"]
  /\ releases = [p \in Releasers |-> {}]
  /\ tpc = "idle" /\ ttodo = {} /\ tcur = None /\ tprior = "none" /\ tunsure = FALSE
  /\ rpc = "idle" /\ rtodo = {} /\ rcur = None
  /\ tx = [a \in Attempts |-> "unsent"] /\ sends = [a \in Attempts |-> 0]
  /\ custody = 0 /\ expired = {} /\ standing = FALSE /\ crashes = 0 /\ rollbacks = 0


-----------------------------------------------------------------------------
(* What the appends of an attempt do to the journal's readings.            *)

\* An ATTEMPT_RESULT line: the replayed registry, the outcome and what is left to resolve.
WriteResult(a, outcome) ==
  /\ jlife' = [jlife EXCEPT ![Key[a]] = ReplayResult(@, outcome)]
  /\ outcomes' = [outcomes EXCEPT ![a] = @ \cup {outcome}]
  /\ unresolved' = unresolved \ {a}
  /\ UNCHANGED <<prepared, signed, submitted, observed, ledger, plan, pause>>

\* The registry walks as far as its table allows; a refused advance is not noticed.
AdvanceLife(a, to) == life' = [life EXCEPT ![Key[a]] = Advance(@, to)]

\* The tracker and recovery first walk a key that is still AUTHORIZED to EXECUTING.
Walked(s) == IF s = "AUTHORIZED" THEN "EXECUTING" ELSE s

\* An exposure event on one entry, applied and appended.
LedgerWrite(e, o) ==
  /\ ledger' = [ledger EXCEPT ![e] = o]
  /\ UNCHANGED <<jlife, prepared, signed, submitted, unresolved, observed, outcomes, plan, pause>>

\* ENTRY_CONFIRMED and ENTRY_RELEASED as the tracker and recovery write them: only for an
\* open entry, never for an exit.
ConfirmIfOpen(a) ==
  IF a \in Entries /\ IsOpen(ledger[a])
    THEN LedgerWrite(a, Confirmed(ledger[a], Notional[a]))
    ELSE UNCHANGED journalVars

\* Mutant: what was confirmed once is not released any more.
ReleaseUnconfirmed(a) ==
  IF a \in Entries /\ IsOpen(ledger[a]) /\ ledger[a].conf = 0
    THEN LedgerWrite(a, Closed)
    ELSE UNCHANGED journalVars

ReleaseIfOpen(a) ==
  IF a \in Entries /\ IsOpen(ledger[a])
    THEN LedgerWrite(a, Closed)
    ELSE UNCHANGED journalVars

\* Mutants: a confirmed transaction is taken for a final one, a missing one for a dead one,
\* and one that failed on chain for one that may still land.
SeenConfirmed(a) == tx[a] \in {"landed", "final"}
SeenNowhere(a)   == tx[a] \in {"sent", "failed", "dead"}
SeenExpired(a)   == tx[a] = "dead"

\* What the chain reads of a pass or a handler may conclude about a transaction.
IsFinal(a) == tx[a] = "final"
IsDead(a)  == tx[a] \in {"failed", "dead"}

\* openByMint and the share each open entry gives back, computed from one snapshot.
ExitReleases(x) ==
  {<<e, ShareReleased(ledger[e], plan[x].sold, plan[x].held)>> :
     e \in {f \in Entries : IsOpen(ledger[f])}}

\* applyLocalPause: a pause that is already active keeps its reason.
Paused(reason) == IF pause = "off" THEN reason ELSE pause

-----------------------------------------------------------------------------
(* A step of an attempt's handler: from where it awaited to where it       *)
(* awaits next.                                                            *)

Handling(a, from, to) ==
  /\ mode = "up" /\ pc[a] = from
  /\ pc' = [pc EXCEPT ![a] = to]
  /\ UNCHANGED <<mode, trackVars, recoverVars, custody, expired, crashes, rollbacks>>

chainVars == <<tx, sends>>

\* submit(): the facts verifyAuthority is given are read before its own awaits.
Verify(e) ==
  /\ e \in Entries
  /\ pause = "off" /\ e \notin signed /\ e \notin expired
  /\ Handling(e, "idle", "verified")
  /\ UNCHANGED <<journalVars, life, releases, chainVars, standing>>

\* Mutant: the claim is kept in memory only.
PrepareInMemory(a) ==
  /\ prepared' = prepared \cup {a}
  /\ UNCHANGED <<jlife, signed, submitted, unresolved, observed, outcomes, ledger, pause>>

\* The claim decides; a fresh key is journaled as PREPARED before any work.
Prepare(a) ==
  /\ jlife' = [jlife EXCEPT ![Key[a]] = Claim(@)]
  /\ prepared' = prepared \cup {a}
  /\ UNCHANGED <<signed, submitted, unresolved, observed, outcomes, ledger, pause>>

ClaimEntry(e) ==
  /\ e \in Entries
  /\ life[Key[e]] = "none"
  /\ Handling(e, "verified", "prepared")
  /\ Prepare(e)
  /\ life' = [life EXCEPT ![Key[e]] = Claim(@)]
  /\ UNCHANGED <<plan, releases, chainVars, standing>>

\* DUPLICATE: the delivery is answered with the attempt the key already has.
Duplicate(e) ==
  /\ e \in Entries
  /\ life[Key[e]] # "none"
  /\ Handling(e, "verified", "idle")
  /\ UNCHANGED <<journalVars, life, releases, chainVars, standing>>

\* Mutant: the exposure so far is checked, not the projected one.
WithinCapsSoFar(e) ==
  /\ Notional[e] <= PerEntryCap
  /\ Aggregate(ledger) <= AggregateCap
  /\ e \in Monitored => ExposureOn(ledger, Monitored) <= OutageCap

\* checkCaps, as far as it measures exposure.
WithinCaps(e) ==
  /\ Notional[e] <= PerEntryCap
  /\ Aggregate(ledger) + Notional[e] <= AggregateCap
  /\ e \in Monitored => ExposureOn(ledger, Monitored) + Notional[e] <= OutageCap

AdmitByCaps(e) ==
  /\ e \in Entries /\ WithinCaps(e)
  /\ Handling(e, "prepared", "ordering")
  /\ LedgerWrite(e, Authorized(Notional[e]))
  /\ AdvanceLife(e, "AUTHORIZED")
  /\ UNCHANGED <<releases, chainVars, standing>>

\* Over a cap, or refused for the mint, cluster, slippage or capability.
RefuseByCaps(e) ==
  /\ e \in Entries
  /\ Handling(e, "prepared", "done")
  /\ WriteResult(e, "FAILED")
  /\ AdvanceLife(e, "FAILED")
  /\ UNCHANGED <<releases, chainVars, standing>>

\* executeDetailed up to the signature: order, structure, simulation, and last the expiry.
PassChecks(a) ==
  /\ a \notin expired
  /\ Handling(a, "ordering", "signing")
  /\ UNCHANGED <<journalVars, life, releases, chainVars, standing>>

\* Mutant: the ATTEMPT_SIGNED line is left out.
SkipSigned(a) == UNCHANGED <<signed, unresolved>>

JournalSigned(a) == signed' = signed \cup {a} /\ unresolved' = unresolved \cup {a}

\* ATTEMPT_SIGNED is appended in the step that follows the signature.
Sign(a) ==
  /\ Handling(a, "signing", "signed")
  /\ JournalSigned(a)
  /\ UNCHANGED <<jlife, prepared, submitted, observed, outcomes, ledger, plan, pause>>
  /\ UNCHANGED <<life, releases, chainVars, standing>>

\* Whether the executor's own gate lets an attempt go to the network now.
GateOpen(a) == a \in Exits \/ pause = "off"

\* beforeSubmit allows: ATTEMPT_SUBMITTED is appended before anything is sent.
Submit(a) ==
  /\ GateOpen(a)
  /\ Handling(a, "signed", "submitted")
  /\ submitted' = submitted \cup {a} /\ unresolved' = unresolved \cup {a}
  /\ jlife' = [jlife EXCEPT ![Key[a]] = ReplaySubmitted(@)]
  /\ AdvanceLife(a, "EXECUTING")
  /\ UNCHANGED <<prepared, signed, observed, outcomes, ledger, plan, pause>>
  /\ UNCHANGED <<releases, chainVars, standing>>

\* orders.execute: the transaction leaves; a blockhash that expired meanwhile keeps it dead.
Send(a) ==
  /\ Handling(a, "submitted", "executing")
  /\ tx' = [tx EXCEPT ![a] = IF @ = "unsent" THEN "sent" ELSE @]
  /\ sends' = [sends EXCEPT ![a] = @ + 1]
  /\ UNCHANGED <<journalVars, life, releases, standing>>

\* record() for PREPARED, SIGNED_NOT_SUBMITTED and NOT_LANDED: an entry's exposure is
\* released first.  The refusal comes before the signature, at the gate (entries only; the
\* session's mode may forbid entries at any time), or from a provider failure proven dead.
ReleaseBeforeFailing(a) ==
  /\ \/ Handling(a, "ordering", "failing")
     \/ a \in Entries /\ Handling(a, "signed", "failing")
     \/ tx[a] = "dead" /\ Handling(a, "executing", "failing")
  /\ IF a \in Entries THEN LedgerWrite(a, Closed) ELSE UNCHANGED journalVars
  /\ UNCHANGED <<life, releases, chainVars, standing>>

Fail(a) ==
  /\ Handling(a, "failing", IF a \in Exits THEN "pausing" ELSE "done")
  /\ WriteResult(a, "FAILED")
  /\ AdvanceLife(a, "FAILED")
  /\ UNCHANGED <<releases, chainVars, standing>>

\* A dependency throws and submit() or emergency() with it.  emergencyAction() catches what is
\* thrown before the submission, to try the direct-pool route, and throws if there is none.
Throw(a) ==
  /\ \E from \in {"ordering", "signing", "executing", "custody"} : Handling(a, from, "done")
  /\ UNCHANGED <<journalVars, life, releases, chainVars, standing>>

\* The provider failed and nothing proves the transaction dead: left unresolved on purpose.
LeaveUnresolved(a) ==
  /\ Handling(a, "executing", IF a \in Exits THEN "pausing" ELSE "done")
  /\ UNCHANGED <<journalVars, life, releases, chainVars, standing>>

ProviderConfirms(a) ==
  /\ tx[a] \in {"landed", "final"}
  /\ Handling(a, "executing", "awaiting")
  /\ UNCHANGED <<journalVars, life, releases, chainVars, standing>>

\* Finalized within the adapter's budget.  ENTRY_CONFIRMED throws when the entry is not open.
ConfirmFinal(e) ==
  /\ e \in Entries /\ IsFinal(e)
  /\ IF IsOpen(ledger[e])
       THEN /\ Handling(e, "awaiting", "completing")
            /\ LedgerWrite(e, Confirmed(ledger[e], Notional[e]))
       ELSE /\ Handling(e, "awaiting", "done")
            /\ UNCHANGED journalVars
  /\ UNCHANGED <<life, releases, chainVars, standing>>

ExitFinal(x) ==
  /\ x \in Exits /\ IsFinal(x)
  /\ Handling(x, "awaiting", "exiting")
  /\ releases' = [releases EXCEPT ![x] = ExitReleases(x)]
  /\ UNCHANGED <<journalVars, life, chainVars, standing>>

\* The budget ran out (CONFIRMED_PROVISIONAL): exposure is real, the life cycle stays EXECUTING.
ConfirmProvisional(a) ==
  /\ IF a \in Exits \/ IsOpen(ledger[a])
       THEN Handling(a, "awaiting", "observing")
       ELSE Handling(a, "awaiting", "done")
  /\ ConfirmIfOpen(a)
  /\ UNCHANGED <<life, releases, chainVars, standing>>

Observe(a) ==
  /\ Handling(a, "observing", IF a \in Exits THEN "pausing" ELSE "done")
  /\ observed' = [observed EXCEPT ![a] = "CONFIRMED"]
  /\ UNCHANGED <<jlife, prepared, signed, submitted, unresolved, outcomes, ledger, plan, pause>>
  /\ UNCHANGED <<life, releases, chainVars, standing>>

\* One EXIT_CONFIRMED of an exit's release loop.
ReleaseShare(p, r) ==
  /\ r \in releases[p]
  /\ releases' = [releases EXCEPT ![p] = @ \ {r}]
  /\ LedgerWrite(r[1], Released(ledger[r[1]], r[2]))

ExitShare(x) ==
  /\ x \in Exits
  /\ \E r \in releases[x] : ReleaseShare(x, r)
  /\ Handling(x, "exiting", "exiting")
  /\ UNCHANGED <<life, chainVars, standing>>

Complete(a) ==
  /\ \/ Handling(a, "completing", "done")
     \/ a \in Exits /\ releases[a] = {} /\ Handling(a, "exiting", "pausing")
  /\ WriteResult(a, "COMPLETED")
  /\ AdvanceLife(a, "COMPLETED")
  /\ UNCHANGED <<releases, chainVars, standing>>

-----------------------------------------------------------------------------
(* Emergency commands, the local pause and the operator.                   *)

ReceiveClose(x) ==
  /\ x \in Exits
  /\ Handling(x, "idle", "custody")
  /\ UNCHANGED <<journalVars, life, releases, chainVars, standing>>

\* The plan from chain custody, the claim and PREPARED: one action for the one mint held.
PlanClose(x) ==
  /\ x \in Exits
  /\ custody > 0 /\ life[Key[x]] = "none"
  /\ Handling(x, "custody", "ordering")
  /\ Prepare(x)
  /\ plan' = [plan EXCEPT ![x] = [sold |-> IF custody < MaxSell THEN custody ELSE MaxSell,
                                  held |-> custody]]
  /\ life' = [life EXCEPT ![Key[x]] = Advance(Claim(@), "AUTHORIZED")]
  /\ UNCHANGED <<releases, chainVars, standing>>

\* Nothing held: closing one asset is rejected, closing all goes on to the pause, as does a
\* redelivered command, whose action is SKIPPED.
CloseNothing(x) ==
  /\ x \in Exits
  /\ \/ custody = 0 /\ Handling(x, "custody", "done")
     \/ custody = 0 /\ Handling(x, "custody", "pausing")
     \/ life[Key[x]] # "none" /\ Handling(x, "custody", "pausing")
  /\ UNCHANGED <<journalVars, life, releases, chainVars, standing>>

PauseBy(reason) ==
  /\ pause' = Paused(reason)
  /\ UNCHANGED <<jlife, prepared, signed, submitted, unresolved, observed, outcomes, ledger, plan>>

PauseAfterClose(x) ==
  /\ x \in Exits
  /\ Handling(x, "pausing", "done")
  /\ PauseBy("EMERGENCY") /\ standing' = TRUE
  /\ UNCHANGED <<life, releases, chainVars>>

\* PAUSE_NEW_ENTRIES, and POST /v1/pause/clear.
CommandPause ==
  /\ mode = "up"
  /\ PauseBy("EMERGENCY") /\ standing' = TRUE
  /\ UNCHANGED <<handlerVars, trackVars, recoverVars, tx, sends, custody, expired, crashes, rollbacks>>

ClearPause ==
  /\ pause' = "off"
  /\ UNCHANGED <<jlife, prepared, signed, submitted, unresolved, observed, outcomes, ledger, plan>>

OperatorClears ==
  /\ mode = "up" /\ pause # "off"
  /\ ClearPause /\ standing' = FALSE
  /\ UNCHANGED <<handlerVars, trackVars, recoverVars, tx, sends, custody, expired, crashes, rollbacks>>

-----------------------------------------------------------------------------
(* The finality tracker: one pass at a time over a snapshot of the         *)
(* unresolved attempts, while handlers keep running.                       *)

Tracking(from, to) ==
  /\ mode = "up" /\ tpc = from /\ tpc' = to
  /\ UNCHANGED <<mode, pc, recoverVars, worldVars>>

TrackBegin ==
  /\ Tracking("idle", "scan")
  /\ ttodo' = unresolved /\ tcur' = None /\ tprior' = "none" /\ tunsure' = FALSE
  /\ UNCHANGED <<journalVars, life, releases>>

\* What was observed before is read now; the views answer later.
TrackPick(a) ==
  /\ a \in ttodo
  /\ Tracking("scan", "reading")
  /\ ttodo' = ttodo \ {a} /\ tcur' = a /\ tprior' = observed[a]
  /\ UNCHANGED <<tunsure, journalVars, life, releases>>

\* PROCESSED, UNAVAILABLE, CONFIRMED again, or MISSING without proof of death.
TrackNothing ==
  /\ Tracking("reading", "scan")
  /\ tunsure' = (tunsure \/ tprior = "REORG")
  /\ UNCHANGED <<ttodo, tcur, tprior, journalVars, life, releases>>

TrackFinal ==
  /\ tcur \in Attempts /\ IsFinal(tcur)
  /\ IF tcur \in Exits
       THEN /\ Tracking("reading", "exiting")
            /\ releases' = [releases EXCEPT ![None] = ExitReleases(tcur)]
       ELSE /\ Tracking("reading", "completing")
            /\ UNCHANGED releases
  /\ ConfirmIfOpen(tcur)
  /\ UNCHANGED <<ttodo, tcur, tprior, tunsure, life>>

TrackShare ==
  /\ Tracking("exiting", "exiting")
  /\ \E r \in releases[None] : ReleaseShare(None, r)
  /\ UNCHANGED <<ttodo, tcur, tprior, tunsure, life>>

\* The registry as the tracker advances it: only a key that is EXECUTING by then.
TrackLife(a, to) ==
  life' = [life EXCEPT ![Key[a]] = IF Walked(@) = "EXECUTING" THEN to ELSE @]

TrackComplete ==
  /\ tcur \in Attempts
  /\ \/ Tracking("completing", "scan")
     \/ releases[None] = {} /\ Tracking("exiting", "scan")
  /\ WriteResult(tcur, "COMPLETED")
  /\ TrackLife(tcur, "COMPLETED")
  /\ UNCHANGED <<ttodo, tcur, tprior, tunsure, releases>>

TrackConfirmed ==
  /\ tcur \in Attempts /\ tx[tcur] \in {"landed", "final"} /\ tprior # "CONFIRMED"
  /\ Tracking("reading", "observing")
  /\ ConfirmIfOpen(tcur)
  /\ UNCHANGED <<ttodo, tcur, tprior, tunsure, life, releases>>

TrackObserve ==
  /\ tcur \in Attempts
  /\ Tracking("observing", "scan")
  /\ observed' = [observed EXCEPT ![tcur] = "CONFIRMED"]
  /\ UNCHANGED <<jlife, prepared, signed, submitted, unresolved, outcomes, ledger, plan, pause>>
  /\ TrackLife(tcur, "EXECUTING")
  /\ UNCHANGED <<ttodo, tcur, tprior, tunsure, releases>>

\* A confirmed transaction went missing, failed, or the views contradict each other.
TrackReorg ==
  /\ tcur \in Attempts /\ tprior = "CONFIRMED"
  /\ Tracking("reading", "pausing")
  /\ observed' = [observed EXCEPT ![tcur] = "REORG"]
  /\ UNCHANGED <<jlife, prepared, signed, submitted, unresolved, outcomes, ledger, plan, pause>>
  /\ UNCHANGED <<ttodo, tcur, tprior, tunsure, life, releases>>

TrackPause ==
  /\ \/ Tracking("pausing", "scan") /\ PauseBy("REORG")
     \/ /\ ViewsDiverge /\ tprior # "CONFIRMED"
        /\ Tracking("reading", "scan") /\ PauseBy("DIVERGENCE")
  /\ tunsure' = TRUE
  /\ UNCHANGED <<ttodo, tcur, tprior, life, releases>>

\* Failed on chain, or every view proves it dead.
TrackDead ==
  /\ tcur \in Attempts /\ IsDead(tcur) /\ tprior # "CONFIRMED"
  /\ Tracking("reading", "failing")
  /\ ReleaseIfOpen(tcur)
  /\ UNCHANGED <<ttodo, tcur, tprior, tunsure, life, releases>>

TrackFail ==
  /\ tcur \in Attempts
  /\ Tracking("failing", "scan")
  /\ WriteResult(tcur, "FAILED")
  /\ TrackLife(tcur, "FAILED")
  /\ UNCHANGED <<ttodo, tcur, tprior, tunsure, releases>>

\* Mutant: a divergence pause is not recognised as the tracker's own.
MayRelease_ReorgOnly == pause = "REORG" /\ ~tunsure

\* What the tracker looks at when its pass is over.
MayRelease == pause \in {"REORG", "DIVERGENCE"} /\ ~tunsure

\* The pass is over; its own pause is released only after custody was read again.
TrackEnd ==
  /\ ttodo = {}
  /\ Tracking("scan", IF MayRelease THEN "clearing" ELSE "idle")
  /\ tcur' = None /\ tprior' = "none" /\ tunsure' = FALSE
  /\ UNCHANGED <<ttodo, journalVars, life, releases>>

\* When the read returns, clearLocalPause does not look at the reason again.
TrackClear ==
  /\ Tracking("clearing", "idle")
  /\ ClearPause
  /\ UNCHANGED <<ttodo, tcur, tprior, tunsure, life, releases>>

TrackKeepPause ==
  /\ Tracking("clearing", "idle")
  /\ UNCHANGED <<ttodo, tcur, tprior, tunsure, journalVars, life, releases>>

-----------------------------------------------------------------------------
(* recover(): before the service listens, and live when an operator asks.  *)

Recovering(from, to) ==
  /\ mode = "recovering" \/ LiveRecovery
  /\ rpc = from /\ rpc' = to
  /\ UNCHANGED <<pc, releases, trackVars, worldVars>>

\* Mutant: results are not looked at.
ExpiredUnsignedAnyway == (prepared \cap expired) \ signed

\* Prepared, never signed, without a result, and past its expiry: collected in one go.
ExpiredUnsigned == {a \in (prepared \cap expired) \ signed : outcomes[a] = {}}

RecoverBegin ==
  /\ Recovering("idle", "expiring")
  /\ rtodo' = ExpiredUnsigned
  /\ rcur' = None
  /\ UNCHANGED <<mode, life, journalVars>>

RecoverRelease(a) ==
  /\ a \in rtodo
  /\ Recovering("expiring", "expired")
  /\ rtodo' = rtodo \ {a} /\ rcur' = a
  /\ ReleaseIfOpen(a)
  /\ UNCHANGED <<mode, life>>

RecoverExpired ==
  /\ rcur \in Attempts
  /\ Recovering("expired", "expiring")
  /\ WriteResult(rcur, "EXPIRED")
  /\ AdvanceLife(rcur, "EXPIRED")
  /\ UNCHANGED <<mode, rtodo, rcur>>

RecoverScan ==
  /\ rtodo = {}
  /\ Recovering("expiring", "scan")
  /\ rtodo' = unresolved /\ rcur' = None
  /\ UNCHANGED <<mode, life, journalVars>>

RecoverFinal(a) ==
  /\ a \in rtodo /\ IsFinal(a)
  /\ Recovering("scan", "completing")
  /\ rtodo' = rtodo \ {a} /\ rcur' = a
  /\ ConfirmIfOpen(a)
  /\ UNCHANGED <<mode, life>>

RecoverDead(a) ==
  /\ a \in rtodo /\ IsDead(a)
  /\ Recovering("scan", "failing")
  /\ rtodo' = rtodo \ {a} /\ rcur' = a
  /\ ReleaseIfOpen(a)
  /\ UNCHANGED <<mode, life>>

\* Confirmed but not final, or still landable: nothing is written.
RecoverNothing(a) ==
  /\ a \in rtodo
  /\ Recovering("scan", "scan")
  /\ rtodo' = rtodo \ {a}
  /\ UNCHANGED <<mode, rcur, life, journalVars>>

RecoverLife(a, to) == life' = [life EXCEPT ![Key[a]] = Advance(Walked(@), to)]

RecoverComplete ==
  /\ rcur \in Attempts
  /\ Recovering("completing", "scan")
  /\ WriteResult(rcur, "COMPLETED")
  /\ RecoverLife(rcur, "COMPLETED")
  /\ UNCHANGED <<mode, rtodo, rcur>>

RecoverFail ==
  /\ rcur \in Attempts
  /\ Recovering("failing", "scan")
  /\ WriteResult(rcur, "FAILED")
  /\ RecoverLife(rcur, "FAILED")
  /\ UNCHANGED <<mode, rtodo, rcur>>

\* The pass ends, or a live pass is given up on a failed chain read; the restart's own pass
\* opens the service.
RecoverEnd ==
  /\ rtodo = {} \/ mode = "up"
  /\ Recovering("scan", "idle")
  /\ rtodo' = {} /\ rcur' = None /\ mode' = "up"
  /\ UNCHANGED <<life, journalVars>>

-----------------------------------------------------------------------------
(* The world: the chain, the clocks, and the end of a process.             *)

Outside == UNCHANGED <<journalVars, handlerVars, trackVars, recoverVars>>

Moved(a) == IF a \in Entries THEN Notional[a] ELSE plan[a].sold

Land(a) ==
  /\ tx[a] = "sent"
  /\ tx' = [tx EXCEPT ![a] = "landed"]
  /\ IF a \in Entries
       THEN custody' = custody + Moved(a)
       ELSE custody >= Moved(a) /\ custody' = custody - Moved(a)
  /\ UNCHANGED <<sends, expired, standing, crashes, rollbacks>> /\ Outside

FailOnChain(a) ==
  /\ tx[a] = "sent"
  /\ tx' = [tx EXCEPT ![a] = "failed"]
  /\ UNCHANGED <<sends, custody, expired, standing, crashes, rollbacks>> /\ Outside

\* The fork that held the transaction is abandoned; it may land again.
Rollback(a) ==
  /\ tx[a] = "landed" /\ rollbacks < MaxRollbacks
  /\ tx' = [tx EXCEPT ![a] = "sent"] /\ rollbacks' = rollbacks + 1
  /\ IF a \in Entries
       THEN custody >= Moved(a) /\ custody' = custody - Moved(a)
       ELSE custody' = custody + Moved(a)
  /\ UNCHANGED <<sends, expired, standing, crashes>> /\ Outside

Finalize(a) ==
  /\ tx[a] = "landed"
  /\ tx' = [tx EXCEPT ![a] = "final"]
  /\ UNCHANGED <<sends, custody, expired, standing, crashes, rollbacks>> /\ Outside

\* The last valid block height passes and the transaction is on no fork.
ExpireBlockhash(a) ==
  /\ a \in signed /\ tx[a] \in {"unsent", "sent"}
  /\ tx' = [tx EXCEPT ![a] = "dead"]
  /\ UNCHANGED <<sends, custody, expired, standing, crashes, rollbacks>> /\ Outside

ExpireAuthorization(a) ==
  /\ a \notin expired
  /\ expired' = expired \cup {a}
  /\ UNCHANGED <<tx, sends, custody, standing, crashes, rollbacks>> /\ Outside

\* Mutant: idempotency does not survive the process.
Forgotten == [k \in Keys |-> "none"]

\* IdempotencyRegistry.fromJournal.
Replayed == jlife

\* The process dies between two steps and the next one replays the journal.
Crash ==
  /\ crashes < MaxCrashes
  /\ crashes' = crashes + 1
  /\ mode' = "recovering" /\ life' = Replayed
  /\ pc' = [a \in Attempts |-> "idle"]
  /\ releases' = [p \in Releasers |-> {}]
  /\ tpc' = "idle" /\ ttodo' = {} /\ tcur' = None /\ tprior' = "none" /\ tunsure' = FALSE
  /\ rpc' = "idle" /\ rtodo' = {} /\ rcur' = None
  /\ UNCHANGED <<journalVars, tx, sends, custody, expired, standing, rollbacks>>

-----------------------------------------------------------------------------

EntryStep(e) ==
  \/ Verify(e) \/ ClaimEntry(e) \/ Duplicate(e)
  \/ AdmitByCaps(e) \/ RefuseByCaps(e) \/ ConfirmFinal(e)

AttemptStep(a) ==
  \/ PassChecks(a) \/ Sign(a) \/ Submit(a) \/ Send(a)
  \/ ReleaseBeforeFailing(a) \/ Fail(a) \/ Throw(a) \/ LeaveUnresolved(a)
  \/ ProviderConfirms(a) \/ ConfirmProvisional(a) \/ Observe(a) \/ Complete(a)

ExitStep(x) ==
  \/ ReceiveClose(x) \/ PlanClose(x) \/ CloseNothing(x)
  \/ ExitFinal(x) \/ ExitShare(x) \/ PauseAfterClose(x)

TrackVerdict ==
  \/ TrackNothing \/ TrackFinal \/ TrackConfirmed \/ TrackReorg \/ TrackPause \/ TrackDead

TrackStep ==
  \/ TrackBegin \/ (\E a \in Attempts : TrackPick(a)) \/ TrackVerdict
  \/ TrackShare \/ TrackComplete \/ TrackObserve \/ TrackFail
  \/ TrackEnd \/ TrackClear \/ TrackKeepPause

RecoverStep ==
  \/ RecoverBegin \/ RecoverExpired \/ RecoverScan
  \/ RecoverComplete \/ RecoverFail \/ RecoverEnd
  \/ \E a \in Attempts :
       RecoverRelease(a) \/ RecoverFinal(a) \/ RecoverDead(a) \/ RecoverNothing(a)

WorldStep ==
  \/ Crash
  \/ \E a \in Attempts :
       \/ Land(a) \/ FailOnChain(a) \/ Rollback(a) \/ Finalize(a)
       \/ ExpireBlockhash(a) \/ ExpireAuthorization(a)

Next ==
  \/ \E e \in Entries : EntryStep(e)
  \/ \E a \in Attempts : AttemptStep(a)
  \/ \E x \in Exits : ExitStep(x)
  \/ CommandPause \/ OperatorClears
  \/ TrackStep \/ RecoverStep \/ WorldStep

Spec == Init /\ [][Next]_vars

-----------------------------------------------------------------------------
(* What keeps the service going.  The interval timer starts a pass         *)
(* whenever none runs and a pass does not stop half way; RPC views that    *)
(* are asked again and again eventually tell what the chain knows for      *)
(* good; a supervisor restarts the process; blockhashes expire and blocks  *)
(* become final.  Nothing is assumed of handlers, providers or operators.  *)

DecisiveVerdict(a) ==
  /\ tcur = a
  /\ \/ TrackFinal \/ TrackDead
     \/ IsDead(a) /\ TrackReorg

Fairness ==
  /\ WF_vars(TrackStep) /\ SF_vars(TrackClear)
  /\ WF_vars(RecoverStep)
  /\ \A a \in Attempts :
       /\ SF_vars(DecisiveVerdict(a))
       /\ WF_vars(Finalize(a))
       /\ WF_vars(Land(a) \/ FailOnChain(a) \/ ExpireBlockhash(a))

FairSpec == Spec /\ Fairness

=============================================================================
