# A TLA+ model of the Solana Autonomous Trader

The repository is a TypeScript monorepo. A worker finds, researches and proposes trades and runs
a paper account; a risk authorizer signs what may be traded live; an execution service, the only
holder of the trading wallet's signer, sends transactions and keeps the books on them. They share
one Postgres database and call each other over authenticated HTTP. This directory specifies the
parts in which an interleaving, a crash, a fork or a stale read moves money twice, forgets a
transaction, lets exposure past its caps, drops a request, or leaves a position unprotected.

1. [Inventory](#1-inventory) – the parts of the system
2. [The modules](#2-the-modules) – how state and actions correspond to the code
3. [The runs](#3-the-runs) – what each checks, its bounds, the fairness
4. [The proofs](#4-the-proofs)
5. [Where code and comments disagree](#5-where-code-and-comments-disagree)
6. [What is left out](#6-what-is-left-out)
7. [Plan](#7-plan)

Commands, in this directory: `tlc -config records.cfg MCRecords`, `tlapm ProtocolProofs.tla`.

## 1. Inventory

| Component | State | Operations | Talks to | What makes it correct |
|---|---|---|---|---|
| **Execution pipeline** `apps/execution-service/src/pipeline` | local pause; registry and ledger below | `submit`, `emergency`, `record`, `recover`, `trackFinality`, `applyLocalPause`, `clearLocalPause`, `syncShadow` | journal, adapter, chain views, custody reader | one key sends once; nothing leaves unjournaled; failure only of what cannot land; exposure never under-counted; pauses hold and lift |
| **Live and direct-pool adapters** `libs/execution/src/adapter` | one attempt | `executeDetailed` | order provider, pools, signer | order of the steps; every way out reports the state reached |
| **Idempotency registry** `idempotency/intents.ts`, `state/intent.ts` | life cycle per key | `claim`, `advance`, `fromJournal` | journal | a key is claimed for good; replay agrees with memory |
| **Exposure ledger and caps** `caps/` | open entries | six exposure events, `checkCaps` | journal | the sum covers custody; caps bound what can come to be held |
| **Mode gate, authority** `authority/` | none | `modeGate`, `verifyAuthority` | database facts, local pause | no entry while paused; reductions always pass |
| **Journal and fence** `journal/journal.ts` | file, memory copy, lock file | `open`, `append`, `release` | file system | it always loads; the holder's memory is the file |
| **Chain views** `libs/execution/src/chain` | none | `signatureStatus`, `quorumVerdict`, `proveDead`, `proveDeadAcrossViews` | RPC nodes | dead is dead, final is final |
| **Executor process, internal API** `main.ts`, `api/` | tracker timer and flag | start-up, routes, shutdown | all of the above | recovery before service; one tracker pass at a time |
| **Emergency planning** `libs/execution/src/emergency`, `emergency/command.ts` | none | `planEmergencyClose`, `evaluateShadowStops` | custody reader | sells what the wallet holds, each hit in the end |
| **Risk authorizer** `apps/risk-authorizer` | ledger of open authorizations, last projection sequence, cached verdict on the audit chain | `authorize` | chain, database | what is signed together stays in the budget; a stale projection or a broken chain denies |
| **Worker: paper account** (`paper-entry`, `position-monitor`, `manual-actions`, `trading-actions`, `recovery`) | intents, attempts, fills, lots, stops | cycles, start-up recovery | paper adapter | books match fills; stops never loosen |
| **Worker: protection** (`held-asset-safety`, `shadow-sync`) | safety evaluations; sequenced shadow file, failed reads | cycles, database-down mode | executor | the baseline is remembered; shadow sequences mean one thing; stops are served in an outage |
| **Worker: live trading** (`live-entry`, `approvals`, `journal-import`) | envelopes, Releases with attestations and ceilings, the import cursor | cycles, control requests | authorizer, executor | deliver, never decide; capability only on evidence; nothing skipped |
| **Worker: accounts** (`reconciliation`, `audit-checkpoint`, `notifications`) | cursor, balance baseline, copy of the chain's head, alerts | cycles | chain, parser, channels | nothing unexplained is forgotten; alarms end; alerts reach someone |
| **Session and step-up** `libs/risk/src/runtime-session`, `session.ts` | activity, pause, authority | control requests, `runtimeTransition` | database | sticky pause; answers given stand |
| **Agent runtime** `libs/agents` | action cycle, review state, automation history | `runDiscretionaryCycle`, `decideAutomation` | model gateway | only confirmed actions execute; cycles end; retries back off |
| **Queues and leases** `worker/processing.ts`, `db/server/leases.ts` | messages, claims, dead letters, leases | `processMessage`, `runWithLease` | pgmq, Postgres | one effect per key, no message dropped, one holder per role |
| **Replay** `worker/src/replay`, `roles/replay.ts` | run rows, in-memory books | `runReplay` | stored market data | clock and books consistent; every result storable |
| **Research, market data, intelligence, UI** | market tables | ingestion, computation, display | providers | mostly pure or I/O |

What is hard:

* **Interleaving.** Each process is single-threaded, but every `await` lets others run, and no
  component holds a lock across one: handlers, tracker and recovery of the executor; authorize
  calls of the authorizer; two roles that sell the same lot; two handlers of one queue.
* **Crashes.** The executor has only its journal, the worker only committed rows and one file,
  the authorizer only the rows it wrote. Each restart rebuilds memory from those.
* **Stale copies.** Roles load a row, await, decide, and write back: session, Release, stop,
  cursor, cached verdict.
* **The chain.** A transaction may land after its sender gave up, be rolled back, land again, or
  be known to one view and not to another; parsers answer for some signatures only.
* **Redelivery and time.** Leases and visibility timeouts lapse while their holder works; calls
  time out while the callee goes on.

`PROJECT.json` lists forty hazards, each at its line with the properties that would catch it.
The map there names, for every definition, the lines it stands for.

## 2. The modules

A step is the code between two awaits that matter. A crash may fall between any two steps.

### The executor

| Module | Models |
|---|---|
| `IntentRegistry` | the life-cycle table, `claim`, `advance`, the replay of one journal line, as operators |
| `ExposureLedger` | an open entry under each exposure event, exposure and its sums, as operators |
| `Executor` | pipeline, adapter, registry, ledger, pause, tracker, recovery, over a chain |
| `ExecutorProperties` | what must hold of it |
| `IntentPromise` | the abstract specification: what the service promises per idempotency key |
| `Journal` | the journal file, its fence, and appends that wait for a hash |
| `FinalityViews` | the proof of death over views that advance while they are asked |
| `OutageClose` | the closes the worker asks for while the database is down |

**Executor.** An append takes effect in the step that calls it; that concurrent appends can break
the file is `Journal`'s subject, and what `Executor` shows holds for a journal whose appends do
not overlap. The journal is kept as its readers reduce it: `jlife` is what `fromJournal` would
compute, `unresolved` what `unresolvedAttempts` would, `observed` and `outcomes` what tracker and
recovery look up, `ledger` the replayed exposure (`ledgerEvent` applies and appends together),
`pause` likewise. Memory is `life` (the registry), `pc` (where the handler of each attempt
awaits), `releases` (the rest of a loop over `openByMint`, computed from a snapshot before its
awaits), and the locals of tracker and recovery passes.

| Code | Actions |
|---|---|
| `submit` | `Verify`, `ClaimEntry`, `Duplicate`, `AdmitByCaps`, `RefuseByCaps` |
| `executeDetailed` with the hooks of `adapterFor` | `PassChecks`, `Sign`, `Submit`, `Send`, `ProviderConfirms`, `LeaveUnresolved`, `Throw` |
| `record` | `ReleaseBeforeFailing`, `Fail`, `ConfirmFinal`, `ExitFinal`, `ExitShare`, `Complete`, `ConfirmProvisional`, `Observe` |
| `emergency`, `emergencyAction` | `ReceiveClose`, `PlanClose`, `CloseNothing`, `PauseAfterClose`, `CommandPause` |
| `/v1/pause/clear` | `OperatorClears` |
| `trackFinality` under `main.ts`'s timer | `Track...`: begin, pick an attempt, one action per verdict and per append, end, clear the pause |
| `recover` | `Recover...`: expired unsigned attempts first, then unresolved ones |
| death and the next start | `Crash` (what the constructor replays), then recovery in mode "recovering" before anything is served |
| chain and clocks (external) | `Land`, `FailOnChain`, `Rollback`, `Finalize`, `ExpireBlockhash`, `ExpireAuthorization` |

The direct-pool fallback prepares and journals as the primary path does; here it is a longer stay
in `"ordering"`. `awaitFinalized` and `modeFacts` do not throw in the wiring of `main.ts`. The
session's pause and authority are database facts that may refuse an entry at either gate.

**IntentPromise.** Per key: an effect that is none, provisional, final or never, and the outcomes
told. Completion may be told only of a final effect; telling failure or expiry fixes the effect
to never; there is no step to a second effect. `KeepsPromise` maps the executor's attempts,
transaction fates and journaled results onto it.

**Journal.** One action per side of the `await canonicalHash` in `append` (`BeginAppend`,
`FinishAppend`); `Open` with its fence test, `Stop` while a tracker pass may still be running,
`End` that leaves the fence behind. Any two appends may overlap, of one process or of two.

**FinalityViews.** Each view answers for the signature from the newest block it processed and,
later, for the height from its confirmed head, `ConfLag` blocks behind; how far a view moves
between the two is not bounded, as nothing in the code bounds it. `AskStatus`, `AllMissing`, `AskHeight`, `Passed`,
`Conclude` are `proveDead(AcrossViews)`; blocks and views advance around them.

**OutageClose.** `protectFromShadow` of the role and `emergency` of the executor.
`CycleFindsNoDatabase` counts failed reads and, from the second on, collects the hits
(`evaluateShadowStops`: a price stop needs a mark, a time stop does not); `IssueClose`,
`CloseUnreachable`, `CloseTimesOut` are its loop, `Onward` the catch around each call. In the
executor `PlanFromCustody` plans from the wallet, one sale per token account of the mint;
`GoOnWith` claims the key of an action and skips duplicates; `PrimaryUnavailable`,
`CloseRefused`, `CloseThrows`, `SendClose`, `Included`, `NeverIncluded` are its ways. Either
process may die. The pause after a command, the ledger and recovery are in `Executor`.

### The paper account and positions

| Module | Code | State → actions |
|---|---|---|
| `PaperAccount` | `paper-entry`, `position-monitor`, `manual-actions`, `trading-actions` as sellers, `paper-adapter`, `paper-repo`, `positions-repo`, `recovery` | intents, attempts, fills, lots, stops, one loop per role → `EvaluateCycle`, `RecordEvaluation`, `CreateIntent`, `StartExecuting`, `JournalAttempt`, `RejectBeforeSubmit`, `FinishAttempt`, `OpenPosition`, `CompleteEntry`; `DecideExit`, `RecordExitDecision`, `ApplyExit`, `CloseUnfilled`; `DecideStop`, `TightenStop`; `StepThrows`; `CrashWorker`, `RecoverWorker` with its three queries, `StartRoles` |
| `HeldSafety` | `held-asset-safety`, `evaluateHeldAssetSafety`, `safety-repo`, `record_position_safety` | chain facts, evaluation rows, baseline, position → `ReadChain`, `Measure`, `RecordSafety`; the asset, the eligibility role and the position move meanwhile |
| `Reassessment` | `automations/engine.ts`, `automations-repo.ts`, the target loop of `agents` | last cycles and runs of a position, clocks → `AgentTick`, `ListPosition`, `Skip`, `Invoke`, `PersistOutcome`, `RecordRun`, `Stumble`, `MandatoryReduction` |
| `ShadowSync` | `shadow-sync`, `shadow/journal.ts`, `syncShadow` | the worker's file, the executor's shadow, pause and alert → `ReadBook`, `AppendShadow`, `Push`, `SyncShadow`, `PushFails`, `SetAlarm`, `Raise`, `DiesInAppend`, lost disks |

Each role is one loop under its own lease, so it has one step at a time, and any interleaving of
roles falls at an await. The paper account's prices are 1:1 and a position has one lot; what
decides an entry's size, an exit or a stop is left open. In `HeldSafety` an added authority
stands for every fact that is critical once it is new, and two of the degrading facts are kept.

### Decisions and messages

| Module | Code | State → actions |
|---|---|---|
| `AgentCycle` | `action-cycle/machine.ts`, `runner.ts`, `agents`, `trading-actions` | the machine's cycle, the runner's place, rows, review state, handlers → `StartCycle`, `GateAndBuild`, `ProposeAction`, `ReviewAction`, `Revise`, `Rebuild`, `CallFails`, `StoreOutcome`, `StoreFails`; `DeliverAction`, `CheckAction`, `EvaluateAction`, `FillAction`, `FinishAction`, `ActionThrows`; `Transition` is the machine as an operator |
| `QueueProcessing` | `processMessage`, the queue client, `ops.processed_messages` | messages with visibility and read counts, claims, effects, dead letters, consumers → `ReadMessage`, `ClaimKey`, `Commit`, `HandlerThrows`, `Archive`, `Retry`, `Bury`, `Release`, `LeaseLapses`, `ConsumerDies` |
| `RoleLease` | `runWithLease`, `loopUnderLease`, `acquire_lease`, `heartbeat_lease`, `release_lease` | lease row; each worker's place, fence, timer, heartbeats under way and time without renewal → `Acquire`, `ServeAcquire`, `HearGrant`, `Beat`, `ServeBeat`, `ServeStray` (a heartbeat of a run that ended), `BeatFails`, `HearFailure`, `StartCycle`, `EndCycle`, `LeaveWork`, `ServeRelease`, `CallFails`, `WorkerCrash`, `Tick` |
| `Session` | `session.ts`, `machine.ts`, `session-repo.ts` | session rows, requests, the copy of the cycle, sticky pauses → `BeginCycle`, `Take...` per request kind, `CreateSession`, `PersistTransition`, `ClearSticky`, `Answer`, `Refuse`, `CallThrows`, `DeadManPause`, `WorkerDies` |
| `Notifications` | `notifications.ts`, its engine and repository | one alert with its condition, level, deliveries, the cycle's place → `RaiseOrResolve`, `Acknowledge`, `Escalate`, `ApplyDeadManPause`, `TellOfPause`, `ListDeliveries`, `Send`, `RecordDelivery`, `CycleDies` |

### Money and evidence

| Module | Code | State → actions |
|---|---|---|
| `Authorizer` | `authorizer.ts`, `authorize.ts`, `ledger.ts`, `authorizer-repo.ts`, `live-entry` | calls, ledger in memory, rows, envelopes in flight, projections → `ReceiveRequest`, `LoadProjection`, `VerifyProjection`, `CheckCycle`, `Evaluate`, `Issue`, `RecordRiskEvaluation`, `StoreEnvelope`, `CreateEntryIntent`, `Deny`, `PersistThrows`, `Restart`; `ListAwaiting`, `Execute`, `Settle`, `PersistExecution`, `OperatorRejects` |
| `ReleaseArming` | `approvals`, `release/lifecycle.ts`, `release-repo.ts` | a Release's status, attestations, ceilings, requests, handlers → `ListPetitions`, `LoadRelease`, `ValidateRelease`, `InsertAttestation`, `InsertCapitalAttestation`, `MoveRelease`, `AnswerPetition`, `PetitionFails` |
| `JournalImport` | `journal-import`, its repository | the journal, the imported set, the review gate, a page → `Pull`, `ImportEntry`, `SetReviewGate`, `ImportThrows` |
| `Reconciliation` | `reconciliation`, `reconcile/engine.ts`, `record_reconciliation` | transactions of the wallet, cursor, SOL baseline, report, a pass → `BeginPass`, `ObserveBalances`, `SignaturesSince`, `Parse`, `RecordReconciliation`, `Unavailable`, `WorkerRestarts` |
| `AuditTrail` | `audit.ts`, `audit-checkpoint`, `chainStanding` of the authorizer, `audit.chain_event` | the chained ledger, the file of copied heads, a cycle of the role, the alert, the cached verdict and a call → `VerifyChain`, `ReadHead`, `Replicate`, `AppendLine`, `InsertCheckpoint`, `CompareWithReplica`, `RecordVerification`, `SettleAlert`; `AskHead`, `AskReplica`, `AskVerify`, `AskAgain`, `CallEnds`; rows damaged, ledgers restored, files lost |
| `Replay` | `replay/engine.ts`, `book.ts`, `fill-model.ts`, `roles/replay.ts` | clock, pending entries, positions, books, rows → `ClaimRun`, `NextTick`, `DetectCandidate`, `ExecuteEntry`, `ManageHold`, `ManageSell`, `ManageUnquotable`, `FinishClose`, `StoreDecisions`, `StoreTrades`, `CompleteRun`, `RunThrows` |

Hashes do not collide in `Journal` and `AuditTrail`: a hash is a number no other line or history
has. Prices, sizes and verdicts of pure rules are nondeterministic wherever no property needs
their values.

## 3. The runs

A run may hold several **parts**: components that share no state and no action. A behaviour of
such a run is a behaviour of one of them, chosen at the start (`part`), with the others at rest
in their initial states and fairness asked of the part that runs. A formula about one component
holds of the run exactly when it holds of that component's own specification; the state count is
the sum of the parts', not their product.

| Run | Parts and instance | Shows |
|---|---|---|
| `executor_entries` | 2 entries of 2 and 1 under caps of 2, one monitored; 1 crash | `PersistBeforeSubmit`; `AtRiskWithinCaps`; `OutcomesStand`: handler, tracker and recovery never disagree, complete only on final evidence, and a restart replays what memory holds |
| `executor_exits` | 1 entry of 2 and the close of all of it, 1 crash | `LedgerCoversCustody` |
| `executor_promise` | 2 deliveries under one key, 1 crash, 1 rollback, contradicting views; fair | `KeepsPromise` (refinement of `IntentPromise`), `NotLandedIsFinal`, `SettledLedgerIsExact`, `EventuallyResolved`, `TrackerPauseLifts` |
| `redelivery` | **executor**: 2 deliveries under one key, 1 crash, live `/v1/recover` | `AtMostOncePerKey` |
| | **account**: 2 entry cycles, 2 sellers, capital 2, 1 sale decision each, 1 restart | `BooksMatchFills`, `StopNeverLoosens` |
| | **authorizer**: 2 calls, 2 cycles, budget 1, 1 in flight, 2 projections, 1 restart | `CapitalSignedOnce` |
| | **arming**: 2 handlers, 3 requests, 1 failure | `ReleaseOnEvidence` |
| | **held**: pool values 10, 4 and 1, 2 rows, 2 moves | `SafetyRemembers` |
| | **reassessment**: 3 triggers, backoff 1 to 4, 1 stumble | `RetriesBackOff` |
| `records` | **agent**: 2 cycles, 2 handlers of the message, 2 cut-offs; fair | `ExecutedAsConfirmed`, `CyclesEnd` |
| | **import**: 2 intents, pages of 2, 4 lines; fair | `NoImportableSkipped`, `ImportsCatchUp` |
| | **shadow**: 2 books, 2 changes, 2 faults; fair | `ShadowAgrees`, `SyncSettles` |
| | **custody**: 3 transactions, walk of 3, 1 failure; fair | `NothingForgotten`, `AlarmsEnd` |
| | **replay**: 1 stream, 2 candidates, window of 3 ticks | `ReplayStands` |
| | **views**: 2 views, lag 1, last valid height 2, 5 blocks | `DeadUnlessOutrun` |
| | **outage**: 2 positions of which one has no market and one a second token account, 3 commands, 3 moves, 1 mishap; fair | `HitsAreSold` |
| `protocols` | **session**: 2 requests, 2 sessions, 1 dead-man pause, 1 thrown call; fair | `AcceptedStands`, `RequestsResolve` |
| | **queue**: 2 messages under one key, 2 consumers of which one refuses a message, 2 attempts, 2 losses; fair | `EffectOnce`, `ArchivedIsAccounted`, `MessagesSettle` |
| | **lease**: 2 workers, lease 2 ticks, heartbeat 1, 2 heartbeats under way | `RoleExclusive` |
| | **alerts**: 3 channels of which one is unconfigured, escalation 2, dead man 3, 2 levels, 1 failure; fair | `DeadManFires` |
| | **audit**: 2 events, 1 mishap, TTL of 1 tick; fair | `StandingIsCurrent`, `StandingRecovers` |
| | **journal**: 2 processes, 2 tasks each, 4 lines, 4 opens | `OneHistory` |
| `executor_pause_stands`, `executor_close_pauses`, `executor_partial_exit`, `journal_concurrent`, `paper_oversell`, `session_pause_lost` | violations, section 5 | – |

`RedeliveryTypeOK`, `RecordsTypeOK` and `ProtocolsTypeOK` are the type invariants of the parts.

**What the properties mean** is said above each in its module. Some exclude, by name, what the
code does not promise; each exclusion is a finding of section 5: `CapitalSignedOnce` two requests
between evaluation and issue, flights that outlive their envelope, and rejected envelopes that
are sent; `StandingIsCurrent` a verdict whose own call saw a store move; `ReplayStands` entries
filled beyond the window; `ImportsCatchUp` a page with nothing to import; `SyncSettles` a number
used twice; `HitsAreSold` a larger second account.

**Bounds.** Constants commented "bound" cap counters.

* *Executor.* Two attempts are the smallest instance in which handlers compete for a key, a cap
  or the journal. One crash lets every prefix of journal lines be what a restart sees; a second
  one restarts recovery, whose steps are idempotent appends over the same lines (the theorems hold
  for any number). In `executor_promise` one transaction at a time is in play: it can land, be
  confirmed, vanish and land again or die, with a crash anywhere between. Notionals 2 and 1 under
  caps of 2 make either entry admissible alone and both together not. `executor_exits` sells all
  that is held; the partial close is a violation run.
* *Paper account.* Two cycles compete for capital 2 in positions of at most 2; the third role
  that sells is a copy of the second. One restart, with one role of the next process.
* *Authorizer.* Two calls are what a timed-out client and its retry make; two projections are one
  old and one new.
* *Arming.* A third request is needed for a retirement between two of another kind.
* *Held.* 10, 4 and 1 are a full pool, one under half and one under a tenth, so that a drop in
  two steps is told from one against the last row; `MaxUnknown` is 2 where the code has 5, and
  two rows reach it. With three rows (1.2 million states) the run passed by hand.
* *Reassessment.* A tick is the 60 s interval of the agents; backoff 1 and ceiling 4 stand for 1
  and 15 minutes, a history of 4 for 10 rows, so that the longest ladder has 3 steps for 5.
* *Agent.* Two revision rounds are the code's constant; two cut-offs let evidence change once.
* *Shadow, custody, import, alerts, session, audit.* Each counter is the smallest for which
  the hazard needs no more: a lost file and a late push; a transaction before, between and after
  two reads; a page boundary inside an intent; an escalation before the dead man; a pause inside a
  cycle; a store that changes inside a call. Larger instances that passed by hand: two
  reconcilers (2.5 million states), replay over two streams with one candidate (335 thousand), the audit part with
  TTL 2, 3 events and 2 mishaps (4.3 million), the outage with 2 mishaps (58 thousand).
* *Lease.* A tick is the 30 s of a heartbeat, and a row lapses when its age passes 2, at the 90 s of
  the code: one lost beat leaves the lease standing, two do not, and a second beat may be under
  way with the first. Calls, cycles and timers take any number of ticks; clocks stop counting
  past TTL, where nothing depends on them.
* *Views.* Height 2 leaves a block before, at and after it for each view, and 5 blocks let a view
  pass the height in one gap between its answers.
* *Outage.* Position 1 fails for ever and comes first in the loop; position 2 has two commands
  under way at once, sells one unit per command (`MaxTx`) and has one unit in an account the node
  lists first.

Deadlock is not checked: services whose requests are answered and whose bounds are used up rest.

**Fairness.** Each is asked of the part it belongs to.

* `executor_promise`: the interval timer starts a tracker pass whenever none runs and a pass does
  not stop half way (`WF(TrackStep)`); start-up recovery runs (`WF(RecoverStep)`), a supervisor
  having restarted the process; a decisive reading available again and again is eventually
  reported (`SF(DecisiveVerdict)`); the custody read before lifting a pause eventually succeeds
  (`SF(TrackClear)`); blockhashes expire and blocks become final. Nothing is assumed of handlers,
  providers, deliveries or operators.
* `agent`: the runner's loop goes on (`WF(RunnerStep)`); its calls may all fail.
* `import`: `WF` of a pull and of the review gate; `SF(ImportEntry)`, as a transaction tried every
  cycle is not refused for ever.
* `shadow`: the loop goes on, the database comes back (`WF`), and each call that is made again
  and again is answered again and again (`SF(Awaited(s))`).
* `custody`: `WF(PassStep)` of each runner. `session`: `WF(RoleStep)`.
* `queue`: each consumer's loop goes on, a lapsed visibility timeout shows the message
  (`WF(ConsumerStep)`, `WF(LeaseLapses)`), and a message offered again and again is read
  (`SF(Deliver)`).
* `alerts`: the loop goes on and time passes (`WF(TellerStep)`, `SF(TimePasses)`).
* `audit`: the interval of the role (`WF(CheckerStep)`).
* `outage`: the interval of the role (`WF(PatrolStep)`), and a handler of something that has a
  market does not wait for ever (`WF(HandlerStep)`; adapters' calls have timeouts), while its
  failures are as many as `MaxMishaps`; what has no market fails for ever.

`LedgerCoversCustody`, `AtRiskWithinCaps` and `SettledLedgerIsExact` are about custody of one
mint whose unit costs one unit of the settlement asset.

## 4. The proofs

`tlapm` checks every step for all values of the constants that satisfy the modules' named
assumptions (which TLC evaluates on every run): any number of entries, exits, keys, crashes,
rollbacks, views, messages, replicas and attempts, any caps and periods. Where a sum is taken the
set it is taken over is assumed finite, as what one database holds is. Each inductive invariant was first an invariant of a TLC run. A theorem's own
hypotheses are in its statement; they are named below with what happens without them.

**`ExecutorProofs`**, from `ConstantsOK`.

* `TypeCorrect`: `Spec => []TypeOK`.
* `ClaimsGuard`: `Spec => []ClaimGuardsSend`, and from it `SendsOnce`
  (`Spec => []AtMostOncePerKey`) and `PersistsFirst` (`Spec => []PersistBeforeSubmit`).
  "At most one send per key" is not inductive: from a state where two prepared attempts share a
  key, or a handler works on an attempt that was never prepared, a step breaks it. The
  strengthening says who holds the claim. `KeysClaimed`: a prepared attempt's key is claimed in
  memory *and* in what the journal replays, so neither a concurrent delivery nor one after a
  crash finds it free. `OneHolder`: one prepared attempt per key. `WorkersHold`: a handler past
  its claim works on a prepared attempt. `SendsJournaled`: a handler that has not reached the
  send has sent nothing, and has left SIGNED and SUBMITTED behind where it should.
  `SignedPending`: a signed attempt is unresolved or has an outcome. A crash resets every handler
  and replays the claims; tracker and recovery never touch `prepared`, `sends` or a claim.

**`OutcomeProofs`**, from `~LiveRecovery`: recovery runs before the service takes work, as at
start-up. With recovery on a live service both invariants fail ([section 5](#5-where-code-and-comments-disagree)).

* `NotLandedStays` (`NotLandedIsFinal`) and `OneOutcomeStands` (`OutcomesStand`). What the
  journal says of an attempt is right only because of what its writers knew when they wrote it:
  `RecoversAlone` (while recovery runs no handler does), `MarksFit` (a pending mark goes with a
  signature and a life cycle that can still move), `TrackerSure` and `RecoverySure` (a verdict in
  hand, read before an await, still holds when it is recorded: dead stays dead, and what the
  tracker read as landed can be rolled back only to what the same record revises),
  `OutcomesTrue` and `LivesFit` (memory, journal and chain agree on the outcome).
* `ServiceKeepsPromise` (`KeepsPromise`): the executor implements `IntentPromise`, what its
  callers rely on. Initial states map to initial states and each step to a step of the promise or
  a stutter; the mapping reads a key's state off the one attempt that holds it.

**`ExposureProofs`**, from `~LiveRecovery`; `NoExitFinal`: no exit is final yet.

* `ExposureInvariant`: `~LiveRecovery /\ Spec => [](NoExitFinal => ExposureInv)`, and from it
  `LedgerCoversUntilSold` (`LedgerCoversCustody`), `RiskIsCapped` (`AtRiskWithinCaps`) and
  `SettledIsCounted` (`SettledLedgerIsExact`), each as long as no exit is final: exits may be
  commanded, redelivered, sent, provisionally sold and rolled back. The caps are compared with
  sums, so the invariant ties the sum to the attempts one by one: `LedgerFits` (the open entry of
  an attempt is what its life cycle says it may cost), `GivenBack` (nothing is released for what
  may still land, nor for an exit that is not final), `CustodyFits` (the wallet holds what
  landed entries brought less what exits on chain took), `CapsHold` (counting the reservation of every
  handler past its check).
* `WholeExitCovers`: `~LiveRecovery /\ SoldWhole /\ Spec => []LedgerCoversCustody`, also after an
  exit is final. `SoldWhole`: one entry, which one action may sell whole; closes of it there may be
  any number. `AllOrNothing`: every close was planned to sell all of it, at most one is on chain, and
  from then on custody is zero and the entry cannot be rolled back, so nothing any writer releases
  is still held. With an exit of part of a position the property fails (section 5), which is
  why it is a hypothesis.

**`SumTheorems`**: a sum over a finite set grows by the value of a new member, changes by the
difference at the one that changed, is monotone. The library's induction theorems take an
operator; these proofs find the least size of a counterexample instead.

**`RecordProofs`**, from `ViewsAssumption`, `ReconciliationAssumption`, `ShadowAssumption`,
`CycleAssumption`, `ImportAssumption`, `ReplayAssumption` and `OutageAssumption`: what is on record
of the chain and of the worker.

* `DeathProofIsSound`: `Spec => []DeadUnlessOutrun`, for any number of views, any lag and any
  speed. A verdict of death says that the transaction cannot land any more; that it has not
  landed it shows only if some view had processed the last valid block when it was asked for the
  signature. `DeathIsBounded`: one that landed all the same did so, for every view, after the block
  of its first answer and below the height of its second. That gap is not empty, and nothing in
  the code keeps it so (`DeadIsDead`, section 5).
* `CustodyForgetsNothing` (`NothingForgotten`), with `ReconInvariant`. A cursor written late, by
  the slower of two cycles, is safe only because of what that cycle knew when it read: `PassFits`
  says of each cycle that what it would put behind the cursor has a row already (`Covered`) or is
  among what it stores first.
* `ShadowIsTheWorkers` (`ShadowAgrees`), with `ShadowInvariant`. `FileKept`: while the file was
  read and lost no entry, an entry's number is its place, and what is held, pushed or in hand is
  an entry. Then no push is ahead of the file, and a push that arrives late is older, never other.
* `ConfirmedIsExecuted` (`ExecutedAsConfirmed`), with `AgentInvariant`. `CycleFits`: the runner's
  place tells the state of its cycle and what both models saw, so the machine refuses none of its
  events, and none of its orders skips the rebuild of a stale packet. `NotTold`: nothing acts for
  a cycle before its row. `RowsSound`: a row that authorizes is CLEARED on the latest cutoff.
  `FillsOnce`: of the handlers of a redelivered message one links the evaluation, and only it fills.
* `NothingIsSkipped` (`NoImportableSkipped`), with `ImportInvariant`. That nothing is behind the
  cursor now says nothing of the next page. `FirstLines`: the line that makes an intent an
  emergency is its first. `Known`: the ledger names the emergencies whose first line it has. So the
  selection takes each attempt line of an emergency, whichever page its first line was in
  (`PageCovers`), and what a page that breaks off leaves out is after the cursor (`NoneBehind`).
* `ReplayIsSound`: `FillsSoon => (ReplaySpec => []ReplayStands)`, with `ReplayInvariant`. The
  money: `Balanced` sums the basis and the gain of the open positions and the rows' results
  (`SumTheorems`), and a part takes no more of the cost with it than is left (`PartOfBasis`). The
  rows: `FatesFit` counts the places a candidate may be in, and needs `RowsFit`, for a second
  pending entry of one candidate would end it twice. The times: `FillsFit` bounds each fill by the
  clock and by the moment the quotes stopped. `OneCandidate` is the step all of managing and
  executing is: it disturbs one row, one position, one entry. Without `FillsSoon` (an order fills
  within `UnquotableAfter`; 15.3 s and 15 minutes in the code, which nothing compares) a position
  is written off before its own fill: with `FillDelay = UnquotableAfter + 1` TLC finds it.
* `RecordsTyped`: `FillsSoon => (RecordsSpec => []RecordsTypeOK)`, the seven parts of the run together.
  The bounds take more than the shapes above: `Solvent` (no stream of a replay owes cash, from
  `Balanced`), `CandidatesBounded`, `EntriesDated` (no entry of the shadow is numbered past the
  changes of its book), `OutageInv` (a command sells from what the wallet holds). `FillsSoon` is there for
  `ReplayInvariant`.

**`ProtocolProofs`**: six protocols over the shared database and file system.

* Queue (`QueueAssumption`). `QueueInvariant`; from it `EffectsOnce` and `NothingDropped`
  (`QueueSpec => []ArchivedIsAccounted`). One effect per key is not inductive: a consumer that
  holds a claim it never made would commit a second one. `ClaimsHeld`: the claim of a key is a
  consumer's exactly while that consumer handles a message of the key, so a lapsed lease does not
  let a second consumer past `INSERT ... ON CONFLICT`. `EffectsClaimed`: a key has an effect
  exactly when its claim is committed (one transaction). `ArchivesBacked`: a consumer about to
  archive has a committed claim or a dead letter behind it. `LeftBacked`: so has every message
  that left the queue. A consumer that dies or throws gives its claim back with the transaction.
* Role lease. `LeaseInvariant`; from it `OneWorkerPerRole` (`RoleExclusive`), without any bound on
  what calls, cycles and timers take. `LeaseOfEngaged`: while the database granted or renewed the
  lease to a worker within TTL, the row names it and is as old as that renewal, because every other
  worker is refused the row until it lapses and a stray heartbeat renews only its own. Two workers
  in a cycle at once therefore need one whose last renewal is older than TTL; that the code lets
  such a worker go on, fenced, is `FencedStops` (section 5).
* Executor journal. `HistoryIsOne`: `Spec => []OneHistory`, for any tokens and any overlap of
  appends. `PendingBehind`: a line under way has a sequence no larger than what its process takes
  for written. So a line that is written behind another's back, by a second task or a second
  process, repeats a sequence or breaks the chain of a file that held more, and the file stops
  loading (`journal_concurrent`); where it loads, nothing a process took for written is missing from
  it. What the fence promises beyond that, a holder that knows the whole file, does not hold
  (`HolderKnowsAll`, section 5).
* Sessions (`SessionAssumption`). `SessionInvariant`; from it `AcceptedIsDone` (`AcceptedStands`).
  A transition writes the whole row from a copy. `WriteFits`: what is about to be written is the
  copy but for what the step changes, and `StepServes`: the step serves the oldest pending
  request of the batch. `CopyKnows` says how stale the copy may be: it may miss the pause of the
  dead man, but of an operator's pause or a wind-down only one whose call threw after the row was
  written, and that request is still pending. `RowTold`: at the answer the row says what was asked.
* Audit trail (`AuditAssumption`). `AuditInvariant`; from it `StandingHolds`
  (`StandingIsCurrent`). The verdict is cached under a head and a copy, both of which may come
  back after the ledger was restored and written again. `Ascending`: no event is written twice, so
  a head is at one place of any ledger; `VerdictHolds`: in *every* ledger that has the head the
  verdict was given under, the copy it names stands at or before that head, and a row that went
  bad since did so within the verdict's age. `CallKnows`: the head a call has read is still in the
  ledger unless a loss met the call.
* `ProtocolsTyped`: `ProtocolsSpec => []ProtocolsTypeOK`, with the alerts (`NotificationsAssumption`,
  `AlertShape`: a level and the times since are within the bounds of the escalation) and
  `AuditCounted` (a copy, a head and a verdict point into what was written). The journal keeps its
  types also when appends overlap.

**`AuthorityProofs`**, from `AuthorizerAssumption` and `ReleaseArmingAssumption`.

* `CapitalIsSignedOnce` (`CapitalSignedOnce`): what the authorizer has signed never exceeds the
  envelope, over every order in which requests read and write the ledger, unless somebody else
  spends beside it (`Undisturbed`). `SentOnce`, `CallsFit`, `RowsFit` and `InLedger` say what a
  call knows and what it has inserted; `WithinBudget` sums them.
* `ReleasedOnEvidence` (`ReleaseOnEvidence`): `ApprovalFits`, with the facts that evidence rows
  stay and that a status only moves onward.

**`PositionProofs`**, from `PaperAssumption`, `PaperNames` (an exit intent is not
named like a cycle, nor a seller like the entry loop), `HeldAssumption` and `ReassessmentAssumption`.

* `BooksAgree` (`BooksMatchFills`) and `StopsNeverLoosen` (`StopNeverLoosens`) of the paper
  account, with `PaperInv`. `IntentFits`: each loop works on its own intent. `NotYet`: a cycle
  that has not reached a step has left no row of it. `SaleFits`: a seller that read all of a lot
  has no less in hand than is left of it. `LotsFit`: what is left of a lot is what was bought less
  what was sold and applied. `CashFits`: cash is the start less the buys plus the sales applied.
* `SafetyIsRemembered` (`SafetyRemembers`), with `HeldInv`: all rows of a position carry one
  baseline, and the count of unknown cycles is the maximum any row of the run reached.
* `BackoffHolds`: `LadderInWindow => (ReassessSpec => RetriesBackOff)`. The role keeps no count of
  failures: it counts them in the latest `Window` outcomes, where mandatory reductions cleared
  while the models are asked come before the question's own, which began earlier. `StreakFits`:
  the failures of a streak are the newest outcomes, but the first of them may lie behind up to
  `MaxMeanwhile` reductions. `AskedFits`: since a question that left a run, some trigger's run is
  as recent as that question. `LadderInWindow` (`Enough + MaxMeanwhile <= Window`) is exact: with
  one reduction more TLC finds a question asked too early. In the code the ladder from 1 to 15
  minutes has 5 steps in a window of 10, so up to 5 reductions may be cleared during one question.
  That powers of two grow (`PowerGrows`) comes from counting subsets, as the provers have no facts
  about `^`.
* `RedeliveryTyped`: `RedeliverySpec => []RedeliveryTypeOK`, the six parts of the run together.

Only model-checked, and why:

* liveness (`EventuallyResolved`, `TrackerPauseLifts`, `RequestsResolve`, `MessagesSettle`,
  `DeadManFires`, `StandingRecovers`, `CyclesEnd`, `ImportsCatchUp`, `SyncSettles`, `AlarmsEnd`,
  `HitsAreSold`) and `ENABLED` are out of the prover's reach;
* `LedgerCoversCustody` and the outcomes with live recovery, and `LedgerCoversCustody` with an exit
  of part of a position, are violated (section 5). `AtRiskWithinCaps` and `SettledLedgerIsExact`
  are proved as long as no exit is final and checked in runs without exits: what a final exit leaves
  of an entry that was sold in part is the subject of `executor_partial_exit`.

Every other property of a passing run is stated by a theorem.

## 5. Where code and comments disagree

Runs that TLC finds violated:

* `executor_pause_stands` – `EmergencyPauseStands`. `pipeline.ts:179` says the local pause is
  "cleared only by an operator command". `applyLocalPause` (`:195-199`) does nothing when a
  pause is active. If the active one is the tracker's (`REORG_PENDING:` or `RPC_DIVERGENCE:`),
  the emergency command's pause leaves neither reason nor journal line, and the next certain
  pass clears the pause (`:672-677`).
* `executor_close_pauses` – `CloseLeavesPause`. `pipeline.ts:308-309`: "Any close action applies
  the local pause so entries cannot resume before operator review." `emergencyAction` rethrows
  a failure of the submission once the transaction may be out (`:399`) or of a missing fallback
  (`:407`), and `emergency` never reaches `:372`.
* `executor_partial_exit` – `LedgerCoversCustody`. `pipeline.ts:472`: "release the open entries of
  that mint in proportion to what was sold". When handler (`:474-477`) and tracker (`:598-601`)
  both see a partial close final, both release, and the ledger counts less than the wallet
  holds. A full close is not affected: the second release finds nothing open.
* `journal_concurrent` – `RestartLoads`. `journal.ts:9` calls the journal single-writer, but
  the fence is between processes. Two tasks of one process both fix a sequence and previous hash
  before the `await` at `:90`, and `load` refuses the file at the next start.
* `paper_oversell` – `SoldIsHeld`. `positions-repo.ts:9`: an exit "reduces exactly the lots the
  fill names". `executeExitIntent` sells what the lot it was handed held, and applies the fill
  afterwards (`position-monitor.ts:308`): two sellers with one snapshot, or one that decides again
  after a crash left a fill unapplied, sell more than the lot held.
* `session_pause_lost` – `OnlyResumeUnpauses`. `machine.ts:9`: "PAUSED: set by anyone, cleared only
  by an operator with step-up". `persist` (`session.ts:92`) writes the pause from the copy the
  cycle read at its start; a dead-man pause in between is written back to not paused.

Met while modelling, without a run of their own; where a formula of the modules states the
promise or a constant shows the case, it is named.

**Executor and outage**
* `HolderKnowsAll` of `Journal`. `journal.ts:9-11`: "A fencing token in a sidecar file
  makes the journal single-writer"; a stale holder "finds its token superseded and stops writing".
  `stop()` releases the fence (`main.ts:265`) while a tracker pass may be inside `append`, which
  does not look at the fence after its `await`: the line is written after the next executor has
  loaded the file. That executor decides without it, and its own next line breaks the chain.
  TLC shows it with one appending task per process, 3 lines and 3 opens.
* `DeadIsDead` of `FinalityViews`. `observer.ts:92`: "a transaction is conclusively dead only when its
  block height has passed and the node has no record of its signature". The heights are asked for
  (`quorum.ts:83`) when the slowest view has answered for the signature and for its head slot
  (`:38-39`), up to ten seconds a call, and a view may meanwhile process the block that holds the
  transaction and every block up to the last valid height and its lag. The executor then releases
  the exposure of a transaction that landed and calls it FAILED (`pipeline.ts:647-663`). The
  other modules assume sound verdicts of the chain (`IsDead` of `Executor`).
  TLC shows it at the bounds of the run `records`, in a behaviour of 17 steps.
* `NotLandedIsFinal` and `LedgerCoversCustody` with `LiveRecovery = TRUE`. `pipeline.ts:499`:
  "Prepared but never signed (crash between the claim and the signature): release once the
  authorization has expired." On a serving executor (`POST /v1/recover`, `internal.ts:98`) there was
  no crash: the handler has passed the expiry check (`live-adapter.ts:187`), the authorization
  expires, recovery records EXPIRED and releases the exposure (`:510-514`), and the handler signs
  and sends. What it buys is then not in the ledger.
* A mint in two token accounts: the key of an action is command and mint (`pipeline.ts:378`), so
  each command sells one and reports the other as DUPLICATE_COMMAND. If the account listed first
  asks for more than the associated account holds, every command of the mint fails.
* The worker's shadow is that of the paper account (worker `main.ts:1844`), while the executor sells
  the live wallet: a paper position's stop can sell live tokens of its mint, and a live position
  without a paper twin has no stop in an outage. The worker issues a new command each cycle while
  one may be in flight (the client gives up after 15 s), so `maxAmount` bounds a command, not what
  is sold of a position; partial closes that overlap each release from a stale share, and the
  ledger keeps counting a remainder (on the safe side).
* A torn or unterminated line of the worker's shadow file lets a sequence number be used for
  another book; the executor answers IN_SYNC and keeps the old one, contrary to
  `pipeline.ts:703-706`. An open alert keeps the pause from being set again after a RESUME.

**Authorizer and audit chain**
* `ledger.consume` is never called in production (`ledger.ts:6-7` says entries are consumed on a
  terminal outcome). The ledger forgets at expiry although a flight may outlive its envelope. Two
  requests between `authorize.ts:171` and `:238` both pass. `lastProjectionSequence` can be
  overwritten by an older request (`authorizer.ts:131`, `:141`).
* As wired (`risk-authorizer/src/main.ts:115-117`, `referenceQuote: async () => null`) every request
  ends in QUOTE_MISSING, and `state-projector` projects only the paper account.
* `audit-checkpoint` copies the current head and then verifies against the copy it just made
  (`audit-checkpoint.ts:53`, `:63`), so a ledger that was restored consistently stands again after
  one interval, contrary to `audit.ts:142-143` "A rewritten ledger fails here". A torn line voids
  the next line too. The verdict is cached under the heads read before the stores are re-read
  (authorizer `main.ts:93-98`), so a loss inside a call can be answered ok for 30 s, contrary to
  `audit.ts:150-151`.

**Paper account and positions**
* An attempt SIGNED_NOT_SUBMITTED at a crash stays in flight for ever; a crash between
  `finishAttempt` and `openPosition` leaves a COMPLETED entry without a position. The list of
  disabled roles of recovery (`main.ts:430`) omits `trading-actions`.
* The safety baseline is that of the first safety cycle (`latestEligibility`), not "the
  entry-time eligibility record" of `eligibility-repo.ts:64` (`BaselineOfEntry` of `HeldSafety`).
  A cycle counts PRIMARY_ROUTE_UNKNOWN while the emergency route is available, so an exit may be
  recommended on the first cycle that route goes stale.
* `next_reassessment_at` is never null (`position-monitor.ts:92`), so `automations/engine.ts:121` never
  uses the heartbeat per tier that `contracts/policy/automations.ts:59` describes. The "consecutive"
  count of unresolved cycles is of all failures among the last ten (the safe side).
* An older cleared EXIT is executed after a newer HOLD (`trading-actions.ts:66`).

**Sessions, releases, reconciliation, alerts, leases**
* A START whose reload throws, with autostart, opens a second session (`session.ts:97`, `:215`).
  A dead-man pause between the persist of a RESUME and `clearEntryPauses` is erased (`:178`).
* A crash between `applyReleaseStatus` and `resolve` has the request handled again: a PROMOTE that
  took hold is answered REJECTED. Attestations and ceilings are written before the status is
  compared and swapped and stay after RELEASE_CHANGED_UNDERNEATH; `latestCapitalAttestation` then
  reads a refused request's ceiling (`RefusedLeavesNoCeiling`, `release-controls.spec.ts:67-68`).
* A transaction between the balance and the signature reads, or a cursor that moves past a prefix
  the parser did not answer, gives false balance mismatches, each pausing entries. Ten pages of
  signatures are a backlog no cycle gets past. Nothing opens `trading.positions` for a live
  account, so any live buy is UNEXPECTED_TOKEN_ACCOUNT in each cycle.
* EMAIL, PUSH and SMS are `unconfiguredSender`; a failed channel is retried and recorded every 30 s
  at the alert's level, and the escalation clock starts from the last attempt, so escalation never
  passes level 1, contrary to `contracts/policy/notifications.ts:9` (`EscalationReachesTop` with
  an unconfigured channel).
* `FencedStops` of `RoleLease`. `leases.ts:5-6`: "when a heartbeat fails the holder must stop
  acting for that role immediately"; `leases.ts:35-36`: "loops must check it before every side
  effect". `loopUnderLease` asks `isFenced` between cycles only (worker `main.ts:494-502`), and no
  cycle has a time limit: it goes on beside the worker that took the lapsed lease over.
  TLC shows it at the bounds of the run `protocols`.
* A journal-import page with nothing to import never advances; a crash between `importEntry` and
  `insertEntryPauseOnce` loses the review gate.

**Replay**
* An entry decided in the last 15.3 s of the window fills after it, and a trade closed at the
  window's end then has `closedAt < openedAt`, which the `trade_order` check refuses: the whole run
  ends FAILED with its decisions stored (`ReplayStands` excludes it). A crash leaves a run RUNNING
  for ever. One shared counter makes a strategy's draws depend on which others run.

## 6. What is left out

* **Numbers.** Risk rules and sizing, pool mathematics and account decoding (`direct-pool`), fill
  models, features, metrics, signals, strategies, skills: deterministic computations over one
  input, in which a model checker on small integers would check its own copy. They appear as a
  nondeterministic verdict, size or mark.
* **Wire formats.** Contracts, canonical hashing, transaction codec, structure and simulation
  checks, generated database types, provider clients, logging.
* **The web console** and wallet UI: display and forms; what an operator can ask for is an
  external action of `Session`, `ReleaseArming`, `Executor` and `Authorizer`.
* **Worker roles for research and market data** (`candidates`, `features`, `market-ingest`,
  `intel-ingest`), provider budgets, readiness and eligibility reports.
* **SQL** beyond what the modelled components rely on (claims, leases, queues, cursors, the chain
  trigger, safety and replay rows).
* In the executor: REDUCE envelopes through `submit` (`live-entry.ts:97` sends entries only);
  several wallets; partial fills; failed transactions that a rollback revives (`FailOnChain` is
  final) and views that lie; append failures; `PROTECTION_CHANGED`, which nothing emits; the dry
  run; signed operator commands and close-all over several mints; `verifyAuthority` is
  "unexpired, nonce unused, not paused".
* In the other modules: second lots and prices of the paper account; heartbeats and the
  non-critical alert classes; approval grants; a reset executor journal; registration of owned
  addresses; event windows of automations; `SET_REQUESTED_MODE` and presence of the session; two
  processes under one `SERVICE_INSTANCE_ID` (holders are distinct in `RoleLease`).

These are most of the repository's lines: the models stand for the parts that keep state across
steps.

## 7. Plan

Proofs: whole exits of several positions of one mint, which need the shares of `record` in the
invariant; the types of a replay without `FillsSoon`.

Modules: close-all over several mints with signed commands; approval grants; the provider budget
with its concurrent callers; market ingestion with its backoff; forks that undo a failure, and two
open entries under one exit, on a reduced model of `record`.
