---------------------------- MODULE PaperAccount ----------------------------
(* The paper account of the worker: the role paper-entry, the three roles   *)
(* that sell (position-monitor, manual-actions, trading-actions), the paper *)
(* adapter they share the code of, the tables they write, and the recovery  *)
(* a restarted worker runs before its loops.                                *)
(*                                                                          *)
(* Each role is one loop of one process under a lease of its own, so there  *)
(* is at most one step of a role at a time, and any interleaving of roles   *)
(* at an await. A position is named by the cycle that entered it and has    *)
(* one lot; prices are 1:1, so an amount of cash buys as many tokens.       *)
EXTENDS Integers, FiniteSets, Functions

CONSTANTS
  Cycles,        \* cleared ENTER cycles
  Sellers,       \* the loops that sell
  Tighteners,    \* those of them that also raise stops (not manual-actions)
  Survivor,      \* the seller recovery does not disable (trading-actions)
  Capital,       \* starting capital of the account
  PositionCap,   \* the policy's largest position
  MaxDecisions,  \* bound: decisions of one seller
  MaxStop,       \* bound: levels of a stop
  MaxRestarts    \* bound: crashes of the worker

ASSUME PaperAssumption ==
  /\ Capital \in Nat /\ PositionCap \in Nat \ {0} /\ MaxStop \in Nat
  /\ MaxDecisions \in Nat /\ MaxRestarts \in Nat
  /\ Survivor \in Sellers /\ Tighteners \subseteq Sellers
  /\ IsFiniteSet(Cycles) /\ IsFiniteSet(Sellers)

VARIABLES
  entered,       \* cycle -> size its risk evaluation allowed, 0 refused
  lifecycle,     \* intent -> lifecycle_state
  attempt,       \* intent -> state of its newest order attempt
  filled,        \* intent -> quantity of its finalized fill
  sale,          \* exit intent -> the position it sells and how much of it
  position,      \* cycle -> the position it opened
  loop,          \* role -> where its step stands, and the snapshot it works on
  startup,       \* "running", or the recovery statement that comes next
  decisions,     \* seller -> decisions it took
  roles,         \* the roles recovery let start
  restarts

paperVars == <<entered, lifecycle, attempt, filled, sale, position, loop,
               startup, decisions, roles, restarts>>

Entry == "paper-entry"
PaperRoles == Sellers \cup {Entry}
ExitIntents == Sellers \X (1..MaxDecisions)
Intents == Cycles \cup ExitIntents

\* Identifiers are unique: an entry is no exit, and paper-entry does not sell.
ASSUME PaperNames == Cycles \cap ExitIntents = {} /\ Entry \notin Sellers

Pending == {"AUTHORIZED", "EXECUTING"}
Unfilled == {"EXPIRED", "FAILED", "CANCELLED"}
Lifecycles == Pending \cup Unfilled \cup {"none", "COMPLETED"}
PaperAttempts == {"none", "PREPARED", "SIGNED_NOT_SUBMITTED", "FINALIZED", "NOT_LANDED"}

Unevaluated == -1
Idle == [at |-> "idle"]
NoSale == [of |-> "none", quantity |-> 0]
NoPosition == [status |-> "none", quantity |-> 0, stop |-> 0]

PaperInit ==
  /\ entered = [c \in Cycles |-> Unevaluated]
  /\ lifecycle = [i \in Intents |-> "none"]
  /\ attempt = [i \in Intents |-> "none"]
  /\ filled = [i \in Intents |-> 0]
  /\ sale = [x \in ExitIntents |-> NoSale]
  /\ position = [c \in Cycles |-> NoPosition]
  /\ loop = [r \in PaperRoles |-> Idle]
  /\ decisions = [r \in Sellers |-> 0]
  /\ startup = "running" /\ roles = PaperRoles /\ restarts = 0

\* The row's or request's try block ends here: the loop takes the next one.
Leave(r) == loop' = [loop EXCEPT ![r] = Idle]
Go(r, at) == loop' = [loop EXCEPT ![r].at = at]
Ready(r, at) == startup = "running" /\ r \in roles /\ loop[r].at = at

----------------------------------------------------------------------------
(* The book: cash comes from fills, commitments from open entry intents.   *)

Sold == SumFunctionOnSet(filled, ExitIntents)
Cash == Capital - SumFunctionOnSet(filled, Cycles) + Sold
PendingExposure ==
  SumFunction([c \in Cycles |-> IF lifecycle[c] \in Pending THEN entered[c] ELSE 0])
InFlightIncreasing == {c \in Cycles : lifecycle[c] = "EXECUTING"}

\* Mutant: all the cash, whatever the largest position may be.
EntryUncapped == Cash - PendingExposure

EntrySize ==
  LET available == Cash - PendingExposure
  IN  IF available < PositionCap THEN available ELSE PositionCap

\* One awaiting cycle: read book and health, evaluate. Health may refuse.
EvaluateCycle(c) ==
  /\ Ready(Entry, "idle") /\ entered[c] = Unevaluated
  /\ \E healthy \in BOOLEAN :
       LET allowed == healthy /\ EntrySize > 0 /\ InFlightIncreasing = {}
       IN  loop' = [loop EXCEPT ![Entry] =
             [at |-> "evaluated", intent |-> c,
              size |-> IF allowed THEN EntrySize ELSE 0]]
  /\ UNCHANGED <<entered, lifecycle, attempt, filled, sale, position, startup, decisions, roles, restarts>>

\* recordRiskEvaluation: the evaluation is linked to its cycle once.
RecordEvaluation ==
  /\ Ready(Entry, "evaluated")
  /\ LET c == loop[Entry].intent
         size == loop[Entry].size
     IN  /\ entered[c] = Unevaluated
         /\ entered' = [entered EXCEPT ![c] = size]
         /\ IF size = 0 THEN Leave(Entry) ELSE Go(Entry, "decided")
  /\ UNCHANGED <<lifecycle, attempt, filled, sale, position, startup, decisions, roles, restarts>>

----------------------------------------------------------------------------
(* Sellers: a snapshot of an open position, then decisions taken from it.   *)

OpenPositions == {c \in Cycles : position[c].status = "OPEN" /\ position[c].quantity > 0}
\* Counts a decision against MaxDecisions: a bound, no state of the code.
Decide(r) == decisions[r] < MaxDecisions /\ decisions' = [decisions EXCEPT ![r] = @ + 1]

\* Load a position and decide: EXIT sells the snapshot, REDUCE a part of it.
DecideExit(r, c) ==
  /\ Ready(r, "idle") /\ c \in OpenPositions
  /\ Decide(r)
  /\ \E q \in 1..position[c].quantity :
       loop' = [loop EXCEPT ![r] =
         [at |-> "cleared", intent |-> <<r, decisions'[r]>>, position |-> c, size |-> q,
          closes |-> q = position[c].quantity]]
  /\ UNCHANGED <<entered, lifecycle, attempt, filled, sale, position, startup, roles, restarts>>

\* recordExitDecision, or recordRiskEvaluation for a cleared cycle.
RecordExitDecision(r) ==
  /\ Ready(r, "cleared")
  /\ sale' = [sale EXCEPT ![loop[r].intent] = [of |-> loop[r].position, quantity |-> loop[r].size]]
  /\ Go(r, "decided")
  /\ UNCHANGED <<entered, lifecycle, attempt, filled, position, startup, decisions, roles, restarts>>

\* TIGHTEN_STOP or ADJUST_PROTECTION: a level from a snapshot or a proposal.
DecideStop(r, c) ==
  /\ r \in Tighteners /\ Ready(r, "idle") /\ c \in OpenPositions /\ Decide(r)
  /\ \E level \in 1..MaxStop :
       loop' = [loop EXCEPT ![r] = [at |-> "tighten", position |-> c, level |-> level]]
  /\ UNCHANGED <<entered, lifecycle, attempt, filled, sale, position, startup, roles, restarts>>

\* Mutant: the level is written whatever the stored stop is.
SetStop(r) ==
  /\ Ready(r, "tighten")
  /\ position' = [position EXCEPT ![loop[r].position].stop = loop[r].level]
  /\ Leave(r)
  /\ UNCHANGED <<entered, lifecycle, attempt, filled, sale, startup, decisions, roles, restarts>>

\* tightenStop: the update is conditional on the stored stop.
TightenStop(r) ==
  /\ Ready(r, "tighten")
  /\ LET c == loop[r].position
     IN  position' = IF position[c].status # "CLOSED" /\ position[c].stop < loop[r].level
                     THEN [position EXCEPT ![c].stop = loop[r].level] ELSE position
  /\ Leave(r)
  /\ UNCHANGED <<entered, lifecycle, attempt, filled, sale, startup, decisions, roles, restarts>>

----------------------------------------------------------------------------
(* The intent of either kind, and the adapter.                              *)

CreateIntent(r) ==
  /\ Ready(r, "decided")
  /\ lifecycle' = [lifecycle EXCEPT ![loop[r].intent] = "AUTHORIZED"]
  /\ Go(r, "created")
  /\ UNCHANGED <<entered, attempt, filled, sale, position, startup, decisions, roles, restarts>>

StartExecuting(r) ==
  /\ Ready(r, "created")
  /\ lifecycle' = [lifecycle EXCEPT ![loop[r].intent] = "EXECUTING"]
  /\ Go(r, "executing")
  /\ UNCHANGED <<entered, attempt, filled, sale, position, startup, decisions, roles, restarts>>

\* executeDetailed before the pseudo-signature: the attempt is not journaled.
RejectBeforeSubmit(r) ==
  /\ Ready(r, "executing")
  /\ Go(r, "PREPARED")
  /\ UNCHANGED <<entered, lifecycle, attempt, filled, sale, position, startup, decisions, roles, restarts>>

\* executeDetailed journals SIGNED_NOT_SUBMITTED, then ends the attempt.
JournalAttempt(r) ==
  /\ Ready(r, "executing")
  /\ attempt' = [attempt EXCEPT ![loop[r].intent] = "SIGNED_NOT_SUBMITTED"]
  /\ \E end \in {"FINALIZED", "NOT_LANDED"} : Go(r, end)
  /\ UNCHANGED <<entered, lifecycle, filled, sale, position, startup, decisions, roles, restarts>>

\* Mutant: the fill of an exit is not recorded with its attempt.
FinishUnrecorded(r) ==
  /\ \E end \in {"PREPARED", "FINALIZED", "NOT_LANDED"} :
       /\ Ready(r, end)
       /\ attempt' = [attempt EXCEPT ![loop[r].intent] = end]
       /\ filled' = IF end = "FINALIZED" /\ r = Entry THEN [filled EXCEPT ![loop[r].intent] = loop[r].size] ELSE filled
       /\ Go(r, IF end = "FINALIZED" THEN "filled" ELSE "unfilled")
  /\ UNCHANGED <<entered, lifecycle, sale, position, startup, decisions, roles, restarts>>

\* finishAttempt: the attempt's last state and its fill in one transaction.
FinishAttempt(r) ==
  /\ \E end \in {"PREPARED", "FINALIZED", "NOT_LANDED"} :
       /\ Ready(r, end)
       /\ attempt' = [attempt EXCEPT ![loop[r].intent] = end]
       /\ filled' = IF end = "FINALIZED" THEN [filled EXCEPT ![loop[r].intent] = loop[r].size] ELSE filled
       /\ Go(r, IF end = "FINALIZED" THEN "filled" ELSE "unfilled")
  /\ UNCHANGED <<entered, lifecycle, sale, position, startup, decisions, roles, restarts>>

\* Not filled: EXPIRED or CANCELLED before the submission, FAILED after it.
CloseUnfilled(r) ==
  /\ Ready(r, "unfilled")
  /\ \E end \in IF attempt[loop[r].intent] = "NOT_LANDED" THEN {"FAILED"} ELSE {"EXPIRED", "CANCELLED"} :
       lifecycle' = [lifecycle EXCEPT ![loop[r].intent] = end]
  /\ Leave(r)
  /\ UNCHANGED <<entered, attempt, filled, sale, position, startup, decisions, roles, restarts>>

OpenPosition ==
  /\ Ready(Entry, "filled")
  /\ position' = [position EXCEPT ![loop[Entry].intent] =
       [status |-> "OPEN", quantity |-> loop[Entry].size, stop |-> 0]]
  /\ Go(Entry, "opened")
  /\ UNCHANGED <<entered, lifecycle, attempt, filled, sale, startup, decisions, roles, restarts>>

CompleteEntry ==
  /\ Ready(Entry, "opened")
  /\ lifecycle' = [lifecycle EXCEPT ![loop[Entry].intent] = "COMPLETED"]
  /\ Leave(Entry)
  /\ UNCHANGED <<entered, attempt, filled, sale, position, startup, decisions, roles, restarts>>

\* applyExit: lot, position and intent in one transaction. It throws when the
\* lot no longer holds the quantity, and the intent stays EXECUTING.
ApplyExit(r) ==
  /\ r \in Sellers /\ Ready(r, "filled")
  /\ LET c == loop[r].position
     IN  IF position[c].status # "CLOSED" /\ position[c].quantity >= loop[r].size
         THEN /\ position' = [position EXCEPT
                    ![c].quantity = @ - loop[r].size,
                    ![c].status = IF loop[r].closes THEN "CLOSED" ELSE "OPEN"]
              /\ lifecycle' = [lifecycle EXCEPT ![loop[r].intent] = "COMPLETED"]
         ELSE UNCHANGED <<position, lifecycle>>
  /\ Leave(r)
  /\ UNCHANGED <<entered, attempt, filled, sale, startup, decisions, roles, restarts>>

\* Any awaited call of a step may throw: the step ends, what it wrote stays.
StepThrows(r) ==
  /\ startup = "running" /\ loop[r].at # "idle"
  /\ Leave(r)
  /\ UNCHANGED <<entered, lifecycle, attempt, filled, sale, position, startup, decisions, roles, restarts>>

----------------------------------------------------------------------------
(* The crash of the worker, and runStartupRecovery.                         *)

CrashWorker ==
  /\ restarts < MaxRestarts
  /\ restarts' = restarts + 1 /\ startup' = "settle"
  /\ loop' = [r \in PaperRoles |-> Idle]
  /\ UNCHANGED <<entered, lifecycle, attempt, filled, sale, position, decisions, roles>>

SettleFromAttempts ==
  /\ startup = "settle" /\ startup' = "expire"
  /\ lifecycle' = [i \in Intents |->
       CASE lifecycle[i] = "EXECUTING" /\ attempt[i] = "FINALIZED" -> "COMPLETED"
         [] lifecycle[i] = "EXECUTING" /\ attempt[i] = "NOT_LANDED" -> "FAILED"
         [] OTHER -> lifecycle[i]]
  /\ UNCHANGED <<entered, attempt, filled, sale, position, loop, decisions, roles, restarts>>

\* Which of the open intents are past their expiry depends on the outage.
ExpireStale ==
  /\ startup = "expire" /\ startup' = "orphans"
  /\ \E stale \in SUBSET {i \in Intents : lifecycle[i] = "AUTHORIZED"} :
       lifecycle' = [i \in Intents |-> IF i \in stale THEN "EXPIRED" ELSE lifecycle[i]]
  /\ UNCHANGED <<entered, attempt, filled, sale, position, loop, decisions, roles, restarts>>

FailOrphaned ==
  /\ startup = "orphans" /\ startup' = "resume"
  /\ \E stale \in SUBSET {i \in Intents : lifecycle[i] = "EXECUTING" /\ attempt[i] = "none"} :
       lifecycle' = [i \in Intents |-> IF i \in stale THEN "FAILED" ELSE lifecycle[i]]
  /\ UNCHANGED <<entered, attempt, filled, sale, position, loop, decisions, roles, restarts>>

Exposed ==
  \/ \E c \in Cycles : position[c].status = "OPEN"
  \/ \E i \in Intents : attempt[i] = "SIGNED_NOT_SUBMITTED"

\* resume is false when reconciliation could not run and exposure is open.
StartRoles ==
  /\ startup = "resume" /\ startup' = "running"
  /\ \E reconciled \in BOOLEAN :
       roles' = IF reconciled \/ ~Exposed THEN PaperRoles ELSE {Survivor}
  /\ UNCHANGED <<entered, lifecycle, attempt, filled, sale, position, loop, decisions, restarts>>

RecoverWorker == SettleFromAttempts \/ ExpireStale \/ FailOrphaned \/ StartRoles

PaperNext ==
  \/ \E c \in Cycles : EvaluateCycle(c)
  \/ RecordEvaluation \/ OpenPosition \/ CompleteEntry
  \/ \E r \in Sellers, c \in Cycles : DecideExit(r, c) \/ DecideStop(r, c)
  \/ \E r \in Sellers : RecordExitDecision(r) \/ TightenStop(r) \/ ApplyExit(r)
  \/ \E r \in PaperRoles :
       \/ CreateIntent(r) \/ StartExecuting(r) \/ RejectBeforeSubmit(r)
       \/ JournalAttempt(r) \/ FinishAttempt(r) \/ CloseUnfilled(r) \/ StepThrows(r)
  \/ CrashWorker \/ RecoverWorker

PaperSpec == PaperInit /\ [][PaperNext]_paperVars

----------------------------------------------------------------------------
PaperTypeOK ==
  /\ entered \in [Cycles -> Unevaluated..PositionCap]
  /\ lifecycle \in [Intents -> Lifecycles] /\ attempt \in [Intents -> PaperAttempts]
  /\ filled \in [Intents -> 0..PositionCap]
  /\ position \in [Cycles -> [status : {"none", "OPEN", "CLOSED"},
                              quantity : 0..PositionCap, stop : 0..MaxStop]]
  /\ roles \subseteq PaperRoles /\ restarts \in 0..MaxRestarts

SoldOf(c) == SumFunctionOnSet(filled, {x \in ExitIntents : sale[x].of = c})

\* An entry counts once its intent is open, filled or in doubt.
Committed ==
  [c \in Cycles |-> IF filled[c] > 0 THEN filled[c] ELSE IF lifecycle[c] \in Pending THEN entered[c] ELSE 0]

(* The account's books agree with its fills, at every step of every seller *)
(* and across a crash between a fill and its application. A lot shrinks     *)
(* only against finalized fills (INV-22): what a position has released      *)
(* never exceeds what was sold of it, and one closed from a snapshot        *)
(* another seller sold from in the meantime holds nothing. Whoever ends an  *)
(* intent, the role or the recovery of a later process, an intent that      *)
(* ended unfilled has no fill, one that is COMPLETED has one. And entries   *)
(* never commit more cash than the account has, whatever crashes left.      *)
BooksMatchFills ==
  /\ \A c \in Cycles : position[c].status # "none" =>
       /\ filled[c] - position[c].quantity <= SoldOf(c)
       /\ position[c].status = "CLOSED" => position[c].quantity = 0
  /\ \A i \in Intents :
       /\ lifecycle[i] \in Unfilled => filled[i] = 0
       /\ lifecycle[i] = "COMPLETED" => filled[i] > 0
  /\ SumFunction(Committed) <= Capital + Sold

(* D39: two loops that decided a stop from different snapshots never lower  *)
(* the stop of an open position.                                            *)
StopNeverLoosens ==
  [][\A c \in Cycles : position[c].status = "OPEN" => position'[c].stop >= position[c].stop]_paperVars

(* positions-repo.ts:9 an exit "reduces exactly the lots the fill names":   *)
(* what was sold of a position was held by it.                              *)
SoldIsHeld ==
  \A c \in Cycles : position[c].status # "none" => SoldOf(c) <= filled[c]
=============================================================================
