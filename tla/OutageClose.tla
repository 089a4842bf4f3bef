----------------------------- MODULE OutageClose -----------------------------
(* Protection while the database is down (15.10A, D22): the worker's role    *)
(* shadow-sync marks the positions of its last shadow and asks the executor  *)
(* to close each one whose stop is hit, a new command in every cycle, for as *)
(* long as the outage lasts. The executor plans each command from what the   *)
(* wallet holds, tries the order provider, then the direct pool. Calls time  *)
(* out while their command runs on, so commands for one mint overlap. Which  *)
(* shadow the executor holds, and its ledger and recovery, are in            *)
(* ShadowSync.tla and Executor.tla.                                          *)
EXTENDS Integers, Sequences

CONSTANTS
  Positions,      \* the positions of the shadow, numbered in its order, one mint each
  Commands,       \* bound: <<position, i>>, the commands that may be under way at once
  LastConfirmed,  \* position -> lastConfirmedQuantity of the shadow
  Custody,        \* position -> units in the wallet's associated account when the outage begins
  Aside,          \* position -> units in another token account the node lists before that one
  MaxTx,          \* maxTxBaseUnits of the guardrails
  NoMarket,       \* positions whose mint no path can sell
  MaxMoves,       \* bound: changes of a mark, time stops, and outages that begin or end
  MaxMishaps      \* bound: deaths of worker or executor, and failures of what could be sold

ASSUME OutageAssumption ==
  /\ Positions \subseteq Nat \ {0} /\ NoMarket \subseteq Positions
  /\ Commands \subseteq Positions \X Nat /\ {MaxMoves, MaxMishaps} \subseteq Nat
  /\ {LastConfirmed, Custody} \subseteq [Positions -> Nat \ {0}] /\ MaxTx \in Nat \ {0}
  /\ Aside \in [Positions -> Nat]

VARIABLES
  dbDown,        \* the database does not answer
  quotes,        \* position -> what a live exit quote says: "above" or "below" its stop, or "none"
  expired,       \* positions past their time stop
  patrol,        \* the role: failed reads in a row, hits still to be closed, the call it awaits
  commands,      \* command -> the step of its handler, and the sales it has left
  claims,        \* idempotency keys of emergency actions in the registry
  wallet,        \* position -> units in its associated account
  moves, mishaps

outageVars == <<dbDown, quotes, expired, patrol, commands, claims, wallet, moves, mishaps>>
marketVars == <<dbDown, quotes, expired, moves>>

\* Reads that must fail before the shadow is used (dbDownAfterFailures of main.ts).
DownAfter == 2

NoCall == <<0, 0>>
OffDuty == [failures |-> 0, hits |-> {}, call |-> NoCall]
NoCommand == [at |-> "free", sales |-> <<>>]
Smallest(S) == CHOOSE i \in S : \A j \in S : i <= j

OutageInit ==
  /\ dbDown = FALSE /\ expired = {} /\ moves = 0 /\ mishaps = 0
  /\ quotes = [p \in Positions |-> "above"] /\ patrol = OffDuty
  /\ commands = [c \in Commands |-> NoCommand] /\ claims = {} /\ wallet = Custody

----------------------------------------------------------------------------
(* The market, the clock, the database.                                     *)

Move == moves < MaxMoves /\ moves' = moves + 1

MarkMoves ==
  /\ Move
  /\ \E p \in Positions, q \in {"above", "below", "none"} : quotes' = [quotes EXCEPT ![p] = q]
  /\ UNCHANGED <<dbDown, expired, patrol, commands, claims, wallet, mishaps>>

TimeStopPasses ==
  /\ Move /\ \E p \in Positions : expired' = expired \cup {p}
  /\ UNCHANGED <<dbDown, quotes, patrol, commands, claims, wallet, mishaps>>

OutageBeginsOrEnds ==
  /\ Move /\ dbDown' = ~dbDown
  /\ UNCHANGED <<quotes, expired, patrol, commands, claims, wallet, mishaps>>

----------------------------------------------------------------------------
(* The role: runShadowSyncCycle as far as the database fails.               *)

\* evaluateShadowStops: a price stop needs a mark, a time stop does not.
StopHit(p) == quotes[p] = "below" \/ p \in expired

\* What cannot be sold fails for ever; anything else as often as the bound allows.
Mishap(p) ==
  IF p \in NoMarket THEN UNCHANGED mishaps ELSE mishaps < MaxMishaps /\ mishaps' = mishaps + 1

Patrolling == patrol.hits # {}

\* A cycle that reads the database; what it does then is ShadowSync.tla's subject.
CycleReads ==
  /\ ~Patrolling /\ ~dbDown /\ patrol' = OffDuty
  /\ UNCHANGED <<marketVars, commands, claims, wallet, mishaps>>

\* A cycle that fails to: the second one in a row, and each one after it, marks the positions.
CycleFindsNoDatabase ==
  /\ ~Patrolling /\ dbDown
  /\ LET failed == IF patrol.failures < DownAfter THEN patrol.failures + 1 ELSE DownAfter
     IN  patrol' = [OffDuty EXCEPT
           !.failures = failed,
           !.hits = IF failed < DownAfter THEN {} ELSE {p \in Positions : StopHit(p)}]
  /\ UNCHANGED <<marketVars, commands, claims, wallet, mishaps>>

\* A mutant: a call that fails ends the cycle.
OnwardIfAnswered(answered) ==
  patrol' = [patrol EXCEPT !.hits = IF answered THEN @ \ {Smallest(@)} ELSE {}, !.call = NoCall]

\* The role is done with the first of its hits: its call was answered, or threw and was logged.
Onward(answered) ==
  patrol' = [patrol EXCEPT !.hits = @ \ {Smallest(@)}, !.call = NoCall]

\* emergencyMonitor: the command arrives, and is journaled, under a fresh id.
IssueClose(c) ==
  /\ Patrolling /\ patrol.call = NoCall /\ commands[c] = NoCommand
  /\ c[1] = Smallest(patrol.hits) /\ patrol' = [patrol EXCEPT !.call = c]
  /\ commands' = [commands EXCEPT ![c].at = "received"]
  /\ UNCHANGED <<marketVars, claims, wallet, mishaps>>

\* The bound on commands: one more for this mint is not let in.
BusyWith(p) == \A c \in Commands : c[1] = p => commands[c] # NoCommand

CloseUnreachable ==
  /\ Patrolling /\ patrol.call = NoCall /\ Onward(FALSE)
  /\ \/ Mishap(Smallest(patrol.hits))
     \/ BusyWith(Smallest(patrol.hits)) /\ UNCHANGED mishaps
  /\ UNCHANGED <<marketVars, commands, claims, wallet>>

\* After fifteen seconds the role stops waiting; the command goes on.
CloseTimesOut ==
  /\ Patrolling /\ patrol.call \in Commands /\ Onward(FALSE)
  /\ UNCHANGED <<marketVars, commands, claims, wallet, mishaps>>

----------------------------------------------------------------------------
(* The executor: emergency and emergencyAction of one command.              *)

\* The command is over; the role, if it still waits for it, has its answer.
Over(c, answered) ==
  /\ commands' = [commands EXCEPT ![c] = NoCommand]
  /\ IF patrol.call = c THEN Onward(answered) ELSE UNCHANGED patrol

CommandTo(c, at) == commands' = [commands EXCEPT ![c].at = at] /\ UNCHANGED patrol

\* What consider() of the planner lets a command sell of a holding.
Allowed(p, holding) == Smallest({holding, LastConfirmed[p], MaxTx})
FirstSale(p) == IF Aside[p] > 0 THEN Allowed(p, Aside[p]) ELSE 1

\* One sale for each token account of the mint that holds anything, in the node's order.
Sales(p) ==
  (IF Aside[p] > 0 THEN <<Allowed(p, Aside[p])>> ELSE <<>>) \o
  (IF wallet[p] > 0 THEN <<Allowed(p, wallet[p])>> ELSE <<>>)

\* A mutant: the key is that of the mint, whatever the command.
ActionKeyOfMint(c) == <<NoCall, c[1]>>

\* `emergency:${commandId}:${mint}`. Ids are fresh: the next command on c has another one, so
\* the keys of this one need not be kept when it is over.
ActionKey(c) == <<c, c[1]>>
Forgotten(c) == {k \in claims : k[1] # c}

\* The loop over the plan's actions: the first sale claims the key and goes for its order. The
\* key does not tell two accounts of a mint apart, so every later sale of the command is
\* SKIPPED as DUPLICATE_COMMAND.
GoOnWith(c, sales) ==
  IF sales = <<>> \/ ActionKey(c) \in claims
  THEN Over(c, TRUE) /\ claims' = Forgotten(c)
  ELSE /\ commands' = [commands EXCEPT ![c] = [at |-> "ordering", sales |-> sales]]
       /\ claims' = claims \cup {ActionKey(c)} /\ UNCHANGED patrol

\* The first sale has ended without a throw.
SaleEnds(c) == GoOnWith(c, Tail(commands[c].sales))

\* A plan without an action is answered as ASSET_NOT_HELD.
PlanFromCustody(c) ==
  /\ commands[c].at = "received" /\ GoOnWith(c, Sales(c[1]))
  /\ UNCHANGED <<marketVars, wallet, mishaps>>

CustodyUnread(c) ==
  /\ commands[c].at = "received" /\ Over(c, FALSE)
  /\ Mishap(c[1]) /\ UNCHANGED <<marketVars, claims, wallet>>

\* The provider has no route or throws before anything is signed (PRIMARY_UNAVAILABLE).
PrimaryUnavailable(c) ==
  /\ commands[c].at = "ordering" /\ CommandTo(c, "rerouting")
  /\ UNCHANGED <<marketVars, claims, wallet, mishaps>>

\* Refused before it is sent, by either path: recorded as FAILED.
CloseRefused(c) ==
  /\ commands[c].at \in {"ordering", "rerouting"} /\ SaleEnds(c)
  /\ Mishap(c[1]) /\ UNCHANGED <<marketVars, wallet>>

\* No direct-pool route either, or a path that throws once it has signed: so does the command.
CloseThrows(c) ==
  /\ commands[c].at \in {"ordering", "rerouting"} /\ Over(c, FALSE)
  /\ claims' = Forgotten(c)
  /\ Mishap(c[1]) /\ UNCHANGED <<marketVars, wallet>>

SendClose(c) ==
  /\ commands[c].at \in {"ordering", "rerouting"} /\ c[1] \notin NoMarket
  /\ CommandTo(c, "sent")
  /\ UNCHANGED <<marketVars, claims, wallet, mishaps>>

\* The chain takes the whole amount from the associated account, whichever account the sale was
\* planned for (orders and pool swaps name the mint), or fails the transaction if there is
\* less: because the other account held more, or because another command has sold since.
Included(c) ==
  LET amount == Head(commands[c].sales)
  IN  /\ commands[c].at = "sent" /\ SaleEnds(c)
      /\ wallet' = [wallet EXCEPT ![c[1]] = IF @ >= amount THEN @ - amount ELSE @]
      /\ UNCHANGED <<marketVars, mishaps>>

NeverIncluded(c) ==
  /\ commands[c].at = "sent" /\ SaleEnds(c)
  /\ Mishap(c[1]) /\ UNCHANGED <<marketVars, wallet>>

----------------------------------------------------------------------------
(* Deaths.                                                                  *)

\* The counter of failed reads is the process's: the next one counts from zero.
PatrolDies ==
  /\ mishaps < MaxMishaps /\ mishaps' = mishaps + 1 /\ patrol' = OffDuty
  /\ UNCHANGED <<marketVars, commands, claims, wallet>>

\* Handlers die with the executor, the caller gets an error; what was sent stays sent.
CloserDies ==
  /\ mishaps < MaxMishaps /\ mishaps' = mishaps + 1
  /\ commands' = [c \in Commands |->
       IF commands[c].at = "sent" THEN [commands[c] EXCEPT !.sales = <<Head(@)>>] ELSE NoCommand]
  /\ claims' = {k \in claims : \A c \in Commands : k[1] = c => commands[c].at = "sent"}
  /\ IF patrol.call \in Commands THEN Onward(FALSE) ELSE UNCHANGED patrol
  /\ UNCHANGED <<marketVars, wallet>>

----------------------------------------------------------------------------
PatrolStep ==
  \/ CycleReads \/ CycleFindsNoDatabase \/ CloseUnreachable \/ CloseTimesOut
  \/ \E c \in Commands : IssueClose(c)

HandlerStep(c) ==
  \/ PlanFromCustody(c) \/ CustodyUnread(c) \/ PrimaryUnavailable(c) \/ CloseRefused(c)
  \/ CloseThrows(c) \/ SendClose(c) \/ Included(c) \/ NeverIncluded(c)

OutageNext ==
  \/ MarkMoves \/ TimeStopPasses \/ OutageBeginsOrEnds \/ PatrolStep
  \/ \E c \in Commands : HandlerStep(c)
  \/ PatrolDies \/ CloserDies

OutageSpec == OutageInit /\ [][OutageNext]_outageVars

\* The role goes from cycle to cycle, and what can be sold does not wait for ever.
OutageFairness ==
  /\ WF_patrol(PatrolStep)
  /\ \A c \in Commands : c[1] \notin NoMarket => WF_commands(HandlerStep(c))

OutageTypeOK ==
  /\ dbDown \in BOOLEAN /\ quotes \in [Positions -> {"above", "below", "none"}]
  /\ expired \subseteq Positions /\ moves \in 0..MaxMoves /\ mishaps \in 0..MaxMishaps
  /\ patrol \in [failures : 0..DownAfter, hits : SUBSET Positions, call : Commands \cup {NoCall}]
  /\ \A c \in Commands :
       \/ commands[c] = NoCommand
       \/ /\ commands[c].at \in {"received", "ordering", "rerouting", "sent"}
          /\ commands[c].sales \in Seq(1..MaxTx)
  /\ claims \subseteq (Commands \cup {NoCall}) \X Positions
  /\ \A p \in Positions : wallet[p] \in 0..Custody[p]

\* A position whose stop stays hit in an outage that lasts is sold in the end, all that the
\* associated account holds of it (but what is less than the account listed before it makes
\* the command ask for), however many commands that takes: although another position cannot
\* be sold or its call never answers, and commands for a mint overlap, fail and are forgotten.
\* (Never buying, the wallet stays without what was sold: so it comes back to this for ever.)
HitsAreSold ==
  \A p \in Positions \ NoMarket : []<>(dbDown /\ StopHit(p) => wallet[p] < FirstSale(p))

=============================================================================
