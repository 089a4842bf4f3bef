--------------------------- MODULE Reconciliation ---------------------------
(* Custody reconciliation: the chain's balances and transactions of one     *)
(* trading wallet against the ledger, behind a cursor. A cycle reads the    *)
(* cursor, the balances, the signatures after the cursor and what the       *)
(* parser and the database make of them, each at its own time, and stores   *)
(* its report, the cursor and the pause in one transaction. The role's loop *)
(* runs under a lease; a starting worker runs one more cycle without it.    *)
EXTENDS Integers, Sequences, FiniteSetsExt

CONSTANTS
  Runners,       \* who runs cycles: "loop", the role, and "startup", a starting worker
  Walk,          \* signatures a cycle walks: MAX_SIGNATURE_PAGES pages of maxSignaturesPerCycle
  MaxTxs,        \* bound: transactions of the wallet
  MaxFailures    \* bound: failed reads and stores, and dead workers

ASSUME ReconciliationAssumption ==
  /\ Runners \subseteq {"loop", "startup"}
  /\ {Walk, MaxTxs, MaxFailures} \subseteq Nat /\ Walk > 0

VARIABLES
  chain,         \* the wallet's transactions, oldest first
  agree,         \* the token accounts hold what the open positions say
  cursor,        \* lastSignature, and the transactions the SOL baseline includes
  passes,        \* the cycle of the role's loop and of the starting worker
  unknownRows,   \* transactions with a row UNKNOWN in trading.custody_movements
  lastReport,    \* status of the newest report
  custodyPause,  \* the session is paused with CUSTODY_RECONCILIATION_MISMATCH
  failures       \* failures so far

reconVars == <<chain, agree, cursor, passes, unknownRows, lastReport, custodyPause, failures>>

Statuses == {"none", "CLEAN", "MISMATCH", "UNAVAILABLE"}
NoBaseline == -1

\* A transfer nobody claims; or a move inside registered custody, or a funding
\* transfer, which its attempt row or claim explains. Each moves SOL by more than
\* the tolerance.
TxKinds == {"foreign", "internal"}
Seen == 1..Len(chain)

NoCursor == [last |-> 0, base |-> NoBaseline]
NoPass == [at |-> "idle", from |-> 0, base |-> NoBaseline, read |-> 0, drifted |-> FALSE,
           to |-> 0, status |-> "none", next |-> NoCursor, unknown |-> {}]

ReconInit ==
  /\ chain = <<>> /\ agree \in BOOLEAN
  /\ cursor = NoCursor
  /\ passes = [r \in Runners |-> NoPass]
  /\ unknownRows = {} /\ lastReport = "none" /\ custodyPause = FALSE /\ failures = 0

----------------------------------------------------------------------------
(* The world.                                                               *)

Lands(k) ==
  /\ Len(chain) < MaxTxs /\ chain' = Append(chain, k)
  /\ UNCHANGED <<agree, cursor, passes, unknownRows, lastReport, custodyPause, failures>>

TokensAgree ==
  /\ ~agree /\ agree' = TRUE
  /\ UNCHANGED <<chain, cursor, passes, unknownRows, lastReport, custodyPause, failures>>

----------------------------------------------------------------------------
(* A cycle.                                                                 *)

PassTo(r, p) ==
  /\ passes' = [passes EXCEPT ![r] = p]
  /\ UNCHANGED <<chain, agree, cursor, unknownRows, lastReport, custodyPause>>

Fails == failures < MaxFailures /\ failures' = failures + 1

BeginPass(r) ==
  /\ passes[r].at = "idle"
  /\ PassTo(r, [NoPass EXCEPT !.at = "balance", !.from = cursor.last, !.base = cursor.base])
  /\ UNCHANGED failures

Unavailable == [NoPass EXCEPT !.at = "store", !.status = "UNAVAILABLE"]

ObserveBalances(r) ==
  /\ passes[r].at = "balance"
  /\ \/ PassTo(r, [passes[r] EXCEPT !.at = "signatures", !.read = Len(chain), !.drifted = ~agree]) /\ UNCHANGED failures
     \/ Fails /\ PassTo(r, Unavailable)

\* signaturesSince: as many as the walk holds is a backlog, and none of them is taken.
SignaturesSince(r) ==
  /\ passes[r].at = "signatures"
  /\ \/ PassTo(r, [passes[r] EXCEPT !.at = "parse", !.to = Len(chain)]) /\ UNCHANGED failures
     \/ Fails /\ PassTo(r, Unavailable)

Backlog(p) == p.to - p.from >= Walk
New(p) == IF Backlog(p) THEN {} ELSE p.from + 1..p.to

\* The baseline and the parsed changes add up to the balance, or no baseline is comparable.
SolAgrees(p, unparsed) ==
  \/ p.base = NoBaseline \/ Backlog(p) \/ unparsed # {}
  \/ (1..p.base) \cap New(p) = {} /\ (1..p.base) \cup New(p) = 1..p.read

\* Mutant: the cursor passes the signatures the parser did not answer.
PastUnparsed(p, unparsed) ==
  [last |-> IF New(p) = {} THEN p.from ELSE p.to, base |-> IF Backlog(p) THEN p.base ELSE p.read]

\* Mutant: the baseline of the first cycle stays.
FirstBaseline(p, unparsed) ==
  [last |-> IF New(p) = {} THEN p.from ELSE IF unparsed = {} THEN p.to ELSE Min(unparsed) - 1,
   base |-> IF p.base = NoBaseline THEN p.read ELSE p.base]

\* The cursor stops before the earliest signature without an answer, and keeps the
\* baseline when one has none.
NextCursor(p, unparsed) ==
  [last |-> IF New(p) = {} THEN p.from ELSE IF unparsed = {} THEN p.to ELSE Min(unparsed) - 1,
   base |-> IF Backlog(p) \/ unparsed # {} THEN p.base ELSE p.read]

\* reconcileCustody: the report of what was parsed and what was not.
Reconciled(p, parsed, unparsed, unrecorded) ==
  LET unknown == {i \in parsed : chain[i] = "foreign" \/ i \in unrecorded}
      clean == ~p.drifted /\ unknown = {} /\ unparsed = {} /\ ~Backlog(p) /\ SolAgrees(p, unparsed)
  IN  [NoPass EXCEPT !.at = "store", !.status = IF clean THEN "CLEAN" ELSE "MISMATCH",
                     !.next = NextCursor(p, unparsed), !.unknown = unknown]

\* parseTransactions and the lookups of each parsed signature: some are not parsed,
\* or the call throws half way and all count as unparsed, the classified ones too.
\* The row of an internal one is written after its execution and may be missing yet.
Parse(r) ==
  /\ passes[r].at = "parse"
  /\ \E unrecorded \in SUBSET New(passes[r]) :
       LET p == passes[r]
           all == New(p)
       IN  \/ PassTo(r, Reconciled(p, all, {}, unrecorded)) /\ UNCHANGED failures
           \/ Fails /\ \E missed \in SUBSET all \ {{}} : PassTo(r, Reconciled(p, all \ missed, missed, unrecorded))
           \/ Fails /\ all # {} /\ \E done \in SUBSET all : PassTo(r, Reconciled(p, done, all, unrecorded))

\* record_reconciliation: report, movements, cursor, alert and pause together.
RecordReconciliation(r) ==
  /\ passes[r].at = "store"
  /\ LET p == passes[r]
         done == IF r = "loop" THEN "idle" ELSE "over"
     IN  /\ passes' = [passes EXCEPT ![r] = [NoPass EXCEPT !.at = done]]
         /\ \/ /\ cursor' = IF p.status = "UNAVAILABLE" THEN cursor ELSE p.next
               /\ unknownRows' = unknownRows \cup p.unknown
               /\ lastReport' = p.status
               /\ custodyPause' = (custodyPause \/ p.status = "MISMATCH")
               /\ UNCHANGED failures
            \/ Fails /\ UNCHANGED <<cursor, unknownRows, lastReport, custodyPause>>
  /\ UNCHANGED <<chain, agree>>

WorkerRestarts ==
  /\ Fails
  /\ passes' = [r \in Runners |-> NoPass]
  /\ UNCHANGED <<chain, agree, cursor, unknownRows, lastReport, custodyPause>>

PassStep(r) ==
  BeginPass(r) \/ ObserveBalances(r) \/ SignaturesSince(r) \/ Parse(r) \/ RecordReconciliation(r)

ReconNext ==
  \/ \E k \in TxKinds : Lands(k)
  \/ TokensAgree \/ WorkerRestarts
  \/ \E r \in Runners : PassStep(r)

\* The loop and the recovery run on; failures are bounded.
ReconSpec == ReconInit /\ [][ReconNext]_reconVars /\ \A r \in Runners : WF_reconVars(PassStep(r))

----------------------------------------------------------------------------
ReconTypeOK ==
  /\ Len(chain) <= MaxTxs /\ unknownRows \subseteq Seen
  /\ cursor.last \in 0..Len(chain) /\ cursor.base \in {NoBaseline} \cup 0..Len(chain)
  /\ lastReport \in Statuses /\ {agree, custodyPause} \subseteq BOOLEAN
  /\ failures \in 0..MaxFailures

(* A transfer nobody claims that the cursor has passed is in the custody    *)
(* movements as UNKNOWN, whatever the parser left unanswered, whichever     *)
(* store failed and whichever of two cycles wrote the cursor last.          *)
NothingForgotten ==
  \A i \in Seen : (chain[i] = "foreign" /\ i <= cursor.last) => i \in unknownRows

\* More signatures than the walk: the cursor stays and every cycle alarms.
Behind == Len(chain) - cursor.last >= Walk

(* When the wallet is quiet and its tokens agree with the ledger, the       *)
(* reports become clean and stay so, with every transaction behind the      *)
(* cursor: no false SOL mismatch (a transaction between the balance and the *)
(* signatures, a baseline kept while the cursor moved) repeats for ever.    *)
AlarmsEnd == (<>[]agree) => <>[](Behind \/ (lastReport = "CLEAN" /\ cursor.last = Len(chain)))
=============================================================================
