----------------------------- MODULE HeldSafety -----------------------------
(* The role held-asset-safety over one position. Each cycle reads the mint  *)
(* on chain, the market, the route of the whole position and the emergency  *)
(* pool, compares them with the baseline of the position, and appends an    *)
(* evaluation that moves the position's safety state. The role eligibility  *)
(* evaluates the same asset meanwhile, and the position may be closed. An   *)
(* added authority stands for every fact that is critical once it is new;   *)
(* of the facts that only degrade two are kept.                             *)
EXTENDS Integers, SequencesExt

CONSTANTS
  Full, Half, Rug, \* values of the pool: at first, dropped, and collapsed
  MaxUnknown,      \* maxUnknownRouteCycles
  MaxRows,         \* bound: evaluations of the position
  MaxMoves         \* bound: changes of the asset

ASSUME HeldAssumption ==
  /\ {Full, Half, Rug, MaxRows, MaxMoves} \subseteq Nat /\ MaxUnknown \in Nat \ {0}
  /\ 2 * Half <= Full /\ 5 * Half > Full /\ 5 * Rug <= Full

VARIABLES
  asset,           \* what is true of the asset: its mint and its liquidity
  moves,           \* changes of it so far
  eligible,        \* the asset's latest eligibility record
  held,            \* trading.positions.status
  pointer,         \* trading.positions.safety_state
  evaluations,     \* trading.position_safety_evaluations, in order
  look             \* the cycle at this position

heldVars == <<asset, moves, eligible, held, pointer, evaluations, look>>

Mints == {"sound", "authority", "paused"}
Unread == -1
NoRecord == [added |-> FALSE, liquidity |-> Unread]
Away == [at |-> "away"]

HeldInit ==
  /\ asset = [mint |-> "sound", liquidity |-> Full] /\ moves = 0
  /\ eligible = NoRecord /\ held = "none" /\ pointer = "NORMAL"
  /\ evaluations = <<>> /\ look = Away

----------------------------------------------------------------------------
(* Around the role.                                                         *)

AssetMoves ==
  /\ moves < MaxMoves /\ moves' = moves + 1
  /\ \/ \E m \in Mints \ {asset.mint} : asset' = [asset EXCEPT !.mint = m]
     \/ \E l \in {Full, Half, Rug} \ {asset.liquidity} : asset' = [asset EXCEPT !.liquidity = l]
  /\ UNCHANGED <<eligible, held, pointer, evaluations, look>>

\* Nothing here reads a record once the position has its first evaluation.
EvaluateEligibility ==
  /\ evaluations = <<>>
  /\ \E liquidity \in {asset.liquidity, Unread} :
       eligible' = [added |-> asset.mint = "authority", liquidity |-> liquidity]
  /\ UNCHANGED <<asset, moves, held, pointer, evaluations, look>>

\* The paper account enters an asset that its record allows.
PositionOpens ==
  /\ held = "none" /\ eligible.liquidity = Full /\ ~eligible.added
  /\ held' = "OPEN"
  /\ UNCHANGED <<asset, moves, eligible, pointer, evaluations, look>>

PositionCloses ==
  /\ held = "OPEN" /\ held' = "CLOSED"
  /\ UNCHANGED <<asset, moves, eligible, pointer, evaluations, look>>

----------------------------------------------------------------------------
(* exitCompatibility and evaluateHeldAssetSafety.                           *)

Critical == {"MINT_PAUSED", "AUTHORITY_ADDED", "NO_EXIT_PATH"}
Recommended == {"NO_PRIMARY_EXIT_ROUTE", "LIQUIDITY_COLLAPSE", "EXIT_PATH_UNVERIFIED"}

\* What the primary route answers: it exists, it does not, or it was not measured.
Routes == {"found", "none", "unmeasured"}
PrimaryAvailable(seen) == seen.route = "found" /\ seen.mint # "paused"
CanReduce(seen) == PrimaryAvailable(seen) \/ (seen.emergency /\ seen.mint # "paused")

Collapsed(base, liquidity) == Unread \notin {base, liquidity} /\ base > 0 /\ 5 * liquidity <= base
Dropped(base, liquidity) == Unread \notin {base, liquidity} /\ base > 0 /\ 2 * liquidity <= base

Reasons(seen, base, unknownBefore) ==
  LET unknown == seen.route = "unmeasured"
      holds ==
        [MINT_PAUSED |-> seen.mint = "paused",
         AUTHORITY_ADDED |-> seen.mint = "authority" /\ ~base.added,
         PRIMARY_ROUTE_UNKNOWN |-> unknown,
         EXIT_PATH_UNVERIFIED |-> ~CanReduce(seen) /\ unknown /\ unknownBefore + 1 >= MaxUnknown,
         NO_EXIT_PATH |-> ~CanReduce(seen) /\ ~unknown,
         NO_PRIMARY_EXIT_ROUTE |-> CanReduce(seen) /\ ~PrimaryAvailable(seen) /\ ~unknown,
         LIQUIDITY_COLLAPSE |-> Collapsed(base.liquidity, seen.liquidity),
         LIQUIDITY_DROP |-> Dropped(base.liquidity, seen.liquidity) /\ ~Collapsed(base.liquidity, seen.liquidity),
         MARKET_DATA_UNAVAILABLE |-> seen.liquidity = Unread]
  IN  {r \in DOMAIN holds : holds[r]}

Grade(reasons) ==
  IF reasons \cap Critical # {} THEN "CRITICAL_EXIT"
  ELSE IF reasons \cap Recommended # {} THEN "EXIT_RECOMMENDED"
  ELSE IF reasons # {} THEN "DEGRADED" ELSE "NORMAL"

----------------------------------------------------------------------------
(* runHeldAssetSafetyCycle at the position.                                 *)

\* listOpenPositions, and the mint on chain: a cycle that cannot read it leaves the
\* position as it is.
ReadChain ==
  /\ look = Away /\ held = "OPEN" /\ Len(evaluations) < MaxRows
  /\ look' = [at |-> "read", mint |-> asset.mint]
  /\ UNCHANGED <<asset, moves, eligible, held, pointer, evaluations>>

\* The overview, the sell probe and the emergency pool, each of which may fail.
Measure ==
  /\ look.at = "read"
  /\ \E route \in Routes, emergency \in BOOLEAN, liquidity \in {asset.liquidity, Unread} :
       look' = [at |-> "measured",
                seen |-> [mint |-> look.mint, route |-> route, emergency |-> emergency, liquidity |-> liquidity]]
  /\ UNCHANGED <<asset, moves, eligible, held, pointer, evaluations>>

\* previousSafetyBaseline: consecutive evaluations, from the newest back.
UnknownCycles ==
  LET ends == {n \in 0..Len(evaluations) :
                 \A i \in (Len(evaluations) - n + 1)..Len(evaluations) :
                   "PRIMARY_ROUTE_UNKNOWN" \in evaluations[i].reasons}
  IN  Max(ends)

\* Mutant: what the last evaluation saw becomes the baseline of the next.
RollingBaseline ==
  IF evaluations # <<>> THEN [added |-> Last(evaluations).mint = "authority", liquidity |-> Last(evaluations).liquidity]
  ELSE eligible

\* That of the previous evaluation, else the latest eligibility, which an entry implies.
Baseline == IF evaluations # <<>> THEN Last(evaluations).baseline ELSE eligible

\* trading.record_position_safety: the row and the pointer, or neither. Only this role,
\* under its lease, writes the rows, so the baseline may be read as late as here.
RecordSafety ==
  /\ look.at = "measured" /\ look' = Away
  /\ LET seen == look.seen
         reasons == Reasons(seen, Baseline, UnknownCycles)
         row == [mint |-> seen.mint, liquidity |-> seen.liquidity, reasons |-> reasons,
                 canReduceNow |-> CanReduce(seen), state |-> Grade(reasons), baseline |-> Baseline]
     IN  IF held = "OPEN" THEN pointer' = row.state /\ evaluations' = Append(evaluations, row)
         ELSE UNCHANGED <<pointer, evaluations>>
  /\ UNCHANGED <<asset, moves, eligible, held>>

HeldNext ==
  \/ AssetMoves \/ EvaluateEligibility \/ PositionOpens \/ PositionCloses
  \/ ReadChain \/ Measure \/ RecordSafety

HeldSpec == HeldInit /\ [][HeldNext]_heldVars

----------------------------------------------------------------------------
States == {"NORMAL", "DEGRADED", "EXIT_RECOMMENDED", "CRITICAL_EXIT"}

(* The asset, the position and its evaluations stay within their types.     *)
HeldTypeOK ==
  /\ asset.mint \in Mints /\ asset.liquidity \in {Full, Half, Rug} /\ moves \in 0..MaxMoves
  /\ held \in {"none", "OPEN", "CLOSED"} /\ pointer \in States
  /\ look.at \in {"away", "read", "measured"}
  /\ \A row \in ToSet(evaluations) : row.state \in States /\ row.mint \in Mints

AsksExit(row) == row.state \in {"EXIT_RECOMMENDED", "CRITICAL_EXIT"}
Outage == {"PRIMARY_ROUTE_UNKNOWN", "EXIT_PATH_UNVERIFIED", "MARKET_DATA_UNAVAILABLE", "LIQUIDITY_DROP"}
Unknown(i) == i \in DOMAIN evaluations /\ "PRIMARY_ROUTE_UNKNOWN" \in evaluations[i].reasons

(* What the asset did since the first evaluation is never forgotten: a pool *)
(* drained little by little, and an authority added cycles ago, are graded  *)
(* against what the position was entered at. An outage of the providers     *)
(* alone asks for an exit only after maxUnknownRouteCycles consecutive      *)
(* evaluations, and then does, and never calls it critical. The position    *)
(* carries the state of its last evaluation.                                *)
SafetyRemembers ==
  /\ held = "OPEN" /\ evaluations # <<>> => pointer = Last(evaluations).state
  /\ \A i \in DOMAIN evaluations :
       LET row == evaluations[i]
           first == evaluations[1].baseline
       IN /\ Collapsed(first.liquidity, row.liquidity) => AsksExit(row)
          /\ row.mint = "authority" /\ ~first.added => row.state = "CRITICAL_EXIT"
          /\ row.reasons \subseteq Outage =>
               /\ row.state # "CRITICAL_EXIT"
               /\ AsksExit(row) <=> ~row.canReduceNow /\ \A j \in (i - MaxUnknown + 1)..i : Unknown(j)

(* eligibility-repo.ts:64 the baseline is what "the entry-time eligibility  *)
(* record saw": no authority, which no entry allows.                        *)
BaselineOfEntry == \A row \in ToSet(evaluations) : ~row.baseline.added
=============================================================================
