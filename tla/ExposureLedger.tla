--------------------------- MODULE ExposureLedger ---------------------------
(***************************************************************************)
(* The executor's exposure ledger (caps/exposure-ledger.ts) and the        *)
(* deployment caps checked against it (caps/check.ts).  An entry of the    *)
(* ledger is the pair of amounts the code keeps per intent; Closed stands  *)
(* for an intent the `open` map does not hold.  Amounts are base units of  *)
(* the settlement asset, and one unit of the held mint costs one of them.  *)
(***************************************************************************)
EXTENDS Naturals, Functions

OpenEntry == [auth : Nat, conf : Nat]

Closed == [auth |-> 0, conf |-> 0]

IsOpen(o) == o # Closed

\* ENTRY_AUTHORIZED: counts at the authorized notional.
Authorized(notional) == [auth |-> notional, conf |-> 0]

\* ENTRY_CONFIRMED on an open entry.
Confirmed(o, costBasis) == [o EXCEPT !.conf = costBasis]

\* EXIT_CONFIRMED: what the exit released leaves the basis, and the rest replaces both amounts.
Released(o, cost) ==
  LET basis == IF o.conf # 0 THEN o.conf ELSE o.auth
  IN  IF ~IsOpen(o) \/ cost >= basis
        THEN Closed
        ELSE [auth |-> basis - cost, conf |-> basis - cost]

\* Mutant: only what is confirmed counts.
ConfirmedOnly(o) == o.conf

\* exposureOf: the larger of the authorized notional and the confirmed cost basis.
ExposureOf(o) == IF o.conf > o.auth THEN o.conf ELSE o.auth

Exposures(ledger) == [e \in DOMAIN ledger |-> ExposureOf(ledger[e])]

\* aggregateNonSettlementExposure and signerDependentExposure are sums over open entries.
ExposureOn(ledger, entries) == SumFunctionOnSet(Exposures(ledger), entries)

Aggregate(ledger) == ExposureOn(ledger, DOMAIN ledger)

\* The share of an open entry's exposure that an emergency exit of `sold` out of `held` releases.
ShareReleased(o, sold, held) ==
  IF held > 0 THEN (ExposureOf(o) * sold) \div held ELSE ExposureOf(o)

=============================================================================
