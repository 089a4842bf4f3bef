---------------------------- MODULE ExposureProofs ----------------------------
(***************************************************************************)
(* Proofs about the exposure ledger and the deployment caps (INV-08,       *)
(* INV-09): what the wallet can come to hold stays under the caps for any  *)
(* number of entries, whichever race for the room left, and any number of  *)
(* emergency exits, until one of them is final. What happens then depends  *)
(* on what it sold: an exit of the whole position is followed further.     *)
(***************************************************************************)
EXTENDS OutcomeProofs, SumTheorems

-----------------------------------------------------------------------------
(* What the ledger holds of an entry, along its way.                       *)

\* An entry counts with its notional from the caps check until it is given back, which is never
\* while its transaction may have an effect, and always before it is told to have none.
LedgerFits ==
  \A e \in Entries :
    /\ IsOpen(ledger[e]) => ledger[e] \in {Authorized(Notional[e]), Confirmed(Authorized(Notional[e]), Notional[e])}
    /\ e \notin prepared \/ pc[e] = "prepared" => ~ IsOpen(ledger[e])
    /\ pc[e] \in {"prepared", "ordering", "signing"} => e \notin signed
    /\ pc[e] \in {"ordering", "signing", "signed", "submitted"} => IsOpen(ledger[e]) \/ tx[e] \in Sunk
    /\ tx[e] \in {"sent", "landed", "final"} => IsOpen(ledger[e])
    /\ pc[e] = "failing" \/ outcomes[e] \in {{"FAILED"}, {"EXPIRED"}} => ~ IsOpen(ledger[e])

\* A pass that is about to give an entry up has given its exposure back.
GivenBack ==
  /\ tpc = "failing" /\ tcur \in Entries => ~ IsOpen(ledger[tcur])
  /\ rpc \in {"expired", "failing"} /\ rcur \in Entries => ~ IsOpen(ledger[rcur])
  /\ \A p \in Releasers : releases[p] = {}

\* What the wallet holds is what entries brought less what exits took.
OnChain(S) == {a \in S : tx[a] \in {"landed", "final"}}

Sold == [x \in Exits |-> plan[x].sold]

CustodyFits ==
  /\ IsFiniteSet(OnChain(Exits))
  /\ custody + SumFunctionOnSet(Sold, OnChain(Exits)) = SumFunctionOnSet(Notional, OnChain(Entries))

\* The ledger stays within the caps it is checked against.
CapsHold == Aggregate(ledger) <= AggregateCap /\ ExposureOn(ledger, Monitored) <= OutageCap

ExposureInv == LedgerFits /\ GivenBack /\ CustodyFits /\ CapsHold

\* An exit gives exposure back once its transaction is final, and not before.
NoExitFinal == \A x \in Exits : tx[x] # "final"

\* The state of one entry is as it was.
Same(e) ==
  /\ pc'[e] = pc[e] /\ tx'[e] = tx[e] /\ ledger'[e] = ledger[e] /\ outcomes'[e] = outcomes[e]
  /\ (e \in prepared' <=> e \in prepared) /\ (e \in signed' <=> e \in signed)

\* Its exposure is as it was, or confirmed at its cost.
Steady(e) ==
  \/ ledger'[e] = ledger[e]
  \/ IsOpen(ledger[e]) /\ ledger'[e] = Confirmed(ledger[e], Notional[e])

EntryFits(e) ==
  /\ IsOpen(ledger[e]) => ledger[e] \in {Authorized(Notional[e]), Confirmed(Authorized(Notional[e]), Notional[e])}
  /\ e \notin prepared \/ pc[e] = "prepared" => ~ IsOpen(ledger[e])
  /\ pc[e] \in {"prepared", "ordering", "signing"} => e \notin signed
  /\ pc[e] \in {"ordering", "signing", "signed", "submitted"} => IsOpen(ledger[e]) \/ tx[e] \in Sunk
  /\ tx[e] \in {"sent", "landed", "final"} => IsOpen(ledger[e])
  /\ pc[e] = "failing" \/ outcomes[e] \in {{"FAILED"}, {"EXPIRED"}} => ~ IsOpen(ledger[e])

LEMMA Shapes ==
  ASSUME NEW n \in Nat \ {0}
  PROVE  /\ IsOpen(Authorized(n)) /\ IsOpen(Confirmed(Authorized(n), n)) /\ ~ IsOpen(Closed)
         /\ Confirmed(Confirmed(Authorized(n), n), n) = Confirmed(Authorized(n), n)
         /\ ExposureOf(Authorized(n)) = n /\ ExposureOf(Confirmed(Authorized(n), n)) = n /\ ExposureOf(Closed) = 0
<1>1. \A c, d \in Nat : Confirmed([auth |-> c, conf |-> d], n) = [auth |-> c, conf |-> n]
  BY DEF Confirmed
<1>2. Authorized(n) = [auth |-> n, conf |-> 0] /\ Closed = [auth |-> 0, conf |-> 0]
  BY DEF Authorized, Closed
<1>3. Confirmed(Authorized(n), n) = [auth |-> n, conf |-> n]
  BY <1>1, <1>2
<1>4. Confirmed(Confirmed(Authorized(n), n), n) = [auth |-> n, conf |-> n]
  BY <1>1, <1>3
<1>5. Authorized(n).auth = n /\ Closed.auth = 0 /\ Confirmed(Authorized(n), n).auth = n
  BY <1>2, <1>3
<1>6. IsOpen(Authorized(n)) /\ IsOpen(Confirmed(Authorized(n), n)) /\ ~ IsOpen(Closed)
  BY <1>5 DEF IsOpen
<1>7. ExposureOf(Authorized(n)) = n /\ ExposureOf(Confirmed(Authorized(n), n)) = n /\ ExposureOf(Closed) = 0
  BY <1>2, <1>3 DEF ExposureOf
<1> QED
  BY <1>3, <1>4, <1>6, <1>7

LEMMA SameFits ==
  ASSUME NEW e, EntryFits(e), Same(e)
  PROVE  EntryFits(e)'
BY DEF EntryFits, Same

LEMMA SteadyOpen ==
  ASSUME NEW e \in Entries, EntryFits(e), Steady(e)
  PROVE  /\ IsOpen(ledger'[e]) <=> IsOpen(ledger[e])
         /\ IsOpen(ledger'[e]) => ledger'[e] \in {Authorized(Notional[e]), Confirmed(Authorized(Notional[e]), Notional[e])}
<1>1. Notional[e] \in Nat \ {0}
  BY ConstantsOK
<1> QED
  BY <1>1, Shapes DEF EntryFits, Steady

\* A step to a place where nothing is asked of the entry.
LEMMA SteadyFits ==
  ASSUME NEW e \in Entries, EntryFits(e), Steady(e),
         UNCHANGED <<tx, signed, prepared, outcomes>>,
         pc'[e] = pc[e] \/ pc'[e] \notin {"prepared", "ordering", "signing", "signed", "submitted", "failing"}
  PROVE  EntryFits(e)'
BY SteadyOpen DEF EntryFits

LEMMA FitsAll == LedgerFits <=> \A e \in Entries : EntryFits(e)
BY DEF LedgerFits, EntryFits

\* What the steps of entries, tracker and recovery leave alone.
OnlyUnsignedOpen ==
  \A e \in Entries : IsOpen(ledger'[e]) => IsOpen(ledger[e]) \/ e \notin signed

LEMMA HandlerGivesNothing ==
  ASSUME TypeOK, ClaimGuardsSend, OutcomeInv, GivenBack, OnlyUnsignedOpen, NEW a, NEW from, NEW to,
         Handling(a, from, to), UNCHANGED releases
  PROVE  GivenBack'
<1>1. mode = "up" /\ UNCHANGED <<tpc, tcur, rpc, rcur>>
  BY DEF Handling, trackVars, recoverVars
<1>2. rpc = "idle" /\ tcur \in signed \cup {None} /\ None \notin Entries
  BY <1>1, Standing DEF RecoversAlone, TrackerSure, Attempts
<1> QED
  BY <1>1, <1>2 DEF GivenBack, OnlyUnsignedOpen

LEMMA Ground ==
  ASSUME TypeOK, ClaimGuardsSend, OutcomeInv, ExposureInv, NoExitFinal
  PROVE  /\ Entries \subseteq Attempts /\ Exits \subseteq Attempts /\ Entries \cap Exits = {}
         /\ IsFiniteSet(Entries) /\ Monitored \subseteq Entries /\ None \notin Attempts
         /\ ledger \in [Entries -> OpenEntry] /\ pc \in [Attempts -> HandlerPc] /\ tx \in [Attempts -> TxFate]
         /\ outcomes \in [Attempts -> SUBSET Terminal] /\ plan \in [Exits -> [sold : Nat, held : Nat]]
         /\ custody \in Nat
         /\ \A e \in Entries : EntryFits(e) /\ Notional[e] \in Nat \ {0}
         /\ LedgerFits /\ GivenBack /\ CustodyFits /\ CapsHold
BY ConstantsOK, FitsAll DEF Attempts, TypeOK, JournalOK, HandlersOK, WorldOK, ExposureInv

LEMMA EntryKeeps ==
  ASSUME TypeOK, ClaimGuardsSend, OutcomeInv, ExposureInv, NoExitFinal, OutcomeInv', NEW a \in Entries,
         EntryStep(a) \/ AttemptStep(a)
  PROVE  LedgerFits' /\ GivenBack'
<1> DEFINE others == \A e \in Entries \ {a} : Same(e)
<1>0. /\ Entries \subseteq Attempts /\ EntryFits(a) /\ Notional[a] \in Nat \ {0} /\ GivenBack
      /\ a \in signed => a \in prepared
      /\ a \notin signed => tx[a] = "unsent"
  BY Ground, Standing DEF MarksFit
<1>t. /\ ledger \in [Entries -> OpenEntry] /\ pc \in [Attempts -> HandlerPc] /\ tx \in [Attempts -> TxFate]
      /\ outcomes \in [Attempts -> SUBSET Terminal] /\ a \in Attempts
  BY Ground
<1>1. ASSUME others, EntryFits(a)' PROVE LedgerFits'
  <2>1. \A e \in Entries : EntryFits(e)'
    BY <1>1, Ground, SameFits
  <2> QED
    BY <2>1 DEF LedgerFits, EntryFits
<1>2. CASE \/ Verify(a) \/ Duplicate(a) \/ ConfirmFinal(a) \/ Throw(a) \/ LeaveUnresolved(a)
           \/ ProviderConfirms(a) \/ ConfirmProvisional(a) \/ Observe(a)
  <2>1. PICK from, to :
          /\ Handling(a, from, to)
          /\ to \notin {"prepared", "ordering", "signing", "signed", "submitted", "failing"}
    BY <1>2 DEF Verify, Duplicate, ConfirmFinal, Throw, LeaveUnresolved, ProviderConfirms, ConfirmProvisional, Observe
  <2>2. /\ UNCHANGED <<tx, signed, prepared, outcomes, releases>>
        /\ \/ UNCHANGED ledger
           \/ IsOpen(ledger[a]) /\ ledger' = [ledger EXCEPT ![a] = Confirmed(ledger[a], Notional[a])]
    BY <1>2 DEF Verify, Duplicate, ConfirmFinal, Throw, LeaveUnresolved, ProviderConfirms, ConfirmProvisional, Observe,
       ConfirmIfOpen, LedgerWrite, journalVars, chainVars
  <2>3. pc' = [pc EXCEPT ![a] = to]
    BY <2>1 DEF Handling
  <2>4. Steady(a) /\ others /\ pc'[a] = to
    BY <2>2, <2>3, Ground DEF Steady, Same
  <2>5. EntryFits(a)'
    BY <1>0, <2>1, <2>2, <2>4, SteadyFits
  <2>6. OnlyUnsignedOpen
    BY <1>0, <2>4, SteadyOpen DEF OnlyUnsignedOpen, Same
  <2> QED
    BY <1>0, <1>1, <2>1, <2>2, <2>4, <2>5, <2>6, HandlerGivesNothing
<1>3. ASSUME NEW from, NEW to, Handling(a, from, to), UNCHANGED releases,
             \A e \in Entries \ {a} : tx'[e] = tx[e] /\ ledger'[e] = ledger[e] /\ outcomes'[e] = outcomes[e]
                                      /\ (e \in prepared' <=> e \in prepared) /\ (e \in signed' <=> e \in signed),
             IsOpen(ledger'[a]) => IsOpen(ledger[a]) \/ a \notin signed,
             EntryFits(a)'
      PROVE  LedgerFits' /\ GivenBack'
  <2>1. others
    BY <1>3, Ground DEF Same, Handling
  <2>2. OnlyUnsignedOpen
    BY <1>3 DEF OnlyUnsignedOpen
  <2> QED
    BY <1>0, <1>1, <1>3, <2>1, <2>2, HandlerGivesNothing
<1>4. CASE PassChecks(a) \/ Sign(a) \/ Submit(a) \/ Send(a) \/ ClaimEntry(a)
  <2>1. UNCHANGED <<ledger, outcomes, releases>>
    BY <1>4 DEF PassChecks, Sign, Submit, Send, ClaimEntry, Prepare, journalVars
  <2>2. \A e \in Entries \ {a} : tx'[e] = tx[e] /\ (e \in prepared' <=> e \in prepared)
                                  /\ (e \in signed' <=> e \in signed)
    BY <1>4, Ground DEF PassChecks, Sign, Submit, Send, ClaimEntry, Prepare, JournalSigned, journalVars, chainVars
  <2>3. PICK from, to : Handling(a, from, to)
    BY <1>4 DEF PassChecks, Sign, Submit, Send, ClaimEntry
  <2>4. ASSUME PassChecks(a) PROVE EntryFits(a)'
    <3>1. /\ pc[a] = "ordering" /\ pc'[a] = "signing"
          /\ UNCHANGED <<tx, ledger, outcomes, prepared, signed>>
      BY <1>t, <2>4 DEF PassChecks, Handling, journalVars, chainVars
    <3> QED
      BY <1>0, <3>1 DEF EntryFits
  <2>5. ASSUME Sign(a) PROVE EntryFits(a)'
    <3>1. /\ pc[a] = "signing" /\ pc'[a] = "signed" /\ signed' = signed \cup {a}
          /\ UNCHANGED <<tx, ledger, outcomes, prepared>>
      BY <1>t, <2>5 DEF Sign, JournalSigned, Handling, chainVars
    <3> QED
      BY <1>0, <3>1 DEF EntryFits
  <2>6. ASSUME Submit(a) PROVE EntryFits(a)'
    <3>1. /\ pc[a] = "signed" /\ pc'[a] = "submitted"
          /\ UNCHANGED <<tx, ledger, outcomes, prepared, signed>>
      BY <1>t, <2>6 DEF Submit, Handling, chainVars
    <3> QED
      BY <1>0, <3>1 DEF EntryFits
  <2>7. ASSUME Send(a) PROVE EntryFits(a)'
    <3>1. /\ pc[a] = "submitted" /\ pc'[a] = "executing" /\ tx'[a] = IF tx[a] = "unsent" THEN "sent" ELSE tx[a]
          /\ UNCHANGED <<ledger, outcomes, prepared, signed>>
      BY <1>t, <2>7 DEF Send, Handling, journalVars
    <3>2. tx[a] \in Silent
      BY <1>0, <3>1, UnsentYet DEF BeforeSend
    <3> QED
      BY <1>0, <3>1, <3>2 DEF EntryFits, Silent, Sunk
  <2>8. ASSUME ClaimEntry(a) PROVE EntryFits(a)'
    <3>1. a \notin prepared
      BY <1>0, <2>8, Standing DEF ClaimEntry, KeysClaimed
    <3>2. /\ pc'[a] = "prepared" /\ prepared' = prepared \cup {a}
          /\ UNCHANGED <<tx, ledger, outcomes, signed>>
      BY <1>t, <2>8 DEF ClaimEntry, Prepare, Handling, chainVars
    <3> QED
      BY <1>0, <3>1, <3>2 DEF EntryFits
  <2>9. EntryFits(a)'
    BY <1>4, <2>4, <2>5, <2>6, <2>7, <2>8
  <2> QED
    BY <1>3, <2>1, <2>2, <2>3, <2>9
<1>5. CASE AdmitByCaps(a)
  <2>1. /\ pc[a] = "prepared" /\ pc'[a] = "ordering" /\ ledger' = [ledger EXCEPT ![a] = Authorized(Notional[a])]
        /\ UNCHANGED <<tx, outcomes, prepared, signed, releases>> /\ Handling(a, "prepared", "ordering")
    BY <1>t, <1>5 DEF AdmitByCaps, LedgerWrite, Handling, chainVars
  <2>2. a \in prepared /\ outcomes[a] = {}
    BY <1>0, <2>1, Standing DEF WorkersHold, OutcomesTrue, BeforeSend, Working, EntryFits
  <2>3. EntryFits(a)'
    BY <1>0, <1>t, <2>1, <2>2, Shapes DEF EntryFits
  <2>4. a \notin signed
    BY <1>0, <2>1 DEF EntryFits
  <2> QED
    BY <1>3, <1>t, <2>1, <2>3, <2>4
<1>6. CASE ReleaseBeforeFailing(a)
  <2>1. /\ pc[a] \in {"ordering", "signed", "executing"} /\ pc'[a] = "failing" /\ (pc[a] = "executing" => tx[a] = "dead")
        /\ ledger' = [ledger EXCEPT ![a] = Closed] /\ UNCHANGED <<tx, outcomes, prepared, signed, releases>>
        /\ \E from : Handling(a, from, "failing")
    BY <1>t, <1>6 DEF ReleaseBeforeFailing, LedgerWrite, Handling, chainVars
  <2>2. tx[a] \in Silent
    BY <1>0, <2>1, UnsentYet DEF BeforeSend, Silent, Sunk
  <2>3. EntryFits(a)'
    BY <1>0, <1>t, <2>1, <2>2 DEF EntryFits, Silent, Sunk, IsOpen
  <2> QED
    BY <1>3, <1>t, <2>1, <2>3 DEF IsOpen
<1>7. CASE RefuseByCaps(a) \/ Fail(a) \/ Complete(a)
  <2>1. PICK o \in {"FAILED", "COMPLETED"}, to \in {"done", "pausing"} :
          /\ \E from : Handling(a, from, to)
          /\ outcomes' = [outcomes EXCEPT ![a] = @ \cup {o}]
          /\ o = "FAILED" => pc[a] \in {"prepared", "failing"}
    BY <1>7 DEF RefuseByCaps, Fail, Complete, WriteResult, Handling
  <2>2. UNCHANGED <<tx, prepared, signed, ledger, releases>>
    BY <1>7 DEF RefuseByCaps, Fail, Complete, WriteResult, chainVars
  <2>3. pc'[a] = to /\ outcomes'[a] = outcomes[a] \cup {o} /\ \A e \in Entries \ {a} : outcomes'[e] = outcomes[e]
    BY <1>t, <2>1 DEF Handling
  <2>4. EntryFits(a)'
    BY <1>0, <2>1, <2>2, <2>3 DEF EntryFits
  <2> QED
    BY <1>3, <2>1, <2>2, <2>3, <2>4
<1> QED
  BY <1>2, <1>4, <1>5, <1>6, <1>7 DEF EntryStep, AttemptStep

-----------------------------------------------------------------------------
(* The passes and the world.                                               *)

\* The exposure of an entry that has no effect, and will have none, is given up.
Dropped(e) ==
  /\ ledger'[e] = Closed /\ tx[e] \in Silent /\ pc[e] \notin {"ordering", "signing"}
  /\ pc[e] \in {"signed", "submitted"} => tx[e] \in Sunk

\* Entries of which nothing but the ledger, and that steadily or downwards, has changed.
LEMMA PassKeeps ==
  ASSUME LedgerFits, UNCHANGED <<pc, tx, prepared, signed, outcomes>>, \A e \in Entries : Steady(e) \/ Dropped(e)
  PROVE  LedgerFits' /\ \A e \in Entries : IsOpen(ledger'[e]) => IsOpen(ledger[e])
<1>1. ASSUME NEW e \in Entries PROVE EntryFits(e)' /\ (IsOpen(ledger'[e]) => IsOpen(ledger[e]))
  <2>0. EntryFits(e)
    BY FitsAll
  <2>1. CASE Steady(e)
    BY <2>0, <2>1, SteadyFits, SteadyOpen
  <2>2. CASE Dropped(e)
    BY <2>0, <2>2 DEF Dropped, EntryFits, Silent, Sunk, IsOpen
  <2> QED
    BY <1>1, <2>1, <2>2
<1> QED
  BY <1>1 DEF LedgerFits, EntryFits

\* An outcome of an entry whose ledger entry fits it.
LEMMA OutcomeKeeps ==
  ASSUME LedgerFits, TypeOK, UNCHANGED <<pc, tx, prepared, signed, ledger>>, NEW a \in Attempts,
         NEW o, outcomes' = [outcomes EXCEPT ![a] = @ \cup {o}],
         a \in Entries => o = "COMPLETED" \/ ~ IsOpen(ledger[a])
  PROVE  LedgerFits'
<1>1. ASSUME NEW e \in Entries PROVE EntryFits(e)'
  <2>0. EntryFits(e)
    BY FitsAll
  <2>1. outcomes \in [Attempts -> SUBSET Terminal] /\ e \in Attempts
    BY DEF TypeOK, JournalOK, Attempts
  <2>2. CASE e = a
    <3>1. outcomes'[e] = outcomes[e] \cup {o}
      BY <2>1, <2>2
    <3> QED
      BY <2>0, <2>2, <3>1 DEF EntryFits
  <2>3. CASE e # a
    <3>1. outcomes'[e] = outcomes[e]
      BY <2>1, <2>3
    <3> QED
      BY <2>0, <3>1 DEF EntryFits
  <2> QED
    BY <2>2, <2>3
<1> QED
  BY <1>1 DEF LedgerFits, EntryFits

LEMMA ConfirmsSteadily ==
  ASSUME TypeOK, NEW a, ConfirmIfOpen(a)
  PROVE  /\ UNCHANGED <<prepared, signed, outcomes>> /\ \A e \in Entries : Steady(e)
BY DEF ConfirmIfOpen, LedgerWrite, Steady, journalVars, TypeOK, JournalOK

LEMMA ReleasesDown ==
  ASSUME TypeOK, NEW a, ReleaseIfOpen(a)
  PROVE  /\ UNCHANGED <<prepared, signed, outcomes>>
         /\ \A e \in Entries : ledger'[e] = ledger[e] \/ (e = a /\ ledger'[e] = Closed)
         /\ a \in Entries => ~ IsOpen(ledger'[a])
<1>1. ledger \in [Entries -> OpenEntry]
  BY DEF TypeOK, JournalOK
<1>2. CASE a \in Entries /\ IsOpen(ledger[a])
  BY <1>1, <1>2 DEF ReleaseIfOpen, LedgerWrite, IsOpen
<1>3. CASE ~ (a \in Entries /\ IsOpen(ledger[a]))
  BY <1>3 DEF ReleaseIfOpen, journalVars
<1> QED
  BY <1>2, <1>3

LEMMA TrackKeeps ==
  ASSUME TypeOK, ClaimGuardsSend, OutcomeInv, ExposureInv, NoExitFinal, TrackStep
  PROVE  /\ LedgerFits' /\ GivenBack' /\ UNCHANGED <<tx, custody>>
         /\ \A e \in Entries : IsOpen(ledger'[e]) => IsOpen(ledger[e])
<1>0. /\ LedgerFits /\ GivenBack /\ Entries \subseteq Attempts /\ None \notin Entries
      /\ None \in Releasers /\ Entries \cap Exits = {}
      /\ TrackerSure /\ RecoversAlone /\ ledger \in [Entries -> OpenEntry]
  BY Ground, Standing DEF Releasers
<1>1. /\ UNCHANGED <<pc, rpc, rcur, tx, custody, mode>> /\ mode = "up" /\ rpc = "idle"
  <2>1. \E from, to : Tracking(from, to)
    BY DEF TrackStep, TrackVerdict, TrackBegin, TrackPick, TrackNothing, TrackFinal, TrackConfirmed, TrackReorg,
       TrackPause, TrackDead, TrackShare, TrackComplete, TrackObserve, TrackFail, TrackEnd, TrackClear, TrackKeepPause
  <2> QED
    BY <1>0, <2>1 DEF Tracking, recoverVars, worldVars, RecoversAlone
<1>2. CASE TrackShare
  BY <1>0, <1>2 DEF TrackShare, ReleaseShare, GivenBack
<1>3. CASE TrackFinal \/ TrackConfirmed
  <2>1. ConfirmIfOpen(tcur) /\ UNCHANGED releases /\ tpc' # "failing"
    BY <1>0, <1>3 DEF TrackFinal, TrackConfirmed, Tracking, IsFinal, NoExitFinal
  <2>2. UNCHANGED <<prepared, signed, outcomes>> /\ \A e \in Entries : Steady(e)
    BY <2>1, ConfirmsSteadily
  <2> QED
    BY <1>0, <1>1, <2>1, <2>2, PassKeeps DEF GivenBack
<1>4. CASE TrackDead
  <2>1. /\ ReleaseIfOpen(tcur) /\ UNCHANGED <<releases, tcur>> /\ tx[tcur] \in Sunk /\ tcur \in signed
    BY <1>0, <1>4, Standing DEF TrackDead, IsDead, Sunk, TrackerSure
  <2>2. tcur \in Entries => pc[tcur] \notin {"ordering", "signing"}
    BY <1>0, <2>1 DEF LedgerFits
  <2>3. \A e \in Entries : Steady(e) \/ Dropped(e)
    BY <2>1, <2>2, ReleasesDown DEF Steady, Dropped, Silent
  <2>4. (tcur \in Entries => ~ IsOpen(ledger'[tcur])) /\ UNCHANGED <<prepared, signed, outcomes>>
    BY <2>1, ReleasesDown
  <2> QED
    BY <1>0, <1>1, <2>1, <2>3, <2>4, PassKeeps DEF GivenBack
<1>5. CASE TrackComplete \/ TrackFail
  <2>1. PICK o \in {"COMPLETED", "FAILED"} :
          /\ WriteResult(tcur, o) /\ tcur \in Attempts /\ (o = "FAILED" => tpc = "failing")
    BY <1>5 DEF TrackComplete, TrackFail, Tracking
  <2>2. UNCHANGED <<prepared, signed, ledger, releases>> /\ outcomes' = [outcomes EXCEPT ![tcur] = @ \cup {o}] /\ tpc' = "scan"
    BY <1>5, <2>1 DEF TrackComplete, TrackFail, WriteResult, Tracking
  <2>3. tcur \in Entries => o = "COMPLETED" \/ ~ IsOpen(ledger[tcur])
    BY <1>0, <2>1 DEF GivenBack
  <2> QED
    BY <1>0, <1>1, <2>1, <2>2, <2>3, OutcomeKeeps DEF GivenBack
<1>6. CASE \/ TrackBegin \/ (\E a \in Attempts : TrackPick(a)) \/ TrackNothing \/ TrackReorg \/ TrackPause
           \/ TrackObserve \/ TrackEnd \/ TrackClear \/ TrackKeepPause
  <2>1. UNCHANGED <<prepared, signed, outcomes, ledger, releases>> /\ tpc' # "failing"
    BY <1>6 DEF TrackBegin, TrackPick, TrackNothing, TrackReorg, TrackPause, TrackObserve, TrackEnd, TrackClear,
       TrackKeepPause, Tracking, PauseBy, ClearPause, journalVars
  <2>2. \A e \in Entries : Steady(e)
    BY <2>1 DEF Steady
  <2> QED
    BY <1>0, <1>1, <2>1, <2>2, PassKeeps DEF GivenBack
<1> QED
  BY <1>2, <1>3, <1>4, <1>5, <1>6 DEF TrackStep, TrackVerdict

LEMMA RecoverKeeps ==
  ASSUME TypeOK, ClaimGuardsSend, OutcomeInv, ExposureInv, NoExitFinal, ~LiveRecovery, RecoverStep
  PROVE  /\ LedgerFits' /\ GivenBack' /\ UNCHANGED <<tx, custody>>
         /\ \A e \in Entries : IsOpen(ledger'[e]) => IsOpen(ledger[e])
<1>0. /\ LedgerFits /\ GivenBack /\ Entries \subseteq Attempts /\ None \notin Entries
      /\ RecoverySure /\ RecoversAlone /\ MarksFit /\ ledger \in [Entries -> OpenEntry]
      /\ rtodo \subseteq Attempts /\ rcur \in Attempts \cup {None}
  BY Ground, Standing
<1>1. /\ UNCHANGED <<pc, tpc, tcur, tx, custody, releases>> /\ mode = "recovering" /\ tpc = "idle"
      /\ \A e \in Attempts : pc[e] = "idle"
  <2>1. \E from, to : Recovering(from, to)
    BY DEF RecoverStep, RecoverBegin, RecoverRelease, RecoverExpired, RecoverScan, RecoverFinal, RecoverDead,
       RecoverNothing, RecoverComplete, RecoverFail, RecoverEnd
  <2> QED
    BY <1>0, <2>1 DEF Recovering, trackVars, worldVars, RecoversAlone
<1>2. ASSUME NEW a \in Attempts, RecoverRelease(a) \/ RecoverDead(a)
      PROVE  /\ LedgerFits' /\ GivenBack' /\ \A e \in Entries : IsOpen(ledger'[e]) => IsOpen(ledger[e])
  <2>1. ReleaseIfOpen(a) /\ rcur' = a /\ a \in rtodo
    BY <1>0, <1>2 DEF RecoverRelease, RecoverDead
  <2>2. tx[a] \in Silent
    BY <1>0, <1>2 DEF RecoverRelease, RecoverDead, Recovering, RecoverySure, MarksFit, IsDead, Silent, Sunk
  <2>3. \A e \in Entries : Steady(e) \/ Dropped(e)
    BY <1>0, <1>1, <2>1, <2>2, ReleasesDown DEF Steady, Dropped
  <2>4. (a \in Entries => ~ IsOpen(ledger'[a])) /\ UNCHANGED <<prepared, signed, outcomes>>
    BY <2>1, ReleasesDown
  <2> QED
    BY <1>0, <1>1, <2>1, <2>3, <2>4, PassKeeps DEF GivenBack
<1>3. ASSUME NEW a \in Attempts, RecoverFinal(a)
      PROVE  /\ LedgerFits' /\ GivenBack' /\ \A e \in Entries : IsOpen(ledger'[e]) => IsOpen(ledger[e])
  <2>1. ConfirmIfOpen(a) /\ rpc' = "completing"
    BY <1>3 DEF RecoverFinal, Recovering
  <2>2. UNCHANGED <<prepared, signed, outcomes>> /\ \A e \in Entries : Steady(e)
    BY <2>1, ConfirmsSteadily
  <2> QED
    BY <1>0, <1>1, <2>1, <2>2, PassKeeps DEF GivenBack
<1>4. CASE RecoverExpired \/ RecoverComplete \/ RecoverFail
  <2>1. PICK o \in {"EXPIRED", "COMPLETED", "FAILED"} :
          /\ WriteResult(rcur, o) /\ rcur \in Attempts /\ (o # "COMPLETED" => rpc \in {"expired", "failing"})
    BY <1>4 DEF RecoverExpired, RecoverComplete, RecoverFail, Recovering
  <2>2. /\ UNCHANGED <<prepared, signed, ledger>> /\ outcomes' = [outcomes EXCEPT ![rcur] = @ \cup {o}]
        /\ rpc' \in {"expiring", "scan"}
    BY <1>4, <2>1 DEF RecoverExpired, RecoverComplete, RecoverFail, WriteResult, Recovering
  <2>3. rcur \in Entries => o = "COMPLETED" \/ ~ IsOpen(ledger[rcur])
    BY <1>0, <2>1 DEF GivenBack
  <2> QED
    BY <1>0, <1>1, <2>1, <2>2, <2>3, OutcomeKeeps DEF GivenBack
<1>5. CASE RecoverBegin \/ RecoverScan \/ RecoverEnd \/ (\E a \in Attempts : RecoverNothing(a))
  <2>1. UNCHANGED <<prepared, signed, outcomes, ledger>> /\ rpc' \notin {"expired", "failing"}
    BY <1>5 DEF RecoverBegin, RecoverScan, RecoverEnd, RecoverNothing, Recovering, journalVars
  <2>2. \A e \in Entries : Steady(e)
    BY <2>1 DEF Steady
  <2> QED
    BY <1>0, <1>1, <2>1, <2>2, PassKeeps DEF GivenBack
<1> QED
  BY <1>1, <1>2, <1>3, <1>4, <1>5 DEF RecoverStep

LEMMA OperatorKeeps ==
  ASSUME TypeOK, ClaimGuardsSend, OutcomeInv, ExposureInv, NoExitFinal, CommandPause \/ OperatorClears
  PROVE  /\ LedgerFits' /\ GivenBack' /\ UNCHANGED <<tx, custody>>
         /\ \A e \in Entries : IsOpen(ledger'[e]) => IsOpen(ledger[e])
<1>1. UNCHANGED <<pc, tx, custody, prepared, signed, outcomes, ledger, releases, tpc, tcur, rpc, rcur>>
  BY DEF CommandPause, OperatorClears, PauseBy, ClearPause, handlerVars, trackVars, recoverVars
<1>2. \A e \in Entries : Steady(e)
  BY <1>1 DEF Steady
<1> QED
  BY <1>1, <1>2, Ground, PassKeeps DEF GivenBack

-----------------------------------------------------------------------------
(* The chain, and what it makes of the wallet.                             *)

\* A transaction that goes from one fate to another: the wallet follows, and so does the ledger.
FateMoves(a) == Land(a) \/ FailOnChain(a) \/ Rollback(a) \/ Finalize(a) \/ ExpireBlockhash(a) \/ ExpireAuthorization(a)

LEMMA ChainKeepsFit ==
  ASSUME TypeOK, ClaimGuardsSend, OutcomeInv, ExposureInv, NoExitFinal, NEW a \in Attempts, FateMoves(a)
  PROVE  LedgerFits' /\ GivenBack' /\ UNCHANGED ledger
<1>0. /\ \A e \in Entries : EntryFits(e)
      /\ tx \in [Attempts -> TxFate] /\ GivenBack /\ MarksFit /\ Entries \subseteq Attempts
  BY Ground, Standing
<1>1. /\ UNCHANGED <<pc, prepared, signed, outcomes, ledger, releases, tpc, tcur, rpc, rcur>>
      /\ \A e \in Attempts \ {a} : tx'[e] = tx[e]
      /\ \/ tx'[a] = tx[a]
         \/ tx[a] \in {"sent", "landed"} /\ tx'[a] \in {"sent", "landed", "final", "failed", "dead"}
         \/ tx[a] = "unsent" /\ tx'[a] = "dead" /\ a \in signed
  BY <1>0 DEF FateMoves, Land, FailOnChain, Rollback, Finalize, ExpireBlockhash, ExpireAuthorization, Outside,
     journalVars, handlerVars, trackVars, recoverVars
<1>2. ASSUME NEW e \in Entries PROVE EntryFits(e)'
  <2>1. CASE e # a
    BY <1>0, <1>1, <2>1, SameFits DEF Same
  <2>2. CASE e = a
    <3>1. EntryFits(e) BY <1>0
    <3>2. CASE tx[a] \in {"sent", "landed"}
      BY <1>1, <2>2, <3>1, <3>2 DEF EntryFits, Sunk
    <3>3. CASE tx[a] \notin {"sent", "landed"}
      BY <1>1, <2>2, <3>1, <3>3 DEF EntryFits, Sunk
    <3> QED
      BY <3>2, <3>3
  <2> QED
    BY <2>1, <2>2
<1> QED
  BY <1>0, <1>1, <1>2 DEF GivenBack, LedgerFits, EntryFits

\* One attempt that lands, or is rolled back, adds its amount to the sum of its kind or takes it off.
LEMMA OnFateMoves ==
  ASSUME NEW S, NEW f, NEW a \in S, IsFiniteSet(OnChain(S)), \A b \in S : f[b] \in Nat,
         \A b \in S \ {a} : tx'[b] = tx[b]
  PROVE  /\ IsFiniteSet(OnChain(S)') /\ SumFunctionOnSet(f, OnChain(S)) \in Nat
         /\ SumFunctionOnSet(f, OnChain(S)') \in Nat
         /\ a \notin OnChain(S) /\ tx'[a] \in {"landed", "final"}
              => SumFunctionOnSet(f, OnChain(S)') = SumFunctionOnSet(f, OnChain(S)) + f[a]
         /\ a \in OnChain(S) /\ tx'[a] \notin {"landed", "final"}
              => SumFunctionOnSet(f, OnChain(S)) = SumFunctionOnSet(f, OnChain(S)') + f[a]
         /\ (tx'[a] \in {"landed", "final"} <=> tx[a] \in {"landed", "final"}) => OnChain(S)' = OnChain(S)
<1>1. OnChain(S) \subseteq S /\ OnChain(S)' \subseteq S /\ OnChain(S)' \subseteq OnChain(S) \cup {a}
  BY DEF OnChain
<1>2. IsFiniteSet(OnChain(S) \cup {a}) /\ IsFiniteSet(OnChain(S)')
  BY <1>1, FS_AddElement, FS_Subset
<1>3. SumFunctionOnSet(f, OnChain(S)) \in Nat /\ SumFunctionOnSet(f, OnChain(S)') \in Nat /\ f[a] \in Nat
  <2>1. \A T : T \subseteq S /\ IsFiniteSet(T) => SumFunctionOnSet(f, T) \in Nat
    BY SumType
  <2> QED
    BY <1>1, <1>2, <2>1
<1>4. ASSUME NEW T, T \subseteq S, IsFiniteSet(T), a \in T
      PROVE  SumFunctionOnSet(f, T) = f[a] + SumFunctionOnSet(f, T \ {a})
  BY <1>4, SumSplits
<1>5. ASSUME a \notin OnChain(S), tx'[a] \in {"landed", "final"}
      PROVE  SumFunctionOnSet(f, OnChain(S)') = SumFunctionOnSet(f, OnChain(S)) + f[a]
  <2>1. a \in OnChain(S)' /\ OnChain(S)' \ {a} = OnChain(S)
    BY <1>5 DEF OnChain
  <2>2. SumFunctionOnSet(f, OnChain(S)') = f[a] + SumFunctionOnSet(f, OnChain(S)' \ {a})
    BY <1>1, <1>2, <1>4, <2>1
  <2> DEFINE was == SumFunctionOnSet(f, OnChain(S))
             now == SumFunctionOnSet(f, OnChain(S)')
  <2>3. now = f[a] + was /\ was \in Nat /\ now \in Nat
    BY <1>3, <2>1, <2>2
  <2>4. now = was + f[a]
    <3> HIDE DEF was, now
    <3> QED
      BY <1>3, <2>3
  <2> QED
    BY <2>4
<1>6. ASSUME a \in OnChain(S), tx'[a] \notin {"landed", "final"}
      PROVE  SumFunctionOnSet(f, OnChain(S)) = SumFunctionOnSet(f, OnChain(S)') + f[a]
  <2>1. OnChain(S) \ {a} = OnChain(S)'
    BY <1>6 DEF OnChain
  <2>2. SumFunctionOnSet(f, OnChain(S)) = f[a] + SumFunctionOnSet(f, OnChain(S) \ {a})
    BY <1>1, <1>4, <1>6
  <2>3. SumFunctionOnSet(f, OnChain(S) \ {a}) = SumFunctionOnSet(f, OnChain(S)')
    BY <2>1
  <2> DEFINE was == SumFunctionOnSet(f, OnChain(S))
             now == SumFunctionOnSet(f, OnChain(S)')
  <2>4. was = f[a] + now /\ was \in Nat /\ now \in Nat
    BY <1>3, <2>2, <2>3
  <2>5. was = now + f[a]
    <3> HIDE DEF was, now
    <3> QED
      BY <1>3, <2>4
  <2> QED
    BY <2>5
<1>7. ASSUME tx'[a] \in {"landed", "final"} <=> tx[a] \in {"landed", "final"} PROVE OnChain(S)' = OnChain(S)
  BY <1>7 DEF OnChain
<1> QED
  BY <1>2, <1>3, <1>5, <1>6, <1>7

LEMMA ChainKeepsCustody ==
  ASSUME TypeOK, CustodyFits, NEW a \in Attempts, FateMoves(a)
  PROVE  CustodyFits'
<1>0. /\ tx \in [Attempts -> TxFate] /\ tx' \in [Attempts -> TxFate] /\ custody \in Nat
      /\ Entries \cap Exits = {} /\ Attempts = Entries \cup Exits
      /\ \A e \in Entries : Notional[e] \in Nat
      /\ \A x \in Exits : Sold[x] \in Nat /\ Sold[x] = plan[x].sold
      /\ IsFiniteSet(OnChain(Exits)) /\ IsFiniteSet(OnChain(Entries))
      /\ custody + SumFunctionOnSet(Sold, OnChain(Exits)) = SumFunctionOnSet(Notional, OnChain(Entries))
  <2>1. OnChain(Entries) \subseteq Entries
    BY DEF OnChain
  <2>2. IsFiniteSet(OnChain(Entries))
    BY <2>1, ConstantsOK, FS_Subset
  <2>3. tx \in [Attempts -> TxFate] /\ custody \in Nat /\ plan \in [Exits -> [sold : Nat, held : Nat]]
    BY DEF TypeOK, WorldOK, JournalOK
  <2>4. tx' \in [Attempts -> TxFate]
    BY <2>3 DEF FateMoves, Land, FailOnChain, Rollback, Finalize, ExpireBlockhash, ExpireAuthorization, TxFate
  <2> QED
    BY <2>2, <2>3, <2>4, ConstantsOK DEF CustodyFits, Sold, Attempts
<1>1. /\ \A b \in Attempts \ {a} : tx'[b] = tx[b]
      /\ Sold' = Sold
      /\ \/ /\ tx[a] \notin {"landed", "final"} /\ tx'[a] \in {"landed", "final"}
            /\ custody' = IF a \in Entries THEN custody + Notional[a] ELSE custody - Sold[a]
         \/ /\ tx[a] \in {"landed", "final"} /\ tx'[a] \notin {"landed", "final"}
            /\ custody' = IF a \in Entries THEN custody - Notional[a] ELSE custody + Sold[a]
         \/ /\ tx[a] \in {"landed", "final"} <=> tx'[a] \in {"landed", "final"}
            /\ custody' = custody
  <2>1. UNCHANGED plan /\ Sold' = Sold
    BY DEF FateMoves, Land, FailOnChain, Rollback, Finalize, ExpireBlockhash, ExpireAuthorization, Outside,
       journalVars, Sold
  <2>2. \A b \in Attempts \ {a} : tx'[b] = tx[b]
    BY <1>0 DEF FateMoves, Land, FailOnChain, Rollback, Finalize, ExpireBlockhash, ExpireAuthorization
  <2>3. CASE Land(a)
    <3>1. /\ tx[a] = "sent" /\ tx'[a] = "landed"
          /\ IF a \in Entries THEN custody' = custody + Notional[a] ELSE custody' = custody - plan[a].sold
      BY <1>0, <2>3 DEF Land, Moved
    <3>2. a \in Entries \/ Sold[a] = plan[a].sold
      BY <1>0
    <3> QED
      BY <2>1, <2>2, <3>1, <3>2
  <2>4. CASE Rollback(a)
    BY <1>0, <2>1, <2>2, <2>4 DEF Rollback, Moved
  <2>5. CASE FailOnChain(a) \/ Finalize(a) \/ ExpireBlockhash(a) \/ ExpireAuthorization(a)
    BY <1>0, <2>1, <2>2, <2>5 DEF FailOnChain, Finalize, ExpireBlockhash, ExpireAuthorization
  <2> QED
    BY <2>3, <2>4, <2>5 DEF FateMoves
<1>2. CASE a \in Entries
  <2>1. OnChain(Exits)' = OnChain(Exits)
    BY <1>0, <1>1, <1>2 DEF OnChain
  <2>2. \A b \in Entries \ {a} : tx'[b] = tx[b]
    BY <1>0, <1>1
  <2>3. a \in OnChain(Entries) <=> tx[a] \in {"landed", "final"}
    BY <1>2 DEF OnChain
  <2> DEFINE was == SumFunctionOnSet(Notional, OnChain(Entries))
             now == SumFunctionOnSet(Notional, OnChain(Entries)')
             took == SumFunctionOnSet(Sold, OnChain(Exits))
  <2>4. /\ was \in Nat /\ now \in Nat
        /\ tx[a] \notin {"landed", "final"} /\ tx'[a] \in {"landed", "final"} => now = was + Notional[a]
        /\ tx[a] \in {"landed", "final"} /\ tx'[a] \notin {"landed", "final"} => was = now + Notional[a]
        /\ (tx'[a] \in {"landed", "final"} <=> tx[a] \in {"landed", "final"}) => now = was
    BY <1>0, <1>2, <2>2, <2>3, OnFateMoves
  <2>5. took \in Nat
    <3>1. OnChain(Exits) \subseteq Exits
      BY DEF OnChain
    <3> QED
      BY <1>0, <3>1, SumType
  <2>6. custody + took = was /\ Notional[a] \in Nat /\ custody \in Nat
    BY <1>0, <1>2
  <2>7. custody' + took = now
    <3> HIDE DEF was, now, took
    <3> QED
      BY <1>1, <1>2, <2>4, <2>5, <2>6
  <2> QED
    BY <1>0, <1>1, <2>1, <2>7 DEF CustodyFits
<1>3. CASE a \in Exits
  <2>0. a \notin Entries
    BY <1>0, <1>3
  <2>1. OnChain(Entries)' = OnChain(Entries)
    BY <1>0, <1>1, <2>0 DEF OnChain
  <2>2. \A b \in Exits \ {a} : tx'[b] = tx[b]
    BY <1>0, <1>1
  <2>3. a \in OnChain(Exits) <=> tx[a] \in {"landed", "final"}
    BY <1>3 DEF OnChain
  <2> DEFINE was == SumFunctionOnSet(Sold, OnChain(Exits))
             now == SumFunctionOnSet(Sold, OnChain(Exits)')
             brought == SumFunctionOnSet(Notional, OnChain(Entries))
  <2>4. /\ was \in Nat /\ now \in Nat /\ IsFiniteSet(OnChain(Exits)')
        /\ tx[a] \notin {"landed", "final"} /\ tx'[a] \in {"landed", "final"} => now = was + Sold[a]
        /\ tx[a] \in {"landed", "final"} /\ tx'[a] \notin {"landed", "final"} => was = now + Sold[a]
        /\ (tx'[a] \in {"landed", "final"} <=> tx[a] \in {"landed", "final"}) => now = was
    BY <1>0, <1>3, <2>2, <2>3, OnFateMoves
  <2>6. custody + was = brought /\ Sold[a] \in Nat /\ custody \in Nat
    BY <1>0, <1>3
  <2>7. custody' + now = brought
    <3> HIDE DEF was, now, brought
    <3> QED
      BY <1>1, <2>0, <2>4, <2>6
  <2> QED
    BY <1>0, <1>1, <2>1, <2>4, <2>7 DEF CustodyFits
<1> QED
  BY <1>0, <1>2, <1>3

LEMMA CrashKeeps ==
  ASSUME TypeOK, ClaimGuardsSend, OutcomeInv, ExposureInv, NoExitFinal, Crash
  PROVE  LedgerFits' /\ GivenBack' /\ UNCHANGED <<tx, custody, ledger>>
<1>0. LedgerFits /\ Entries \subseteq Attempts /\ None \notin Entries /\ None \in Releasers
  BY Ground, Standing DEF Releasers
<1>1. /\ UNCHANGED <<tx, custody, ledger, prepared, signed, outcomes>> /\ \A e \in Entries : pc'[e] = "idle"
      /\ tpc' = "idle" /\ rpc' = "idle" /\ \A p \in Releasers : releases'[p] = {}
  BY <1>0 DEF Crash, journalVars
<1>2. ASSUME NEW e \in Entries PROVE EntryFits(e)'
  BY <1>0, <1>1, FitsAll DEF EntryFits
<1> QED
  BY <1>1, <1>2 DEF GivenBack, LedgerFits, EntryFits

-----------------------------------------------------------------------------
(* The caps.                                                               *)

\* Every open entry counts with its notional, whether it is confirmed or not.
Counts(l) ==
  /\ l \in [Entries -> OpenEntry]
  /\ \A e \in Entries :
       IsOpen(l[e]) => l[e] \in {Authorized(Notional[e]), Confirmed(Authorized(Notional[e]), Notional[e])}

LEMMA ExposureIs ==
  ASSUME NEW l, Counts(l)
  PROVE  /\ \A e \in Entries :
              /\ Notional[e] \in Nat
              /\ Exposures(l)[e] = (IF IsOpen(l[e]) THEN Notional[e] ELSE 0)
              /\ ExposureOf(l[e]) = (IF IsOpen(l[e]) THEN Notional[e] ELSE 0)
         /\ Aggregate(l) = ExposureOn(l, Entries)
<1>1. ASSUME NEW e \in Entries
      PROVE  /\ Notional[e] \in Nat \ {0}
             /\ Exposures(l)[e] = (IF IsOpen(l[e]) THEN Notional[e] ELSE 0)
             /\ ExposureOf(l[e]) = (IF IsOpen(l[e]) THEN Notional[e] ELSE 0)
  <2>1. Notional[e] \in Nat \ {0}
    BY ConstantsOK
  <2>2. Exposures(l)[e] = ExposureOf(l[e])
    BY DEF Exposures, Counts
  <2>3. IsOpen(l[e]) \/ l[e] = Closed
    BY DEF IsOpen
  <2>4. IsOpen(l[e]) => l[e] \in {Authorized(Notional[e]), Confirmed(Authorized(Notional[e]), Notional[e])}
    BY DEF Counts
  <2> QED
    BY <2>1, <2>2, <2>3, <2>4, Shapes
<1>2. DOMAIN l = Entries
  BY DEF Counts
<1> QED
  BY <1>1, <1>2 DEF Aggregate

LEMMA ExposureType ==
  ASSUME NEW l, Counts(l), NEW S \in SUBSET Entries
  PROVE  ExposureOn(l, S) \in Nat
<1>1. IsFiniteSet(S) /\ \A e \in S : Exposures(l)[e] \in Nat
  BY ConstantsOK, ExposureIs, FS_Subset
<1> QED
  BY <1>1, SumType DEF ExposureOn

\* Nothing is opened: no exposure grows.
LEMMA ExposureShrinks ==
  ASSUME NEW l, NEW m, Counts(l), Counts(m), NEW S \in SUBSET Entries,
         \A e \in S : IsOpen(m[e]) => IsOpen(l[e])
  PROVE  ExposureOn(m, S) <= ExposureOn(l, S)
<1>1. IsFiniteSet(S)
  BY ConstantsOK, FS_Subset
<1>2. /\ \A e \in S : Exposures(m)[e] \in Nat /\ Exposures(l)[e] \in Nat
      /\ \A e \in S : Exposures(m)[e] <= Exposures(l)[e]
  BY ExposureIs
<1> QED
  BY <1>1, <1>2, SumGrows DEF ExposureOn

\* One entry is opened: its notional is added where it counts.
LEMMA ExposureAdds ==
  ASSUME NEW l, NEW m, Counts(l), Counts(m), NEW S \in SUBSET Entries, NEW a \in S,
         ~ IsOpen(l[a]), \A e \in S \ {a} : m[e] = l[e]
  PROVE  ExposureOn(m, S) <= ExposureOn(l, S) + Notional[a]
<1>1. IsFiniteSet(S) /\ IsFiniteSet(S \ {a}) /\ a \in Entries /\ Notional[a] \in Nat
  BY ConstantsOK, FS_Subset, ExposureIs
<1>2. /\ \A e \in S : Exposures(m)[e] \in Nat /\ Exposures(l)[e] \in Nat
      /\ \A e \in S \ {a} : Exposures(m)[e] = Exposures(l)[e]
      /\ Exposures(l)[a] = 0 /\ Exposures(m)[a] <= Notional[a]
  BY ExposureIs, <1>1
<1>3. ExposureOn(m, S) = Exposures(m)[a] + SumFunctionOnSet(Exposures(m), S \ {a})
  BY <1>1, <1>2, SumSplits DEF ExposureOn
<1>4. ExposureOn(l, S) = Exposures(l)[a] + SumFunctionOnSet(Exposures(l), S \ {a})
  BY <1>1, <1>2, SumSplits DEF ExposureOn
<1>5. SumFunctionOnSet(Exposures(m), S \ {a}) = SumFunctionOnSet(Exposures(l), S \ {a})
  BY <1>1, <1>2, SumRespects
<1>6. SumFunctionOnSet(Exposures(l), S \ {a}) \in Nat /\ Exposures(m)[a] \in Nat
  BY <1>1, <1>2, SumType
<1> QED
  BY <1>1, <1>2, <1>3, <1>4, <1>5, <1>6

LEMMA FitsCount ==
  ASSUME NEW l, l \in [Entries -> OpenEntry],
         \A e \in Entries :
           IsOpen(l[e]) => l[e] \in {Authorized(Notional[e]), Confirmed(Authorized(Notional[e]), Notional[e])}
  PROVE  Counts(l)
BY DEF Counts

LEMMA BothCount ==
  ASSUME TypeOK, TypeOK', LedgerFits, LedgerFits'
  PROVE  Counts(ledger) /\ Counts(ledger')
<1>1. /\ ledger \in [Entries -> OpenEntry] /\ ledger' \in [Entries -> OpenEntry]
  BY DEF TypeOK, JournalOK
<1> QED
  BY <1>1, FitsCount DEF LedgerFits

LEMMA CapsKept ==
  ASSUME TypeOK, TypeOK', LedgerFits, LedgerFits', CapsHold,
         \A e \in Entries : IsOpen(ledger'[e]) => IsOpen(ledger[e])
  PROVE  CapsHold'
<1>0. Counts(ledger) /\ Counts(ledger') /\ Monitored \in SUBSET Entries /\ Entries \in SUBSET Entries
  BY BothCount, ConstantsOK
<1>1. ExposureOn(ledger', Monitored) <= ExposureOn(ledger, Monitored)
  BY <1>0, ExposureShrinks
<1>2. ExposureOn(ledger', Entries) <= ExposureOn(ledger, Entries)
  BY <1>0, ExposureShrinks
<1>3. /\ ExposureOn(ledger', Entries) \in Nat /\ ExposureOn(ledger, Entries) \in Nat
      /\ ExposureOn(ledger', Monitored) \in Nat /\ ExposureOn(ledger, Monitored) \in Nat
      /\ AggregateCap \in Nat /\ OutageCap \in Nat
  BY <1>0, ExposureType, ConstantsOK
<1>4. Aggregate(ledger) = ExposureOn(ledger, Entries) /\ Aggregate(ledger') = ExposureOn(ledger', Entries)
  BY <1>0, ExposureIs
<1>5. ExposureOn(ledger, Entries) <= AggregateCap /\ ExposureOn(ledger, Monitored) <= OutageCap
  BY <1>4 DEF CapsHold
<1>6. ExposureOn(ledger', Entries) <= AggregateCap /\ ExposureOn(ledger', Monitored) <= OutageCap
  BY <1>1, <1>2, <1>3, <1>5
<1> QED
  BY <1>4, <1>6 DEF CapsHold

LEMMA AdmissionKeepsCaps ==
  ASSUME TypeOK, TypeOK', LedgerFits, LedgerFits', CapsHold, NEW a \in Entries, a \notin prepared \/ pc[a] = "prepared",
         WithinCaps(a), ledger' = [ledger EXCEPT ![a] = Authorized(Notional[a])]
  PROVE  CapsHold'
<1>0. /\ Counts(ledger) /\ Counts(ledger') /\ Monitored \in SUBSET Entries /\ Entries \in SUBSET Entries
      /\ ledger \in [Entries -> OpenEntry] /\ Notional[a] \in Nat
  BY BothCount, ConstantsOK DEF Counts
<1>1. ~ IsOpen(ledger[a]) /\ \A e \in Entries \ {a} : ledger'[e] = ledger[e]
  BY <1>0 DEF LedgerFits
<1>2. ExposureOn(ledger', Entries) <= ExposureOn(ledger, Entries) + Notional[a]
  BY <1>0, <1>1, ExposureAdds
<1>3. /\ ExposureOn(ledger', Entries) \in Nat /\ ExposureOn(ledger, Entries) \in Nat
      /\ ExposureOn(ledger', Monitored) \in Nat /\ ExposureOn(ledger, Monitored) \in Nat
      /\ AggregateCap \in Nat /\ OutageCap \in Nat
  BY <1>0, ExposureType, ConstantsOK
<1>4. Aggregate(ledger) = ExposureOn(ledger, Entries) /\ Aggregate(ledger') = ExposureOn(ledger', Entries)
  BY <1>0, ExposureIs
<1>5. /\ ExposureOn(ledger, Entries) + Notional[a] <= AggregateCap /\ ExposureOn(ledger, Monitored) <= OutageCap
      /\ a \in Monitored => ExposureOn(ledger, Monitored) + Notional[a] <= OutageCap
  BY <1>4 DEF CapsHold, WithinCaps
<1>6. ExposureOn(ledger', Monitored) <= OutageCap
  <2>1. CASE a \in Monitored
    <3>1. ExposureOn(ledger', Monitored) <= ExposureOn(ledger, Monitored) + Notional[a]
      <4>1. \A e \in Monitored \ {a} : ledger'[e] = ledger[e]
        BY <1>0, <1>1
      <4> QED
        BY <1>0, <1>1, <2>1, <4>1, ExposureAdds
    <3> QED
      BY <1>0, <1>3, <1>5, <2>1, <3>1
  <2>2. CASE a \notin Monitored
    <3>1. \A e \in Monitored : IsOpen(ledger'[e]) => IsOpen(ledger[e])
      BY <1>0, <1>1, <2>2
    <3>2. ExposureOn(ledger', Monitored) <= ExposureOn(ledger, Monitored)
      BY <1>0, <3>1, ExposureShrinks
    <3> QED
      BY <1>3, <1>5, <3>2
  <2> QED
    BY <2>1, <2>2
<1>7. ExposureOn(ledger', Entries) <= AggregateCap
  BY <1>0, <1>2, <1>3, <1>5
<1> QED
  BY <1>4, <1>6, <1>7 DEF CapsHold

\* What leaves the chain, the wallet and the plans of sold exits alone, leaves the balance alone.
LEMMA CustodyStays ==
  ASSUME TypeOK, CustodyFits, custody' = custody,
         \A a \in Attempts : tx'[a] \in {"landed", "final"} <=> tx[a] \in {"landed", "final"},
         \A x \in OnChain(Exits) : plan'[x].sold = plan[x].sold
  PROVE  CustodyFits'
<1>1. OnChain(Exits)' = OnChain(Exits) /\ OnChain(Entries)' = OnChain(Entries)
  BY DEF OnChain, Attempts
<1>2. OnChain(Exits) \subseteq Exits /\ IsFiniteSet(OnChain(Exits))
  BY DEF OnChain, CustodyFits
<1>3. \A x \in OnChain(Exits) : Sold'[x] = Sold[x]
  BY <1>2 DEF Sold
<1> DEFINE f == Sold
           g == Sold'
<1>4. SumFunctionOnSet(g, OnChain(Exits)) = SumFunctionOnSet(f, OnChain(Exits))
  <2>1. \A x \in OnChain(Exits) : g[x] = f[x]
    BY <1>3
  <2>2. \A x \in OnChain(Exits) : f[x] \in Nat /\ g[x] \in Nat
    BY <1>2, <2>1 DEF TypeOK, JournalOK, Sold
  <2> HIDE DEF f, g
  <2> QED
    BY <1>2, <2>1, <2>2, SumRespects
<1> QED
  BY <1>1, <1>2, <1>4 DEF CustodyFits

LEMMA AttemptCustody ==
  ASSUME TypeOK, CustodyFits, NEW a \in Attempts, (a \in Entries /\ EntryStep(a)) \/ AttemptStep(a)
  PROVE  CustodyFits'
<1>1. custody' = custody
  <2>1. \E from, to : Handling(a, from, to)
    BY DEF EntryStep, AttemptStep, Verify, ClaimEntry, Duplicate, AdmitByCaps, RefuseByCaps, ConfirmFinal, PassChecks,
       Sign, Submit, Send, ReleaseBeforeFailing, Fail, Throw, LeaveUnresolved, ProviderConfirms, ConfirmProvisional,
       Observe, Complete
  <2> QED
    BY <2>1 DEF Handling
<1>2. plan' = plan
  BY DEF EntryStep, AttemptStep, Verify, ClaimEntry, Duplicate, AdmitByCaps, RefuseByCaps, ConfirmFinal, PassChecks,
     Sign, Submit, Send, ReleaseBeforeFailing, Fail, Throw, LeaveUnresolved, ProviderConfirms, ConfirmProvisional,
     Observe, Complete, LedgerWrite, WriteResult, ConfirmIfOpen, journalVars
<1>3. \A b \in Attempts : tx'[b] \in {"landed", "final"} <=> tx[b] \in {"landed", "final"}
  <2>1. CASE Send(a)
    <3>1. tx' = [tx EXCEPT ![a] = IF @ = "unsent" THEN "sent" ELSE @] /\ tx \in [Attempts -> TxFate]
      BY <2>1 DEF Send, TypeOK, WorldOK
    <3> QED
      BY <3>1
  <2>2. CASE ~ Send(a)
    <3>1. tx' = tx
      BY <2>2 DEF EntryStep, AttemptStep, Verify, ClaimEntry, Duplicate, AdmitByCaps, RefuseByCaps, ConfirmFinal,
         PassChecks, Sign, Submit, ReleaseBeforeFailing, Fail, Throw, LeaveUnresolved, ProviderConfirms,
         ConfirmProvisional, Observe, Complete, chainVars
    <3> QED
      BY <3>1
  <2> QED
    BY <2>1, <2>2
<1> QED
  BY <1>1, <1>2, <1>3, CustodyStays

\* A handler of an exit plans, signs, sends and settles; while no exit is final it touches no entry's exposure.
LEMMA ExitKeeps ==
  ASSUME TypeOK, ClaimGuardsSend, OutcomeInv, ExposureInv, NoExitFinal, NEW x \in Exits,
         ExitStep(x) \/ AttemptStep(x)
  PROVE  LedgerFits' /\ GivenBack' /\ CustodyFits' /\ UNCHANGED ledger
<1>0. /\ LedgerFits /\ GivenBack /\ CustodyFits /\ x \in Attempts /\ x \notin Entries /\ x \in Releasers
      /\ \A e \in Entries : EntryFits(e) /\ e # x
      /\ pc \in [Attempts -> HandlerPc] /\ tx \in [Attempts -> TxFate] /\ outcomes \in [Attempts -> SUBSET Terminal]
      /\ Entries \subseteq Attempts
  BY Ground DEF Releasers
<1>1. UNCHANGED <<ledger, releases>>
  <2>1. ~ ExitFinal(x) /\ ~ ExitShare(x)
    BY <1>0 DEF ExitFinal, ExitShare, ReleaseShare, IsFinal, NoExitFinal, GivenBack
  <2> QED
    BY <1>0, <2>1 DEF ExitStep, AttemptStep, ReceiveClose, PlanClose, CloseNothing, PauseAfterClose, PauseBy, Prepare,
       PassChecks, Sign, JournalSigned, Submit, Send, ReleaseBeforeFailing, Fail, Throw, LeaveUnresolved,
       ProviderConfirms, ConfirmProvisional, ConfirmIfOpen, Observe, Complete, WriteResult, journalVars
<1>2. PICK from, to : Handling(x, from, to)
  BY DEF ExitStep, ReceiveClose, PlanClose, CloseNothing, ExitFinal, ExitShare, PauseAfterClose, AttemptStep, PassChecks,
     Sign, Submit, Send, ReleaseBeforeFailing, Fail, Throw, LeaveUnresolved, ProviderConfirms, ConfirmProvisional,
     Observe, Complete
<1>3. \A e \in Attempts \ {x} : /\ tx'[e] = tx[e] /\ outcomes'[e] = outcomes[e]
                                 /\ (e \in prepared' <=> e \in prepared) /\ (e \in signed' <=> e \in signed)
  BY <1>0 DEF ExitStep, AttemptStep, ReceiveClose, PlanClose, CloseNothing, ExitFinal, ExitShare, ReleaseShare,
     PauseAfterClose, PauseBy, Prepare, PassChecks, Sign, JournalSigned, Submit, Send, ReleaseBeforeFailing, Fail, Throw,
     LeaveUnresolved, ProviderConfirms, ConfirmProvisional, ConfirmIfOpen, Observe, Complete, WriteResult, LedgerWrite,
     journalVars, chainVars
<1>4. \A e \in Entries : Same(e)
  BY <1>0, <1>1, <1>2, <1>3 DEF Same, Handling
<1>5. LedgerFits'
  <2>1. \A e \in Entries : EntryFits(e)'
    BY <1>0, <1>4, SameFits
  <2> QED
    BY <2>1 DEF LedgerFits, EntryFits
<1>6. GivenBack'
  BY <1>1, <1>2, <1>5, <1>0, HandlerGivesNothing DEF OnlyUnsignedOpen
<1>7. CustodyFits'
  <2>1. CASE AttemptStep(x)
    BY <1>0, <2>1, AttemptCustody
  <2>2. CASE PlanClose(x)
    <3>1. x \notin prepared /\ tx[x] = "unsent"
      BY <1>0, <2>2, Standing DEF PlanClose, KeysClaimed, MarksFit
    <3>2. UNCHANGED <<tx, custody>> /\ \A y \in Exits \ {x} : plan'[y] = plan[y]
      BY <2>2 DEF PlanClose, chainVars, Handling, TypeOK, JournalOK
    <3>3. \A y \in OnChain(Exits) : plan'[y].sold = plan[y].sold
      BY <3>1, <3>2 DEF OnChain
    <3> QED
      BY <1>0, <3>2, <3>3, CustodyStays
  <2>3. CASE ReceiveClose(x) \/ CloseNothing(x) \/ ExitFinal(x) \/ ExitShare(x) \/ PauseAfterClose(x)
    <3>1. UNCHANGED <<tx, custody, plan>>
      BY <1>2, <2>3 DEF ReceiveClose, CloseNothing, ExitFinal, ExitShare, PauseAfterClose, ReleaseShare, LedgerWrite, PauseBy,
         journalVars, chainVars, Handling
    <3> QED
      BY <1>0, <3>1, CustodyStays
  <2> QED
    BY <2>1, <2>2, <2>3 DEF ExitStep
<1> QED
  BY <1>1, <1>5, <1>6, <1>7

\* The plans are of the exits' own handlers.
LEMMA PlansStay ==
  ASSUME TrackStep \/ RecoverStep \/ CommandPause \/ OperatorClears \/ Crash
  PROVE  UNCHANGED plan
<1>1. CASE TrackStep
  BY <1>1 DEF TrackStep, TrackVerdict, TrackBegin, TrackPick, TrackNothing, TrackFinal, TrackConfirmed, TrackReorg,
     TrackPause, TrackDead, TrackShare, ReleaseShare, TrackComplete, TrackObserve, TrackFail, TrackEnd, TrackClear,
     TrackKeepPause, ConfirmIfOpen, ReleaseIfOpen, LedgerWrite, WriteResult, PauseBy, ClearPause, journalVars
<1>2. CASE RecoverStep
  BY <1>2 DEF RecoverStep, RecoverBegin, RecoverRelease, RecoverExpired, RecoverScan, RecoverFinal, RecoverDead,
     RecoverNothing, RecoverComplete, RecoverFail, RecoverEnd, ConfirmIfOpen, ReleaseIfOpen, LedgerWrite, WriteResult,
     journalVars
<1>3. CASE CommandPause \/ OperatorClears \/ Crash
  BY <1>3 DEF CommandPause, OperatorClears, Crash, PauseBy, ClearPause, journalVars
<1> QED
  BY <1>1, <1>2, <1>3

\* Only an admission opens an entry.
LEMMA EntryOpens ==
  ASSUME TypeOK, NEW a \in Entries, EntryStep(a) \/ AttemptStep(a), ~ AdmitByCaps(a)
  PROVE  \A e \in Entries : IsOpen(ledger'[e]) => IsOpen(ledger[e])
<1>0. ledger \in [Entries -> OpenEntry]
  BY DEF TypeOK, JournalOK
<1>1. CASE ConfirmFinal(a) \/ ConfirmProvisional(a) \/ ReleaseBeforeFailing(a)
  <2>1. \/ UNCHANGED ledger
        \/ IsOpen(ledger[a]) /\ \E o : ledger' = [ledger EXCEPT ![a] = o]
        \/ ledger' = [ledger EXCEPT ![a] = Closed]
    BY <1>1 DEF ConfirmFinal, ConfirmProvisional, ReleaseBeforeFailing, ConfirmIfOpen, LedgerWrite, journalVars
  <2> QED
    BY <1>0, <2>1 DEF IsOpen
<1>2. CASE ~ (ConfirmFinal(a) \/ ConfirmProvisional(a) \/ ReleaseBeforeFailing(a))
  <2>1. UNCHANGED ledger
    BY <1>2 DEF EntryStep, AttemptStep, Verify, ClaimEntry, Duplicate, RefuseByCaps, PassChecks, Sign, Submit, Send,
       Fail, Throw, LeaveUnresolved, ProviderConfirms, Observe, Complete, Prepare, JournalSigned, WriteResult, journalVars
  <2> QED
    BY <2>1
<1> QED
  BY <1>1, <1>2

-----------------------------------------------------------------------------
(* The invariant.                                                          *)

LEMMA InitExposure ==
  ASSUME Init
  PROVE  ExposureInv
<1>1. Entries \subseteq Attempts /\ Exits \subseteq Attempts /\ None \in Releasers /\ None \notin Entries
  BY ConstantsOK DEF Attempts, Releasers
<1>2. LedgerFits /\ GivenBack
  BY <1>1 DEF Init, LedgerFits, GivenBack, IsOpen
<1>3. CustodyFits
  <2>1. OnChain(Entries) = {} /\ OnChain(Exits) = {}
    BY <1>1 DEF Init, OnChain
  <2>2. SumFunctionOnSet(Sold, {}) = 0 /\ SumFunctionOnSet(Notional, {}) = 0
    BY SumOfNone
  <2> QED
    BY <2>1, <2>2, FS_EmptySet DEF CustodyFits, Init
<1>4. CapsHold
  <2>1. Counts(ledger) /\ \A e \in Entries : ~ IsOpen(ledger[e])
    BY <1>1 DEF Init, Counts, IsOpen, OpenEntry, Closed
  <2>2. \A e \in Entries : Exposures(ledger)[e] = 0 /\ Notional[e] \in Nat
    BY <2>1, ExposureIs
  <2>3. ASSUME NEW S \in SUBSET Entries PROVE ExposureOn(ledger, S) = 0
    <3>1. IsFiniteSet(S) /\ \A x \in S : Exposures(ledger)[x] = 0
      BY ConstantsOK, FS_Subset, <2>2
    <3> QED
      BY <3>1, SumOfZeros DEF ExposureOn
  <2>4. Aggregate(ledger) = 0 /\ ExposureOn(ledger, Monitored) = 0
    BY <2>1, <2>3, ExposureIs, ConstantsOK
  <2> QED
    BY <2>4, ConstantsOK DEF CapsHold
<1> QED
  BY <1>2, <1>3, <1>4 DEF ExposureInv

LEMMA NextExposure ==
  ASSUME TypeOK, TypeOK', ClaimGuardsSend, OutcomeInv, OutcomeInv', ExposureInv, NoExitFinal, ~ LiveRecovery,
         [Next]_vars
  PROVE  ExposureInv'
<1>0. LedgerFits /\ GivenBack /\ CustodyFits /\ CapsHold /\ Entries \subseteq Attempts /\ Attempts = Entries \cup Exits
  BY Ground DEF Attempts
<1>1. ASSUME LedgerFits', GivenBack', UNCHANGED <<tx, custody, plan>>,
             \A e \in Entries : IsOpen(ledger'[e]) => IsOpen(ledger[e])
      PROVE  ExposureInv'
  <2>1. CustodyFits'
    BY <1>0, <1>1, CustodyStays
  <2>2. CapsHold'
    BY <1>0, <1>1, CapsKept
  <2> QED
    BY <1>1, <2>1, <2>2 DEF ExposureInv
<1>2. ASSUME NEW a \in Entries, EntryStep(a) \/ AttemptStep(a) PROVE ExposureInv'
  <2>1. LedgerFits' /\ GivenBack'
    BY <1>2, EntryKeeps
  <2>2. CustodyFits'
    BY <1>0, <1>2, AttemptCustody
  <2>3. CapsHold'
    <3>1. CASE AdmitByCaps(a)
      <4>1. pc[a] = "prepared" /\ WithinCaps(a) /\ ledger' = [ledger EXCEPT ![a] = Authorized(Notional[a])]
        BY <3>1 DEF AdmitByCaps, Handling, LedgerWrite
      <4> QED
        BY <1>0, <2>1, <4>1, AdmissionKeepsCaps
    <3>2. CASE ~ AdmitByCaps(a)
      <4>1. \A e \in Entries : IsOpen(ledger'[e]) => IsOpen(ledger[e])
        BY <1>2, <3>2, EntryOpens
      <4> QED
        BY <1>0, <2>1, <4>1, CapsKept
    <3> QED
      BY <3>1, <3>2
  <2> QED
    BY <2>1, <2>2, <2>3 DEF ExposureInv
<1>3. CASE CommandPause \/ OperatorClears
  BY <1>1, <1>3, OperatorKeeps, PlansStay
<1>4. CASE TrackStep
  BY <1>1, <1>4, TrackKeeps, PlansStay
<1>5. CASE RecoverStep
  BY <1>1, <1>5, RecoverKeeps, PlansStay
<1>6. CASE Crash
  <2>1. LedgerFits' /\ GivenBack' /\ UNCHANGED <<tx, custody, ledger>>
    BY <1>6, CrashKeeps
  <2> QED
    BY <1>1, <1>6, <2>1, PlansStay
<1>7. ASSUME NEW a \in Attempts, FateMoves(a) PROVE ExposureInv'
  <2>1. LedgerFits' /\ GivenBack' /\ UNCHANGED ledger
    BY <1>7, ChainKeepsFit
  <2>2. CapsHold'
    BY <1>0, <2>1, CapsKept
  <2>3. CustodyFits'
    BY <1>0, <1>7, ChainKeepsCustody
  <2> QED
    BY <2>1, <2>2, <2>3 DEF ExposureInv
<1>8. CASE UNCHANGED vars
  <2>1. UNCHANGED <<pc, tx, custody, plan, prepared, signed, outcomes, ledger, releases, tpc, tcur, rpc, rcur>>
    BY <1>8 DEF vars, journalVars, handlerVars, trackVars, recoverVars, worldVars
  <2>2. LedgerFits' /\ GivenBack'
    BY <1>0, <2>1 DEF LedgerFits, GivenBack
  <2> QED
    BY <1>1, <2>1, <2>2
<1>9. ASSUME NEW x \in Exits, ExitStep(x) \/ AttemptStep(x) PROVE ExposureInv'
  <2>1. LedgerFits' /\ GivenBack' /\ CustodyFits' /\ UNCHANGED ledger
    BY <1>9, ExitKeeps
  <2>2. CapsHold'
    BY <1>0, <2>1, CapsKept
  <2> QED
    BY <2>1, <2>2 DEF ExposureInv
<1> QED
  BY <1>0, <1>2, <1>3, <1>4, <1>5, <1>6, <1>7, <1>8, <1>9 DEF Next, WorldStep, FateMoves

\* What is final stays final.
LEMMA FinalStays ==
  ASSUME TypeOK, [Next]_vars, NoExitFinal'
  PROVE  NoExitFinal
<1>1. tx \in [Attempts -> TxFate] /\ Exits \subseteq Attempts
  BY DEF TypeOK, WorldOK, Attempts
<1>2. ASSUME NEW a \in Attempts, FateMoves(a) PROVE \A b \in Attempts : tx[b] = "final" => tx'[b] = "final"
  BY <1>1, <1>2 DEF FateMoves, Land, FailOnChain, Rollback, Finalize, ExpireBlockhash, ExpireAuthorization
<1>3. ASSUME NEW a \in Attempts, (a \in Entries /\ EntryStep(a)) \/ AttemptStep(a) \/ (a \in Exits /\ ExitStep(a))
      PROVE  \A b \in Attempts : tx[b] = "final" => tx'[b] = "final"
  <2>1. CASE Send(a)
    BY <1>1, <2>1 DEF Send
  <2>2. CASE ~ Send(a)
    <3>1. tx' = tx
      BY <1>3, <2>2 DEF EntryStep, AttemptStep, ExitStep, Verify, ClaimEntry, Duplicate, AdmitByCaps, RefuseByCaps,
         ConfirmFinal, PassChecks, Sign, Submit, ReleaseBeforeFailing, Fail, Throw, LeaveUnresolved, ProviderConfirms,
         ConfirmProvisional, Observe, Complete, ReceiveClose, PlanClose, CloseNothing, ExitFinal, ExitShare,
         PauseAfterClose, chainVars
    <3> QED
      BY <3>1
  <2> QED
    BY <2>1, <2>2
<1>4. ASSUME CommandPause \/ OperatorClears \/ TrackStep \/ RecoverStep \/ Crash \/ UNCHANGED vars
      PROVE  \A b \in Attempts : tx[b] = "final" => tx'[b] = "final"
  <2>1. CASE TrackStep
    <3>1. \E from, to : Tracking(from, to)
      BY <2>1 DEF TrackStep, TrackVerdict, TrackBegin, TrackPick, TrackNothing, TrackFinal, TrackConfirmed, TrackReorg,
         TrackPause, TrackDead, TrackShare, TrackComplete, TrackObserve, TrackFail, TrackEnd, TrackClear, TrackKeepPause
    <3> QED
      BY <3>1 DEF Tracking, worldVars
  <2>2. CASE RecoverStep
    <3>1. \E from, to : Recovering(from, to)
      BY <2>2 DEF RecoverStep, RecoverBegin, RecoverRelease, RecoverExpired, RecoverScan, RecoverFinal, RecoverDead,
         RecoverNothing, RecoverComplete, RecoverFail, RecoverEnd
    <3> QED
      BY <3>1 DEF Recovering, worldVars
  <2>3. CASE CommandPause \/ OperatorClears \/ Crash \/ UNCHANGED vars
    BY <2>3 DEF CommandPause, OperatorClears, Crash, vars, worldVars
  <2> QED
    BY <1>4, <2>1, <2>2, <2>3
<1>5. \A b \in Attempts : tx[b] = "final" => tx'[b] = "final"
  BY <1>2, <1>3, <1>4 DEF Next, WorldStep, FateMoves, Attempts
<1> QED
  BY <1>1, <1>5 DEF NoExitFinal

\* Why the caps bound the risk: the ledger counts an entry in full from its admission for as long as its transaction
\* may have an effect, the wallet holds what landed less what was sold, and no admission steps over a cap.
THEOREM ExposureInvariant == ~LiveRecovery /\ Spec => [](NoExitFinal => ExposureInv)
<1> SUFFICES ASSUME ~LiveRecovery PROVE Spec => [](NoExitFinal => ExposureInv)
  OBVIOUS
<1> DEFINE counted == NoExitFinal => ExposureInv
<1>1. Init => counted
  BY InitExposure
<1>2. TypeOK /\ TypeOK' /\ ClaimGuardsSend /\ OutcomeInv /\ OutcomeInv' /\ counted /\ [Next]_vars => counted'
  <2> SUFFICES ASSUME TypeOK, TypeOK', ClaimGuardsSend, OutcomeInv, OutcomeInv', counted, [Next]_vars, NoExitFinal'
               PROVE  ExposureInv'
    OBVIOUS
  <2>1. NoExitFinal
    BY FinalStays
  <2> QED
    BY <2>1, NextExposure
<1>3. Spec => []TypeOK
  BY TypeCorrect
<1>4. Spec => []ClaimGuardsSend
  BY ClaimsGuard
<1>5. Spec => []OutcomeInv
  BY OutcomesInvariant
<1> QED
  BY <1>1, <1>2, <1>3, <1>4, <1>5, PTL DEF Spec

-----------------------------------------------------------------------------
(* What follows.                                                           *)

\* What may have an effect is counted.
LEMMA RiskIsCounted ==
  ASSUME TypeOK, LedgerFits, NEW S \in SUBSET Entries
  PROVE  /\ SumFunctionOnSet(Notional, {e \in S : tx[e] \in {"sent", "landed", "final"}}) <= ExposureOn(ledger, S)
         /\ SumFunctionOnSet(Notional, {e \in S : tx[e] \in {"landed", "final"}}) <= ExposureOn(ledger, S)
<1>1. Counts(ledger) /\ IsFiniteSet(S) /\ \A e \in S : IsOpen(ledger[e]) => Exposures(ledger)[e] = Notional[e]
  <2>1. Counts(ledger) /\ IsFiniteSet(S)
    BY FitsCount, ConstantsOK, FS_Subset DEF TypeOK, JournalOK, LedgerFits
  <2> QED
    BY <2>1, ExposureIs
<1>2. \A e \in S : Notional[e] \in Nat /\ Exposures(ledger)[e] \in Nat
  BY <1>1, ExposureIs
<1>3. \A e \in S : tx[e] \in {"sent", "landed", "final"} => Notional[e] <= Exposures(ledger)[e]
  BY <1>1, <1>2 DEF LedgerFits
<1>4. ASSUME NEW T, T \subseteq S, \A e \in T : tx[e] \in {"sent", "landed", "final"}
      PROVE  SumFunctionOnSet(Notional, T) <= ExposureOn(ledger, S)
  <2>1. \A e \in T : Notional[e] <= Exposures(ledger)[e]
    BY <1>3, <1>4
  <2> QED
    BY <1>1, <1>2, <1>4, <2>1, SumGrows DEF ExposureOn
<1>5. SumFunctionOnSet(Notional, {e \in S : tx[e] \in {"sent", "landed", "final"}}) <= ExposureOn(ledger, S)
  BY <1>4
<1>6. SumFunctionOnSet(Notional, {e \in S : tx[e] \in {"landed", "final"}}) <= ExposureOn(ledger, S)
  BY <1>4
<1> QED
  BY <1>5, <1>6

\* Exits only take from what entries brought.
LEMMA HeldWasBought ==
  ASSUME TypeOK, CustodyFits
  PROVE  /\ SumFunctionOnSet(Notional, OnChain(Entries)) \in Nat
         /\ SumFunctionOnSet(Sold, OnChain(Exits)) \in Nat
         /\ custody <= SumFunctionOnSet(Notional, OnChain(Entries))
<1>1. OnChain(Entries) \subseteq Entries /\ OnChain(Exits) \subseteq Exits
  BY DEF OnChain
<1>2. IsFiniteSet(OnChain(Entries)) /\ IsFiniteSet(OnChain(Exits))
  BY <1>1, ConstantsOK, FS_Subset DEF CustodyFits
<1>3. (\A e \in OnChain(Entries) : Notional[e] \in Nat) /\ \A x \in OnChain(Exits) : Sold[x] \in Nat
  BY <1>1, ConstantsOK DEF Sold, TypeOK, JournalOK
<1>4. SumFunctionOnSet(Notional, OnChain(Entries)) \in Nat
  BY <1>2, <1>3, SumType
<1>5. SumFunctionOnSet(Sold, OnChain(Exits)) \in Nat
  BY <1>2, <1>3, SumType
<1> QED
  BY <1>4, <1>5 DEF CustodyFits, TypeOK, WorldOK

LEMMA LedgerCovers ==
  ASSUME TypeOK, ExposureInv
  PROVE  LedgerCoversCustody
<1>1. SumFunctionOnSet(Notional, OnChain(Entries)) <= ExposureOn(ledger, Entries)
  BY RiskIsCounted DEF ExposureInv, OnChain
<1>2. Aggregate(ledger) = ExposureOn(ledger, Entries)
  BY DEF Aggregate, TypeOK, JournalOK
<1>3. custody <= SumFunctionOnSet(Notional, OnChain(Entries))
  BY HeldWasBought DEF ExposureInv
<1>4. SumFunctionOnSet(Notional, OnChain(Entries)) \in Nat /\ custody \in Nat /\ ExposureOn(ledger, Entries) \in Nat
  <2>1. Counts(ledger)
    BY FitsCount DEF TypeOK, JournalOK, ExposureInv, LedgerFits
  <2> QED
    BY <2>1, HeldWasBought, ExposureType DEF TypeOK, WorldOK, ExposureInv
<1> QED
  BY <1>1, <1>2, <1>3, <1>4 DEF LedgerCoversCustody

LEMMA RiskStaysWithinCaps ==
  ASSUME TypeOK, ExposureInv
  PROVE  AtRiskWithinCaps
<1> DEFINE risky == {e \in Entries : tx[e] \in {"sent", "landed", "final"}}
           held  == {e \in Entries : tx[e] \in {"landed", "final"}}
           sent  == {e \in Entries : tx[e] = "sent"}
           watched == SumFunctionOnSet(Notional, {e \in Monitored : tx[e] \in {"sent", "landed", "final"}})
<1>1. /\ IsFiniteSet(Entries) /\ Monitored \in SUBSET Entries /\ \A e \in Entries : Notional[e] \in Nat
      /\ AggregateCap \in Nat /\ OutageCap \in Nat
  BY ConstantsOK
<1>2. SumFunctionOnSet(Notional, risky) = SumFunctionOnSet(Notional, held) + SumFunctionOnSet(Notional, sent)
  <2>1. IsFiniteSet(risky) /\ sent \subseteq risky /\ risky \ sent = held /\ \A e \in risky : Notional[e] \in Nat
    BY <1>1, FS_Subset
  <2> QED
    BY <2>1, SumOfParts
<1>3. SumFunctionOnSet(Notional, risky) <= ExposureOn(ledger, Entries) /\ watched <= ExposureOn(ledger, Monitored)
  BY <1>1, RiskIsCounted DEF ExposureInv
<1>4. ExposureOn(ledger, Entries) <= AggregateCap /\ ExposureOn(ledger, Monitored) <= OutageCap
  BY DEF ExposureInv, CapsHold, Aggregate, TypeOK, JournalOK
<1>5. /\ ExposureOn(ledger, Entries) \in Nat /\ ExposureOn(ledger, Monitored) \in Nat
      /\ SumFunctionOnSet(Notional, risky) \in Nat /\ watched \in Nat
  <2>1. Counts(ledger)
    BY FitsCount DEF TypeOK, JournalOK, ExposureInv, LedgerFits
  <2>2. IsFiniteSet(risky) /\ IsFiniteSet({e \in Monitored : tx[e] \in {"sent", "landed", "final"}})
    <3>1. risky \subseteq Entries /\ {e \in Monitored : tx[e] \in {"sent", "landed", "final"}} \subseteq Entries
      BY <1>1
    <3> QED
      BY <1>1, <3>1, FS_Subset
  <2>3. SumFunctionOnSet(Notional, risky) \in Nat
    BY <1>1, <2>2, SumType
  <2>4. watched \in Nat
    BY <1>1, <2>2, SumType
  <2> QED
    BY <1>1, <2>1, <2>3, <2>4, ExposureType
<1>6. custody <= SumFunctionOnSet(Notional, held) /\ SumFunctionOnSet(Notional, held) \in Nat /\ custody \in Nat
  BY HeldWasBought DEF ExposureInv, OnChain, TypeOK, WorldOK
<1>7. AtRisk <= SumFunctionOnSet(Notional, risky) /\ AtRisk \in Nat
  <2>1. SumFunctionOnSet(Notional, sent) \in Nat
    <3>1. sent \subseteq Entries
      OBVIOUS
    <3> QED
      BY <1>1, <3>1, FS_Subset, SumType
  <2> DEFINE s == SumFunctionOnSet(Notional, sent)
             h == SumFunctionOnSet(Notional, held)
             r == SumFunctionOnSet(Notional, risky)
  <2>2. AtRisk = custody + s /\ r = h + s /\ custody <= h /\ s \in Nat /\ h \in Nat /\ custody \in Nat
    BY <1>2, <1>6, <2>1 DEF AtRisk
  <2>3. AtRisk <= r /\ AtRisk \in Nat
    <3> HIDE DEF s, h, r
    <3> QED
      BY <2>2
  <2> QED
    BY <2>3
<1>8. AtRisk <= AggregateCap /\ watched <= OutageCap
  <2> HIDE DEF risky, watched
  <2> QED
    BY <1>1, <1>3, <1>4, <1>5, <1>7
<1> QED
  BY <1>8 DEF AtRiskWithinCaps

LEMMA SettledIsExact ==
  ASSUME TypeOK, OutcomeInv, ExposureInv
  PROVE  SettledLedgerIsExact
<1>1. Counts(ledger) /\ Entries \subseteq Attempts
  BY FitsCount DEF TypeOK, JournalOK, ExposureInv, LedgerFits, Attempts
<1>2. ASSUME NEW e \in Entries, outcomes[e] # {}
      PROVE  ExposureOf(ledger[e]) = IF outcomes[e] = {"COMPLETED"} THEN Notional[e] ELSE 0
  <2>1. /\ outcomes[e] \in {{"COMPLETED"}, {"FAILED"}, {"EXPIRED"}}
        /\ outcomes[e] = {"COMPLETED"} => tx[e] = "final"
    BY <1>1, <1>2 DEF OutcomeInv, OutcomesTrue
  <2>2. /\ outcomes[e] = {"COMPLETED"} => IsOpen(ledger[e])
        /\ outcomes[e] # {"COMPLETED"} => ~ IsOpen(ledger[e])
    BY <2>1 DEF ExposureInv, LedgerFits
  <2>3. ExposureOf(ledger[e]) = (IF IsOpen(ledger[e]) THEN Notional[e] ELSE 0)
    BY <1>1, ExposureIs
  <2> QED
    BY <2>2, <2>3
<1> QED
  BY <1>2 DEF SettledLedgerIsExact

\* Until an emergency exit is final, the ledger never counts less than the wallet holds (INV-08), for any number of
\* entries and exits: nothing sold provisionally, and nothing rolled back, is given back too early.
THEOREM LedgerCoversUntilSold == ~LiveRecovery /\ Spec => [](NoExitFinal => LedgerCoversCustody)
<1> SUFFICES ASSUME ~LiveRecovery PROVE Spec => [](NoExitFinal => LedgerCoversCustody)
  OBVIOUS
<1>1. TypeOK /\ (NoExitFinal => ExposureInv) => (NoExitFinal => LedgerCoversCustody)
  BY LedgerCovers
<1>2. Spec => []TypeOK
  BY TypeCorrect
<1>3. Spec => [](NoExitFinal => ExposureInv)
  BY ExposureInvariant
<1> QED
  BY <1>1, <1>2, <1>3, PTL

\* What the wallet holds and what may still land stay under the aggregate cap (INV-08), and what only the
\* signer can protect under the outage cap (INV-09), whichever entries race for the room left, until an exit is final.
THEOREM RiskIsCapped == ~LiveRecovery /\ Spec => [](NoExitFinal => AtRiskWithinCaps)
<1> SUFFICES ASSUME ~LiveRecovery PROVE Spec => [](NoExitFinal => AtRiskWithinCaps)
  OBVIOUS
<1>1. TypeOK /\ (NoExitFinal => ExposureInv) => (NoExitFinal => AtRiskWithinCaps)
  BY RiskStaysWithinCaps
<1>2. Spec => []TypeOK
  BY TypeCorrect
<1>3. Spec => [](NoExitFinal => ExposureInv)
  BY ExposureInvariant
<1> QED
  BY <1>1, <1>2, <1>3, PTL

\* Once an entry is settled, the ledger holds exactly its cost, or nothing when it did not land, until an exit is final.
THEOREM SettledIsCounted == ~LiveRecovery /\ Spec => [](NoExitFinal => SettledLedgerIsExact)
<1> SUFFICES ASSUME ~LiveRecovery PROVE Spec => [](NoExitFinal => SettledLedgerIsExact)
  OBVIOUS
<1>1. TypeOK /\ OutcomeInv /\ (NoExitFinal => ExposureInv) => (NoExitFinal => SettledLedgerIsExact)
  BY SettledIsExact
<1>2. Spec => []TypeOK
  BY TypeCorrect
<1>3. Spec => []OutcomeInv
  BY OutcomesInvariant
<1>4. Spec => [](NoExitFinal => ExposureInv)
  BY ExposureInvariant
<1> QED
  BY <1>1, <1>2, <1>3, <1>4, PTL

-----------------------------------------------------------------------------
(* Past the exit, when it sells the whole position.                        *)

\* One entry, and an action may sell all of it.
SoldWhole == \E e : Entries = {e} /\ Notional[e] <= MaxSell

\* The wallet holds all of the entry or nothing: whatever exits were planned, and whenever, each is to sell all of
\* it, and once one of them is on chain no other can get there and the entry cannot be rolled back.
AllOrNothing(e) ==
  /\ \A x \in Exits \cap prepared : plan[x].sold = Notional[e]
  /\ \A x, y \in OnChain(Exits) : x = y
  /\ \A x \in OnChain(Exits) : custody = 0 /\ tx[e] \in {"landed", "final"}
  /\ OnChain(Exits) = {} => custody = IF tx[e] \in {"landed", "final"} THEN Notional[e] ELSE 0

LEMMA NothingMoves ==
  ASSUME NEW e \in Entries, AllOrNothing(e), custody' = custody,
         \A a \in Attempts : tx'[a] \in {"landed", "final"} <=> tx[a] \in {"landed", "final"},
         Exits \cap prepared' = Exits \cap prepared, plan' = plan
  PROVE  AllOrNothing(e)'
<1>1. OnChain(Exits)' = OnChain(Exits)
  BY DEF OnChain, Attempts
<1> QED
  BY <1>1 DEF AllOrNothing, Attempts

LEMMA ChainSellsWhole ==
  ASSUME TypeOK, OutcomeInv, NEW e, Entries = {e}, AllOrNothing(e), NEW a \in Attempts, FateMoves(a)
  PROVE  AllOrNothing(e)'
<1>0. /\ tx \in [Attempts -> TxFate] /\ custody \in Nat /\ Attempts = {e} \cup Exits /\ e \notin Exits
      /\ Notional[e] \in Nat \ {0} /\ MarksFit
  BY ConstantsOK DEF TypeOK, WorldOK, Attempts, OutcomeInv
<1>1. UNCHANGED <<prepared, plan>> /\ \A b \in Attempts \ {a} : tx'[b] = tx[b]
  BY <1>0 DEF FateMoves, Land, FailOnChain, Rollback, Finalize, ExpireBlockhash, ExpireAuthorization, Outside, journalVars
<1>2. CASE FailOnChain(a) \/ Finalize(a) \/ ExpireBlockhash(a) \/ ExpireAuthorization(a)
  <2>1. /\ custody' = custody
        /\ \A b \in Attempts : tx'[b] \in {"landed", "final"} <=> tx[b] \in {"landed", "final"}
    BY <1>0, <1>2 DEF FailOnChain, Finalize, ExpireBlockhash, ExpireAuthorization
  <2> QED
    BY <1>0, <1>1, <2>1, NothingMoves
<1>3. CASE (Land(a) \/ Rollback(a)) /\ a = e
  <2>1. OnChain(Exits)' = OnChain(Exits)
    BY <1>0, <1>1, <1>3 DEF OnChain
  <2>2. OnChain(Exits) = {}
    <3>1. CASE Land(a)
      BY <1>3, <3>1 DEF Land, AllOrNothing
    <3>2. CASE Rollback(a)
      BY <1>0, <1>3, <3>2 DEF Rollback, Moved, AllOrNothing
    <3> QED
      BY <1>3, <3>1, <3>2
  <2>3. custody' = IF tx'[e] \in {"landed", "final"} THEN Notional[e] ELSE 0
    BY <1>0, <1>3, <2>2 DEF Land, Rollback, Moved, AllOrNothing
  <2> QED
    BY <1>1, <2>1, <2>2, <2>3 DEF AllOrNothing
<1>4. CASE (Land(a) \/ Rollback(a)) /\ a \in Exits
  <2>1. a \in prepared /\ plan[a].sold = Notional[e]
    BY <1>0, <1>4 DEF Land, Rollback, MarksFit, AllOrNothing
  <2>2. tx'[e] = tx[e]
    BY <1>0, <1>1, <1>4
  <2>3. CASE Land(a)
    <3>1. custody >= Notional[e] /\ custody' = custody - Notional[e] /\ tx'[a] = "landed"
      BY <1>0, <1>4, <2>1, <2>3 DEF Land, Moved
    <3>2. OnChain(Exits) = {} /\ custody = Notional[e] /\ tx[e] \in {"landed", "final"}
      BY <1>0, <3>1 DEF AllOrNothing
    <3>3. OnChain(Exits)' = {a} /\ custody' = 0
      BY <1>0, <1>1, <1>4, <3>1, <3>2 DEF OnChain
    <3> QED
      BY <1>1, <2>2, <3>2, <3>3 DEF AllOrNothing
  <2>4. CASE Rollback(a)
    <3>1. a \in OnChain(Exits) /\ tx'[a] = "sent" /\ custody' = custody + Notional[e]
      BY <1>0, <1>4, <2>1, <2>4 DEF Rollback, Moved, OnChain
    <3>2. OnChain(Exits) = {a} /\ custody = 0 /\ tx[e] \in {"landed", "final"}
      BY <3>1 DEF AllOrNothing
    <3>3. OnChain(Exits)' = {} /\ custody' = Notional[e]
      BY <1>0, <1>1, <3>1, <3>2 DEF OnChain
    <3> QED
      BY <1>1, <2>2, <3>2, <3>3 DEF AllOrNothing
  <2> QED
    BY <1>4, <2>3, <2>4
<1> QED
  BY <1>0, <1>2, <1>3, <1>4 DEF FateMoves

LEMMA HandlersSellWhole ==
  ASSUME TypeOK, ClaimGuardsSend, OutcomeInv, NEW e, Entries = {e}, Notional[e] <= MaxSell, AllOrNothing(e),
         NEW a \in Attempts,
         (a \in Entries /\ EntryStep(a)) \/ AttemptStep(a) \/ (a \in Exits /\ ExitStep(a))
  PROVE  AllOrNothing(e)'
<1>0. /\ tx \in [Attempts -> TxFate] /\ plan \in [Exits -> [sold : Nat, held : Nat]] /\ custody \in Nat
      /\ Attempts = {e} \cup Exits /\ e \notin Exits /\ Notional[e] \in Nat /\ MaxSell \in Nat
  BY ConstantsOK DEF TypeOK, WorldOK, JournalOK, Attempts
<1>1. custody' = custody
  <2>1. \E from, to : Handling(a, from, to)
    BY DEF EntryStep, AttemptStep, ExitStep, Verify, ClaimEntry, Duplicate, AdmitByCaps, RefuseByCaps, ConfirmFinal,
       PassChecks, Sign, Submit, Send, ReleaseBeforeFailing, Fail, Throw, LeaveUnresolved, ProviderConfirms,
       ConfirmProvisional, Observe, Complete, ReceiveClose, PlanClose, CloseNothing, ExitFinal, ExitShare, PauseAfterClose
  <2> QED
    BY <2>1 DEF Handling
<1>2. \A b \in Attempts : tx'[b] \in {"landed", "final"} <=> tx[b] \in {"landed", "final"}
  <2>1. CASE Send(a)
    <3>1. tx' = [tx EXCEPT ![a] = IF @ = "unsent" THEN "sent" ELSE @]
      BY <2>1 DEF Send
    <3> QED
      BY <1>0, <3>1
  <2>2. CASE ~ Send(a)
    <3>1. tx' = tx
      BY <2>2 DEF EntryStep, AttemptStep, ExitStep, Verify, ClaimEntry, Duplicate, AdmitByCaps, RefuseByCaps,
         ConfirmFinal, PassChecks, Sign, Submit, ReleaseBeforeFailing, Fail, Throw, LeaveUnresolved, ProviderConfirms,
         ConfirmProvisional, Observe, Complete, ReceiveClose, PlanClose, CloseNothing, ExitFinal, ExitShare,
         PauseAfterClose, chainVars
    <3> QED
      BY <3>1
  <2> QED
    BY <2>1, <2>2
<1>3. CASE a \in Exits /\ PlanClose(a)
  <2>1. /\ prepared' = prepared \cup {a} /\ custody > 0
        /\ plan' = [plan EXCEPT ![a] = [sold |-> IF custody < MaxSell THEN custody ELSE MaxSell, held |-> custody]]
    BY <1>3 DEF PlanClose, Prepare
  <2>2. a \notin prepared /\ tx[a] = "unsent"
    BY <1>3, Standing DEF PlanClose, KeysClaimed, MarksFit
  <2>3. OnChain(Exits) = {} /\ custody = Notional[e]
    BY <1>0, <2>1 DEF AllOrNothing
  <2>4. plan'[a].sold = Notional[e] /\ \A x \in Exits \ {a} : plan'[x] = plan[x]
    BY <1>0, <1>3, <2>1, <2>3
  <2>5. \A x \in Exits \cap prepared' : plan'[x].sold = Notional[e]
    BY <2>1, <2>4 DEF AllOrNothing
  <2>6. OnChain(Exits)' = {}
    BY <1>0, <1>2, <2>3 DEF OnChain
  <2>7. tx'[e] \in {"landed", "final"} <=> tx[e] \in {"landed", "final"}
    BY <1>0, <1>2
  <2> QED
    BY <1>1, <2>3, <2>5, <2>6, <2>7 DEF AllOrNothing
<1>4. CASE ~ (a \in Exits /\ PlanClose(a))
  <2>1. plan' = plan
    BY <1>4 DEF EntryStep, AttemptStep, ExitStep, Verify, ClaimEntry, Duplicate, AdmitByCaps, RefuseByCaps, ConfirmFinal,
       PassChecks, Sign, Submit, Send, ReleaseBeforeFailing, Fail, Throw, LeaveUnresolved, ProviderConfirms,
       ConfirmProvisional, Observe, Complete, ReceiveClose, CloseNothing, ExitFinal, ExitShare, ReleaseShare,
       PauseAfterClose, PauseBy, LedgerWrite, WriteResult, ConfirmIfOpen, journalVars
  <2>2. Exits \cap prepared' = Exits \cap prepared
    BY <1>0, <1>4 DEF EntryStep, AttemptStep, ExitStep, Verify, ClaimEntry, Duplicate, AdmitByCaps, RefuseByCaps,
       ConfirmFinal, PassChecks, Sign, JournalSigned, Submit, Send, ReleaseBeforeFailing, Fail, Throw, LeaveUnresolved,
       ProviderConfirms, ConfirmProvisional, Observe, Complete, ReceiveClose, CloseNothing, ExitFinal, ExitShare,
       ReleaseShare, PauseAfterClose, PauseBy, Prepare, LedgerWrite, WriteResult, ConfirmIfOpen, journalVars
  <2> QED
    BY <1>1, <1>2, <2>1, <2>2, <1>0, NothingMoves
<1> QED
  BY <1>3, <1>4

LEMMA NextSellsWhole ==
  ASSUME TypeOK, ClaimGuardsSend, OutcomeInv, NEW e, Entries = {e}, Notional[e] <= MaxSell, AllOrNothing(e), [Next]_vars
  PROVE  AllOrNothing(e)'
<1>1. ASSUME UNCHANGED <<tx, custody, plan, prepared>> PROVE AllOrNothing(e)'
  BY <1>1, NothingMoves
<1>2. CASE TrackStep
  <2>1. \E from, to : Tracking(from, to)
    BY <1>2 DEF TrackStep, TrackVerdict, TrackBegin, TrackPick, TrackNothing, TrackFinal, TrackConfirmed, TrackReorg,
       TrackPause, TrackDead, TrackShare, TrackComplete, TrackObserve, TrackFail, TrackEnd, TrackClear, TrackKeepPause
  <2>2. UNCHANGED prepared
    BY <1>2 DEF TrackStep, TrackVerdict, TrackBegin, TrackPick, TrackNothing, TrackFinal, TrackConfirmed, TrackReorg,
       TrackPause, TrackDead, TrackShare, ReleaseShare, TrackComplete, TrackObserve, TrackFail, TrackEnd, TrackClear,
       TrackKeepPause, ConfirmIfOpen, ReleaseIfOpen, LedgerWrite, WriteResult, PauseBy, ClearPause, journalVars
  <2> QED
    BY <1>1, <1>2, <2>1, <2>2, PlansStay DEF Tracking, worldVars
<1>3. CASE RecoverStep
  <2>1. \E from, to : Recovering(from, to)
    BY <1>3 DEF RecoverStep, RecoverBegin, RecoverRelease, RecoverExpired, RecoverScan, RecoverFinal, RecoverDead,
       RecoverNothing, RecoverComplete, RecoverFail, RecoverEnd
  <2>2. UNCHANGED prepared
    BY <1>3 DEF RecoverStep, RecoverBegin, RecoverRelease, RecoverExpired, RecoverScan, RecoverFinal, RecoverDead,
       RecoverNothing, RecoverComplete, RecoverFail, RecoverEnd, ConfirmIfOpen, ReleaseIfOpen, LedgerWrite, WriteResult,
       journalVars
  <2> QED
    BY <1>1, <1>3, <2>1, <2>2, PlansStay DEF Recovering, worldVars
<1>4. CASE CommandPause \/ OperatorClears \/ Crash
  <2>1. UNCHANGED <<tx, custody, prepared>>
    BY <1>4 DEF CommandPause, OperatorClears, Crash, PauseBy, ClearPause, journalVars
  <2> QED
    BY <1>1, <1>4, <2>1, PlansStay
<1>5. CASE UNCHANGED vars
  BY <1>1, <1>5 DEF vars, journalVars, worldVars
<1>6. ASSUME NEW a \in Attempts, FateMoves(a) PROVE AllOrNothing(e)'
  BY <1>6, ChainSellsWhole
<1>7. ASSUME NEW a \in Attempts,
             (a \in Entries /\ EntryStep(a)) \/ AttemptStep(a) \/ (a \in Exits /\ ExitStep(a))
      PROVE  AllOrNothing(e)'
  BY <1>7, HandlersSellWhole
<1> QED
  BY <1>2, <1>3, <1>4, <1>5, <1>6, <1>7 DEF Next, WorldStep, FateMoves, Attempts

\* An emergency close that sells the whole position never leaves the ledger below custody (INV-08), though any number
\* of close commands is redelivered, rolled back, released by handler and tracker, and met by crashes.
THEOREM WholeExitCovers == ~LiveRecovery /\ SoldWhole /\ Spec => []LedgerCoversCustody
<1> SUFFICES ASSUME ~LiveRecovery, NEW e, Entries = {e}, Notional[e] <= MaxSell
             PROVE  Spec => []LedgerCoversCustody
  BY DEF SoldWhole
<1>1. Init => AllOrNothing(e)
  BY DEF Init, AllOrNothing, OnChain, Attempts
<1>2. TypeOK /\ ClaimGuardsSend /\ OutcomeInv /\ AllOrNothing(e) /\ [Next]_vars => AllOrNothing(e)'
  BY NextSellsWhole
<1>3. TypeOK /\ AllOrNothing(e) /\ (NoExitFinal => LedgerCoversCustody) => LedgerCoversCustody
  <2> SUFFICES ASSUME TypeOK, AllOrNothing(e), NEW x \in Exits, tx[x] = "final"
               PROVE  LedgerCoversCustody
    BY DEF NoExitFinal
  <2>1. custody = 0
    BY DEF AllOrNothing, OnChain
  <2>2. Aggregate(ledger) \in Nat
    <3>1. ledger \in [Entries -> OpenEntry] /\ IsFiniteSet(Entries)
      BY ConstantsOK DEF TypeOK, JournalOK
    <3>2. \A d \in Entries : Exposures(ledger)[d] \in Nat
      BY <3>1 DEF Exposures, ExposureOf, OpenEntry
    <3> QED
      BY <3>1, <3>2, SumType DEF Aggregate, ExposureOn
  <2> QED
    BY <2>1, <2>2 DEF LedgerCoversCustody
<1>4. Spec => []TypeOK
  BY TypeCorrect
<1>5. Spec => []ClaimGuardsSend
  BY ClaimsGuard
<1>6. Spec => []OutcomeInv
  BY OutcomesInvariant
<1>7. Spec => [](NoExitFinal => LedgerCoversCustody)
  BY LedgerCoversUntilSold
<1> QED
  BY <1>1, <1>2, <1>3, <1>4, <1>5, <1>6, <1>7, PTL DEF Spec

=============================================================================
