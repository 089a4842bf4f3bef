---------------------------- MODULE ExecutorProofs ----------------------------
(***************************************************************************)
(* Theorems about the execution service, for any set of entries, exits and *)
(* keys, any caps, and with or without live recovery.                      *)
(***************************************************************************)
EXTENDS ExecutorProperties, TLAPS

-----------------------------------------------------------------------------
(* The registry never forgets a claim and stays inside its life cycle.     *)

Claimed == LifeState \ {"none"}

LEMMA AdvanceType ==
  ASSUME NEW s \in LifeState, NEW to \in Claimed
  PROVE  /\ Advance(s, to) \in LifeState
         /\ s \in Claimed => Advance(s, to) \in Claimed
BY DEF Advance, Claimed

LEMMA ClaimType ==
  ASSUME NEW s \in LifeState
  PROVE  Claim(s) \in Claimed
BY DEF Claim, Claimed, LifeState

LEMMA ReplayType ==
  ASSUME NEW s \in LifeState
  PROVE  /\ ReplaySubmitted(s) \in LifeState
         /\ s \in Claimed => ReplaySubmitted(s) \in Claimed
         /\ \A o \in Terminal :
              /\ ReplayResult(s, o) \in LifeState
              /\ s \in Claimed => ReplayResult(s, o) \in Claimed
<1> DEFINE walked == IF s = "CREATED" THEN "AUTHORIZED" ELSE s
<1>1. walked \in LifeState /\ (s \in Claimed => walked \in Claimed)
  BY DEF LifeState, Claimed
<1>2. "EXECUTING" \in Claimed /\ Terminal \subseteq Claimed
  BY DEF Claimed, LifeState, Terminal
<1> HIDE DEF walked
<1>3. /\ Advance(walked, "EXECUTING") \in LifeState
      /\ s \in Claimed => Advance(walked, "EXECUTING") \in Claimed
  BY <1>1, <1>2, AdvanceType
<1>4. ReplaySubmitted(s) \in LifeState /\ (s \in Claimed => ReplaySubmitted(s) \in Claimed)
  BY <1>3 DEF ReplaySubmitted, walked
<1>5. ASSUME NEW o \in Terminal
      PROVE  /\ ReplayResult(s, o) \in LifeState
             /\ s \in Claimed => ReplayResult(s, o) \in Claimed
  <2> DEFINE base == IF o = "COMPLETED" THEN ReplaySubmitted(s) ELSE s
  <2>1. base \in LifeState /\ (s \in Claimed => base \in Claimed)
    BY <1>4
  <2> HIDE DEF base
  <2>2. Advance(base, o) \in LifeState /\ (s \in Claimed => Advance(base, o) \in Claimed)
    BY <2>1, <1>2, AdvanceType
  <2> QED
    BY <2>2 DEF ReplayResult, base
<1> QED
  BY <1>4, <1>5

\* The ways memory advances a key: directly, and as the tracker and recovery walk it.
LEMMA WalkType ==
  ASSUME NEW s \in LifeState, NEW to \in Claimed
  PROVE  /\ Advance(Claim(s), to) \in Claimed
         /\ Advance(Walked(s), to) \in LifeState
         /\ (IF Walked(s) = "EXECUTING" THEN to ELSE s) \in LifeState
         /\ s \in Claimed => /\ Advance(Walked(s), to) \in Claimed
                             /\ (IF Walked(s) = "EXECUTING" THEN to ELSE s) \in Claimed
<1>1. Walked(s) \in LifeState /\ (s \in Claimed => Walked(s) \in Claimed)
  BY DEF Walked, LifeState, Claimed
<1>2. Claim(s) \in Claimed /\ Claim(s) \in LifeState
  BY ClaimType DEF Claimed
<1>3. Advance(Claim(s), to) \in Claimed
  BY <1>2, AdvanceType
<1>4. /\ Advance(Walked(s), to) \in LifeState
      /\ s \in Claimed => Advance(Walked(s), to) \in Claimed
  BY <1>1, AdvanceType
<1> QED
  BY <1>3, <1>4 DEF Claimed

-----------------------------------------------------------------------------
(* Amounts of the ledger stay natural numbers.                             *)

LEMMA LedgerType ==
  /\ Closed \in OpenEntry
  /\ \A n \in Nat : Authorized(n) \in OpenEntry
  /\ \A o \in OpenEntry, n \in Nat : Confirmed(o, n) \in OpenEntry
  /\ \A o \in OpenEntry, n \in Nat : Released(o, n) \in OpenEntry
  /\ \A o \in OpenEntry : ExposureOf(o) \in Nat
<1>1. Closed \in OpenEntry /\ \A n \in Nat : Authorized(n) \in OpenEntry
  BY DEF Closed, OpenEntry, Authorized
<1>2. ASSUME NEW o \in OpenEntry, NEW n \in Nat
      PROVE  Confirmed(o, n) \in OpenEntry
  BY DEF OpenEntry, Confirmed
<1>3. ASSUME NEW o \in OpenEntry, NEW n \in Nat
      PROVE  Released(o, n) \in OpenEntry
  BY <1>1 DEF OpenEntry, Released
<1>4. ASSUME NEW o \in OpenEntry
      PROVE  ExposureOf(o) \in Nat
  BY DEF OpenEntry, ExposureOf
<1> QED
  BY <1>1, <1>2, <1>3, <1>4

LEMMA ShareType ==
  ASSUME NEW o \in OpenEntry, NEW sold \in Nat, NEW held \in Nat
  PROVE  ShareReleased(o, sold, held) \in Nat
<1> DEFINE product == ExposureOf(o) * sold
<1>1. ExposureOf(o) \in Nat
  BY LedgerType
<1>2. product \in Nat
  BY <1>1
<1> HIDE DEF product
<1>3. held > 0 => product \div held \in Nat
  BY <1>2
<1> QED
  BY <1>1, <1>3 DEF ShareReleased, product

-----------------------------------------------------------------------------
(* What the appends do to the types of the journal.                        *)

LEMMA WriteResultType ==
  ASSUME JournalOK, NEW a \in Attempts, NEW o \in Terminal, WriteResult(a, o)
  PROVE  JournalOK'
<1>1. Key[a] \in Keys /\ jlife[Key[a]] \in LifeState
  BY ConstantsOK DEF JournalOK
<1>2. jlife' \in [Keys -> LifeState]
  BY <1>1, ReplayType DEF WriteResult, JournalOK
<1>3. outcomes' \in [Attempts -> SUBSET Terminal] /\ unresolved' \subseteq Attempts
  BY DEF WriteResult, JournalOK
<1> QED
  BY <1>2, <1>3 DEF WriteResult, JournalOK

LEMMA LedgerWriteType ==
  ASSUME JournalOK, NEW e \in Entries, NEW o \in OpenEntry, LedgerWrite(e, o)
  PROVE  JournalOK'
BY DEF LedgerWrite, JournalOK

LEMMA UnchangedJournal == JournalOK /\ UNCHANGED journalVars => JournalOK'
BY DEF journalVars, JournalOK

LEMMA IfOpenType ==
  ASSUME JournalOK, NEW a \in Attempts, ConfirmIfOpen(a) \/ ReleaseIfOpen(a)
  PROVE  JournalOK'
<1>1. a \in Entries => /\ ledger[a] \in OpenEntry /\ Notional[a] \in Nat
                       /\ Confirmed(ledger[a], Notional[a]) \in OpenEntry
  BY ConstantsOK, LedgerType DEF JournalOK
<1>2. CASE UNCHANGED journalVars
  BY <1>2, UnchangedJournal
<1>3. CASE a \in Entries /\ LedgerWrite(a, Confirmed(ledger[a], Notional[a]))
  BY <1>1, <1>3, LedgerWriteType
<1>4. CASE a \in Entries /\ LedgerWrite(a, Closed)
  BY <1>4, LedgerType, LedgerWriteType
<1> QED
  BY <1>2, <1>3, <1>4 DEF ConfirmIfOpen, ReleaseIfOpen

LEMMA PauseType ==
  ASSUME JournalOK,
         ClearPause \/ PauseBy("REORG") \/ PauseBy("DIVERGENCE") \/ PauseBy("EMERGENCY")
  PROVE  JournalOK'
BY DEF ClearPause, PauseBy, Paused, JournalOK

LEMMA ReleasesType ==
  ASSUME TypeOK, NEW x \in Exits
  PROVE  ExitReleases(x) \in SUBSET (Entries \X Nat)
<1>1. plan[x].sold \in Nat /\ plan[x].held \in Nat
  BY DEF TypeOK, JournalOK
<1>2. ASSUME NEW e \in Entries
      PROVE  <<e, ShareReleased(ledger[e], plan[x].sold, plan[x].held)>> \in Entries \X Nat
  <2>1. ledger[e] \in OpenEntry
    BY DEF TypeOK, JournalOK
  <2> QED
    BY <1>1, <2>1, ShareType
<1> QED
  BY <1>2 DEF ExitReleases

LEMMA ReleaseShareType ==
  ASSUME TypeOK, NEW p \in Releasers, NEW r \in releases[p], ReleaseShare(p, r)
  PROVE  JournalOK' /\ releases' \in [Releasers -> SUBSET (Entries \X Nat)]
<1>1. releases \in [Releasers -> SUBSET (Entries \X Nat)]
  BY DEF TypeOK, HandlersOK
<1>2. r[1] \in Entries /\ r[2] \in Nat
  BY <1>1
<1>3. Released(ledger[r[1]], r[2]) \in OpenEntry
  BY <1>2, LedgerType DEF TypeOK, JournalOK
<1>4. JournalOK'
  BY <1>2, <1>3, LedgerWriteType DEF ReleaseShare, TypeOK
<1>5. releases' \in [Releasers -> SUBSET (Entries \X Nat)]
  BY <1>1 DEF ReleaseShare
<1> QED
  BY <1>4, <1>5

-----------------------------------------------------------------------------
(* Type correctness, one lemma per actor.                                  *)

LEMMA HandlingType ==
  ASSUME TypeOK, NEW a \in Attempts, NEW from, NEW to \in HandlerPc, Handling(a, from, to),
         tx' \in [Attempts -> TxFate], sends' \in [Attempts -> Nat], standing' \in BOOLEAN,
         life' \in [Keys -> LifeState], releases' \in [Releasers -> SUBSET (Entries \X Nat)]
  PROVE  HandlersOK' /\ PassesOK' /\ WorldOK'
BY DEF TypeOK, Handling, HandlersOK, PassesOK, WorldOK, trackVars, recoverVars

\* A handler's step that only journals and advances the registry.
LEMMA QuietHandlingType ==
  ASSUME TypeOK, NEW a \in Attempts, NEW from, NEW to \in HandlerPc, Handling(a, from, to),
         UNCHANGED <<chainVars, standing, releases>>, life' \in [Keys -> LifeState]
  PROVE  HandlersOK' /\ PassesOK' /\ WorldOK'
BY HandlingType DEF TypeOK, HandlersOK, WorldOK, chainVars

LEMMA AdvanceLifeType ==
  ASSUME TypeOK, NEW a \in Attempts, NEW to \in Claimed,
         \/ AdvanceLife(a, to) \/ TrackLife(a, to) \/ RecoverLife(a, to)
         \/ life' = [life EXCEPT ![Key[a]] = Claim(@)]
         \/ life' = [life EXCEPT ![Key[a]] = Advance(Claim(@), to)]
         \/ UNCHANGED life
  PROVE  life' \in [Keys -> LifeState]
<1>1. Key[a] \in Keys /\ life \in [Keys -> LifeState] /\ life[Key[a]] \in LifeState
  BY ConstantsOK DEF TypeOK, HandlersOK
<1>2. /\ Advance(life[Key[a]], to) \in LifeState
      /\ Advance(Walked(life[Key[a]]), to) \in LifeState
      /\ (IF Walked(life[Key[a]]) = "EXECUTING" THEN to ELSE life[Key[a]]) \in LifeState
      /\ Claim(life[Key[a]]) \in LifeState
      /\ Advance(Claim(life[Key[a]]), to) \in LifeState
  BY <1>1, AdvanceType, WalkType, ClaimType DEF Claimed
<1> QED
  BY <1>1, <1>2 DEF AdvanceLife, TrackLife, RecoverLife

LEMMA LifeStates == {"AUTHORIZED", "EXECUTING", "COMPLETED", "FAILED", "EXPIRED"} \subseteq Claimed
             /\ {"COMPLETED", "FAILED", "EXPIRED"} \subseteq Terminal
BY DEF Claimed, LifeState, Terminal

LEMMA PrepareType ==
  ASSUME TypeOK, NEW a \in Attempts, Prepare(a), plan' \in [Exits -> [sold : Nat, held : Nat]]
  PROVE  JournalOK'
<1>1. Key[a] \in Keys /\ Claim(jlife[Key[a]]) \in LifeState
  BY ConstantsOK, ClaimType DEF TypeOK, JournalOK, Claimed
<1> QED
  BY <1>1 DEF Prepare, TypeOK, JournalOK

LEMMA EntryStepType ==
  ASSUME TypeOK, NEW e \in Entries, EntryStep(e)
  PROVE  TypeOK'
<1> e \in Attempts /\ Notional[e] \in Nat /\ JournalOK
  BY ConstantsOK DEF Attempts, TypeOK
<1> USE LifeStates
<1>1. CASE Verify(e) \/ Duplicate(e)
  <2>1. JournalOK' /\ life' \in [Keys -> LifeState]
    BY <1>1, UnchangedJournal, AdvanceLifeType DEF Verify, Duplicate
  <2> QED
    BY <1>1, <2>1, QuietHandlingType DEF Verify, Duplicate, TypeOK, HandlerPc
<1>2. CASE ClaimEntry(e)
  <2>1. JournalOK' /\ life' \in [Keys -> LifeState]
    BY <1>2, PrepareType, AdvanceLifeType DEF ClaimEntry, TypeOK, JournalOK
  <2> QED
    BY <1>2, <2>1, QuietHandlingType DEF ClaimEntry, TypeOK, HandlerPc
<1>3. CASE AdmitByCaps(e)
  <2>1. JournalOK'
    BY <1>3, LedgerType, LedgerWriteType DEF AdmitByCaps
  <2>2. life' \in [Keys -> LifeState]
    BY <1>3, AdvanceLifeType DEF AdmitByCaps
  <2> QED
    BY <1>3, <2>1, <2>2, QuietHandlingType DEF AdmitByCaps, TypeOK, HandlerPc
<1>4. CASE RefuseByCaps(e)
  <2>1. JournalOK' /\ life' \in [Keys -> LifeState]
    BY <1>4, WriteResultType, AdvanceLifeType DEF RefuseByCaps
  <2> QED
    BY <1>4, <2>1, QuietHandlingType DEF RefuseByCaps, TypeOK, HandlerPc
<1>5. CASE ConfirmFinal(e)
  <2>1. Confirmed(ledger[e], Notional[e]) \in OpenEntry
    BY LedgerType DEF JournalOK
  <2>2. JournalOK' /\ life' \in [Keys -> LifeState]
    BY <1>5, <2>1, LedgerWriteType, UnchangedJournal, AdvanceLifeType DEF ConfirmFinal
  <2> QED
    BY <1>5, <2>2, QuietHandlingType DEF ConfirmFinal, TypeOK, HandlerPc
<1> QED
  BY <1>1, <1>2, <1>3, <1>4, <1>5 DEF EntryStep

LEMMA AttemptStepType ==
  ASSUME TypeOK, NEW a \in Attempts, AttemptStep(a)
  PROVE  TypeOK'
<1> JournalOK /\ (a \in Entries => Notional[a] \in Nat)
  BY ConstantsOK DEF TypeOK
<1> USE LifeStates
<1>1. CASE PassChecks(a) \/ Throw(a) \/ LeaveUnresolved(a) \/ ProviderConfirms(a)
  <2>1. JournalOK' /\ life' \in [Keys -> LifeState]
    BY <1>1, UnchangedJournal, AdvanceLifeType
    DEF PassChecks, Throw, LeaveUnresolved, ProviderConfirms
  <2> QED
    BY <1>1, <2>1, QuietHandlingType
    DEF PassChecks, Throw, LeaveUnresolved, ProviderConfirms, TypeOK, HandlerPc
<1>2. CASE Sign(a)
  <2>1. JournalOK' /\ life' \in [Keys -> LifeState]
    BY <1>2, AdvanceLifeType DEF Sign, JournalSigned, JournalOK
  <2> QED
    BY <1>2, <2>1, QuietHandlingType DEF Sign, TypeOK, HandlerPc
<1>3. CASE Submit(a)
  <2>1. Key[a] \in Keys /\ ReplaySubmitted(jlife[Key[a]]) \in LifeState
    BY ConstantsOK, ReplayType DEF JournalOK
  <2>2. JournalOK' /\ life' \in [Keys -> LifeState]
    BY <1>3, <2>1, AdvanceLifeType DEF Submit, JournalOK
  <2> QED
    BY <1>3, <2>2, QuietHandlingType DEF Submit, TypeOK, HandlerPc
<1>4. CASE Send(a)
  <2>1. JournalOK' /\ life' \in [Keys -> LifeState]
    BY <1>4, UnchangedJournal, AdvanceLifeType DEF Send
  <2>2. tx' \in [Attempts -> TxFate] /\ sends' \in [Attempts -> Nat]
    BY <1>4 DEF Send, TypeOK, WorldOK, TxFate
  <2>3. /\ releases' \in [Releasers -> SUBSET (Entries \X Nat)] /\ standing' \in BOOLEAN
        /\ Handling(a, "submitted", "executing") /\ "executing" \in HandlerPc
    BY <1>4 DEF Send, TypeOK, HandlersOK, WorldOK, HandlerPc
  <2> QED
    BY <2>1, <2>2, <2>3, HandlingType DEF TypeOK
<1>5. CASE ReleaseBeforeFailing(a)
  <2>1. JournalOK' /\ life' \in [Keys -> LifeState]
    BY <1>5, UnchangedJournal, LedgerType, LedgerWriteType, AdvanceLifeType
    DEF ReleaseBeforeFailing
  <2> QED
    BY <1>5, <2>1, QuietHandlingType DEF ReleaseBeforeFailing, TypeOK, HandlerPc
<1>6. CASE Fail(a)
  <2>1. JournalOK' /\ life' \in [Keys -> LifeState]
    BY <1>6, WriteResultType, AdvanceLifeType DEF Fail
  <2> QED
    BY <1>6, <2>1, QuietHandlingType DEF Fail, TypeOK, HandlerPc
<1>7. CASE ConfirmProvisional(a)
  <2>1. JournalOK' /\ life' \in [Keys -> LifeState]
    BY <1>7, IfOpenType, AdvanceLifeType DEF ConfirmProvisional
  <2> QED
    BY <1>7, <2>1, QuietHandlingType DEF ConfirmProvisional, TypeOK, HandlerPc
<1>8. CASE Observe(a)
  <2>1. JournalOK' /\ life' \in [Keys -> LifeState]
    BY <1>8, AdvanceLifeType DEF Observe, JournalOK
  <2> QED
    BY <1>8, <2>1, QuietHandlingType DEF Observe, TypeOK, HandlerPc
<1>9. CASE Complete(a)
  <2>1. JournalOK' /\ life' \in [Keys -> LifeState]
    BY <1>9, WriteResultType, AdvanceLifeType DEF Complete
  <2> QED
    BY <1>9, <2>1, QuietHandlingType DEF Complete, TypeOK, HandlerPc
<1> QED
  BY <1>1, <1>2, <1>3, <1>4, <1>5, <1>6, <1>7, <1>8, <1>9 DEF AttemptStep

LEMMA ExitStepType ==
  ASSUME TypeOK, NEW x \in Exits, ExitStep(x)
  PROVE  TypeOK'
<1> x \in Attempts /\ JournalOK
  BY DEF Attempts, TypeOK
<1> USE LifeStates
<1>1. CASE ReceiveClose(x) \/ CloseNothing(x)
  <2>1. JournalOK' /\ life' \in [Keys -> LifeState]
    BY <1>1, UnchangedJournal, AdvanceLifeType DEF ReceiveClose, CloseNothing
  <2> QED
    BY <1>1, <2>1, QuietHandlingType DEF ReceiveClose, CloseNothing, TypeOK, HandlerPc
<1>2. CASE PlanClose(x)
  <2>1. plan' \in [Exits -> [sold : Nat, held : Nat]]
    BY <1>2, ConstantsOK DEF PlanClose, TypeOK, JournalOK, WorldOK
  <2>2. JournalOK' /\ life' \in [Keys -> LifeState]
    BY <1>2, <2>1, PrepareType, AdvanceLifeType DEF PlanClose
  <2> QED
    BY <1>2, <2>2, QuietHandlingType DEF PlanClose, TypeOK, HandlerPc
<1>3. CASE ExitFinal(x)
  <2>1. JournalOK' /\ life' \in [Keys -> LifeState]
    BY <1>3, UnchangedJournal, AdvanceLifeType DEF ExitFinal
  <2>2. releases' \in [Releasers -> SUBSET (Entries \X Nat)]
    BY <1>3, ReleasesType DEF ExitFinal, TypeOK, HandlersOK, Releasers
  <2>3. tx' \in [Attempts -> TxFate] /\ sends' \in [Attempts -> Nat] /\ standing' \in BOOLEAN
    BY <1>3 DEF ExitFinal, chainVars, TypeOK, WorldOK
  <2>4. Handling(x, "awaiting", "exiting") /\ "exiting" \in HandlerPc
    BY <1>3 DEF ExitFinal, HandlerPc
  <2> QED
    BY <2>1, <2>2, <2>3, <2>4, HandlingType DEF TypeOK
<1>4. CASE ExitShare(x)
  <2>1. JournalOK' /\ releases' \in [Releasers -> SUBSET (Entries \X Nat)]
    BY <1>4, ReleaseShareType DEF ExitShare, Releasers
  <2>2. life' \in [Keys -> LifeState]
    BY <1>4, AdvanceLifeType DEF ExitShare
  <2>3. tx' \in [Attempts -> TxFate] /\ sends' \in [Attempts -> Nat] /\ standing' \in BOOLEAN
    BY <1>4 DEF ExitShare, chainVars, TypeOK, WorldOK
  <2>4. Handling(x, "exiting", "exiting") /\ "exiting" \in HandlerPc
    BY <1>4 DEF ExitShare, HandlerPc
  <2> QED
    BY <2>1, <2>2, <2>3, <2>4, HandlingType DEF TypeOK
<1>5. CASE PauseAfterClose(x)
  <2>1. JournalOK' /\ life' \in [Keys -> LifeState]
    BY <1>5, PauseType, AdvanceLifeType DEF PauseAfterClose
  <2>2. /\ tx' \in [Attempts -> TxFate] /\ sends' \in [Attempts -> Nat] /\ standing' \in BOOLEAN
        /\ releases' \in [Releasers -> SUBSET (Entries \X Nat)]
    BY <1>5 DEF PauseAfterClose, chainVars, TypeOK, WorldOK, HandlersOK
  <2>3. Handling(x, "pausing", "done") /\ "done" \in HandlerPc
    BY <1>5 DEF PauseAfterClose, HandlerPc
  <2> QED
    BY <2>1, <2>2, <2>3, HandlingType DEF TypeOK
<1> QED
  BY <1>1, <1>2, <1>3, <1>4, <1>5 DEF ExitStep

LEMMA OperatorType ==
  ASSUME TypeOK, CommandPause \/ OperatorClears
  PROVE  TypeOK'
<1>1. JournalOK'
  BY PauseType DEF CommandPause, OperatorClears, TypeOK
<1> QED
  BY <1>1 DEF CommandPause, OperatorClears, TypeOK, HandlersOK, PassesOK, WorldOK,
              handlerVars, trackVars, recoverVars

\* A step of the tracker touches the journal, the registry and its own pass.
LEMMA TrackingType ==
  ASSUME TypeOK, NEW from,
         NEW to \in {"idle", "scan", "reading", "exiting", "completing", "observing", "failing",
                    "pausing", "clearing"},
         Tracking(from, to), JournalOK', life' \in [Keys -> LifeState],
         releases' \in [Releasers -> SUBSET (Entries \X Nat)],
         ttodo' \subseteq Attempts, tcur' \in Attempts \cup {None},
         tprior' \in {"none", "CONFIRMED", "REORG"}, tunsure' \in BOOLEAN
  PROVE  TypeOK'
BY DEF TypeOK, Tracking, HandlersOK, PassesOK, WorldOK, recoverVars, worldVars

LEMMA QuietTrackingType ==
  ASSUME TypeOK, NEW from,
         NEW to \in {"idle", "scan", "reading", "exiting", "completing", "observing", "failing",
                    "pausing", "clearing"},
         Tracking(from, to), JournalOK', life' \in [Keys -> LifeState],
         UNCHANGED <<ttodo, tcur, tprior, releases>>, tunsure' \in BOOLEAN
  PROVE  TypeOK'
BY TrackingType DEF TypeOK, HandlersOK, PassesOK

LEMMA TrackVerdictType ==
  ASSUME TypeOK, TrackVerdict
  PROVE  TypeOK'
<1> JournalOK /\ tunsure \in BOOLEAN /\ (UNCHANGED life => life' \in [Keys -> LifeState])
  BY DEF TypeOK, HandlersOK, PassesOK
<1>1. CASE TrackNothing
  <2>1. JournalOK' /\ tunsure' \in BOOLEAN
    BY <1>1, UnchangedJournal DEF TrackNothing
  <2> QED
    BY <1>1, <2>1, QuietTrackingType DEF TrackNothing
<1>2. CASE TrackFinal
  <2>1. JournalOK'
    BY <1>2, IfOpenType DEF TrackFinal
  <2>2. releases' \in [Releasers -> SUBSET (Entries \X Nat)]
    BY <1>2, ReleasesType DEF TrackFinal, TypeOK, HandlersOK, Releasers
  <2>3. /\ ttodo' \subseteq Attempts /\ tcur' \in Attempts \cup {None}
        /\ tprior' \in {"none", "CONFIRMED", "REORG"} /\ tunsure' \in BOOLEAN
    BY <1>2 DEF TrackFinal, TypeOK, PassesOK
  <2> QED
    BY <1>2, <2>1, <2>2, <2>3, TrackingType DEF TrackFinal
<1>3. CASE TrackConfirmed
  <2>1. JournalOK'
    BY <1>3, IfOpenType DEF TrackConfirmed
  <2> QED
    BY <1>3, <2>1, QuietTrackingType DEF TrackConfirmed
<1>4. CASE TrackReorg
  <2>1. JournalOK'
    BY <1>4 DEF TrackReorg, JournalOK
  <2> QED
    BY <1>4, <2>1, QuietTrackingType DEF TrackReorg
<1>5. CASE TrackPause
  <2>1. JournalOK' /\ tunsure' \in BOOLEAN
    BY <1>5, PauseType DEF TrackPause
  <2> QED
    BY <1>5, <2>1, QuietTrackingType DEF TrackPause
<1>6. CASE TrackDead
  <2>1. JournalOK'
    BY <1>6, IfOpenType DEF TrackDead
  <2> QED
    BY <1>6, <2>1, QuietTrackingType DEF TrackDead
<1> QED
  BY <1>1, <1>2, <1>3, <1>4, <1>5, <1>6 DEF TrackVerdict

LEMMA TrackStepType ==
  ASSUME TypeOK, TrackStep
  PROVE  TypeOK'
<1> JournalOK /\ tunsure \in BOOLEAN /\ (UNCHANGED life => life' \in [Keys -> LifeState])
  BY DEF TypeOK, HandlersOK, PassesOK
<1> None \in Releasers /\ (UNCHANGED releases => releases' \in [Releasers -> SUBSET (Entries \X Nat)])
  BY DEF TypeOK, HandlersOK, Releasers
<1> USE LifeStates
<1>1. CASE TrackBegin \/ \E a \in Attempts : TrackPick(a)
  <2>1. JournalOK'
    BY <1>1, UnchangedJournal DEF TrackBegin, TrackPick
  <2>2. /\ ttodo' \subseteq Attempts /\ tcur' \in Attempts \cup {None}
        /\ tprior' \in {"none", "CONFIRMED", "REORG"} /\ tunsure' \in BOOLEAN
    BY <1>1 DEF TrackBegin, TrackPick, TypeOK, PassesOK, JournalOK
  <2> QED
    BY <1>1, <2>1, <2>2, TrackingType DEF TrackBegin, TrackPick
<1>2. CASE TrackVerdict
  BY <1>2, TrackVerdictType
<1>3. CASE TrackShare
  <2>1. JournalOK' /\ releases' \in [Releasers -> SUBSET (Entries \X Nat)]
    BY <1>3, ReleaseShareType DEF TrackShare
  <2>2. /\ ttodo' \subseteq Attempts /\ tcur' \in Attempts \cup {None}
        /\ tprior' \in {"none", "CONFIRMED", "REORG"} /\ tunsure' \in BOOLEAN
    BY <1>3 DEF TrackShare, TypeOK, PassesOK
  <2> QED
    BY <1>3, <2>1, <2>2, TrackingType DEF TrackShare
<1>4. CASE TrackComplete
  <2>1. JournalOK' /\ life' \in [Keys -> LifeState]
    BY <1>4, WriteResultType, AdvanceLifeType DEF TrackComplete
  <2> QED
    BY <1>4, <2>1, QuietTrackingType DEF TrackComplete
<1>5. CASE TrackObserve
  <2>1. JournalOK' /\ life' \in [Keys -> LifeState]
    BY <1>5, AdvanceLifeType DEF TrackObserve, JournalOK
  <2> QED
    BY <1>5, <2>1, QuietTrackingType DEF TrackObserve
<1>6. CASE TrackFail
  <2>1. JournalOK' /\ life' \in [Keys -> LifeState]
    BY <1>6, WriteResultType, AdvanceLifeType DEF TrackFail
  <2> QED
    BY <1>6, <2>1, QuietTrackingType DEF TrackFail
<1>7. CASE TrackEnd
  <2>1. JournalOK'
    BY <1>7, UnchangedJournal DEF TrackEnd
  <2>2. /\ ttodo' \subseteq Attempts /\ tcur' \in Attempts \cup {None}
        /\ tprior' \in {"none", "CONFIRMED", "REORG"} /\ tunsure' \in BOOLEAN
    BY <1>7 DEF TrackEnd, TypeOK, PassesOK
  <2> QED
    BY <1>7, <2>1, <2>2, TrackingType DEF TrackEnd
<1>8. CASE TrackClear \/ TrackKeepPause
  <2>1. JournalOK'
    BY <1>8, UnchangedJournal, PauseType DEF TrackClear, TrackKeepPause
  <2> QED
    BY <1>8, <2>1, QuietTrackingType DEF TrackClear, TrackKeepPause
<1> QED
  BY <1>1, <1>2, <1>3, <1>4, <1>5, <1>6, <1>7, <1>8 DEF TrackStep

\* A step of recovery likewise.
LEMMA RecoveringType ==
  ASSUME TypeOK, NEW from,
         NEW to \in {"idle", "expiring", "expired", "scan", "completing", "failing"},
         Recovering(from, to), JournalOK', life' \in [Keys -> LifeState],
         mode' \in {"recovering", "up"}, rtodo' \subseteq Attempts,
         rcur' \in Attempts \cup {None}
  PROVE  TypeOK'
BY DEF TypeOK, Recovering, HandlersOK, PassesOK, WorldOK, trackVars, worldVars

LEMMA RecoverStepType ==
  ASSUME TypeOK, RecoverStep
  PROVE  TypeOK'
<1> /\ JournalOK /\ mode \in {"recovering", "up"}
    /\ UNCHANGED life => life' \in [Keys -> LifeState]
    /\ rtodo \subseteq Attempts /\ rcur \in Attempts \cup {None}
  BY DEF TypeOK, HandlersOK, PassesOK
<1> USE LifeStates
<1>1. CASE RecoverBegin \/ RecoverScan \/ RecoverEnd \/ \E a \in Attempts : RecoverNothing(a)
  <2>1. JournalOK'
    BY <1>1, UnchangedJournal DEF RecoverBegin, RecoverScan, RecoverEnd, RecoverNothing
  <2>2. prepared \subseteq Attempts /\ unresolved \subseteq Attempts
    BY DEF JournalOK
  <2> QED
    BY <1>1, <2>1, <2>2, RecoveringType
    DEF RecoverBegin, RecoverScan, RecoverEnd, RecoverNothing, ExpiredUnsigned
<1>2. ASSUME NEW a \in Attempts, RecoverRelease(a) \/ RecoverFinal(a) \/ RecoverDead(a)
      PROVE  TypeOK'
  <2>1. JournalOK'
    BY <1>2, IfOpenType DEF RecoverRelease, RecoverFinal, RecoverDead
  <2> QED
    BY <1>2, <2>1, RecoveringType DEF RecoverRelease, RecoverFinal, RecoverDead
<1>3. CASE RecoverExpired
  <2>1. JournalOK' /\ life' \in [Keys -> LifeState]
    BY <1>3, WriteResultType, AdvanceLifeType DEF RecoverExpired
  <2> QED
    BY <1>3, <2>1, RecoveringType DEF RecoverExpired
<1>4. CASE RecoverComplete
  <2>1. JournalOK' /\ life' \in [Keys -> LifeState]
    BY <1>4, WriteResultType, AdvanceLifeType DEF RecoverComplete
  <2> QED
    BY <1>4, <2>1, RecoveringType DEF RecoverComplete
<1>5. CASE RecoverFail
  <2>1. JournalOK' /\ life' \in [Keys -> LifeState]
    BY <1>5, WriteResultType, AdvanceLifeType DEF RecoverFail
  <2> QED
    BY <1>5, <2>1, RecoveringType DEF RecoverFail
<1> QED
  BY <1>1, <1>2, <1>3, <1>4, <1>5 DEF RecoverStep

LEMMA WorldStepType ==
  ASSUME TypeOK, WorldStep
  PROVE  TypeOK'
<1>1. CASE Crash
  <2>1. JournalOK'
    BY <1>1, UnchangedJournal DEF Crash, TypeOK
  <2>2. HandlersOK'
    BY <1>1 DEF Crash, Replayed, TypeOK, JournalOK, HandlersOK, HandlerPc
  <2>3. PassesOK'
    BY <1>1 DEF Crash, PassesOK
  <2>4. WorldOK'
    BY <1>1 DEF Crash, TypeOK, WorldOK
  <2> QED
    BY <2>1, <2>2, <2>3, <2>4 DEF TypeOK
<1>2. ASSUME NEW a \in Attempts,
             Land(a) \/ FailOnChain(a) \/ Rollback(a) \/ Finalize(a) \/ ExpireBlockhash(a)
               \/ ExpireAuthorization(a)
      PROVE  TypeOK'
  <2>1. Outside
    BY <1>2 DEF Land, FailOnChain, Rollback, Finalize, ExpireBlockhash, ExpireAuthorization
  <2>2. JournalOK' /\ HandlersOK' /\ PassesOK'
    BY <2>1, UnchangedJournal
    DEF Outside, TypeOK, HandlersOK, PassesOK, handlerVars, trackVars, recoverVars
  <2>3. Moved(a) \in Nat
    BY ConstantsOK DEF Moved, Attempts, TypeOK, JournalOK
  <2>4. WorldOK'
    BY <1>2, <2>3
    DEF Land, FailOnChain, Rollback, Finalize, ExpireBlockhash, ExpireAuthorization,
        TypeOK, WorldOK, TxFate
  <2> QED
    BY <2>2, <2>4 DEF TypeOK
<1> QED
  BY <1>1, <1>2 DEF WorldStep

LEMMA InitType == Init => TypeOK
<1> SUFFICES ASSUME Init PROVE TypeOK
  OBVIOUS
<1>1. JournalOK
  BY LedgerType DEF Init, JournalOK, LifeState
<1>2. HandlersOK
  BY DEF Init, HandlersOK, LifeState, HandlerPc
<1>3. PassesOK
  BY DEF Init, PassesOK
<1>4. WorldOK
  BY DEF Init, WorldOK, TxFate
<1> QED
  BY <1>1, <1>2, <1>3, <1>4 DEF TypeOK

LEMMA NextType == TypeOK /\ [Next]_vars => TypeOK'
<1> SUFFICES ASSUME TypeOK, [Next]_vars PROVE TypeOK'
  OBVIOUS
<1>1. CASE UNCHANGED vars
  <2>1. JournalOK'
    BY <1>1, UnchangedJournal DEF vars, TypeOK
  <2> QED
    BY <1>1, <2>1 DEF vars, TypeOK, HandlersOK, PassesOK, WorldOK, handlerVars, trackVars,
                      recoverVars, worldVars
<1>2. CASE Next
  BY <1>2, EntryStepType, AttemptStepType, ExitStepType, OperatorType, TrackStepType,
     RecoverStepType, WorldStepType DEF Next
<1> QED
  BY <1>1, <1>2

\* Every state the service reaches is one its types describe: no await leaves a handler, the
\* tracker or recovery with an attempt, a life-cycle state or an amount that is none.
THEOREM TypeCorrect == Spec => []TypeOK
BY InitType, NextType, PTL DEF Spec

-----------------------------------------------------------------------------
(* Why a key sends only once.  ClaimGuardsSend is inductive together with  *)
(* the types; most steps are quiet: they neither prepare, sign, submit nor *)
(* send, and every claim stays.                                            *)

\* No line of the journal and no step of memory takes a claim back.
Kept(f, g) == \A k \in Keys : f[k] # "none" => g[k] # "none"

LEMMA KeptLife ==
  ASSUME TypeOK, NEW a \in Attempts, NEW to \in Claimed,
         \/ AdvanceLife(a, to) \/ TrackLife(a, to) \/ RecoverLife(a, to)
         \/ life' = [life EXCEPT ![Key[a]] = Claim(@)]
         \/ life' = [life EXCEPT ![Key[a]] = Advance(Claim(@), to)]
         \/ UNCHANGED life
  PROVE  Kept(life, life')
<1>1. Key[a] \in Keys /\ life \in [Keys -> LifeState] /\ life[Key[a]] \in LifeState
  BY ConstantsOK DEF TypeOK, HandlersOK
<1>2. life[Key[a]] # "none" =>
        /\ Advance(life[Key[a]], to) # "none"
        /\ Advance(Walked(life[Key[a]]), to) # "none"
        /\ (IF Walked(life[Key[a]]) = "EXECUTING" THEN to ELSE life[Key[a]]) # "none"
        /\ Claim(life[Key[a]]) # "none"
        /\ Advance(Claim(life[Key[a]]), to) # "none"
  BY <1>1, AdvanceType, WalkType, ClaimType DEF Claimed
<1> QED
  BY <1>1, <1>2 DEF AdvanceLife, TrackLife, RecoverLife, Kept

\* The lines of a resolved attempt still say so, and of an unresolved one that it is.
JournalGrows ==
  /\ UNCHANGED <<prepared, signed, submitted>>
  /\ Kept(jlife, jlife')
  /\ \A a \in signed : a \in unresolved \/ outcomes[a] # {} => a \in unresolved' \/ outcomes'[a] # {}

LEMMA WriteResultGrows ==
  ASSUME TypeOK, NEW a \in Attempts, NEW o \in Terminal, WriteResult(a, o)
  PROVE  JournalGrows
<1>1. Key[a] \in Keys /\ jlife \in [Keys -> LifeState] /\ jlife[Key[a]] \in LifeState
  BY ConstantsOK DEF TypeOK, JournalOK
<1>2. jlife[Key[a]] # "none" => ReplayResult(jlife[Key[a]], o) # "none"
  BY <1>1, ReplayType DEF Claimed
<1>3. Kept(jlife, jlife')
  BY <1>1, <1>2 DEF WriteResult, Kept
<1>4. /\ outcomes' = [outcomes EXCEPT ![a] = @ \cup {o}] /\ unresolved' = unresolved \ {a}
      /\ outcomes \in [Attempts -> SUBSET Terminal] /\ signed \subseteq Attempts
  BY DEF WriteResult, TypeOK, JournalOK
<1>5. ASSUME NEW b \in signed, b \in unresolved \/ outcomes[b] # {}
      PROVE  b \in unresolved' \/ outcomes'[b] # {}
  <2>1. CASE b = a
    BY <1>4, <2>1
  <2>2. CASE b # a
    BY <1>4, <1>5, <2>2
  <2> QED
    BY <2>1, <2>2
<1> QED
  BY <1>3, <1>5 DEF JournalGrows, WriteResult

LEMMA LedgerGrows ==
  ASSUME TypeOK,
         \/ \E e, o : LedgerWrite(e, o)
         \/ \E a : ConfirmIfOpen(a) \/ ReleaseIfOpen(a)
         \/ \E p, r : ReleaseShare(p, r)
         \/ ClearPause \/ \E reason : PauseBy(reason)
         \/ UNCHANGED journalVars
  PROVE  JournalGrows
BY DEF LedgerWrite, ConfirmIfOpen, ReleaseIfOpen, ReleaseShare, ClearPause, PauseBy, journalVars,
       JournalGrows, Kept

\* Where a handler may go without preparing, signing, submitting or sending.
QuietMove(from, to) ==
  /\ to \in Working => from \in Working
  /\ to \in BeforeSend => from \in BeforeSend
  /\ to \notin {"signed", "submitted"}

QuietPcs ==
  \A a \in Attempts : pc'[a] = pc[a] \/ QuietMove(pc[a], pc'[a])

LEMMA QuietStep ==
  ASSUME TypeOK, ClaimGuardsSend, JournalGrows, Kept(life, life'), QuietPcs, UNCHANGED sends
  PROVE  ClaimGuardsSend'
<1>0. /\ KeysClaimed /\ OneHolder /\ WorkersHold /\ SendsJournaled /\ SignedPending
      /\ \A a \in Attempts : Key[a] \in Keys
      /\ prepared \subseteq Attempts /\ signed \subseteq Attempts
  BY ConstantsOK DEF ClaimGuardsSend, TypeOK, JournalOK
<1>1. KeysClaimed'
  BY <1>0 DEF KeysClaimed, Kept, JournalGrows
<1>2. OneHolder'
  BY <1>0 DEF OneHolder, JournalGrows
<1>3. WorkersHold'
  BY <1>0 DEF WorkersHold, QuietPcs, QuietMove, JournalGrows
<1>4. SendsJournaled'
  <2>1. \A a \in Attempts : pc'[a] \in BeforeSend => pc[a] \in BeforeSend
    BY DEF QuietPcs, QuietMove
  <2>2. \A a \in Attempts : pc'[a] \in {"signed", "submitted"} => pc'[a] = pc[a]
    BY DEF QuietPcs, QuietMove
  <2> QED
    BY <1>0, <2>1, <2>2 DEF SendsJournaled, JournalGrows
<1>5. SignedPending'
  BY <1>0 DEF SignedPending, JournalGrows
<1> QED
  BY <1>1, <1>2, <1>3, <1>4, <1>5 DEF ClaimGuardsSend

LEMMA QuietHandling ==
  ASSUME TypeOK, NEW a \in Attempts, NEW from, NEW to, Handling(a, from, to), QuietMove(from, to)
  PROVE  QuietPcs
BY DEF Handling, QuietPcs, TypeOK, HandlersOK

\* The step that claims: the key was free, so nobody was prepared under it, and whoever claims
\* it has sent nothing.
LEMMA ClaimGuards ==
  ASSUME TypeOK, ClaimGuardsSend, NEW a \in Attempts, life[Key[a]] = "none", Prepare(a),
         NEW from, NEW to \in {"prepared", "ordering"}, Handling(a, from, to),
         life' = [life EXCEPT ![Key[a]] = Claim(@)]
           \/ life' = [life EXCEPT ![Key[a]] = Advance(Claim(@), "AUTHORIZED")],
         UNCHANGED sends
  PROVE  ClaimGuardsSend'
<1>0. /\ KeysClaimed /\ OneHolder /\ WorkersHold /\ SendsJournaled /\ SignedPending
      /\ \A b \in Attempts : Key[b] \in Keys
      /\ prepared \subseteq Attempts /\ signed \subseteq Attempts
      /\ jlife \in [Keys -> LifeState] /\ life \in [Keys -> LifeState]
      /\ pc \in [Attempts -> HandlerPc] /\ sends \in [Attempts -> Nat]
  BY ConstantsOK DEF ClaimGuardsSend, TypeOK, JournalOK, HandlersOK, WorldOK
<1>1. \A b \in prepared : Key[b] # Key[a]
  BY <1>0 DEF KeysClaimed
<1>2. sends[a] = 0
  BY <1>0, <1>1 DEF SendsJournaled
<1>3. KeysClaimed'
  <2>1. Kept(life, life') /\ life'[Key[a]] # "none"
    BY <1>0, KeptLife, LifeStates, WalkType, ClaimType DEF Claimed
  <2>2. Kept(jlife, jlife') /\ jlife'[Key[a]] # "none"
    BY <1>0, ClaimType DEF Prepare, Kept, Claimed
  <2> QED
    BY <1>0, <2>1, <2>2 DEF KeysClaimed, Kept, Prepare
<1>4. OneHolder'
  BY <1>0, <1>1 DEF OneHolder, Prepare
<1>5. WorkersHold'
  BY <1>0 DEF WorkersHold, Handling, Prepare
<1>6. SendsJournaled'
  BY <1>0, <1>2 DEF SendsJournaled, Handling, Prepare
<1>7. SignedPending'
  BY <1>0 DEF SignedPending, Prepare
<1> QED
  BY <1>3, <1>4, <1>5, <1>6, <1>7 DEF ClaimGuardsSend

LEMMA EntryStepGuards ==
  ASSUME TypeOK, ClaimGuardsSend, NEW e \in Entries, EntryStep(e)
  PROVE  ClaimGuardsSend'
<1> e \in Attempts
  BY DEF Attempts
<1> USE LifeStates
<1>1. CASE Verify(e) \/ Duplicate(e)
  <2>1. JournalGrows /\ Kept(life, life') /\ UNCHANGED sends
    BY <1>1, LedgerGrows DEF Verify, Duplicate, Kept, chainVars
  <2>2. QuietPcs
    BY <1>1, QuietHandling DEF Verify, Duplicate, QuietMove, Working, BeforeSend
  <2> QED
    BY <2>1, <2>2, QuietStep
<1>2. CASE AdmitByCaps(e)
  <2>1. JournalGrows /\ Kept(life, life') /\ UNCHANGED sends
    BY <1>2, LedgerGrows, KeptLife DEF AdmitByCaps, chainVars
  <2>2. QuietPcs
    BY <1>2, QuietHandling DEF AdmitByCaps, QuietMove, Working, BeforeSend
  <2> QED
    BY <2>1, <2>2, QuietStep
<1>3. CASE RefuseByCaps(e)
  <2>1. JournalGrows /\ Kept(life, life') /\ UNCHANGED sends
    BY <1>3, WriteResultGrows, KeptLife DEF RefuseByCaps, chainVars
  <2>2. QuietPcs
    BY <1>3, QuietHandling DEF RefuseByCaps, QuietMove, Working, BeforeSend
  <2> QED
    BY <2>1, <2>2, QuietStep
<1>4. CASE ConfirmFinal(e)
  <2>1. JournalGrows /\ Kept(life, life') /\ UNCHANGED sends
    BY <1>4, LedgerGrows DEF ConfirmFinal, Kept, chainVars
  <2>2. QuietPcs
    BY <1>4, QuietHandling DEF ConfirmFinal, QuietMove, Working, BeforeSend
  <2> QED
    BY <2>1, <2>2, QuietStep
<1>5. CASE ClaimEntry(e)
  BY <1>5, ClaimGuards DEF ClaimEntry, chainVars, BeforeSend
<1> QED
  BY <1>1, <1>2, <1>3, <1>4, <1>5 DEF EntryStep

\* The steps that sign, journal the intention and send: each finds what the one before left.
LEMMA SendGuards ==
  ASSUME TypeOK, ClaimGuardsSend, NEW a \in Attempts, Sign(a) \/ Submit(a) \/ Send(a)
  PROVE  ClaimGuardsSend'
<1>0. /\ KeysClaimed /\ OneHolder /\ WorkersHold /\ SendsJournaled /\ SignedPending
      /\ \A b \in Attempts : Key[b] \in Keys
      /\ prepared \subseteq Attempts /\ signed \subseteq Attempts /\ submitted \subseteq Attempts
      /\ jlife \in [Keys -> LifeState] /\ life \in [Keys -> LifeState]
      /\ pc \in [Attempts -> HandlerPc] /\ sends \in [Attempts -> Nat]
  BY ConstantsOK DEF ClaimGuardsSend, TypeOK, JournalOK, HandlersOK, WorldOK
<1>1. Kept(life, life')
  BY KeptLife, LifeStates DEF Sign, Submit, Send
<1>2. Kept(jlife, jlife')
  <2>1. jlife[Key[a]] # "none" => ReplaySubmitted(jlife[Key[a]]) # "none"
    BY <1>0, ReplayType DEF Claimed
  <2> QED
    BY <1>0, <2>1 DEF Sign, Submit, Send, Kept, journalVars
<1>3. UNCHANGED prepared
  BY DEF Sign, Submit, Send, journalVars
<1>4. KeysClaimed' /\ OneHolder'
  BY <1>0, <1>1, <1>2, <1>3 DEF KeysClaimed, OneHolder, Kept
<1>5. WorkersHold'
  BY <1>0, <1>3 DEF WorkersHold, Sign, Submit, Send, Handling, Working, BeforeSend
<1>6. SendsJournaled'
  <2>1. CASE Sign(a)
    BY <1>0, <2>1 DEF SendsJournaled, Sign, Handling, JournalSigned, chainVars, BeforeSend
  <2>2. CASE Submit(a)
    BY <1>0, <2>2 DEF SendsJournaled, Submit, Handling, chainVars, BeforeSend
  <2>3. CASE Send(a)
    <3>1. /\ pc[a] = "submitted" /\ pc' = [pc EXCEPT ![a] = "executing"]
          /\ sends' = [sends EXCEPT ![a] = @ + 1] /\ UNCHANGED <<signed, submitted>>
      BY <2>3 DEF Send, Handling, journalVars
    <3>2. a \in prepared \cap signed \cap submitted /\ sends[a] = 0
      BY <1>0, <3>1 DEF WorkersHold, SendsJournaled, Working, BeforeSend
    <3>3. /\ sends'[a] = 1 /\ pc'[a] = "executing"
          /\ \A b \in Attempts \ {a} : sends'[b] = sends[b] /\ pc'[b] = pc[b]
      BY <1>0, <3>1, <3>2
    <3> QED
      BY <1>0, <1>3, <3>1, <3>2, <3>3 DEF SendsJournaled, BeforeSend
  <2> QED
    BY <2>1, <2>2, <2>3
<1>7. SignedPending'
  BY <1>0 DEF SignedPending, Sign, Submit, Send, JournalSigned, journalVars
<1> QED
  BY <1>4, <1>5, <1>6, <1>7 DEF ClaimGuardsSend

LEMMA AttemptStepGuards ==
  ASSUME TypeOK, ClaimGuardsSend, NEW a \in Attempts, AttemptStep(a)
  PROVE  ClaimGuardsSend'
<1> USE LifeStates
<1>1. CASE Sign(a) \/ Submit(a) \/ Send(a)
  BY <1>1, SendGuards
<1>2. CASE PassChecks(a) \/ Throw(a) \/ LeaveUnresolved(a) \/ ProviderConfirms(a)
  <2>1. JournalGrows /\ Kept(life, life') /\ UNCHANGED sends
    BY <1>2, LedgerGrows DEF PassChecks, Throw, LeaveUnresolved, ProviderConfirms, Kept, chainVars
  <2>2. QuietPcs
    BY <1>2, QuietHandling DEF PassChecks, Throw, LeaveUnresolved, ProviderConfirms, QuietMove, Working, BeforeSend
  <2> QED
    BY <2>1, <2>2, QuietStep
<1>3. CASE ReleaseBeforeFailing(a) \/ ConfirmProvisional(a)
  <2>1. JournalGrows /\ Kept(life, life') /\ UNCHANGED sends
    BY <1>3, LedgerGrows DEF ReleaseBeforeFailing, ConfirmProvisional, Kept, chainVars
  <2>2. QuietPcs
    BY <1>3, QuietHandling DEF ReleaseBeforeFailing, ConfirmProvisional, QuietMove, Working, BeforeSend
  <2> QED
    BY <2>1, <2>2, QuietStep
<1>4. CASE Fail(a) \/ Complete(a)
  <2>1. JournalGrows /\ Kept(life, life') /\ UNCHANGED sends
    BY <1>4, WriteResultGrows, KeptLife DEF Fail, Complete, Kept, chainVars
  <2>2. QuietPcs
    BY <1>4, QuietHandling DEF Fail, Complete, QuietMove, Working, BeforeSend
  <2> QED
    BY <2>1, <2>2, QuietStep
<1>5. CASE Observe(a)
  <2>1. JournalGrows /\ Kept(life, life') /\ UNCHANGED sends
    BY <1>5 DEF Observe, JournalGrows, Kept, chainVars
  <2>2. QuietPcs
    BY <1>5, QuietHandling DEF Observe, QuietMove, Working, BeforeSend
  <2> QED
    BY <2>1, <2>2, QuietStep
<1> QED
  BY <1>1, <1>2, <1>3, <1>4, <1>5 DEF AttemptStep

LEMMA ExitStepGuards ==
  ASSUME TypeOK, ClaimGuardsSend, NEW x \in Exits, ExitStep(x)
  PROVE  ClaimGuardsSend'
<1> x \in Attempts
  BY DEF Attempts
<1>1. CASE ReceiveClose(x) \/ CloseNothing(x) \/ ExitFinal(x)
  <2>1. JournalGrows /\ Kept(life, life') /\ UNCHANGED sends
    BY <1>1, LedgerGrows DEF ReceiveClose, CloseNothing, ExitFinal, Kept, chainVars
  <2>2. QuietPcs
    BY <1>1, QuietHandling DEF ReceiveClose, CloseNothing, ExitFinal, QuietMove, Working, BeforeSend
  <2> QED
    BY <2>1, <2>2, QuietStep
<1>2. CASE ExitShare(x) \/ PauseAfterClose(x)
  <2>1. JournalGrows /\ Kept(life, life') /\ UNCHANGED sends
    BY <1>2, LedgerGrows DEF ExitShare, PauseAfterClose, Kept, chainVars
  <2>2. QuietPcs
    BY <1>2, QuietHandling DEF ExitShare, PauseAfterClose, QuietMove, Working, BeforeSend
  <2> QED
    BY <2>1, <2>2, QuietStep
<1>3. CASE PlanClose(x)
  BY <1>3, ClaimGuards DEF PlanClose, chainVars
<1> QED
  BY <1>1, <1>2, <1>3 DEF ExitStep

LEMMA OperatorGuards ==
  ASSUME TypeOK, ClaimGuardsSend, CommandPause \/ OperatorClears
  PROVE  ClaimGuardsSend'
<1>1. JournalGrows
  BY LedgerGrows DEF CommandPause, OperatorClears
<1>2. Kept(life, life') /\ QuietPcs /\ UNCHANGED sends
  BY DEF CommandPause, OperatorClears, handlerVars, QuietPcs, Kept
<1> QED
  BY <1>1, <1>2, QuietStep

LEMMA TrackStepGuards ==
  ASSUME TypeOK, ClaimGuardsSend, TrackStep
  PROVE  ClaimGuardsSend'
<1> USE LifeStates
<1>1. CASE TrackBegin \/ TrackNothing \/ TrackEnd \/ TrackClear \/ TrackKeepPause \/ TrackPause
           \/ \E a \in Attempts : TrackPick(a)
  <2>1. JournalGrows /\ Kept(life, life')
    BY <1>1, LedgerGrows DEF TrackBegin, TrackNothing, TrackEnd, TrackClear, TrackKeepPause, TrackPause, TrackPick, Kept
  <2>2. QuietPcs /\ UNCHANGED sends
    BY <1>1 DEF TrackBegin, TrackNothing, TrackEnd, TrackClear, TrackKeepPause, TrackPause, TrackPick, Tracking, worldVars, QuietPcs
  <2> QED
    BY <2>1, <2>2, QuietStep
<1>2. CASE TrackFinal \/ TrackConfirmed \/ TrackDead \/ TrackShare
  <2>1. JournalGrows /\ Kept(life, life')
    BY <1>2, LedgerGrows DEF TrackFinal, TrackConfirmed, TrackDead, TrackShare, Kept
  <2>2. QuietPcs /\ UNCHANGED sends
    BY <1>2 DEF TrackFinal, TrackConfirmed, TrackDead, TrackShare, Tracking, worldVars, QuietPcs
  <2> QED
    BY <2>1, <2>2, QuietStep
<1>3. CASE TrackComplete \/ TrackFail
  <2>1. JournalGrows /\ Kept(life, life')
    BY <1>3, WriteResultGrows, KeptLife DEF TrackComplete, TrackFail, Kept
  <2>2. QuietPcs /\ UNCHANGED sends
    BY <1>3 DEF TrackComplete, TrackFail, Tracking, worldVars, QuietPcs
  <2> QED
    BY <2>1, <2>2, QuietStep
<1>4. CASE TrackObserve \/ TrackReorg
  <2>1. JournalGrows /\ Kept(life, life')
    BY <1>4, KeptLife DEF TrackObserve, TrackReorg, JournalGrows, Kept
  <2>2. QuietPcs /\ UNCHANGED sends
    BY <1>4 DEF TrackObserve, TrackReorg, Tracking, worldVars, QuietPcs
  <2> QED
    BY <2>1, <2>2, QuietStep
<1> QED
  BY <1>1, <1>2, <1>3, <1>4 DEF TrackStep, TrackVerdict

LEMMA RecoverStepGuards ==
  ASSUME TypeOK, ClaimGuardsSend, RecoverStep
  PROVE  ClaimGuardsSend'
<1> USE LifeStates
<1>1. CASE RecoverBegin \/ RecoverScan \/ RecoverEnd \/ \E a \in Attempts : RecoverNothing(a)
  <2>1. JournalGrows /\ Kept(life, life')
    BY <1>1, LedgerGrows DEF RecoverBegin, RecoverScan, RecoverEnd, RecoverNothing, Kept
  <2>2. QuietPcs /\ UNCHANGED sends
    BY <1>1 DEF RecoverBegin, RecoverScan, RecoverEnd, RecoverNothing, Recovering, worldVars, QuietPcs
  <2> QED
    BY <2>1, <2>2, QuietStep
<1>2. CASE \E a \in Attempts : RecoverRelease(a) \/ RecoverFinal(a) \/ RecoverDead(a)
  <2>1. JournalGrows /\ Kept(life, life')
    BY <1>2, LedgerGrows DEF RecoverRelease, RecoverFinal, RecoverDead, Kept
  <2>2. QuietPcs /\ UNCHANGED sends
    BY <1>2 DEF RecoverRelease, RecoverFinal, RecoverDead, Recovering, worldVars, QuietPcs
  <2> QED
    BY <2>1, <2>2, QuietStep
<1>3. CASE RecoverExpired \/ RecoverComplete \/ RecoverFail
  <2>1. JournalGrows /\ Kept(life, life')
    BY <1>3, WriteResultGrows, KeptLife DEF RecoverExpired, RecoverComplete, RecoverFail, Kept
  <2>2. QuietPcs /\ UNCHANGED sends
    BY <1>3 DEF RecoverExpired, RecoverComplete, RecoverFail, Recovering, worldVars, QuietPcs
  <2> QED
    BY <2>1, <2>2, QuietStep
<1> QED
  BY <1>1, <1>2, <1>3 DEF RecoverStep

\* A restart forgets where every handler was and believes the journal, which has every claim.
LEMMA CrashGuards ==
  ASSUME TypeOK, ClaimGuardsSend, Crash
  PROVE  ClaimGuardsSend'
<1>1. /\ UNCHANGED <<prepared, signed, submitted, unresolved, outcomes, sends>>
      /\ jlife' = jlife /\ life' = jlife /\ pc' = [a \in Attempts |-> "idle"]
  BY DEF Crash, Replayed, journalVars
<1> QED
  BY <1>1
  DEF ClaimGuardsSend, KeysClaimed, OneHolder, WorkersHold, SendsJournaled, SignedPending,
      Working, BeforeSend

LEMMA WorldStepGuards ==
  ASSUME TypeOK, ClaimGuardsSend, WorldStep
  PROVE  ClaimGuardsSend'
<1>1. CASE Crash
  BY <1>1, CrashGuards
<1>2. ASSUME NEW a \in Attempts,
             Land(a) \/ FailOnChain(a) \/ Rollback(a) \/ Finalize(a) \/ ExpireBlockhash(a)
               \/ ExpireAuthorization(a)
      PROVE  ClaimGuardsSend'
  <2>1. Outside /\ UNCHANGED sends
    BY <1>2 DEF Land, FailOnChain, Rollback, Finalize, ExpireBlockhash, ExpireAuthorization
  <2>2. JournalGrows /\ Kept(life, life') /\ QuietPcs
    BY <2>1, LedgerGrows DEF Outside, handlerVars, Kept, QuietPcs
  <2> QED
    BY <2>1, <2>2, QuietStep
<1> QED
  BY <1>1, <1>2 DEF WorldStep

LEMMA InitGuards == Init => ClaimGuardsSend
<1> SUFFICES ASSUME Init PROVE ClaimGuardsSend
  OBVIOUS
<1>1. /\ prepared = {} /\ signed = {} /\ pc = [a \in Attempts |-> "idle"]
      /\ sends = [a \in Attempts |-> 0]
  BY DEF Init
<1> QED
  BY <1>1
  DEF ClaimGuardsSend, KeysClaimed, OneHolder, WorkersHold, SendsJournaled, SignedPending,
      Working, BeforeSend

LEMMA NextGuards == TypeOK /\ ClaimGuardsSend /\ [Next]_vars => ClaimGuardsSend'
<1> SUFFICES ASSUME TypeOK, ClaimGuardsSend, [Next]_vars PROVE ClaimGuardsSend'
  OBVIOUS
<1>1. CASE UNCHANGED vars
  <2>1. JournalGrows /\ Kept(life, life') /\ QuietPcs /\ UNCHANGED sends
    BY <1>1, LedgerGrows DEF vars, handlerVars, worldVars, Kept, QuietPcs
  <2> QED
    BY <2>1, QuietStep
<1>2. CASE Next
  BY <1>2, EntryStepGuards, AttemptStepGuards, ExitStepGuards, OperatorGuards, TrackStepGuards,
     RecoverStepGuards, WorldStepGuards DEF Next
<1> QED
  BY <1>1, <1>2

\* The claim of a key is held by one attempt for good, across every crash, race and retry, and
\* only its handler comes to the network, once.
THEOREM ClaimsGuard == Spec => []ClaimGuardsSend
BY TypeCorrect, InitGuards, NextGuards, PTL DEF Spec

\* INV-04 for any number of deliveries, crashes and keys: one key sends one transaction, once.
THEOREM SendsOnce == Spec => []AtMostOncePerKey
<1>1. ClaimGuardsSend => AtMostOncePerKey
  BY DEF ClaimGuardsSend, OneHolder, SendsJournaled, AtMostOncePerKey
<1> QED
  BY <1>1, ClaimsGuard, PTL

\* D12 for any number of crashes: whatever was sent is in the journal first, and a restart
\* finds it unresolved or resolved, never unknown.
THEOREM PersistsFirst == Spec => []PersistBeforeSubmit
<1>1. ClaimGuardsSend => PersistBeforeSubmit
  BY DEF ClaimGuardsSend, SendsJournaled, SignedPending, PersistBeforeSubmit
<1> QED
  BY <1>1, ClaimsGuard, PTL

=============================================================================
