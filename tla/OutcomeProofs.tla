----------------------------- MODULE OutcomeProofs -----------------------------
(***************************************************************************)
(* Proofs that an outcome the execution service tells is the truth and     *)
(* stays it (INV-22, INV-23), and that Executor.tla implements             *)
(* IntentPromise.tla.  They hold where recovery runs before the service    *)
(* serves, as main.ts does at start; an operator's POST /v1/recover       *)
(* while it serves is another matter (README, "The proofs").               *)
(***************************************************************************)
EXTENDS ExecutorProofs, FiniteSetTheorems

-----------------------------------------------------------------------------
(* Why an outcome is the truth: who may write one, and what the chain says *)
(* when it is written. Recovery runs before the service serves; an attempt *)
(* that may fail is one that can no longer land.                           *)

Sunk   == {"failed", "dead"}
Silent == {"unsent"} \cup Sunk

\* While a restart recovers, nothing else runs, and it ends before the service serves.
RecoversAlone ==
  /\ mode = "recovering" => tpc = "idle" /\ \A a \in Attempts : pc[a] = "idle"
  /\ mode = "up" => rpc = "idle"

\* What an attempt has left behind tells how far its transaction can have come.
MarksFit ==
  /\ submitted \cup unresolved \subseteq signed /\ signed \subseteq prepared
  /\ \A a \in Attempts :
       /\ outcomes[a] # {} => a \in prepared
       /\ a \notin signed => tx[a] = "unsent"
       /\ sends[a] = 0 => tx[a] \in {"unsent", "dead"}

\* What the tracker has in hand was signed, and its verdict stays true.
TrackerSure ==
  /\ ttodo \subseteq signed /\ tcur \in signed \cup {None}
  /\ tpc = "failing" /\ tcur # None => tx[tcur] \in Sunk
  /\ tpc \in {"completing", "exiting"} /\ tcur # None => tx[tcur] = "final"

\* So does recovery's, and what it gives up as expired is unsigned and has no outcome.
RecoverySure ==
  /\ rpc \in {"expiring", "expired"} => \A a \in rtodo : a \in prepared \ signed /\ outcomes[a] = {}
  /\ rpc = "expired" => rcur \in prepared \ signed /\ rcur \notin rtodo /\ outcomes[rcur] = {}
  /\ rpc \in {"scan", "completing", "failing"} => rtodo \subseteq signed
  /\ rpc = "failing" => rcur \in signed /\ tx[rcur] \in Sunk
  /\ rpc = "completing" => rcur \in signed /\ tx[rcur] = "final"

\* An attempt has one outcome, and the chain agrees with it for good.
OutcomesTrue ==
  \A a \in Attempts :
    /\ outcomes[a] \in {{}, {"COMPLETED"}, {"FAILED"}, {"EXPIRED"}}
    /\ outcomes[a] = {"COMPLETED"} => tx[a] = "final"
    /\ outcomes[a] \in {{"FAILED"}, {"EXPIRED"}} => tx[a] \in Silent
    /\ outcomes[a] # {} /\ tx[a] = "unsent" => pc[a] \notin BeforeSend
    /\ outcomes[a] = {"EXPIRED"} => a \notin signed /\ pc[a] \notin Working
    /\ pc[a] = "failing" => tx[a] \in Silent
    /\ pc[a] \in {"completing", "exiting"} => tx[a] = "final"

\* The registry, in memory and replayed, says of a key what was told of its holder.
LivesFit ==
  /\ \A k \in Keys : life[k] # "none" \/ jlife[k] # "none" => \E a \in prepared : Key[a] = k
  /\ \A a \in prepared :
       /\ outcomes[a] = {} => jlife[Key[a]] \in {"CREATED", "EXECUTING"}
       /\ \A o \in outcomes[a] : jlife[Key[a]] = o
       /\ jlife[Key[a]] = "EXECUTING" => a \in submitted
  /\ \A k \in Keys : life[k] \in Terminal => jlife[k] = life[k]

OutcomeInv ==
  /\ RecoversAlone /\ MarksFit /\ TrackerSure /\ RecoverySure /\ OutcomesTrue /\ LivesFit

\* The parts that a step of one actor leaves to the others.
AttemptsFit == MarksFit /\ OutcomesTrue /\ LivesFit
PassesSure  == RecoversAlone /\ TrackerSure /\ RecoverySure

\* Facts every step below starts from.
LEMMA Standing ==
  ASSUME TypeOK, ClaimGuardsSend, OutcomeInv
  PROVE  /\ MarksFit /\ OutcomesTrue /\ LivesFit /\ RecoversAlone /\ TrackerSure /\ RecoverySure
         /\ KeysClaimed /\ OneHolder /\ WorkersHold /\ SendsJournaled
         /\ \A a \in Attempts : Key[a] \in Keys
         /\ None \notin Attempts
         /\ prepared \subseteq Attempts /\ signed \subseteq Attempts /\ submitted \subseteq Attempts
         /\ unresolved \subseteq Attempts
         /\ jlife \in [Keys -> LifeState] /\ life \in [Keys -> LifeState]
         /\ pc \in [Attempts -> HandlerPc] /\ tx \in [Attempts -> TxFate] /\ sends \in [Attempts -> Nat]
         /\ outcomes \in [Attempts -> SUBSET Terminal]
         /\ mode \in {"recovering", "up"} /\ tcur \in Attempts \cup {None} /\ rcur \in Attempts \cup {None}
         /\ ttodo \subseteq Attempts /\ rtodo \subseteq Attempts
BY ConstantsOK DEF OutcomeInv, ClaimGuardsSend, TypeOK, JournalOK, HandlersOK, PassesOK, WorldOK

\* A verdict that was true stays true.
VerdictsKept == \A a \in Attempts : tx[a] \in Sunk \cup {"final"} => tx'[a] = tx[a]

LEMMA HandlerPasses ==
  ASSUME TypeOK, ClaimGuardsSend, OutcomeInv, NEW a \in Attempts, NEW from, NEW to, Handling(a, from, to),
         signed \subseteq signed', VerdictsKept
  PROVE  PassesSure'
<1>1. /\ mode = "up" /\ mode' = mode /\ UNCHANGED <<tpc, ttodo, tcur, rpc, rtodo, rcur>>
  BY DEF Handling, trackVars, recoverVars
<1>2. RecoversAlone' /\ RecoverySure'
  BY <1>1, Standing DEF RecoversAlone, RecoverySure
<1>3. TrackerSure'
  BY <1>1, Standing DEF TrackerSure, VerdictsKept, Sunk
<1> QED
  BY <1>2, <1>3 DEF PassesSure

\* Where handlers may go while no outcome is written.
Moves(a) ==
  \/ pc'[a] = pc[a]
  \/ /\ pc'[a] \in BeforeSend => pc[a] \in BeforeSend
     /\ pc'[a] \in Working => pc[a] \in Working
     /\ pc'[a] = "failing" => tx[a] \in Silent
     /\ pc'[a] \in {"completing", "exiting"} => tx[a] = "final"

\* The registry in memory goes on, but not to an end.
LivesOn ==
  /\ life' \in [Keys -> LifeState]
  /\ \A k \in Keys : \/ life'[k] = life[k]
                     \/ life[k] # "none" /\ life'[k] \notin Terminal

SameMarks == UNCHANGED <<jlife, prepared, signed, submitted, unresolved, outcomes>>

LEMMA QuietOutcomes ==
  ASSUME TypeOK, ClaimGuardsSend, OutcomeInv, SameMarks, LivesOn, UNCHANGED chainVars,
         \A a \in Attempts : Moves(a)
  PROVE  AttemptsFit'
<1>0. UNCHANGED <<tx, sends, jlife, prepared, signed, submitted, unresolved, outcomes>>
  BY DEF chainVars, SameMarks
<1>1. MarksFit'
  BY <1>0, Standing DEF MarksFit
<1>2. OutcomesTrue'
  BY <1>0, Standing DEF OutcomesTrue, Moves, BeforeSend, Working
<1>3. LivesFit'
  BY <1>0, Standing DEF LivesFit, LivesOn
<1> QED
  BY <1>1, <1>2, <1>3 DEF AttemptsFit

\* An outcome is written of an attempt that has no other, and that the chain confirms.
LEMMA ResultOutcomes ==
  ASSUME TypeOK, ClaimGuardsSend, OutcomeInv, NEW a \in prepared, NEW o \in {"COMPLETED", "FAILED", "EXPIRED"},
         WriteResult(a, o), outcomes[a] \subseteq {o}, UNCHANGED chainVars,
         o = "COMPLETED" => tx[a] = "final",
         o \in {"FAILED", "EXPIRED"} => tx[a] \in Silent /\ (tx[a] = "unsent" => pc'[a] \notin BeforeSend),
         o = "EXPIRED" => a \notin signed /\ pc'[a] \notin Working,
         \A b \in Attempts : Moves(b),
         life' \in [Keys -> LifeState], \A k \in Keys \ {Key[a]} : life'[k] = life[k],
         life'[Key[a]] \in {life[Key[a]], o} \/ (life[Key[a]] = "AUTHORIZED" /\ life'[Key[a]] = "EXECUTING")
  PROVE  AttemptsFit'
<1>0. /\ UNCHANGED <<tx, sends, prepared, signed, submitted>> /\ unresolved' = unresolved \ {a}
      /\ outcomes' = [outcomes EXCEPT ![a] = @ \cup {o}]
      /\ jlife' = [jlife EXCEPT ![Key[a]] = ReplayResult(@, o)]
      /\ a \in Attempts /\ Key[a] \in Keys
  BY Standing DEF chainVars, WriteResult
<1>1. outcomes'[a] = {o} /\ \A b \in Attempts \ {a} : outcomes'[b] = outcomes[b]
  BY <1>0, Standing
<1>2. MarksFit'
  BY <1>0, <1>1, Standing DEF MarksFit
<1>3. OutcomesTrue'
  BY <1>0, <1>1, Standing DEF OutcomesTrue, Moves, BeforeSend, Working
<1>4. jlife'[Key[a]] = o /\ \A k \in Keys \ {Key[a]} : jlife'[k] = jlife[k]
  <2>1. outcomes[a] = {} \/ outcomes[a] = {o}
    OBVIOUS
  <2>2. jlife[Key[a]] \in {"CREATED", "EXECUTING", o} /\ (jlife[Key[a]] = "EXECUTING" => a \in signed)
    BY <2>1, Standing DEF LivesFit, MarksFit
  <2>3. ReplayResult(jlife[Key[a]], o) = o
    BY <2>2 DEF ReplayResult, ReplaySubmitted, Advance, Allowed
  <2> QED
    BY <1>0, <2>3, Standing
<1>5. LivesFit'
  <2>1. \A b \in prepared \ {a} : Key[b] # Key[a]
    BY <1>0, Standing DEF OneHolder
  <2>2. \A k \in Keys : life'[k] # "none" \/ jlife'[k] # "none" => \E b \in prepared : Key[b] = k
    BY <1>0, <1>4, Standing DEF LivesFit
  <2>3. \A b \in prepared :
          /\ outcomes'[b] = {} => jlife'[Key[b]] \in {"CREATED", "EXECUTING"}
          /\ \A p \in outcomes'[b] : jlife'[Key[b]] = p
          /\ jlife'[Key[b]] = "EXECUTING" => b \in submitted
    <3> SUFFICES ASSUME NEW b \in prepared
                 PROVE  /\ outcomes'[b] = {} => jlife'[Key[b]] \in {"CREATED", "EXECUTING"}
                        /\ \A p \in outcomes'[b] : jlife'[Key[b]] = p
                        /\ jlife'[Key[b]] = "EXECUTING" => b \in submitted
      OBVIOUS
    <3>1. CASE b = a
      BY <1>1, <1>4, <3>1
    <3>2. CASE b # a
      <4>1. outcomes'[b] = outcomes[b] /\ jlife'[Key[b]] = jlife[Key[b]]
        BY <1>1, <1>4, <2>1, <3>2, Standing
      <4> QED
        BY <4>1, Standing DEF LivesFit
    <3> QED
      BY <3>1, <3>2
  <2>4. \A k \in Keys : life'[k] \in Terminal => jlife'[k] = life'[k]
    <3>1. life[Key[a]] \in Terminal => life[Key[a]] = o
      <4>1. outcomes[a] = {} \/ outcomes[a] = {o}
        OBVIOUS
      <4>2. jlife[Key[a]] \in {"CREATED", "EXECUTING", o}
        BY <4>1, Standing DEF LivesFit
      <4> QED
        BY <1>0, <4>2, Standing DEF LivesFit, Terminal
    <3> QED
      BY <1>0, <1>4, <3>1, Standing DEF LivesFit, Terminal
  <2> QED
    BY <1>0, <2>2, <2>3, <2>4 DEF LivesFit
<1> QED
  BY <1>2, <1>3, <1>5 DEF AttemptsFit

\* How memory follows a journaled outcome, or goes on.
LEMMA LifeFollows ==
  ASSUME TypeOK, NEW a \in Attempts, NEW o \in Claimed, AdvanceLife(a, o) \/ TrackLife(a, o) \/ RecoverLife(a, o)
  PROVE  /\ life' \in [Keys -> LifeState] /\ \A k \in Keys \ {Key[a]} : life'[k] = life[k]
         /\ life'[Key[a]] \in {life[Key[a]], o} \/ (life[Key[a]] = "AUTHORIZED" /\ life'[Key[a]] = "EXECUTING")
         /\ life[Key[a]] = "none" => life'[Key[a]] = "none"
<1>1. Key[a] \in Keys /\ life \in [Keys -> LifeState] /\ life' \in [Keys -> LifeState]
  BY ConstantsOK, AdvanceLifeType DEF TypeOK, HandlersOK
<1>2. life' = [life EXCEPT ![Key[a]] = life'[Key[a]]]
  BY <1>1 DEF AdvanceLife, TrackLife, RecoverLife
<1>3. /\ life'[Key[a]] \in {life[Key[a]], o} \/ (life[Key[a]] = "AUTHORIZED" /\ life'[Key[a]] = "EXECUTING")
      /\ life[Key[a]] = "none" => life'[Key[a]] = "none"
  BY <1>1 DEF AdvanceLife, TrackLife, RecoverLife, Advance, Allowed, Walked
<1> QED
  BY <1>1, <1>2, <1>3

LEMMA ClaimOutcomes ==
  ASSUME TypeOK, ClaimGuardsSend, OutcomeInv, NEW a \in Attempts, life[Key[a]] = "none", Prepare(a),
         NEW from, NEW to \in {"prepared", "ordering"}, Handling(a, from, to), UNCHANGED chainVars,
         life' = [life EXCEPT ![Key[a]] = Claim(@)]
           \/ life' = [life EXCEPT ![Key[a]] = Advance(Claim(@), "AUTHORIZED")]
  PROVE  AttemptsFit'
<1>0. /\ UNCHANGED <<tx, sends, signed, submitted, unresolved, outcomes>> /\ prepared' = prepared \cup {a}
      /\ jlife' = [jlife EXCEPT ![Key[a]] = Claim(@)] /\ pc' = [pc EXCEPT ![a] = to] /\ Key[a] \in Keys
  BY Standing DEF chainVars, Prepare, Handling
<1>1. a \notin prepared /\ \A b \in prepared : Key[b] # Key[a]
  BY Standing DEF KeysClaimed
<1>2. a \notin signed /\ outcomes[a] = {} /\ a \notin submitted /\ jlife[Key[a]] = "none"
  BY <1>0, <1>1, Standing DEF MarksFit, LivesFit
<1>3. MarksFit'
  BY <1>0, Standing DEF MarksFit
<1>4. OutcomesTrue'
  BY <1>0, <1>2, Standing DEF OutcomesTrue
<1>5. jlife'[Key[a]] = "CREATED" /\ \A k \in Keys \ {Key[a]} : jlife'[k] = jlife[k]
  BY <1>0, <1>2, Standing DEF Claim
<1>6. life'[Key[a]] \in {"CREATED", "AUTHORIZED"} /\ \A k \in Keys \ {Key[a]} : life'[k] = life[k]
  BY <1>0, Standing DEF Claim, Advance, Allowed
<1>7. LivesFit'
  <2>1. \A k \in Keys : life'[k] # "none" \/ jlife'[k] # "none" => \E b \in prepared' : Key[b] = k
    BY <1>0, <1>5, <1>6, Standing DEF LivesFit
  <2>2. \A b \in prepared' :
          /\ outcomes'[b] = {} => jlife'[Key[b]] \in {"CREATED", "EXECUTING"}
          /\ \A p \in outcomes'[b] : jlife'[Key[b]] = p
          /\ jlife'[Key[b]] = "EXECUTING" => b \in submitted'
    BY <1>0, <1>1, <1>2, <1>5, Standing DEF LivesFit
  <2>3. \A k \in Keys : life'[k] \in Terminal => jlife'[k] = life'[k]
    BY <1>0, <1>5, <1>6, Standing DEF LivesFit, Terminal
  <2> QED
    BY <2>1, <2>2, <2>3 DEF LivesFit
<1> QED
  BY <1>3, <1>4, <1>7 DEF AttemptsFit

LEMMA SignOutcomes ==
  ASSUME TypeOK, ClaimGuardsSend, OutcomeInv, NEW a \in Attempts, Sign(a)
  PROVE  AttemptsFit'
<1>0. /\ UNCHANGED <<tx, sends, jlife, prepared, submitted, outcomes, life>>
      /\ signed' = signed \cup {a} /\ unresolved' = unresolved \cup {a}
      /\ pc[a] = "signing" /\ pc' = [pc EXCEPT ![a] = "signed"]
  BY DEF Sign, JournalSigned, Handling, chainVars
<1>1. a \in prepared /\ outcomes[a] # {"EXPIRED"}
  BY <1>0, Standing DEF WorkersHold, OutcomesTrue, Working, BeforeSend
<1>2. MarksFit'
  BY <1>0, <1>1, Standing DEF MarksFit
<1>3. OutcomesTrue'
  BY <1>0, <1>1, Standing DEF OutcomesTrue, BeforeSend, Working
<1>4. LivesFit'
  BY <1>0, Standing DEF LivesFit
<1> QED
  BY <1>2, <1>3, <1>4 DEF AttemptsFit

LEMMA SubmitOutcomes ==
  ASSUME TypeOK, ClaimGuardsSend, OutcomeInv, NEW a \in Attempts, Submit(a)
  PROVE  AttemptsFit'
<1>0. /\ UNCHANGED <<tx, sends, prepared, signed, outcomes>>
      /\ submitted' = submitted \cup {a} /\ unresolved' = unresolved \cup {a}
      /\ jlife' = [jlife EXCEPT ![Key[a]] = ReplaySubmitted(@)]
      /\ pc[a] = "signed" /\ pc' = [pc EXCEPT ![a] = "submitted"] /\ Key[a] \in Keys
  BY Standing DEF Submit, Handling, chainVars
<1>1. a \in prepared /\ a \in signed
  BY <1>0, Standing DEF WorkersHold, SendsJournaled, Working, BeforeSend
<1>2. MarksFit'
  BY <1>0, <1>1, Standing DEF MarksFit
<1>3. OutcomesTrue'
  BY <1>0, <1>1, Standing DEF OutcomesTrue, BeforeSend, Working
<1>4. /\ jlife[Key[a]] \in Terminal => jlife'[Key[a]] = jlife[Key[a]]
      /\ jlife[Key[a]] \in {"CREATED", "EXECUTING"} => jlife'[Key[a]] = "EXECUTING"
      /\ \A k \in Keys \ {Key[a]} : jlife'[k] = jlife[k]
  BY <1>0, Standing DEF ReplaySubmitted, Advance, Allowed, Terminal
<1>5. /\ life[Key[a]] \in Terminal => life'[Key[a]] = life[Key[a]]
      /\ life[Key[a]] \notin Terminal => life'[Key[a]] \notin Terminal
      /\ \A k \in Keys \ {Key[a]} : life'[k] = life[k]
  BY <1>0, Standing DEF Submit, AdvanceLife, Advance, Allowed, Terminal
<1>6. LivesFit'
  <2>1. \A b \in prepared \ {a} : Key[b] # Key[a]
    BY <1>1, Standing DEF OneHolder
  <2>2. \A k \in Keys : life'[k] # "none" \/ jlife'[k] # "none" => \E b \in prepared : Key[b] = k
    BY <1>1, <1>4, <1>5, Standing DEF LivesFit
  <2>3. /\ outcomes[a] = {} => jlife'[Key[a]] \in {"CREATED", "EXECUTING"}
        /\ \A p \in outcomes[a] : jlife'[Key[a]] = p
    BY <1>1, <1>4, Standing DEF LivesFit, OutcomesTrue, Terminal
  <2>4. \A b \in prepared \ {a} :
          /\ outcomes[b] = {} => jlife'[Key[b]] \in {"CREATED", "EXECUTING"}
          /\ \A p \in outcomes[b] : jlife'[Key[b]] = p
          /\ jlife'[Key[b]] = "EXECUTING" => b \in submitted'
    BY <1>0, <1>4, <2>1, Standing DEF LivesFit
  <2>5. \A k \in Keys : life'[k] \in Terminal => jlife'[k] = life'[k]
    BY <1>4, <1>5, Standing DEF LivesFit
  <2> QED
    BY <1>0, <2>2, <2>3, <2>4, <2>5 DEF LivesFit
<1> QED
  BY <1>2, <1>3, <1>6 DEF AttemptsFit

LEMMA SendOutcomes ==
  ASSUME TypeOK, ClaimGuardsSend, OutcomeInv, NEW a \in Attempts, Send(a)
  PROVE  AttemptsFit' /\ VerdictsKept
<1>0. /\ UNCHANGED <<jlife, prepared, signed, submitted, unresolved, outcomes, life>>
      /\ tx' = [tx EXCEPT ![a] = IF @ = "unsent" THEN "sent" ELSE @] /\ sends' = [sends EXCEPT ![a] = @ + 1]
      /\ pc[a] = "submitted" /\ pc' = [pc EXCEPT ![a] = "executing"]
  BY DEF Send, Handling, journalVars
<1>1. a \in signed /\ sends[a] = 0 /\ tx[a] \in {"unsent", "dead"} /\ sends'[a] = 1
  BY <1>0, Standing DEF SendsJournaled, MarksFit, BeforeSend
<1>2. tx[a] = "unsent" => outcomes[a] = {}
  BY <1>0, Standing DEF OutcomesTrue, BeforeSend
<1>3. MarksFit'
  BY <1>0, <1>1, Standing DEF MarksFit
<1>4. OutcomesTrue'
  BY <1>0, <1>1, <1>2, Standing DEF OutcomesTrue, BeforeSend, Working, Silent, Sunk
<1>5. LivesFit'
  BY <1>0, Standing DEF LivesFit
<1>6. VerdictsKept
  BY <1>0, <1>1, Standing DEF VerdictsKept, Sunk
<1> QED
  BY <1>3, <1>4, <1>5, <1>6 DEF AttemptsFit

LEMMA LedgerLeavesMarks ==
  ASSUME \/ \E e, o : LedgerWrite(e, o)
         \/ \E a : ConfirmIfOpen(a) \/ ReleaseIfOpen(a)
         \/ \E p, r : ReleaseShare(p, r)
         \/ ClearPause \/ \E reason : PauseBy(reason)
         \/ UNCHANGED journalVars
  PROVE  SameMarks
BY DEF LedgerWrite, ConfirmIfOpen, ReleaseIfOpen, ReleaseShare, ClearPause, PauseBy, journalVars, SameMarks

LEMMA LivesOnWith ==
  ASSUME TypeOK, NEW a \in Attempts, NEW to \in {"AUTHORIZED", "EXECUTING"},
         AdvanceLife(a, to) \/ TrackLife(a, to) \/ UNCHANGED life
  PROVE  LivesOn
<1>1. life \in [Keys -> LifeState] /\ Key[a] \in Keys /\ to \in Claimed /\ to \notin Terminal
  BY ConstantsOK DEF TypeOK, HandlersOK, Claimed, LifeState, Terminal
<1>2. CASE UNCHANGED life
  BY <1>1, <1>2 DEF LivesOn
<1>3. CASE AdvanceLife(a, to) \/ TrackLife(a, to)
  BY <1>1, <1>3, LifeFollows DEF LivesOn, Terminal
<1> QED
  BY <1>2, <1>3

\* One handler moves.
LEMMA HandlerMoves ==
  ASSUME TypeOK, NEW a \in Attempts, NEW from, NEW to, Handling(a, from, to),
         to \in BeforeSend => from \in BeforeSend,
         to \in Working => from \in Working,
         to = "failing" => tx[a] \in Silent,
         to \in {"completing", "exiting"} => tx[a] = "final"
  PROVE  /\ \A b \in Attempts : Moves(b)
         /\ pc[a] = from /\ pc'[a] = to
BY DEF TypeOK, HandlersOK, Handling, Moves

LEMMA SameChain == UNCHANGED chainVars => VerdictsKept
BY DEF chainVars, VerdictsKept

\* A step of a handler that writes neither an outcome nor a mark.
LEMMA QuietHandler ==
  ASSUME TypeOK, ClaimGuardsSend, OutcomeInv, NEW a \in Attempts, NEW from, NEW to, Handling(a, from, to),
         to \in BeforeSend => from \in BeforeSend,
         to \in Working => from \in Working,
         to = "failing" => tx[a] \in Silent,
         to \in {"completing", "exiting"} => tx[a] = "final",
         SameMarks, LivesOn, UNCHANGED chainVars
  PROVE  OutcomeInv'
<1>1. AttemptsFit'
  BY HandlerMoves, QuietOutcomes
<1>2. PassesSure'
  BY HandlerPasses, SameChain DEF SameMarks
<1> QED
  BY <1>1, <1>2 DEF AttemptsFit, PassesSure, OutcomeInv

\* A step of a handler that writes the outcome of its attempt.
LEMMA ResultHandler ==
  ASSUME TypeOK, ClaimGuardsSend, OutcomeInv, NEW a \in Attempts, NEW from \in Working,
         NEW to \in {"done", "pausing"}, Handling(a, from, to), NEW o \in {"COMPLETED", "FAILED"},
         WriteResult(a, o), AdvanceLife(a, o), UNCHANGED chainVars,
         o = "COMPLETED" => tx[a] = "final",
         o = "FAILED" => tx[a] \in Silent
  PROVE  OutcomeInv'
<1>1. (\A b \in Attempts : Moves(b)) /\ pc[a] = from /\ pc'[a] = to
  BY HandlerMoves DEF Working, BeforeSend
<1>2. a \in prepared /\ outcomes[a] \subseteq {o}
  BY <1>1, Standing DEF WorkersHold, OutcomesTrue, Silent, Sunk
<1>3. AttemptsFit'
  BY <1>1, <1>2, ResultOutcomes, LifeFollows, LifeStates DEF BeforeSend
<1>4. PassesSure'
  BY HandlerPasses, SameChain DEF WriteResult
<1> QED
  BY <1>3, <1>4 DEF AttemptsFit, PassesSure, OutcomeInv

\* Before it sends, a handler's transaction is unsent or already dead.
LEMMA UnsentYet ==
  ASSUME TypeOK, ClaimGuardsSend, OutcomeInv, NEW a \in Attempts, pc[a] \in BeforeSend
  PROVE  tx[a] \in Silent
BY Standing DEF SendsJournaled, MarksFit, Silent, Sunk

LEMMA EntryStepOutcomes ==
  ASSUME TypeOK, ClaimGuardsSend, OutcomeInv, NEW e \in Entries, EntryStep(e)
  PROVE  OutcomeInv'
<1> e \in Attempts
  BY DEF Attempts
<1>1. CASE Verify(e) \/ Duplicate(e)
  <2>1. SameMarks /\ LivesOn /\ UNCHANGED chainVars
    BY <1>1, LedgerLeavesMarks, LivesOnWith DEF Verify, Duplicate
  <2> QED
    BY <1>1, <2>1, QuietHandler DEF Verify, Duplicate, Working, BeforeSend
<1>2. CASE AdmitByCaps(e)
  <2>1. SameMarks /\ LivesOn /\ UNCHANGED chainVars
    BY <1>2, LedgerLeavesMarks, LivesOnWith DEF AdmitByCaps
  <2> QED
    BY <1>2, <2>1, QuietHandler DEF AdmitByCaps, Working, BeforeSend
<1>3. CASE RefuseByCaps(e)
  <2>1. tx[e] \in Silent
    BY <1>3, UnsentYet DEF RefuseByCaps, Handling, BeforeSend
  <2> QED
    BY <1>3, <2>1, ResultHandler DEF RefuseByCaps, Working, BeforeSend
<1>4. CASE ConfirmFinal(e)
  <2>1. SameMarks /\ LivesOn /\ UNCHANGED chainVars /\ tx[e] = "final"
    BY <1>4, LedgerLeavesMarks, LivesOnWith DEF ConfirmFinal, IsFinal
  <2>2. Handling(e, "awaiting", "completing") \/ Handling(e, "awaiting", "done")
    BY <1>4 DEF ConfirmFinal
  <2> QED
    BY <2>1, <2>2, QuietHandler DEF Working, BeforeSend
<1>5. CASE ClaimEntry(e)
  <2>1. AttemptsFit'
    BY <1>5, ClaimOutcomes DEF ClaimEntry
  <2>2. PassesSure'
    BY <1>5, HandlerPasses, SameChain DEF ClaimEntry, Prepare
  <2> QED
    BY <2>1, <2>2 DEF AttemptsFit, PassesSure, OutcomeInv
<1> QED
  BY <1>1, <1>2, <1>3, <1>4, <1>5 DEF EntryStep

LEMMA AttemptStepOutcomes ==
  ASSUME TypeOK, ClaimGuardsSend, OutcomeInv, NEW a \in Attempts, AttemptStep(a)
  PROVE  OutcomeInv'
<1>1. CASE PassChecks(a)
  <2>1. SameMarks /\ LivesOn /\ UNCHANGED chainVars
    BY <1>1, LedgerLeavesMarks, LivesOnWith DEF PassChecks
  <2> QED
    BY <1>1, <2>1, QuietHandler DEF PassChecks, Working, BeforeSend
<1>2. CASE Throw(a) \/ LeaveUnresolved(a) \/ ProviderConfirms(a)
  <2>1. SameMarks /\ LivesOn /\ UNCHANGED chainVars
    BY <1>2, LedgerLeavesMarks, LivesOnWith DEF Throw, LeaveUnresolved, ProviderConfirms
  <2>2. PICK from \in HandlerPc, to \in {"done", "pausing", "awaiting"} :
          Handling(a, from, to) /\ (to = "awaiting" => from = "executing")
    BY <1>2 DEF Throw, LeaveUnresolved, ProviderConfirms, HandlerPc
  <2> QED
    BY <2>1, <2>2, QuietHandler DEF Working, BeforeSend
<1>3. CASE ReleaseBeforeFailing(a)
  <2>1. SameMarks /\ LivesOn /\ UNCHANGED chainVars
    BY <1>3, LedgerLeavesMarks, LivesOnWith DEF ReleaseBeforeFailing
  <2>2. PICK from \in {"ordering", "signed", "executing"} :
          Handling(a, from, "failing") /\ (from = "executing" => tx[a] = "dead")
    BY <1>3 DEF ReleaseBeforeFailing
  <2>3. tx[a] \in Silent
    BY <2>2, UnsentYet DEF Handling, BeforeSend, Silent, Sunk
  <2> QED
    BY <2>1, <2>2, <2>3, QuietHandler DEF Working, BeforeSend
<1>4. CASE ConfirmProvisional(a)
  <2>1. SameMarks /\ LivesOn /\ UNCHANGED chainVars
    BY <1>4, LedgerLeavesMarks, LivesOnWith DEF ConfirmProvisional
  <2>2. Handling(a, "awaiting", "observing") \/ Handling(a, "awaiting", "done")
    BY <1>4 DEF ConfirmProvisional
  <2> QED
    BY <2>1, <2>2, QuietHandler DEF Working, BeforeSend
<1>5. CASE Observe(a)
  <2>1. SameMarks /\ LivesOn /\ UNCHANGED chainVars
    BY <1>5, LivesOnWith DEF Observe, SameMarks
  <2>2. Handling(a, "observing", "pausing") \/ Handling(a, "observing", "done")
    BY <1>5 DEF Observe
  <2> QED
    BY <2>1, <2>2, QuietHandler DEF Working, BeforeSend
<1>6. CASE Fail(a)
  <2>1. tx[a] \in Silent
    BY <1>6, Standing DEF Fail, Handling, OutcomesTrue
  <2>2. Handling(a, "failing", "pausing") \/ Handling(a, "failing", "done")
    BY <1>6 DEF Fail
  <2> QED
    BY <1>6, <2>1, <2>2, ResultHandler DEF Fail, Working, BeforeSend
<1>7. CASE Complete(a)
  <2>1. tx[a] = "final"
    BY <1>7, Standing DEF Complete, Handling, OutcomesTrue
  <2>2. Handling(a, "completing", "done") \/ Handling(a, "exiting", "pausing")
    BY <1>7 DEF Complete
  <2> QED
    BY <1>7, <2>1, <2>2, ResultHandler DEF Complete, Working, BeforeSend
<1>8. CASE Sign(a) \/ Submit(a)
  <2>1. PICK from, to : Handling(a, from, to)
    BY <1>8 DEF Sign, Submit
  <2>2. PassesSure'
    BY <1>8, <2>1, HandlerPasses, SameChain DEF Sign, Submit, JournalSigned
  <2> QED
    BY <1>8, <2>2, SignOutcomes, SubmitOutcomes DEF AttemptsFit, PassesSure, OutcomeInv
<1>9. CASE Send(a)
  <2>1. AttemptsFit' /\ VerdictsKept
    BY <1>9, SendOutcomes
  <2>2. PassesSure'
    BY <1>9, <2>1, HandlerPasses DEF Send, journalVars
  <2> QED
    BY <2>1, <2>2 DEF AttemptsFit, PassesSure, OutcomeInv
<1> QED
  BY <1>1, <1>2, <1>3, <1>4, <1>5, <1>6, <1>7, <1>8, <1>9 DEF AttemptStep

LEMMA ExitStepOutcomes ==
  ASSUME TypeOK, ClaimGuardsSend, OutcomeInv, NEW x \in Exits, ExitStep(x)
  PROVE  OutcomeInv'
<1> x \in Attempts
  BY DEF Attempts
<1>1. CASE ReceiveClose(x) \/ CloseNothing(x) \/ PauseAfterClose(x)
  <2>1. SameMarks /\ LivesOn /\ UNCHANGED chainVars
    BY <1>1, LedgerLeavesMarks, LivesOnWith DEF ReceiveClose, CloseNothing, PauseAfterClose
  <2>2. PICK from \in HandlerPc, to \in {"custody", "done", "pausing"} : Handling(x, from, to)
    BY <1>1 DEF ReceiveClose, CloseNothing, PauseAfterClose, HandlerPc
  <2> QED
    BY <2>1, <2>2, QuietHandler DEF Working, BeforeSend
<1>2. CASE ExitFinal(x) \/ ExitShare(x)
  <2>1. SameMarks /\ LivesOn /\ UNCHANGED chainVars
    BY <1>2, LedgerLeavesMarks, LivesOnWith DEF ExitFinal, ExitShare
  <2>2. PICK from \in {"awaiting", "exiting"} : Handling(x, from, "exiting")
    BY <1>2 DEF ExitFinal, ExitShare
  <2>3. tx[x] = "final"
    BY <1>2, Standing DEF ExitFinal, ExitShare, IsFinal, Handling, OutcomesTrue
  <2> QED
    BY <2>1, <2>2, <2>3, QuietHandler DEF Working, BeforeSend
<1>3. CASE PlanClose(x)
  <2>1. AttemptsFit'
    BY <1>3, ClaimOutcomes DEF PlanClose
  <2>2. PassesSure'
    BY <1>3, HandlerPasses, SameChain DEF PlanClose, Prepare
  <2> QED
    BY <2>1, <2>2 DEF AttemptsFit, PassesSure, OutcomeInv
<1> QED
  BY <1>1, <1>2, <1>3 DEF ExitStep

LEMMA OperatorOutcomes ==
  ASSUME TypeOK, ClaimGuardsSend, OutcomeInv, CommandPause \/ OperatorClears
  PROVE  OutcomeInv'
<1>1. /\ SameMarks /\ UNCHANGED <<handlerVars, trackVars, recoverVars, tx, sends>>
  BY LedgerLeavesMarks DEF CommandPause, OperatorClears
<1> QED
  BY <1>1
  DEF SameMarks, handlerVars, trackVars, recoverVars, OutcomeInv, RecoversAlone, MarksFit, TrackerSure,
      RecoverySure, OutcomesTrue, LivesFit

-----------------------------------------------------------------------------
(* The passes.                                                             *)

\* A step of the tracker leaves handlers and recovery alone, and runs only while the service serves.
LEMMA TrackerAlone ==
  ASSUME TypeOK, ClaimGuardsSend, OutcomeInv, NEW from, NEW to, Tracking(from, to), signed' = signed
  PROVE  /\ RecoversAlone' /\ RecoverySure' /\ UNCHANGED chainVars
         /\ tpc = from /\ tpc' = to /\ tx' = tx /\ \A a \in Attempts : Moves(a)
<1>1. mode = "up" /\ UNCHANGED <<mode, pc, rpc, rtodo, rcur, tx, sends>> /\ tpc = from /\ tpc' = to
  BY DEF Tracking, recoverVars, worldVars
<1> QED
  BY <1>1, Standing DEF RecoversAlone, RecoverySure, Moves, chainVars

\* A step of the tracker that writes no outcome.
LEMMA QuietTracker ==
  ASSUME TypeOK, ClaimGuardsSend, OutcomeInv, NEW from, NEW to, Tracking(from, to), SameMarks, LivesOn,
         TrackerSure'
  PROVE  OutcomeInv'
<1>1. RecoversAlone' /\ RecoverySure' /\ AttemptsFit'
  BY TrackerAlone, QuietOutcomes DEF SameMarks
<1> QED
  BY <1>1 DEF AttemptsFit, OutcomeInv

LEMMA ResultTracker ==
  ASSUME TypeOK, ClaimGuardsSend, OutcomeInv, NEW from, Tracking(from, "scan"), tcur \in Attempts,
         UNCHANGED <<ttodo, tcur>>, NEW o \in {"COMPLETED", "FAILED"}, WriteResult(tcur, o), TrackLife(tcur, o),
         o = "COMPLETED" => tx[tcur] = "final",
         o = "FAILED" => tx[tcur] \in Sunk
  PROVE  OutcomeInv'
<1>1. tcur \in signed /\ tcur \in prepared /\ signed' = signed /\ None \notin Attempts
  BY Standing DEF TrackerSure, MarksFit, WriteResult
<1>2. outcomes[tcur] \subseteq {o}
  BY <1>1, Standing DEF OutcomesTrue, Silent, Sunk
<1>3. RecoversAlone' /\ RecoverySure' /\ UNCHANGED chainVars /\ tpc' = "scan" /\ \A a \in Attempts : Moves(a)
  BY <1>1, TrackerAlone
<1>4. TrackerSure'
  BY <1>1, <1>3, Standing DEF TrackerSure
<1>5. AttemptsFit'
  <2>1. /\ life' \in [Keys -> LifeState] /\ \A k \in Keys \ {Key[tcur]} : life'[k] = life[k]
        /\ life'[Key[tcur]] \in {life[Key[tcur]], o} \/ (life[Key[tcur]] = "AUTHORIZED" /\ life'[Key[tcur]] = "EXECUTING")
    BY LifeFollows, LifeStates
  <2>2. o = "FAILED" => tx[tcur] \in Silent /\ tx[tcur] # "unsent"
    BY DEF Silent, Sunk
  <2> QED
    BY <1>1, <1>2, <1>3, <2>1, <2>2, ResultOutcomes
<1> QED
  BY <1>3, <1>4, <1>5 DEF AttemptsFit, OutcomeInv

LEMMA TrackStepOutcomes ==
  ASSUME TypeOK, ClaimGuardsSend, OutcomeInv, TrackStep
  PROVE  OutcomeInv'
<1>0. MarksFit /\ TrackerSure /\ None \notin Attempts
  BY Standing
<1>1. CASE TrackBegin \/ TrackNothing \/ TrackEnd \/ TrackClear \/ TrackKeepPause \/ TrackPause
           \/ \E a \in Attempts : TrackPick(a)
  <2>1. SameMarks /\ UNCHANGED life
    BY <1>1, LedgerLeavesMarks
    DEF TrackBegin, TrackNothing, TrackEnd, TrackClear, TrackKeepPause, TrackPause, TrackPick
  <2>2. LivesOn
    BY <2>1, Standing DEF LivesOn
  <2>3. PICK from, to : Tracking(from, to) /\ to \in {"idle", "scan", "reading", "clearing"}
    BY <1>1 DEF TrackBegin, TrackNothing, TrackEnd, TrackClear, TrackKeepPause, TrackPause, TrackPick
  <2>4. tpc' \in {"idle", "scan", "reading", "clearing"} /\ signed' = signed
    BY <2>1, <2>3 DEF Tracking, SameMarks
  <2>5. ttodo' \subseteq signed /\ tcur' \in signed \cup {None}
    BY <1>0, <1>1
    DEF TrackBegin, TrackNothing, TrackEnd, TrackClear, TrackKeepPause, TrackPause, TrackPick, TrackerSure, MarksFit
  <2>6. TrackerSure'
    BY <2>4, <2>5 DEF TrackerSure
  <2> QED
    BY <2>1, <2>2, <2>3, <2>6, QuietTracker
<1>2. CASE TrackFinal \/ TrackConfirmed \/ TrackDead \/ TrackShare \/ TrackReorg
  <2>1. SameMarks /\ UNCHANGED <<life, ttodo, tcur>>
    BY <1>2, LedgerLeavesMarks DEF TrackFinal, TrackConfirmed, TrackDead, TrackShare, TrackReorg, SameMarks
  <2>2. LivesOn
    BY <2>1, Standing DEF LivesOn
  <2>3. PICK from, to :
          /\ Tracking(from, to)
          /\ to \in {"exiting", "completing"} => from = "exiting" \/ tx[tcur] = "final"
          /\ to = "failing" => tx[tcur] \in Sunk
    BY <1>2 DEF TrackFinal, TrackConfirmed, TrackDead, TrackShare, TrackReorg, IsFinal, IsDead, Sunk
  <2>4. tpc = from /\ tpc' = to /\ tx' = tx /\ signed' = signed
    BY <2>1, <2>3 DEF Tracking, SameMarks, worldVars
  <2>5. TrackerSure'
    BY <1>0, <2>1, <2>3, <2>4 DEF TrackerSure
  <2> QED
    BY <2>1, <2>2, <2>3, <2>5, QuietTracker
<1>3. CASE TrackObserve
  <2>1. SameMarks /\ UNCHANGED <<ttodo, tcur>> /\ Tracking("observing", "scan")
    BY <1>3 DEF TrackObserve, SameMarks
  <2>2. LivesOn
    BY <1>3, LivesOnWith DEF TrackObserve
  <2>3. TrackerSure'
    BY <1>0, <2>1 DEF TrackerSure, Tracking, SameMarks
  <2> QED
    BY <2>1, <2>2, <2>3, QuietTracker
<1>4. CASE TrackComplete
  <2>1. PICK from \in {"completing", "exiting"} : Tracking(from, "scan")
    BY <1>4 DEF TrackComplete
  <2>2. tx[tcur] = "final"
    BY <1>0, <1>4, <2>1 DEF TrackComplete, Tracking, TrackerSure
  <2> QED
    BY <1>4, <2>1, <2>2, ResultTracker DEF TrackComplete
<1>5. CASE TrackFail
  <2>1. tx[tcur] \in Sunk
    BY <1>0, <1>5 DEF TrackFail, Tracking, TrackerSure
  <2> QED
    BY <1>5, <2>1, ResultTracker DEF TrackFail
<1> QED
  BY <1>1, <1>2, <1>3, <1>4, <1>5 DEF TrackStep, TrackVerdict

\* A restart's recovery pass has the service to itself.
LEMMA RecoveryAlone ==
  ASSUME TypeOK, ClaimGuardsSend, OutcomeInv, ~LiveRecovery, NEW from, NEW to, Recovering(from, to),
         signed' = signed, mode' = mode \/ to = "idle"
  PROVE  /\ RecoversAlone' /\ TrackerSure' /\ UNCHANGED chainVars
         /\ rpc = from /\ rpc' = to /\ tx' = tx
         /\ \A a \in Attempts : pc[a] = "idle" /\ pc'[a] = "idle" /\ Moves(a)
<1>1. mode = "recovering" /\ UNCHANGED <<pc, tpc, ttodo, tcur, tx, sends>> /\ rpc = from /\ rpc' = to
  BY DEF Recovering, trackVars, worldVars
<1> QED
  BY <1>1, Standing DEF RecoversAlone, TrackerSure, Moves, chainVars

LEMMA QuietRecovery ==
  ASSUME TypeOK, ClaimGuardsSend, OutcomeInv, ~LiveRecovery, NEW from, NEW to, Recovering(from, to),
         mode' = mode \/ to = "idle", SameMarks, UNCHANGED life, RecoverySure'
  PROVE  OutcomeInv'
<1>1. LivesOn
  BY Standing DEF LivesOn
<1>2. RecoversAlone' /\ TrackerSure' /\ AttemptsFit'
  BY <1>1, RecoveryAlone, QuietOutcomes DEF SameMarks
<1> QED
  BY <1>2 DEF AttemptsFit, OutcomeInv

LEMMA ResultRecovery ==
  ASSUME TypeOK, ClaimGuardsSend, OutcomeInv, ~LiveRecovery, NEW from, NEW to, Recovering(from, to), mode' = mode,
         rcur \in prepared, NEW o \in {"COMPLETED", "FAILED", "EXPIRED"}, WriteResult(rcur, o),
         AdvanceLife(rcur, o) \/ RecoverLife(rcur, o), outcomes[rcur] \subseteq {o},
         o = "COMPLETED" => tx[rcur] = "final",
         o = "FAILED" => tx[rcur] \in Sunk,
         o = "EXPIRED" => rcur \notin signed,
         RecoverySure'
  PROVE  OutcomeInv'
<1>1. signed' = signed /\ rcur \in Attempts
  BY Standing DEF WriteResult
<1>2. /\ RecoversAlone' /\ TrackerSure' /\ UNCHANGED chainVars
      /\ \A a \in Attempts : pc'[a] = "idle" /\ Moves(a)
  BY <1>1, RecoveryAlone
<1>3. o \in {"FAILED", "EXPIRED"} => tx[rcur] \in Silent
  BY <1>1, Standing DEF MarksFit, Silent, Sunk
<1>4. AttemptsFit'
  <2>1. /\ life' \in [Keys -> LifeState] /\ \A k \in Keys \ {Key[rcur]} : life'[k] = life[k]
        /\ life'[Key[rcur]] \in {life[Key[rcur]], o} \/ (life[Key[rcur]] = "AUTHORIZED" /\ life'[Key[rcur]] = "EXECUTING")
    BY <1>1, LifeFollows, LifeStates
  <2>2. pc'[rcur] \notin BeforeSend /\ pc'[rcur] \notin Working
    BY <1>1, <1>2 DEF BeforeSend, Working
  <2> QED
    BY <1>2, <1>3, <2>1, <2>2, ResultOutcomes
<1> QED
  BY <1>2, <1>4 DEF AttemptsFit, OutcomeInv

LEMMA RecoverStepOutcomes ==
  ASSUME TypeOK, ClaimGuardsSend, OutcomeInv, ~LiveRecovery, RecoverStep
  PROVE  OutcomeInv'
<1>0. RecoverySure /\ MarksFit /\ OutcomesTrue /\ None \notin Attempts /\ signed \subseteq Attempts
  BY Standing
<1>1. CASE RecoverBegin
  <2>1. SameMarks /\ UNCHANGED <<life, mode>> /\ Recovering("idle", "expiring") /\ rtodo' = ExpiredUnsigned
    BY <1>1, LedgerLeavesMarks DEF RecoverBegin
  <2>2. RecoverySure'
    BY <2>1 DEF RecoverySure, Recovering, ExpiredUnsigned, SameMarks
  <2> QED
    BY <2>1, <2>2, QuietRecovery
<1>2. ASSUME NEW a \in Attempts, RecoverRelease(a) PROVE OutcomeInv'
  <2>1. /\ SameMarks /\ UNCHANGED <<life, mode>> /\ Recovering("expiring", "expired")
        /\ a \in rtodo /\ rtodo' = rtodo \ {a} /\ rcur' = a
    BY <1>2, LedgerLeavesMarks DEF RecoverRelease
  <2>2. RecoverySure'
    BY <1>0, <2>1 DEF RecoverySure, Recovering, SameMarks
  <2> QED
    BY <2>1, <2>2, QuietRecovery
<1>3. CASE RecoverExpired
  <2>1. /\ Recovering("expired", "expiring") /\ rcur \in Attempts /\ WriteResult(rcur, "EXPIRED")
        /\ AdvanceLife(rcur, "EXPIRED") /\ UNCHANGED <<mode, rtodo, rcur>>
    BY <1>3 DEF RecoverExpired
  <2>2. rcur \in prepared \ signed /\ outcomes[rcur] = {} /\ rcur \notin rtodo
    BY <1>0, <2>1 DEF RecoverySure, Recovering
  <2>3. RecoverySure'
    BY <1>0, <2>1, <2>2, Standing DEF RecoverySure, Recovering, WriteResult
  <2> QED
    BY <2>1, <2>2, <2>3, ResultRecovery
<1>4. CASE RecoverScan
  <2>1. SameMarks /\ UNCHANGED <<life, mode>> /\ Recovering("expiring", "scan") /\ rtodo' = unresolved
    BY <1>4, LedgerLeavesMarks DEF RecoverScan
  <2>2. RecoverySure'
    BY <1>0, <2>1 DEF RecoverySure, Recovering, SameMarks, MarksFit
  <2> QED
    BY <2>1, <2>2, QuietRecovery
<1>5. ASSUME NEW a \in Attempts, RecoverFinal(a) \/ RecoverDead(a) \/ RecoverNothing(a) PROVE OutcomeInv'
  <2>1. /\ SameMarks /\ UNCHANGED <<life, mode>> /\ a \in rtodo /\ rtodo' = rtodo \ {a}
        /\ \/ Recovering("scan", "completing") /\ tx[a] = "final" /\ rcur' = a
           \/ Recovering("scan", "failing") /\ tx[a] \in Sunk /\ rcur' = a
           \/ Recovering("scan", "scan")
    BY <1>5, LedgerLeavesMarks DEF RecoverFinal, RecoverDead, RecoverNothing, IsFinal, IsDead, Sunk
  <2>2. PICK to \in {"scan", "completing", "failing"} :
          /\ Recovering("scan", to)
          /\ to = "completing" => tx[a] = "final" /\ rcur' = a
          /\ to = "failing" => tx[a] \in Sunk /\ rcur' = a
    BY <2>1
  <2>3. tx' = tx /\ rpc = "scan" /\ rpc' = to /\ signed' = signed
    BY <2>1, <2>2 DEF Recovering, worldVars, SameMarks
  <2>4. RecoverySure'
    BY <1>0, <2>1, <2>2, <2>3 DEF RecoverySure
  <2> QED
    BY <2>1, <2>2, <2>4, QuietRecovery
<1>6. CASE RecoverComplete
  <2>1. /\ Recovering("completing", "scan") /\ rcur \in Attempts /\ WriteResult(rcur, "COMPLETED")
        /\ RecoverLife(rcur, "COMPLETED") /\ UNCHANGED <<mode, rtodo, rcur>>
    BY <1>6 DEF RecoverComplete
  <2>2. rcur \in prepared /\ tx[rcur] = "final" /\ outcomes[rcur] \subseteq {"COMPLETED"}
    BY <1>0, <2>1 DEF RecoverySure, Recovering, MarksFit, OutcomesTrue, Silent, Sunk
  <2>3. RecoverySure'
    BY <1>0, <2>1 DEF RecoverySure, Recovering, WriteResult
  <2> QED
    BY <2>1, <2>2, <2>3, ResultRecovery
<1>7. CASE RecoverFail
  <2>1. /\ Recovering("failing", "scan") /\ rcur \in Attempts /\ WriteResult(rcur, "FAILED")
        /\ RecoverLife(rcur, "FAILED") /\ UNCHANGED <<mode, rtodo, rcur>>
    BY <1>7 DEF RecoverFail
  <2>2. rcur \in signed /\ rcur \in prepared /\ tx[rcur] \in Sunk
    BY <1>0, <2>1 DEF RecoverySure, Recovering, MarksFit
  <2>3. outcomes[rcur] \subseteq {"FAILED"}
    BY <1>0, <2>1, <2>2 DEF OutcomesTrue, Sunk
  <2>4. RecoverySure'
    BY <1>0, <2>1 DEF RecoverySure, Recovering, WriteResult
  <2> QED
    BY <2>1, <2>2, <2>3, <2>4, ResultRecovery
<1>8. CASE RecoverEnd
  <2>1. SameMarks /\ UNCHANGED life /\ Recovering("scan", "idle")
    BY <1>8, LedgerLeavesMarks DEF RecoverEnd
  <2>2. RecoverySure'
    BY <2>1 DEF RecoverySure, Recovering
  <2> QED
    BY <2>1, <2>2, QuietRecovery
<1> QED
  BY <1>1, <1>2, <1>3, <1>4, <1>5, <1>6, <1>7, <1>8 DEF RecoverStep

-----------------------------------------------------------------------------
(* The world.                                                              *)

LEMMA CrashOutcomes ==
  ASSUME TypeOK, ClaimGuardsSend, OutcomeInv, Crash
  PROVE  OutcomeInv'
<1>1. /\ SameMarks /\ UNCHANGED chainVars /\ life' = jlife /\ pc' = [a \in Attempts |-> "idle"]
      /\ mode' = "recovering" /\ tpc' = "idle" /\ ttodo' = {} /\ tcur' = None
      /\ rpc' = "idle" /\ rtodo' = {} /\ rcur' = None
  BY LedgerLeavesMarks DEF Crash, Replayed, chainVars
<1>2. RecoversAlone' /\ TrackerSure' /\ RecoverySure'
  BY <1>1 DEF RecoversAlone, TrackerSure, RecoverySure
<1>3. MarksFit' /\ OutcomesTrue'
  BY <1>1, Standing DEF MarksFit, OutcomesTrue, SameMarks, chainVars, BeforeSend, Working
<1>4. LivesFit'
  BY <1>1, Standing DEF LivesFit, SameMarks
<1> QED
  BY <1>2, <1>3, <1>4 DEF OutcomeInv

LEMMA ChainStepOutcomes ==
  ASSUME TypeOK, ClaimGuardsSend, OutcomeInv, NEW a \in Attempts,
         Land(a) \/ FailOnChain(a) \/ Rollback(a) \/ Finalize(a) \/ ExpireBlockhash(a) \/ ExpireAuthorization(a)
  PROVE  OutcomeInv'
<1>1. Outside /\ UNCHANGED sends
  BY DEF Land, FailOnChain, Rollback, Finalize, ExpireBlockhash, ExpireAuthorization
<1>2. SameMarks /\ UNCHANGED <<mode, life, pc, tpc, ttodo, tcur, rpc, rtodo, rcur>>
  BY <1>1, LedgerLeavesMarks DEF Outside, handlerVars, trackVars, recoverVars
<1>3. \A b \in Attempts \ {a} : tx'[b] = tx[b]
  BY Standing DEF Moved, Land, FailOnChain, Rollback, Finalize, ExpireBlockhash, ExpireAuthorization
<1>4. \/ tx'[a] = tx[a]
      \/ tx[a] = "sent" /\ tx'[a] \in {"landed", "failed", "dead"}
      \/ tx[a] = "landed" /\ tx'[a] \in {"sent", "final"}
      \/ tx[a] = "unsent" /\ tx'[a] = "dead" /\ a \in signed
  BY Standing DEF Land, FailOnChain, Rollback, Finalize, ExpireBlockhash, ExpireAuthorization
<1>5. VerdictsKept
  BY <1>3, <1>4 DEF VerdictsKept, Sunk
<1>6. RecoversAlone' /\ TrackerSure' /\ RecoverySure'
  BY <1>2, <1>5, Standing DEF RecoversAlone, TrackerSure, RecoverySure, VerdictsKept, Sunk, SameMarks
<1>7. MarksFit'
  BY <1>1, <1>2, <1>3, <1>4, Standing DEF MarksFit, SameMarks
<1>8. OutcomesTrue'
  BY <1>2, <1>3, <1>4, Standing DEF OutcomesTrue, SameMarks, Silent, Sunk
<1>9. LivesFit'
  BY <1>2, Standing DEF LivesFit, SameMarks
<1> QED
  BY <1>6, <1>7, <1>8, <1>9 DEF OutcomeInv

LEMMA InitOutcomes == Init => OutcomeInv
<1> SUFFICES ASSUME Init PROVE OutcomeInv
  OBVIOUS
<1>1. RecoversAlone /\ TrackerSure /\ RecoverySure
  BY DEF Init, RecoversAlone, TrackerSure, RecoverySure
<1>2. MarksFit /\ OutcomesTrue /\ LivesFit
  BY DEF Init, MarksFit, OutcomesTrue, LivesFit, Terminal, Working, BeforeSend
<1> QED
  BY <1>1, <1>2 DEF OutcomeInv

LEMMA NextOutcomes ==
  ~LiveRecovery /\ TypeOK /\ ClaimGuardsSend /\ OutcomeInv /\ [Next]_vars => OutcomeInv'
<1> SUFFICES ASSUME ~LiveRecovery, TypeOK, ClaimGuardsSend, OutcomeInv, [Next]_vars PROVE OutcomeInv'
  OBVIOUS
<1>1. CASE UNCHANGED vars
  BY <1>1
  DEF vars, journalVars, handlerVars, trackVars, recoverVars, worldVars, OutcomeInv, RecoversAlone, MarksFit,
      TrackerSure, RecoverySure, OutcomesTrue, LivesFit
<1>2. CASE WorldStep
  BY <1>2, CrashOutcomes, ChainStepOutcomes DEF WorldStep
<1> QED
  BY <1>1, <1>2, EntryStepOutcomes, AttemptStepOutcomes, ExitStepOutcomes, OperatorOutcomes, TrackStepOutcomes,
     RecoverStepOutcomes DEF Next

\* What the journal tells stays in step with the chain and with memory, as long as recovery runs
\* only before the service serves.
THEOREM OutcomesInvariant == ~LiveRecovery /\ Spec => []OutcomeInv
<1> SUFFICES ASSUME ~LiveRecovery PROVE Spec => []OutcomeInv
  OBVIOUS
<1>1. TypeOK /\ ClaimGuardsSend /\ OutcomeInv /\ [Next]_vars => OutcomeInv'
  BY NextOutcomes
<1> QED
  BY <1>1, InitOutcomes, TypeCorrect, ClaimsGuard, PTL DEF Spec

\* INV-23 for any number of attempts, crashes and reorgs: a failed or expired outcome is told
\* only of what is not on chain and never will be.
THEOREM NotLandedStays == ~LiveRecovery /\ Spec => []NotLandedIsFinal
<1> SUFFICES ASSUME ~LiveRecovery PROVE Spec => []NotLandedIsFinal
  OBVIOUS
<1>1. OutcomeInv => NotLandedIsFinal
  BY DEF OutcomeInv, OutcomesTrue, NotLandedIsFinal, Silent, Sunk
<1> QED
  BY <1>1, OutcomesInvariant, PTL

\* INV-22: handler, tracker and recovery tell one outcome, complete on finality only, and memory
\* ends where a restart would replay it.
THEOREM OneOutcomeStands == ~LiveRecovery /\ Spec => []OutcomesStand
<1> SUFFICES ASSUME ~LiveRecovery PROVE Spec => []OutcomesStand
  OBVIOUS
<1>1. OutcomeInv => OutcomesStand
  <2> SUFFICES ASSUME OutcomeInv PROVE OutcomesStand
    OBVIOUS
  <2>1. \A o : Cardinality({o}) = 1
    BY FS_Singleton
  <2>2. Cardinality({}) = 0
    BY FS_EmptySet
  <2>3. ASSUME NEW a \in Attempts
        PROVE  Cardinality(outcomes[a]) <= 1 /\ ("COMPLETED" \in outcomes[a] => tx[a] = "final")
    <3>1. outcomes[a] \in {{}, {"COMPLETED"}, {"FAILED"}, {"EXPIRED"}}
      BY DEF OutcomeInv, OutcomesTrue
    <3>2. Cardinality(outcomes[a]) \in {0, 1}
      BY <2>1, <2>2, <3>1
    <3>3. "COMPLETED" \in outcomes[a] => outcomes[a] = {"COMPLETED"}
      BY <3>1
    <3> QED
      BY <3>2, <3>3 DEF OutcomeInv, OutcomesTrue
  <2> QED
    BY <2>3 DEF OutcomeInv, LivesFit, OutcomesStand
<1> QED
  BY <1>1, OutcomesInvariant, PTL

-----------------------------------------------------------------------------
(* The refinement: a key has at most one holder, and what the chain and    *)
(* the journal say of it is what IntentPromise.tla says of the key.        *)

Effect == [k \in Keys |-> EffectOf(k)]
Told   == [k \in Keys |-> UNION {outcomes[a] : a \in OfKey(k)}]

\* What becomes of a key by the attempt that holds it.
EffectVia(a) ==
  CASE tx[a] = "final" -> "final"
    [] tx[a] = "landed" -> "provisional"
    [] OTHER -> IF tx[a] \in Sunk \/ outcomes[a] \ {"COMPLETED"} # {} THEN "never" ELSE "none"

\* The holder speaks for its key; a key nobody holds has no effect and no outcome.
HolderSpeaks ==
  /\ \A a \in prepared : Effect[Key[a]] = EffectVia(a) /\ Told[Key[a]] = outcomes[a]
  /\ \A k \in Keys : (\A a \in prepared : Key[a] # k) => Effect[k] = "none" /\ Told[k] = {}

LEMMA OneOrNone ==
  ASSUME NEW S, NEW a, S \subseteq {a}
  PROVE  Cardinality(S) <= 1
<1>1. S = {} \/ S = {a}
  OBVIOUS
<1>2. Cardinality({}) = 0 /\ Cardinality({a}) = 1
  BY FS_EmptySet, FS_Singleton
<1> QED
  BY <1>1, <1>2

LEMMA HolderTells ==
  ASSUME TypeOK, ClaimGuardsSend, OutcomeInv
  PROVE  HolderSpeaks
<1> DEFINE onChain(k, s) == {a \in OfKey(k) : tx[a] \in s}
<1>0. \A a \in Attempts \ prepared : tx[a] = "unsent" /\ outcomes[a] = {}
  BY Standing DEF MarksFit
<1>1. ASSUME NEW h \in prepared
      PROVE  Effect[Key[h]] = EffectVia(h) /\ Told[Key[h]] = outcomes[h]
  <2>1. h \in OfKey(Key[h]) /\ h \in Attempts /\ Key[h] \in Keys
    BY Standing DEF OfKey
  <2>2. \A b \in OfKey(Key[h]) \ {h} : b \in Attempts \ prepared
    BY <2>1, Standing DEF OfKey, OneHolder
  <2>3. \A b \in OfKey(Key[h]) \ {h} : tx[b] = "unsent" /\ outcomes[b] = {}
    BY <1>0, <2>2
  <2>4. Told[Key[h]] = outcomes[h]
    <3>1. UNION {outcomes[a] : a \in OfKey(Key[h])} = outcomes[h]
      BY <2>1, <2>3
    <3> QED
      BY <2>1, <3>1 DEF Told
  <2>5. Effect[Key[h]] = EffectVia(h)
    <3>1. onChain(Key[h], {"landed", "final"}) \subseteq {h}
      BY <2>3
    <3>2. ~(Cardinality(onChain(Key[h], {"landed", "final"})) > 1)
      <4>1. Cardinality(onChain(Key[h], {"landed", "final"})) <= 1
        BY <3>1, OneOrNone
      <4>2. Cardinality(onChain(Key[h], {"landed", "final"})) \in Nat
        BY <3>1, FS_Singleton, FS_Subset, FS_CardinalityType
      <4> QED
        BY <4>1, <4>2
    <3>3. /\ onChain(Key[h], {"final"}) # {} <=> tx[h] = "final"
          /\ onChain(Key[h], {"landed"}) # {} <=> tx[h] = "landed"
          /\ onChain(Key[h], {"failed", "dead"}) # {} <=> tx[h] \in Sunk
      BY <2>1, <2>3 DEF Sunk
    <3>4. (\E a \in OfKey(Key[h]) : outcomes[a] \ {"COMPLETED"} # {}) <=> outcomes[h] \ {"COMPLETED"} # {}
      BY <2>1, <2>3
    <3>5. EffectOf(Key[h]) =
            CASE Cardinality(onChain(Key[h], {"landed", "final"})) > 1 -> "twice"
              [] onChain(Key[h], {"final"}) # {} -> "final"
              [] onChain(Key[h], {"landed"}) # {} -> "provisional"
              [] onChain(Key[h], {"failed", "dead"}) # {} -> "never"
              [] \E a \in OfKey(Key[h]) : outcomes[a] \ {"COMPLETED"} # {} -> "never"
              [] OTHER -> "none"
      BY DEF EffectOf
    <3>6. tx[h] \in {"landed", "final"} => outcomes[h] \ {"COMPLETED"} = {}
      BY <2>1, Standing DEF OutcomesTrue, Silent, Sunk
    <3> HIDE DEF onChain
    <3>7. EffectOf(Key[h]) = EffectVia(h)
      <4>1. CASE tx[h] = "final"
        BY <3>2, <3>3, <3>4, <3>5, <3>6, <4>1 DEF EffectVia, Sunk
      <4>2. CASE tx[h] = "landed"
        BY <3>2, <3>3, <3>4, <3>5, <3>6, <4>2 DEF EffectVia, Sunk
      <4>3. CASE tx[h] \in Sunk
        BY <3>2, <3>3, <3>4, <3>5, <3>6, <4>3 DEF EffectVia, Sunk
      <4>4. CASE tx[h] \notin {"final", "landed"} \cup Sunk
        BY <3>2, <3>3, <3>4, <3>5, <4>4 DEF EffectVia, Sunk
      <4> QED
        BY <4>1, <4>2, <4>3, <4>4
    <3> QED
      BY <2>1, <3>7 DEF Effect
  <2> QED
    BY <2>4, <2>5
<1>2. ASSUME NEW k \in Keys, \A a \in prepared : Key[a] # k
      PROVE  Effect[k] = "none" /\ Told[k] = {}
  <2>1. \A b \in OfKey(k) : tx[b] = "unsent" /\ outcomes[b] = {}
    BY <1>0, <1>2 DEF OfKey
  <2>2. UNION {outcomes[a] : a \in OfKey(k)} = {}
    BY <2>1
  <2>3. \A s \in {{"landed", "final"}, {"final"}, {"landed"}, {"failed", "dead"}} : onChain(k, s) = {}
    BY <2>1
  <2>4. EffectOf(k) = "none"
    BY <2>1, <2>3, FS_EmptySet DEF EffectOf
  <2> QED
    BY <2>2, <2>4 DEF Effect, Told
<1> QED
  BY <1>1, <1>2 DEF HolderSpeaks

\* What a step does to the chain and the outcomes: nothing, a transaction moves, or an outcome is told.
Quietly == UNCHANGED <<tx, outcomes>> /\ prepared \subseteq prepared'

TxMoves ==
  {<<"unsent", "sent">>, <<"unsent", "dead">>, <<"sent", "landed">>, <<"sent", "failed">>, <<"sent", "dead">>,
   <<"landed", "sent">>, <<"landed", "final">>}

ChainMoves(a) ==
  /\ UNCHANGED <<outcomes, prepared>>
  /\ <<tx[a], tx'[a]>> \in TxMoves /\ \A b \in Attempts \ {a} : tx'[b] = tx[b]

Tells(a, o) == UNCHANGED <<tx, prepared>> /\ outcomes' = [outcomes EXCEPT ![a] = @ \cup {o}]

StepKind ==
  \/ Quietly
  \/ \E a \in Attempts : ChainMoves(a)
  \/ \E a \in Attempts, o \in Terminal : Tells(a, o)

LEMMA ResultKind ==
  ASSUME NEW a \in Attempts, NEW o \in Terminal, WriteResult(a, o), UNCHANGED tx
  PROVE  StepKind
BY DEF WriteResult, StepKind, Tells

LEMMA QuietKind ==
  ASSUME SameMarks, UNCHANGED tx
  PROVE  StepKind
BY DEF SameMarks, StepKind, Quietly

LEMMA HandlerKinds ==
  ASSUME TypeOK, NEW a \in Attempts, EntryStep(a) \/ AttemptStep(a) \/ ExitStep(a)
  PROVE  StepKind
<1>1. CASE Send(a)
  <2>1. UNCHANGED <<outcomes, prepared>> /\ tx' = [tx EXCEPT ![a] = IF @ = "unsent" THEN "sent" ELSE @]
    BY <1>1 DEF Send, journalVars
  <2>2. tx \in [Attempts -> TxFate]
    BY DEF TypeOK, WorldOK
  <2>3. CASE tx[a] = "unsent"
    BY <2>1, <2>2, <2>3 DEF StepKind, ChainMoves, TxMoves
  <2>4. CASE tx[a] # "unsent"
    <3>1. tx' = tx
      BY <2>1, <2>2, <2>4
    <3> QED
      BY <2>1, <3>1 DEF StepKind, Quietly
  <2> QED
    BY <2>3, <2>4
<1>2. CASE RefuseByCaps(a) \/ Fail(a) \/ Complete(a)
  BY <1>2, ResultKind DEF RefuseByCaps, Fail, Complete, chainVars, Terminal
<1>3. CASE ClaimEntry(a) \/ PlanClose(a) \/ Sign(a) \/ Submit(a) \/ Observe(a)
  BY <1>3 DEF ClaimEntry, PlanClose, Prepare, Sign, Submit, Observe, chainVars, StepKind, Quietly
<1>4. CASE \/ Verify(a) \/ Duplicate(a) \/ AdmitByCaps(a) \/ ConfirmFinal(a)
           \/ PassChecks(a) \/ ReleaseBeforeFailing(a) \/ Throw(a) \/ LeaveUnresolved(a)
           \/ ProviderConfirms(a) \/ ConfirmProvisional(a)
  <2>1. SameMarks
    BY <1>4, LedgerLeavesMarks DEF Verify, Duplicate, AdmitByCaps, ConfirmFinal,
       PassChecks, ReleaseBeforeFailing, Throw, LeaveUnresolved, ProviderConfirms, ConfirmProvisional
  <2>2. UNCHANGED tx
    BY <1>4 DEF Verify, Duplicate, AdmitByCaps, ConfirmFinal, PassChecks, ReleaseBeforeFailing, Throw,
       LeaveUnresolved, ProviderConfirms, ConfirmProvisional, chainVars
  <2> QED
    BY <2>1, <2>2, QuietKind
<1>5. CASE ReceiveClose(a) \/ CloseNothing(a) \/ ExitFinal(a) \/ ExitShare(a) \/ PauseAfterClose(a)
  <2>1. SameMarks
    BY <1>5, LedgerLeavesMarks DEF ReceiveClose, CloseNothing, ExitFinal, ExitShare, PauseAfterClose
  <2>2. UNCHANGED tx
    BY <1>5 DEF ReceiveClose, CloseNothing, ExitFinal, ExitShare, PauseAfterClose, chainVars
  <2> QED
    BY <2>1, <2>2, QuietKind
<1> QED
  BY <1>1, <1>2, <1>3, <1>4, <1>5 DEF EntryStep, AttemptStep, ExitStep

LEMMA TrackKinds ==
  ASSUME TrackStep
  PROVE  StepKind
<1>1. UNCHANGED tx
  BY DEF TrackStep, TrackVerdict, TrackBegin, TrackPick, TrackNothing, TrackFinal, TrackConfirmed, TrackReorg,
     TrackPause, TrackDead, TrackShare, TrackComplete, TrackObserve, TrackFail, TrackEnd, TrackClear,
     TrackKeepPause, Tracking, worldVars
<1>2. CASE TrackComplete \/ TrackFail
  BY <1>1, <1>2, ResultKind DEF TrackComplete, TrackFail, Terminal
<1>3. CASE TrackReorg \/ TrackObserve
  BY <1>1, <1>3 DEF TrackReorg, TrackObserve, StepKind, Quietly
<1>4. CASE \/ TrackBegin \/ (\E a \in Attempts : TrackPick(a)) \/ TrackNothing \/ TrackFinal \/ TrackConfirmed
           \/ TrackPause \/ TrackDead \/ TrackShare \/ TrackEnd \/ TrackClear \/ TrackKeepPause
  <2>1. SameMarks
    BY <1>4, LedgerLeavesMarks DEF TrackBegin, TrackPick, TrackNothing, TrackFinal, TrackConfirmed, TrackPause,
       TrackDead, TrackShare, TrackEnd, TrackClear, TrackKeepPause
  <2> QED
    BY <1>1, <2>1, QuietKind
<1> QED
  BY <1>2, <1>3, <1>4 DEF TrackStep, TrackVerdict

LEMMA RecoverKinds ==
  ASSUME RecoverStep
  PROVE  StepKind
<1>1. UNCHANGED tx
  BY DEF RecoverStep, RecoverBegin, RecoverExpired, RecoverScan, RecoverComplete, RecoverFail, RecoverEnd,
     RecoverRelease, RecoverFinal, RecoverDead, RecoverNothing, Recovering, worldVars
<1>2. CASE RecoverExpired \/ RecoverComplete \/ RecoverFail
  BY <1>1, <1>2, ResultKind DEF RecoverExpired, RecoverComplete, RecoverFail, Terminal
<1>3. CASE RecoverBegin \/ RecoverScan \/ RecoverEnd
  <2>1. SameMarks
    BY <1>3, LedgerLeavesMarks DEF RecoverBegin, RecoverScan, RecoverEnd
  <2> QED
    BY <1>1, <2>1, QuietKind
<1>4. ASSUME NEW a \in Attempts, RecoverRelease(a) \/ RecoverFinal(a) \/ RecoverDead(a) \/ RecoverNothing(a)
      PROVE  StepKind
  <2>1. SameMarks
    BY <1>4, LedgerLeavesMarks DEF RecoverRelease, RecoverFinal, RecoverDead, RecoverNothing
  <2> QED
    BY <1>1, <2>1, QuietKind
<1> QED
  BY <1>2, <1>3, <1>4 DEF RecoverStep

LEMMA WorldKinds ==
  ASSUME TypeOK, WorldStep
  PROVE  StepKind
<1>1. CASE Crash
  BY <1>1 DEF Crash, journalVars, StepKind, Quietly
<1>2. ASSUME NEW a \in Attempts, ExpireAuthorization(a) PROVE StepKind
  BY <1>2 DEF ExpireAuthorization, Outside, journalVars, StepKind, Quietly
<1>3. ASSUME NEW a \in Attempts,
             Land(a) \/ FailOnChain(a) \/ Rollback(a) \/ Finalize(a) \/ ExpireBlockhash(a)
      PROVE  StepKind
  <2>1. UNCHANGED <<outcomes, prepared>>
    BY <1>3 DEF Land, FailOnChain, Rollback, Finalize, ExpireBlockhash, Outside, journalVars
  <2>2. tx \in [Attempts -> TxFate]
    BY DEF TypeOK, WorldOK
  <2>3. <<tx[a], tx'[a]>> \in TxMoves /\ \A b \in Attempts \ {a} : tx'[b] = tx[b]
    BY <1>3, <2>2 DEF Land, FailOnChain, Rollback, Finalize, ExpireBlockhash, TxMoves
  <2> QED
    BY <2>1, <2>3 DEF StepKind, ChainMoves
<1> QED
  BY <1>1, <1>2, <1>3 DEF WorldStep

LEMMA StepKinds ==
  ASSUME TypeOK, [Next]_vars
  PROVE  StepKind
<1>1. CASE UNCHANGED vars
  BY <1>1 DEF vars, journalVars, worldVars, StepKind, Quietly
<1>2. CASE CommandPause \/ OperatorClears
  BY <1>2 DEF CommandPause, OperatorClears, PauseBy, ClearPause, StepKind, Quietly
<1> QED
  BY <1>1, <1>2, HandlerKinds, TrackKinds, RecoverKinds, WorldKinds DEF Next, Attempts

\* How one key may move: its effect changes, an outcome of it is told, or nothing happens.
KeyMoves(k) ==
  \/ Told'[k] = Told[k] /\ <<Effect[k], Effect'[k]>> \in
       {<<"none", "provisional">>, <<"provisional", "none">>, <<"provisional", "final">>, <<"none", "never">>}
  \/ Effect[k] = "final" /\ Effect'[k] = "final" /\ Told'[k] = {"COMPLETED"}
  \/ /\ Effect[k] \in {"none", "never"} /\ Effect'[k] = "never"
     /\ \E o \in {"FAILED", "EXPIRED"} : Told'[k] = Told[k] \cup {o}
  \/ Effect'[k] = Effect[k] /\ Told'[k] = Told[k]

LEMMA OneKeyMoves ==
  ASSUME NEW k \in Keys, KeyMoves(k), \A j \in Keys \ {k} : Effect'[j] = Effect[j] /\ Told'[j] = Told[j]
  PROVE  [Promise!Next]_<<Effect, Told>>
<1>1. /\ Effect' = [Effect EXCEPT ![k] = Effect'[k]]
      /\ Told' = [Told EXCEPT ![k] = Told'[k]]
  BY DEF Effect, Told
<1>2. CASE Told'[k] = Told[k] /\ <<Effect[k], Effect'[k]>> \in
             {<<"none", "provisional">>, <<"provisional", "none">>, <<"provisional", "final">>, <<"none", "never">>}
  <2>1. Told' = Told
    BY <1>1, <1>2 DEF Told
  <2>2. PICK to \in {"none", "provisional", "final", "never"} :
          Effect' = [Effect EXCEPT ![k] = to] /\ <<Effect[k], to>> \in
            {<<"none", "provisional">>, <<"provisional", "none">>, <<"provisional", "final">>, <<"none", "never">>}
    BY <1>1, <1>2
  <2>3. Promise!Chain(k)
    BY <2>1, <2>2 DEF Promise!Chain, Promise!Becomes, Effect, Told
  <2> QED
    BY <2>3 DEF Promise!Next
<1>3. CASE Effect[k] = "final" /\ Effect'[k] = "final" /\ Told'[k] = {"COMPLETED"}
  <2>1. Effect' = Effect /\ Told' = [Told EXCEPT ![k] = {"COMPLETED"}]
    BY <1>1, <1>3 DEF Effect
  <2>2. Promise!TellCompleted(k)
    BY <1>3, <2>1 DEF Promise!TellCompleted, Effect, Told
  <2> QED
    BY <2>2 DEF Promise!Next
<1>4. CASE /\ Effect[k] \in {"none", "never"} /\ Effect'[k] = "never"
           /\ \E o \in {"FAILED", "EXPIRED"} : Told'[k] = Told[k] \cup {o}
  <2>1. PICK o \in {"FAILED", "EXPIRED"} : Told' = [Told EXCEPT ![k] = Told[k] \cup {o}]
    BY <1>1, <1>4
  <2>2. Effect' = [Effect EXCEPT ![k] = "never"]
    BY <1>1, <1>4
  <2>3. Promise!TellNotExecuted(k)
    BY <1>4, <2>1, <2>2 DEF Promise!TellNotExecuted, Effect, Told
  <2> QED
    BY <2>3 DEF Promise!Next
<1>5. CASE Effect'[k] = Effect[k] /\ Told'[k] = Told[k]
  <2>1. Effect' = Effect /\ Told' = Told
    BY <1>1, <1>5 DEF Effect, Told
  <2> QED
    BY <2>1
<1> QED
  BY <1>2, <1>3, <1>4, <1>5 DEF KeyMoves

\* What stays of the holders when a step touches the attempts of one key only.
LEMMA OthersStay ==
  ASSUME HolderSpeaks, HolderSpeaks', NEW j \in Keys, prepared' = prepared,
         \A b \in prepared : Key[b] = j => tx'[b] = tx[b] /\ outcomes'[b] = outcomes[b]
  PROVE  Effect'[j] = Effect[j] /\ Told'[j] = Told[j]
<1>1. CASE \E b \in prepared : Key[b] = j
  BY <1>1 DEF HolderSpeaks, EffectVia
<1>2. CASE \A b \in prepared : Key[b] # j
  BY <1>2 DEF HolderSpeaks
<1> QED
  BY <1>1, <1>2

LEMMA QuietKeeps ==
  ASSUME TypeOK, ClaimGuardsSend, OutcomeInv, HolderSpeaks, HolderSpeaks', TypeOK', Quietly
  PROVE  UNCHANGED <<Effect, Told>>
<1>1. \A b \in Attempts \ prepared : tx[b] = "unsent" /\ outcomes[b] = {}
  BY Standing DEF MarksFit
<1>2. prepared' \subseteq Attempts
  BY DEF TypeOK, JournalOK
<1>3. ASSUME NEW j \in Keys PROVE Effect'[j] = Effect[j] /\ Told'[j] = Told[j]
  <2>1. CASE \E b \in prepared : Key[b] = j
    BY <2>1 DEF HolderSpeaks, EffectVia, Quietly
  <2>2. CASE \A b \in prepared' : Key[b] # j
    BY <2>2 DEF HolderSpeaks, Quietly
  <2>3. CASE (\A b \in prepared : Key[b] # j) /\ \E b \in prepared' : Key[b] = j
    <3>1. PICK b \in prepared' : Key[b] = j
      BY <2>3
    <3>2. tx'[b] = "unsent" /\ outcomes'[b] = {}
      BY <1>1, <1>2, <2>3, <3>1 DEF Quietly
    <3>3. Effect'[j] = "none" /\ Told'[j] = {}
      BY <3>1, <3>2 DEF HolderSpeaks, EffectVia, Sunk
    <3> QED
      BY <2>3, <3>3 DEF HolderSpeaks
  <2> QED
    BY <2>1, <2>2, <2>3
<1> QED
  BY <1>3 DEF Effect, Told

LEMMA ChainKeeps ==
  ASSUME TypeOK, ClaimGuardsSend, OutcomeInv, HolderSpeaks, HolderSpeaks', ClaimGuardsSend', OutcomeInv', TypeOK',
         NEW a \in Attempts, ChainMoves(a)
  PROVE  [Promise!Next]_<<Effect, Told>>
<1>1. a \in prepared /\ Key[a] \in Keys
  BY Standing DEF ChainMoves, TxMoves, OutcomeInv, MarksFit
<1>2. \A j \in Keys \ {Key[a]} : Effect'[j] = Effect[j] /\ Told'[j] = Told[j]
  BY <1>1, OthersStay, Standing DEF ChainMoves
<1>3. KeyMoves(Key[a])
  <2>1. Effect[Key[a]] = EffectVia(a) /\ Effect'[Key[a]] = EffectVia(a)' /\ Told'[Key[a]] = Told[Key[a]]
    BY <1>1 DEF HolderSpeaks, ChainMoves
  <2>2. /\ tx[a] \in {"sent", "landed"} => outcomes[a] = {}
        /\ tx'[a] \in {"sent", "landed"} => outcomes[a] = {}
    BY DEF OutcomeInv, OutcomesTrue, ChainMoves, Silent, Sunk
  <2>3. tx[a] = "unsent" => outcomes[a] # {"COMPLETED"}
    BY DEF OutcomeInv, OutcomesTrue
  <2> QED
    BY <2>1, <2>2, <2>3 DEF ChainMoves, TxMoves, EffectVia, KeyMoves, Sunk
<1> QED
  BY <1>1, <1>2, <1>3, OneKeyMoves

LEMMA TellKeeps ==
  ASSUME TypeOK, ClaimGuardsSend, OutcomeInv, HolderSpeaks, HolderSpeaks', ClaimGuardsSend', OutcomeInv', TypeOK',
         NEW a \in Attempts, NEW o \in Terminal, Tells(a, o)
  PROVE  [Promise!Next]_<<Effect, Told>>
<1>1. outcomes'[a] = outcomes[a] \cup {o} /\ \A b \in Attempts \ {a} : outcomes'[b] = outcomes[b]
  BY Standing DEF Tells
<1>2. a \in prepared /\ Key[a] \in Keys
  BY <1>1, Standing DEF Tells, OutcomeInv, MarksFit
<1>3. \A j \in Keys \ {Key[a]} : Effect'[j] = Effect[j] /\ Told'[j] = Told[j]
  BY <1>1, <1>2, OthersStay, Standing DEF Tells
<1>4. KeyMoves(Key[a])
  <2>1. /\ Effect[Key[a]] = EffectVia(a) /\ Effect'[Key[a]] = EffectVia(a)'
        /\ Told[Key[a]] = outcomes[a] /\ Told'[Key[a]] = outcomes[a] \cup {o}
    BY <1>1, <1>2 DEF HolderSpeaks, Tells
  <2>2. outcomes'[a] = {o} /\ o \in {"COMPLETED", "FAILED", "EXPIRED"}
    BY <1>1 DEF OutcomeInv, OutcomesTrue
  <2>3. o = "COMPLETED" => tx'[a] = "final" /\ tx[a] = "final"
    BY <2>2 DEF OutcomeInv, OutcomesTrue, Tells
  <2>4. o # "COMPLETED" => tx'[a] \in Silent /\ tx[a] = tx'[a]
    BY <2>2 DEF OutcomeInv, OutcomesTrue, Tells
  <2>5. CASE o = "COMPLETED"
    BY <1>1, <2>1, <2>2, <2>3, <2>5 DEF EffectVia, KeyMoves
  <2>6. CASE o # "COMPLETED"
    BY <1>1, <2>1, <2>2, <2>4, <2>6 DEF EffectVia, KeyMoves, Silent, Sunk
  <2> QED
    BY <2>5, <2>6
<1> QED
  BY <1>2, <1>3, <1>4, OneKeyMoves

LEMMA PromiseInit == Init => Promise!Init
<1> SUFFICES ASSUME Init PROVE Promise!Init
  OBVIOUS
<1>1. TypeOK /\ ClaimGuardsSend /\ OutcomeInv
  BY InitType, InitGuards, InitOutcomes
<1>2. HolderSpeaks
  BY <1>1, HolderTells
<1>3. \A k \in Keys : Effect[k] = "none" /\ Told[k] = {}
  BY <1>2 DEF Init, HolderSpeaks
<1> QED
  BY <1>3 DEF Promise!Init, Effect, Told

LEMMA PromiseStep ==
  /\ TypeOK /\ ClaimGuardsSend /\ OutcomeInv /\ HolderSpeaks
  /\ TypeOK' /\ ClaimGuardsSend' /\ OutcomeInv' /\ HolderSpeaks'
  /\ [Next]_vars
  => [Promise!Next]_<<Effect, Told>>
BY StepKinds, QuietKeeps, ChainKeeps, TellKeeps DEF StepKind

\* The service implements IntentPromise.tla, for any number of keys, attempts, crashes and reorgs,
\* as long as recovery runs only before it serves: every step of it takes up, drops, finalizes or
\* buries the effect of one key, tells an outcome the promise allows, or changes nothing there.
THEOREM ServiceKeepsPromise == ~LiveRecovery /\ Spec => KeepsPromise
<1> SUFFICES ASSUME ~LiveRecovery PROVE Spec => KeepsPromise
  OBVIOUS
<1>1. TypeOK /\ ClaimGuardsSend /\ OutcomeInv => HolderSpeaks
  BY HolderTells
<1> QED
  BY <1>1, PromiseInit, PromiseStep, OutcomesInvariant, TypeCorrect, ClaimsGuard, PTL
  DEF Spec, KeepsPromise, Promise!Spec, Effect, Told

=============================================================================
