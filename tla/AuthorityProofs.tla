--------------------------- MODULE AuthorityProofs ---------------------------
(* Proofs about the two roles that give authority away. Capital is signed   *)
(* once: what has landed and what can still land is within the budget, for  *)
(* any requests, cycles, limits and bounds. A Release is eligible or armed  *)
(* only on its evidence, for any approvers, petitions and failures.         *)
EXTENDS Authorizer, ReleaseArming, FiniteSetTheorems, SequenceTheorems,
        WellFoundedInduction, TLAPS

Judging == {"unsent", "load", "chain", "cycle", "evaluate", "sign", "denied"}
Storing == {"evaluation", "intent", "store"}
Seen == [sequence : 0..MaxProjections, exposure : Nat]
CallShape ==
  [at : Judging \cup Storing \cup {"ended"}, cycle : ClearedCycles \cup {"none"},
   lapsed : SUBSET Requests, seen : Seen]

\* The types, also of the calls and of what is history.
Typed ==
  /\ AuthorizerTypeOK /\ calls \in [Requests -> CallShape]
  /\ \A r \in Requests : calls[r].at \in {"load", "chain", "cycle", "evaluate", "sign"} \cup Storing => CycleOf(r) \in ClearedCycles
  /\ chain \in [flying : SUBSET Requests, landed : SUBSET Requests, dead : SUBSET Requests]
  /\ overlap \in BOOLEAN /\ outlived \in BOOLEAN

\* What is sent has a row, and settles once; none is sent after its expiry.
SentOnce ==
  /\ listed \cup Sent \cup rejected \subseteq envelopes
  /\ listed \cap lapsed = {}
  /\ chain.flying \cap (chain.landed \cup chain.dead) = {} /\ chain.landed \cap chain.dead = {}

\* How far a call has come: what was signed is in the ledger until its row is stored.
CallsFit ==
  \A r \in Requests :
    /\ calls[r].at \in Judging => r \notin issued \cup envelopes \cup lapsed
    /\ calls[r].at \in Storing => r \in issued /\ r \notin envelopes
    /\ calls[r].at = "store" => intents[r] = "AUTHORIZED"
    /\ calls[r].lapsed \subseteq lapsed

\* The row of an intent never says more than the chain or the operator did.
RowsFit ==
  \A r \in Requests :
    /\ intents[r] = "COMPLETED" => r \in chain.landed
    /\ intents[r] = "FAILED" => r \in chain.dead
    /\ intents[r] = "CANCELLED" => r \in rejected
    /\ r \in rejected => intents[r] # "AUTHORIZED"
    /\ r \in envelopes \ (Sent \cup rejected) => intents[r] = "AUTHORIZED"

\* Until it expires, settles or is rejected, an envelope is in the ledger of the process that runs.
InLedger == envelopes \ (lapsed \cup rejected \cup chain.landed \cup chain.dead) \subseteq issued

\* What the sum is promised through.
Undisturbed == ~overlap /\ ~outlived /\ rejected \cap Sent = {}

\* Requests whose envelope may spend, now or once its row is stored.
Live ==
  {r \in Requests : /\ r \notin lapsed \cup chain.landed
                    /\ \/ r \in chain.flying
                       \/ r \in envelopes \ Sent /\ intents[r] = "AUTHORIZED"
                       \/ calls[r].at \in Storing \cup {"sign"}}

\* One call at a time is between its evaluation and its entry in the ledger.
OneSigner ==
  \A q, r \in Requests : calls[q].at = "sign" /\ calls[r].at = "sign" => q = r

\* What landed is in the exposure a call has verified, or still open to that call.
NothingMissed ==
  \A r \in Requests :
    calls[r].at \in {"cycle", "evaluate"} =>
      Cardinality(chain.landed \ OpenFor(r)) <= calls[r].seen.exposure

WithinBudget == Cardinality(chain.landed) + Cardinality(Live) <= Budget

Rows == Typed /\ SentOnce /\ CallsFit /\ RowsFit /\ InLedger
AuthorityInv == Rows /\ (Undisturbed => OneSigner /\ NothingMissed /\ WithinBudget)

LEMMA Bounds ==
  /\ MaxInFlight \in Nat /\ Budget \in Nat /\ MaxProjections \in Nat \ {0} /\ MaxDeaths \in Nat
  /\ IsFiniteSet(Requests)
BY AuthorizerAssumption

LEMMA Beginnings ==
  /\ Unsent \in CallShape /\ Unsent.at = "unsent" /\ Unsent.lapsed = {}
  /\ Denied \in CallShape /\ Denied.at = "denied" /\ Denied.lapsed = {}
BY Bounds DEF Unsent, Denied, CallShape, Seen, Judging

\* Sets of requests are finite, and the larger of two has the larger cardinality.
LEMMA FewRequests ==
  ASSUME NEW A \in SUBSET Requests, NEW B \in SUBSET Requests
  PROVE  /\ IsFiniteSet(A) /\ Cardinality(A) \in Nat
         /\ A \subseteq B => Cardinality(A) <= Cardinality(B)
         /\ A \cap B = {} => Cardinality(A \cup B) = Cardinality(A) + Cardinality(B)
<1>1. IsFiniteSet(A) /\ IsFiniteSet(B)
  BY Bounds, FS_Subset
<1>2. ASSUME A \cap B = {} PROVE Cardinality(A \cup B) = Cardinality(A) + Cardinality(B)
  <2>1. Cardinality(A \cup B) = Cardinality(A) + Cardinality(B) - Cardinality(A \cap B)
    BY <1>1, FS_Union
  <2>2. Cardinality(A \cap B) = 0
    BY <1>2, FS_EmptySet
  <2>3. Cardinality(A) \in Nat /\ Cardinality(B) \in Nat
    BY <1>1, FS_CardinalityType
  <2> QED
    BY <2>1, <2>2, <2>3
<1>3. A \subseteq B => Cardinality(A) <= Cardinality(B)
  BY <1>1, FS_Subset
<1> QED
  BY <1>1, <1>2, <1>3, FS_CardinalityType

LEMMA InitAuthorityInv == AuthorizerInit => AuthorityInv
<1> SUFFICES ASSUME AuthorizerInit PROVE AuthorityInv
  OBVIOUS
<1>1. Typed
  <2>1. calls \in [Requests -> CallShape] /\ \A r \in Requests : calls[r].at = "unsent"
    BY Beginnings DEF AuthorizerInit
  <2>2. AuthorizerTypeOK
    BY <2>1, Bounds DEF AuthorizerInit, AuthorizerTypeOK, Sent, Ended, SettledIntents
  <2> QED
    BY <2>1, <2>2 DEF AuthorizerInit, Typed, Storing
<1>5. SentOnce /\ CallsFit /\ RowsFit /\ InLedger
  BY Beginnings DEF AuthorizerInit, SentOnce, CallsFit, RowsFit, InLedger, Sent, Storing
<1>2. OneSigner /\ NothingMissed
  BY Beginnings DEF AuthorizerInit, OneSigner, NothingMissed
<1>3. Live = {}
  BY Beginnings DEF AuthorizerInit, Live, Sent, Storing
<1>4. WithinBudget
  BY <1>3, Bounds, FS_EmptySet DEF AuthorizerInit, WithinBudget
<1> QED
  BY <1>1, <1>2, <1>4, <1>5 DEF AuthorityInv, Rows

\* A step after which no more is live, and no more has landed, keeps the budget.
LEMMA LiveShrinks ==
  ASSUME AuthorityInv, WithinBudget, Live' \subseteq Live, chain'.landed = chain.landed
  PROVE  WithinBudget'
<1>1. Live \subseteq Requests /\ Live' \subseteq Requests /\ chain.landed \subseteq Requests
  BY DEF AuthorityInv, Rows, Typed, Live
<1>2. Cardinality(Live') <= Cardinality(Live)
  BY <1>1, FewRequests
<1> QED
  BY <1>1, <1>2, FewRequests, Bounds DEF WithinBudget

\* While nothing disturbs it, what is live and signed is in the ledger of the process that runs.
LEMMA LiveIsIssued ==
  ASSUME AuthorityInv, Undisturbed, NEW r \in Live, calls[r].at # "sign"
  PROVE  r \in issued \ lapsed
BY DEF AuthorityInv, Rows, Typed, SentOnce, CallsFit, RowsFit, InLedger, Undisturbed, Live, Sent

----------------------------------------------------------------------------
(* A request while it is judged. *)

LEMMA JudgingKeeps ==
  ASSUME AuthorityInv, NEW r \in Requests, NEW s \in CallShape,
         calls' = [calls EXCEPT ![r] = s], calls[r].at \in Judging, s.at \in Judging \ {"sign"},
         s.cycle \in ClearedCycles \/ s.at = "denied", s.lapsed \subseteq lapsed,
         s.at \in {"cycle", "evaluate"} =>
           \/ Cardinality(chain.landed \ (issued \ s.lapsed)) <= s.seen.exposure
           \/ calls[r].at \in {"cycle", "evaluate"} /\ s.seen = calls[r].seen /\ s.lapsed = calls[r].lapsed,
         UNCHANGED <<issued, lastSequence, stored, beyond>>,
         overlap' \in BOOLEAN, overlap => overlap'
  PROVE  AuthorityInv'
<1> USE DEF AuthorityInv, Rows
<1>1. calls' \in [Requests -> CallShape] /\ calls'[r] = s /\ \A q \in Requests \ {r} : calls'[q] = calls[q]
  BY DEF Typed
<1>2. Sent' = Sent
  BY DEF Sent, beyond
<1>3. Typed'
  BY <1>1, <1>2 DEF Typed, AuthorizerTypeOK, CycleOf, stored, beyond, CallShape, Judging, Storing, Ended
<1>4. SentOnce' /\ RowsFit' /\ InLedger'
  BY <1>2 DEF SentOnce, RowsFit, InLedger, stored, beyond
<1>5. CallsFit'
  BY <1>1 DEF CallsFit, stored, beyond, Judging, Storing
<1>6. ASSUME Undisturbed' PROVE OneSigner' /\ NothingMissed' /\ WithinBudget'
  <2>1. Undisturbed
    BY <1>6, <1>2 DEF Undisturbed, beyond
  <2>2. OneSigner'
    BY <2>1, <1>1 DEF OneSigner
  <2>3. NothingMissed'
    BY <2>1, <1>1 DEF NothingMissed, OpenFor, beyond
  <2>4. Live' \subseteq Live
    BY <1>1, <1>2 DEF Live, stored, beyond, Judging, Storing
  <2> QED
    BY <2>1, <2>2, <2>3, <2>4, LiveShrinks DEF beyond
<1> QED
  BY <1>3, <1>4, <1>5, <1>6

LEMMA ReadingKeeps ==
  ASSUME AuthorityInv, NEW r \in Requests,
         \/ \E c \in ClearedCycles : ReceiveRequest(r, c)
         \/ LoadProjection(r) \/ VerifyProjection(r) \/ CheckCycle(r) \/ Deny(r)
  PROVE  AuthorityInv'
<1>0. /\ calls[r] \in CallShape /\ calls[r].lapsed \subseteq lapsed /\ lapsed \subseteq Requests
      /\ overlap \in BOOLEAN
  BY DEF AuthorityInv, Rows, Typed, AuthorizerTypeOK, CallsFit
<1>1. ASSUME NEW c \in ClearedCycles, ReceiveRequest(r, c) PROVE AuthorityInv'
  <2> DEFINE s == [Unsent EXCEPT !.at = "load", !.cycle = c, !.lapsed = lapsed]
  <2>1. s \in CallShape /\ s.at = "load" /\ s.cycle = c /\ s.lapsed = lapsed
    BY <1>0, Beginnings DEF CallShape, Judging
  <2>2. calls' = [calls EXCEPT ![r] = s]
    BY <1>1 DEF ReceiveRequest
  <2>3. calls[r].at = "unsent"
    BY <1>1, Beginnings DEF ReceiveRequest
  <2>4. overlap \in BOOLEAN /\ UNCHANGED <<issued, lastSequence, stored, beyond, overlap>>
    BY <1>1 DEF ReceiveRequest, AuthorityInv, Rows, Typed
  <2> HIDE DEF s
  <2> QED
    BY <2>1, <2>2, <2>3, <2>4, JudgingKeeps DEF Judging
<1>2. CASE LoadProjection(r)
  <2> DEFINE s == [calls[r] EXCEPT !.at = "chain", !.seen = projection]
  <2>1. projection \in Seen
    BY Bounds DEF AuthorityInv, Rows, Typed, AuthorizerTypeOK, Seen
  <2>2. calls' = [calls EXCEPT ![r] = s] /\ calls[r].at = "load"
    BY <1>2 DEF LoadProjection
  <2>3. s \in CallShape /\ s.at = "chain" /\ s.lapsed = calls[r].lapsed /\ s.cycle = calls[r].cycle
    BY <1>0, <2>1 DEF CallShape, Judging
  <2> HIDE DEF s
  <2> QED
    BY <1>0, <1>2, <2>2, <2>3, JudgingKeeps DEF LoadProjection, Judging, AuthorityInv, Rows, Typed, CycleOf
<1>3. ASSUME NEW at \in Judging \ {"sign"}, Goes(r, at), calls[r].at \in {"chain", "cycle"},
             at \in {"cycle", "evaluate"} =>
               \/ calls[r].at = "cycle"
               \/ calls[r].seen.exposure >= Cardinality(chain.landed),
             UNCHANGED <<issued, lastSequence, stored, beyond, overlap>>
      PROVE  AuthorityInv'
  <2> DEFINE s == [calls[r] EXCEPT !.at = at]
  <2>1. calls' = [calls EXCEPT ![r] = s]
    BY <1>3 DEF Goes
  <2>2. s \in CallShape /\ s.at = at /\ s.lapsed = calls[r].lapsed /\ s.seen = calls[r].seen /\ s.cycle = calls[r].cycle
    BY <1>0 DEF CallShape
  <2>3. /\ chain.landed \subseteq Requests /\ chain.landed \ (issued \ s.lapsed) \subseteq chain.landed
        /\ calls[r].seen.exposure \in Nat
    BY <1>0 DEF AuthorityInv, Rows, Typed, CallShape, Seen
  <2>4. /\ Cardinality(chain.landed \ (issued \ s.lapsed)) <= Cardinality(chain.landed)
        /\ Cardinality(chain.landed) \in Nat /\ Cardinality(chain.landed \ (issued \ s.lapsed)) \in Nat
    BY <2>3, FewRequests
  <2> HIDE DEF s
  <2>5. at \in {"cycle", "evaluate"} =>
          \/ Cardinality(chain.landed \ (issued \ s.lapsed)) <= s.seen.exposure
          \/ calls[r].at \in {"cycle", "evaluate"} /\ s.seen = calls[r].seen /\ s.lapsed = calls[r].lapsed
    BY <1>3, <2>2, <2>3, <2>4
  <2>6. s.cycle \in ClearedCycles
    BY <1>3, <2>2 DEF AuthorityInv, Rows, Typed, CycleOf
  <2> QED
    BY <1>0, <1>3, <2>1, <2>2, <2>5, <2>6, JudgingKeeps DEF Judging
<1>4. ASSUME IsDenied(r), calls[r].at \in Judging, UNCHANGED <<issued, lastSequence, stored, beyond, overlap>>
      PROVE  AuthorityInv'
  BY <1>0, <1>4, Beginnings, JudgingKeeps DEF IsDenied, Judging
<1>5. CASE VerifyProjection(r)
  BY <1>3, <1>4, <1>5 DEF VerifyProjection, Judging
<1>6. CASE CheckCycle(r)
  BY <1>3, <1>4, <1>6 DEF CheckCycle, Judging
<1>7. CASE Deny(r)
  BY <1>4, <1>7 DEF Deny, Judging
<1> QED
  BY <1>1, <1>2, <1>5, <1>6, <1>7

\* The capital left for one more envelope: what landed is in the exposure or still open.
LEMMA RoomForOne ==
  ASSUME AuthorityInv, Undisturbed, NEW r \in Requests, calls[r].at = "evaluate",
         \A q \in Requests : calls[q].at # "sign",
         calls[r].seen.exposure + Cardinality(OpenFor(r)) < Budget
  PROVE  Cardinality(chain.landed) + Cardinality(Live) + 1 <= Budget
<1> DEFINE open == OpenFor(r)
           missed == chain.landed \ open
           met == chain.landed \cap open
<1>1. /\ Live \subseteq Requests /\ chain.landed \subseteq Requests /\ open \subseteq Requests
      /\ calls[r].seen.exposure \in Nat
  BY DEF AuthorityInv, Rows, Typed, AuthorizerTypeOK, Live, OpenFor, CallShape, Seen
<1>2. Live \subseteq open
  BY LiveIsIssued DEF AuthorityInv, Rows, CallsFit, OpenFor, Live
<1>3. Cardinality(missed) <= calls[r].seen.exposure
  BY DEF AuthorityInv, NothingMissed
<1>4. chain.landed = missed \cup met /\ missed \cap met = {} /\ met \cap Live = {} /\ met \cup Live \subseteq open
  BY <1>2 DEF Live
<1> HIDE DEF open, missed, met
<1>5. missed \subseteq Requests /\ met \subseteq Requests /\ met \cup Live \subseteq Requests
  BY <1>1, <1>4
<1>6. Cardinality(chain.landed) = Cardinality(missed) + Cardinality(met)
  BY <1>4, <1>5, FewRequests
<1>7. Cardinality(met) + Cardinality(Live) <= Cardinality(open)
  <2>1. Cardinality(met \cup Live) = Cardinality(met) + Cardinality(Live)
    BY <1>1, <1>4, <1>5, FewRequests
  <2>2. Cardinality(met \cup Live) <= Cardinality(open)
    BY <1>1, <1>4, <1>5, FewRequests
  <2> QED
    BY <2>1, <2>2
<1>8. /\ Cardinality(missed) \in Nat /\ Cardinality(met) \in Nat /\ Cardinality(Live) \in Nat
      /\ Cardinality(open) \in Nat
  BY <1>1, <1>5, FewRequests
<1>9. calls[r].seen.exposure + Cardinality(open) < Budget
  BY DEF open
<1> QED
  BY <1>1, <1>3, <1>6, <1>7, <1>8, <1>9, Bounds

LEMMA EvaluateKeeps ==
  ASSUME AuthorityInv, NEW r \in Requests, Evaluate(r)
  PROVE  AuthorityInv'
<1>0. calls[r] \in CallShape /\ calls[r].at = "evaluate" /\ UNCHANGED <<issued, lastSequence, stored, beyond>>
  BY DEF AuthorityInv, Rows, Typed, Evaluate
<1>1. overlap' = (overlap \/ \E q \in Requests : calls[q].at = "sign")
  BY DEF Evaluate
<1> DEFINE s == [calls[r] EXCEPT !.at = "sign"]
<1>2. s \in CallShape /\ s.at = "sign" /\ s.cycle = calls[r].cycle /\ s.lapsed = calls[r].lapsed
  BY <1>0 DEF CallShape, Judging
<1>3. CASE calls' = [calls EXCEPT ![r] = s] /\ calls[r].seen.exposure + Cardinality(OpenFor(r)) < Budget
  <2> HIDE DEF s
  <2>1. calls' \in [Requests -> CallShape] /\ calls'[r] = s /\ \A q \in Requests \ {r} : calls'[q] = calls[q]
    BY <1>2, <1>3 DEF AuthorityInv, Rows, Typed
  <2>2. Sent' = Sent
    BY <1>0 DEF Sent, beyond
  <2>3. Typed'
    BY <1>0, <1>1, <1>2, <2>1, <2>2
       DEF AuthorityInv, Rows, Typed, AuthorizerTypeOK, CycleOf, stored, beyond, CallShape, Judging, Storing, Ended
  <2>4. SentOnce' /\ RowsFit' /\ InLedger'
    BY <1>0, <2>2 DEF AuthorityInv, Rows, SentOnce, RowsFit, InLedger, stored, beyond
  <2>5. CallsFit'
    BY <1>0, <1>2, <2>1 DEF AuthorityInv, Rows, CallsFit, stored, beyond, Judging, Storing
  <2>6. ASSUME Undisturbed' PROVE OneSigner' /\ NothingMissed' /\ WithinBudget'
    <3>1. Undisturbed /\ \A q \in Requests : calls[q].at # "sign"
      BY <1>0, <1>1, <2>2, <2>6 DEF Undisturbed, beyond
    <3>2. OneSigner'
      BY <2>1, <3>1 DEF OneSigner
    <3>3. NothingMissed'
      BY <1>0, <1>2, <2>1, <3>1 DEF AuthorityInv, NothingMissed, OpenFor, beyond
    <3>4. Live' \subseteq Live \cup {r} /\ chain' = chain
      BY <1>0, <2>1, <2>2 DEF Live, stored, beyond
    <3>5. Live \subseteq Requests /\ Live' \subseteq Requests /\ chain.landed \subseteq Requests
      BY DEF AuthorityInv, Rows, Typed, Live
    <3>6. Cardinality(Live') <= Cardinality(Live) + 1 /\ Cardinality(Live') \in Nat
      <4>1. IsFiniteSet(Live) /\ Cardinality(Live) \in Nat
        BY <3>5, FewRequests
      <4>2. Cardinality(Live \cup {r}) <= Cardinality(Live) + 1
        <5>1. Cardinality(Live \cup {r}) = IF r \in Live THEN Cardinality(Live) ELSE Cardinality(Live) + 1
          BY <4>1, FS_AddElement
        <5> QED
          BY <4>1, <5>1
      <4>3. Live \cup {r} \subseteq Requests
        BY <3>5
      <4>4. Cardinality(Live') <= Cardinality(Live \cup {r}) /\ Cardinality(Live') \in Nat /\ Cardinality(Live \cup {r}) \in Nat
        BY <3>4, <3>5, <4>3, FewRequests
      <4> QED
        BY <4>1, <4>2, <4>4
    <3>7. Cardinality(chain.landed) + Cardinality(Live) + 1 <= Budget
      BY <1>0, <1>3, <3>1, RoomForOne
    <3>8. Cardinality(chain.landed) \in Nat /\ Cardinality(Live) \in Nat
      BY <3>5, FewRequests
    <3> QED
      BY <3>2, <3>3, <3>4, <3>6, <3>7, <3>8, Bounds DEF WithinBudget
  <2> QED
    BY <2>3, <2>4, <2>5, <2>6 DEF AuthorityInv, Rows
<1>4. CASE IsDenied(r)
  BY <1>0, <1>1, <1>4, Beginnings, JudgingKeeps DEF IsDenied, Judging, AuthorityInv, Rows, Typed
<1>5. Evaluate(r) =>
        \/ Goes(r, "sign") /\ calls[r].seen.exposure + Cardinality(OpenFor(r)) < Budget
        \/ IsDenied(r)
  BY DEF Evaluate
<1> QED
  BY <1>3, <1>4, <1>5 DEF Goes

----------------------------------------------------------------------------
(* A request that was signed. *)

LEMMA IssueKeeps ==
  ASSUME AuthorityInv, NEW r \in Requests, Issue(r)
  PROVE  AuthorityInv'
<1> USE DEF AuthorityInv, Rows
<1> DEFINE s == [Unsent EXCEPT !.at = "evaluation", !.cycle = CycleOf(r)]
<1>0. /\ calls[r] \in CallShape /\ calls[r].at = "sign" /\ UNCHANGED <<stored, beyond, overlap>>
      /\ issued' = issued \cup {r} /\ lastSequence' = calls[r].seen.sequence
      /\ calls' = [calls EXCEPT ![r] = s] /\ CycleOf(r) \in ClearedCycles
  BY DEF Typed, Issue
<1>1. s \in CallShape /\ s.at = "evaluation" /\ s.cycle = CycleOf(r) /\ s.lapsed = {}
  BY <1>0, Beginnings DEF CallShape, Storing
<1> HIDE DEF s
<1>2. calls' \in [Requests -> CallShape] /\ calls'[r] = s /\ \A q \in Requests \ {r} : calls'[q] = calls[q]
  BY <1>0, <1>1 DEF Typed
<1>3. Sent' = Sent
  BY <1>0 DEF Sent, beyond
<1>4. Typed'
  <2>1. lastSequence' \in 0..MaxProjections
    BY <1>0 DEF CallShape, Seen
  <2> QED
    BY <1>0, <1>1, <1>2, <1>3, <2>1 DEF Typed, AuthorizerTypeOK, CycleOf, stored, beyond, Storing, Ended
<1>5. SentOnce' /\ RowsFit' /\ InLedger'
  BY <1>0, <1>3 DEF SentOnce, RowsFit, InLedger, stored, beyond
<1>6. CallsFit'
  BY <1>0, <1>1, <1>2 DEF CallsFit, stored, beyond, Judging, Storing
<1>7. ASSUME Undisturbed' PROVE OneSigner' /\ NothingMissed' /\ WithinBudget'
  <2>1. Undisturbed
    BY <1>0, <1>3, <1>7 DEF Undisturbed, beyond
  <2>2. OneSigner'
    BY <1>1, <1>2, <2>1 DEF OneSigner
  <2>3. NothingMissed'
    <3> SUFFICES ASSUME NEW q \in Requests, calls'[q].at \in {"cycle", "evaluate"}
                 PROVE  Cardinality(chain'.landed \ OpenFor(q)') <= calls'[q].seen.exposure
      BY DEF NothingMissed
    <3>1. q # r /\ calls'[q] = calls[q] /\ chain' = chain
      BY <1>0, <1>1, <1>2 DEF beyond
    <3>2. Cardinality(chain.landed \ OpenFor(q)) <= calls[q].seen.exposure /\ calls[q].seen.exposure \in Nat
      BY <2>1, <3>1 DEF NothingMissed, Typed, CallShape, Seen
    <3>3. /\ chain.landed \ OpenFor(q)' \subseteq chain.landed \ OpenFor(q)
          /\ chain.landed \ OpenFor(q)' \subseteq Requests /\ chain.landed \ OpenFor(q) \subseteq Requests
      BY <1>0, <3>1 DEF OpenFor, Typed
    <3>4. /\ Cardinality(chain.landed \ OpenFor(q)') <= Cardinality(chain.landed \ OpenFor(q))
          /\ Cardinality(chain.landed \ OpenFor(q)') \in Nat /\ Cardinality(chain.landed \ OpenFor(q)) \in Nat
      BY <3>3, FewRequests
    <3> QED
      BY <3>1, <3>2, <3>4
  <2>4. Live' \subseteq Live
    BY <1>0, <1>1, <1>2, <1>3 DEF Live, stored, beyond, Storing
  <2> QED
    BY <1>0, <2>1, <2>2, <2>3, <2>4, LiveShrinks DEF beyond
<1> QED
  BY <1>4, <1>5, <1>6, <1>7

LEMMA StoringKeeps ==
  ASSUME AuthorityInv, NEW r \in Requests,
         RecordRiskEvaluation(r) \/ CreateEntryIntent(r) \/ StoreEnvelope(r) \/ PersistThrows(r)
  PROVE  AuthorityInv'
<1> USE DEF AuthorityInv, Rows
<1>0. /\ calls[r] \in CallShape /\ calls[r].at \in Storing /\ UNCHANGED <<issued, lastSequence, beyond, overlap>>
      /\ CycleOf(r) \in ClearedCycles
      /\ evaluated' \subseteq evaluated \cup {CycleOf(r)}
  BY DEF Typed, RecordRiskEvaluation, CreateEntryIntent, StoreEnvelope, PersistThrows, Storing, stored
<1>1. /\ calls' \in [Requests -> CallShape] /\ \A q \in Requests \ {r} : calls'[q] = calls[q]
      /\ calls'[r].at \in {"intent", "store", "ended"} /\ calls'[r].lapsed = calls[r].lapsed
      /\ calls'[r].cycle = calls[r].cycle
  <2>1. PICK at \in {"intent", "store", "ended"} : calls' = [calls EXCEPT ![r].at = at]
    BY DEF RecordRiskEvaluation, CreateEntryIntent, StoreEnvelope, PersistThrows, Goes
  <2> QED
    BY <1>0, <2>1 DEF Typed, CallShape, Storing
<1>2. /\ envelopes' \subseteq envelopes \cup {r} /\ envelopes \subseteq envelopes'
      /\ r \in envelopes' => intents[r] = "AUTHORIZED" /\ calls'[r].at = "ended"
      /\ intents' \in {intents, [intents EXCEPT ![r] = "AUTHORIZED"]}
      /\ calls'[r].at = "store" => intents'[r] = "AUTHORIZED"
  <2>1. r \notin envelopes /\ (calls[r].at = "store" => intents[r] = "AUTHORIZED") /\ r \in DOMAIN intents
    BY <1>0 DEF CallsFit, Typed, AuthorizerTypeOK
  <2>2. CASE RecordRiskEvaluation(r)
    <3>1. PICK at \in {"intent", "ended"} : calls' = [calls EXCEPT ![r].at = at]
      BY <2>2 DEF RecordRiskEvaluation, Goes
    <3>2. calls'[r].at # "store"
      BY <1>0, <3>1 DEF Typed, CallShape
    <3> QED
      BY <2>1, <2>2, <3>2 DEF RecordRiskEvaluation
  <2>3. CASE CreateEntryIntent(r)
    BY <1>0, <2>1, <2>3 DEF CreateEntryIntent, Goes, Typed
  <2>4. CASE StoreEnvelope(r)
    BY <1>0, <2>1, <2>4 DEF StoreEnvelope, Goes, Typed
  <2>5. CASE PersistThrows(r)
    BY <1>0, <2>1, <2>5 DEF PersistThrows, Goes, Typed, stored
  <2> QED
    BY <2>2, <2>3, <2>4, <2>5
<1>3. Sent' = Sent /\ chain' = chain /\ rejected' = rejected /\ listed' = listed /\ lapsed' = lapsed
  BY <1>0 DEF Sent, beyond
<1>4. r \in issued /\ r \notin envelopes \cup Sent \cup rejected \cup listed
  BY <1>0 DEF CallsFit, SentOnce
<1>5. Typed'
  <2>1. AuthorizerTypeOK'
    BY <1>0, <1>1, <1>2, <1>3 DEF Typed, AuthorizerTypeOK, beyond, CallShape, Judging, Storing, Ended
  <2> QED
    BY <1>0, <1>1, <1>3, <2>1 DEF Typed, CycleOf, beyond, Storing
<1>6. SentOnce' /\ InLedger'
  BY <1>2, <1>3, <1>4, <1>0 DEF SentOnce, InLedger
<1>7. CallsFit'
  BY <1>0, <1>1, <1>2, <1>3, <1>4 DEF CallsFit, Judging, Storing, Typed, AuthorizerTypeOK
<1>8. RowsFit'
  BY <1>2, <1>3, <1>4 DEF RowsFit, SentOnce, Sent, Typed, AuthorizerTypeOK
<1>9. ASSUME Undisturbed' PROVE OneSigner' /\ NothingMissed' /\ WithinBudget'
  <2>1. Undisturbed
    BY <1>0, <1>3, <1>9 DEF Undisturbed, beyond
  <2>2. OneSigner' /\ NothingMissed'
    BY <1>0, <1>1, <1>3, <2>1 DEF OneSigner, NothingMissed, OpenFor
  <2>3. Live' \subseteq Live
    BY <1>0, <1>1, <1>2, <1>3 DEF Live, Storing, Typed, AuthorizerTypeOK
  <2> QED
    BY <1>3, <2>1, <2>2, <2>3, LiveShrinks
<1> QED
  BY <1>5, <1>6, <1>7, <1>8, <1>9

----------------------------------------------------------------------------
(* The restart, and what happens to an envelope. *)

LEMMA RestartKeeps ==
  ASSUME AuthorityInv, Restart
  PROVE  AuthorityInv'
<1> USE DEF AuthorityInv, Rows
<1>0. /\ UNCHANGED <<stored, listed, lapsed, chain, projection, overlap, outlived, rejected>>
      /\ issued' = OpenAuthorizations /\ lastSequence' = 0 /\ deaths' \in 0..MaxDeaths
  BY Bounds DEF Restart, Typed, AuthorizerTypeOK
<1>1. Sent' = Sent
  BY <1>0 DEF Sent
<1>2. ASSUME NEW r \in Requests
      PROVE  /\ calls'[r] \in CallShape
             /\ calls[r].at \in Storing => calls'[r].at = "ended"
             /\ calls[r].at \in {"unsent", "denied", "ended"} => calls'[r].at = calls[r].at
             /\ calls[r].at \in {"load", "chain", "cycle", "evaluate", "sign"} => calls'[r].at = "denied"
             /\ calls'[r].lapsed \in {{}, calls[r].lapsed}
  <2>0. calls[r] \in CallShape
    BY DEF Typed
  <2>1. calls' = [q \in Requests |->
                    CASE calls[q].at \in Ended \cup {"unsent"} -> calls[q]
                      [] calls[q].at \in {"evaluation", "intent", "store"} -> [calls[q] EXCEPT !.at = "ended"]
                      [] OTHER -> Denied]
    BY DEF Restart
  <2>2. CASE calls[r].at \in Ended \cup {"unsent"}
    <3>1. calls'[r] = calls[r]
      BY <2>1, <2>2 DEF Ended
    <3> QED
      BY <2>0, <2>2, <3>1 DEF Ended, Storing
  <2>3. CASE calls[r].at \in Storing
    <3>1. calls'[r] = [calls[r] EXCEPT !.at = "ended"]
      BY <2>1, <2>3 DEF Storing, Ended
    <3> QED
      BY <2>0, <2>3, <3>1 DEF Storing, CallShape
  <2>4. CASE calls[r].at \in {"load", "chain", "cycle", "evaluate", "sign"}
    <3>1. calls'[r] = Denied
      BY <2>1, <2>4 DEF Ended
    <3> QED
      BY <2>4, <3>1, Beginnings DEF Storing
  <2> QED
    BY <2>0, <2>2, <2>3, <2>4 DEF CallShape, Judging, Storing, Ended
<1>3. calls' \in [Requests -> CallShape]
  <2>1. calls' = [r \in Requests |-> calls'[r]]
    BY DEF Restart
  <2> QED
    BY <1>2, <2>1
<1>4. \A r \in Requests : calls'[r].at \in {"unsent", "denied", "ended"}
  BY <1>2 DEF Typed, CallShape, Judging, Storing
<1>5. OpenAuthorizations \subseteq envelopes
  BY DEF OpenAuthorizations
<1>6. Typed'
  <2>1. AuthorizerTypeOK'
    BY Bounds, <1>0, <1>1, <1>3, <1>4, <1>5 DEF Typed, AuthorizerTypeOK, stored, Ended, SettledIntents
  <2> QED
    BY <1>0, <1>3, <1>4, <2>1 DEF Typed, Storing
<1>7. SentOnce' /\ RowsFit'
  BY <1>0, <1>1 DEF SentOnce, RowsFit, stored
<1>8. InLedger'
  BY <1>0 DEF InLedger, OpenAuthorizations, SettledIntents, RowsFit, stored, Typed, AuthorizerTypeOK
<1>9. CallsFit'
  <2> SUFFICES ASSUME NEW r \in Requests
               PROVE  /\ calls'[r].at \in Judging => r \notin issued' \cup envelopes' \cup lapsed'
                      /\ calls'[r].at \notin Storing /\ calls'[r].lapsed \subseteq lapsed'
    BY DEF CallsFit, Storing
  <2>1. calls'[r].at \in Judging => calls[r].at \in Judging
    BY <1>2 DEF Typed, CallShape, Judging, Storing
  <2> QED
    BY <1>0, <1>2, <1>4, <1>5, <2>1 DEF CallsFit, Storing, stored
<1>10. ASSUME Undisturbed' PROVE OneSigner' /\ NothingMissed' /\ WithinBudget'
  <2>1. Undisturbed
    BY <1>0, <1>1, <1>10 DEF Undisturbed
  <2>2. OneSigner' /\ NothingMissed'
    BY <1>4 DEF OneSigner, NothingMissed
  <2>3. Live' \subseteq Live
    BY <1>0, <1>1, <1>4 DEF Live, Storing, stored
  <2> QED
    BY <1>0, <2>1, <2>2, <2>3, LiveShrinks
<1> QED
  BY <1>6, <1>7, <1>8, <1>9, <1>10

LEMMA DeliveryKeeps ==
  ASSUME AuthorityInv, NEW r \in Requests,
         ListAwaiting(r) \/ Execute(r) \/ PersistExecution(r) \/ OperatorRejects(r) \/ ExpiryPasses(r)
  PROVE  AuthorityInv'
<1> USE DEF AuthorityInv, Rows
<1>0. UNCHANGED memory /\ evaluated' = evaluated /\ envelopes' = envelopes /\ projection' = projection
      /\ deaths' = deaths /\ outlived' = outlived /\ chain'.landed = chain.landed
  BY DEF ListAwaiting, Execute, PersistExecution, OperatorRejects, ExpiryPasses, stored, beyond, Typed
<1>1. calls' = calls /\ issued' = issued /\ lastSequence' = lastSequence /\ overlap' = overlap
  BY <1>0 DEF memory
<1>2. Typed' /\ SentOnce' /\ RowsFit' /\ InLedger'
  <2>1. CASE ListAwaiting(r)
    BY <1>0, <1>1, <2>1 DEF ListAwaiting, stored, Typed, AuthorizerTypeOK, SentOnce, RowsFit, InLedger, Sent, CycleOf
  <2>2. CASE Execute(r)
    BY <1>0, <1>1, <2>2 DEF Execute, stored, Typed, AuthorizerTypeOK, SentOnce, RowsFit, InLedger, Sent, CycleOf
  <2>3. CASE PersistExecution(r)
    BY <1>0, <1>1, <2>3
       DEF PersistExecution, beyond, Typed, AuthorizerTypeOK, SettledIntents, SentOnce, RowsFit, InLedger, Sent, CycleOf
  <2>4. CASE OperatorRejects(r)
    BY <1>0, <1>1, <2>4
       DEF OperatorRejects, Typed, AuthorizerTypeOK, SettledIntents, SentOnce, RowsFit, InLedger, Sent, CycleOf
  <2>5. CASE ExpiryPasses(r)
    BY <1>0, <1>1, <2>5 DEF ExpiryPasses, stored, Typed, AuthorizerTypeOK, SentOnce, RowsFit, InLedger, Sent, CycleOf
  <2> QED
    BY <2>1, <2>2, <2>3, <2>4, <2>5
<1>3. CallsFit'
  <2>1. lapsed \subseteq lapsed' /\ \A q \in lapsed' \ lapsed : q \in issued \cup envelopes
    BY DEF ListAwaiting, Execute, PersistExecution, OperatorRejects, ExpiryPasses, beyond
  <2>2. \A q \in Requests : q \notin envelopes => intents'[q] = intents[q]
    BY DEF ListAwaiting, Execute, PersistExecution, OperatorRejects, ExpiryPasses, stored, SentOnce, Typed,
           AuthorizerTypeOK
  <2> QED
    BY <1>0, <1>1, <2>1, <2>2 DEF CallsFit, Judging, Storing
<1>4. ASSUME Undisturbed' PROVE OneSigner' /\ NothingMissed' /\ WithinBudget'
  <2>1. Sent \subseteq Sent' /\ rejected \subseteq rejected'
    BY DEF ListAwaiting, Execute, PersistExecution, OperatorRejects, ExpiryPasses, beyond, Sent, Typed
  <2>2. Undisturbed
    BY <1>0, <1>1, <1>4, <2>1 DEF Undisturbed
  <2>3. OneSigner' /\ NothingMissed'
    BY <1>0, <1>1, <2>2 DEF OneSigner, NothingMissed, OpenFor
  <2>4. Live' \subseteq Live
    <3>1. CASE ListAwaiting(r)
      BY <1>0, <1>1, <3>1 DEF ListAwaiting, stored, Live, Sent
    <3>2. CASE Execute(r)
      <4>1. r \notin rejected
        BY <1>4, <3>2 DEF Undisturbed, Execute, Sent, Typed
      <4> QED
        BY <1>0, <1>1, <3>2, <4>1 DEF Execute, stored, Live, Sent, Typed, SentOnce, RowsFit
    <3>3. CASE PersistExecution(r)
      BY <1>0, <1>1, <3>3 DEF PersistExecution, beyond, Live, Sent, Typed, AuthorizerTypeOK
    <3>4. CASE OperatorRejects(r)
      BY <1>0, <1>1, <3>4 DEF OperatorRejects, Live, Sent, Typed, AuthorizerTypeOK
    <3>5. CASE ExpiryPasses(r)
      BY <1>0, <1>1, <3>5 DEF ExpiryPasses, stored, Live, Sent
    <3> QED
      BY <3>1, <3>2, <3>3, <3>4, <3>5
  <2> QED
    BY <1>0, <2>2, <2>3, <2>4, LiveShrinks
<1> QED
  BY <1>2, <1>3, <1>4

LEMMA WriteProjectionKeeps ==
  ASSUME AuthorityInv, WriteProjection
  PROVE  AuthorityInv'
<1> USE DEF AuthorityInv, Rows
<1>0. UNCHANGED <<memory, stored, listed, lapsed, chain, deaths, outlived, rejected>>
  BY DEF WriteProjection
<1>1. projection' \in [sequence : 1..MaxProjections, exposure : Nat]
  <2>1. chain.landed \subseteq Requests
    BY DEF Typed
  <2>2. Cardinality(chain.landed) \in Nat
    BY <2>1, FewRequests
  <2> QED
    BY <2>2, Bounds DEF WriteProjection, Typed, AuthorizerTypeOK
<1>2. Rows'
  BY <1>0, <1>1
     DEF Typed, AuthorizerTypeOK, SentOnce, CallsFit, RowsFit, InLedger, Sent, CycleOf, memory, stored
<1>3. ASSUME Undisturbed' PROVE OneSigner' /\ NothingMissed' /\ WithinBudget'
  BY <1>0, <1>3 DEF Undisturbed, OneSigner, NothingMissed, OpenFor, WithinBudget, Live, Sent, memory, stored
<1> QED
  BY <1>2, <1>3

\* What lands moves from what is live to what has landed; a flight that outlives its envelope is history.
LEMMA SettleKeeps ==
  ASSUME AuthorityInv, NEW r \in Requests, Settle(r)
  PROVE  AuthorityInv'
<1> USE DEF AuthorityInv, Rows
<1>0. /\ UNCHANGED <<memory, stored, listed, lapsed, projection, deaths, rejected>> /\ r \in chain.flying
      /\ \/ chain' = [chain EXCEPT !.flying = @ \ {r}, !.landed = @ \cup {r}] /\ outlived' = (outlived \/ r \in lapsed)
         \/ chain' = [chain EXCEPT !.flying = @ \ {r}, !.dead = @ \cup {r}] /\ outlived' = outlived
  BY DEF Settle
<1>1. /\ chain' \in [flying : SUBSET Requests, landed : SUBSET Requests, dead : SUBSET Requests]
      /\ chain'.flying = chain.flying \ {r}
      /\ \/ chain'.landed = chain.landed \cup {r} /\ chain'.dead = chain.dead /\ outlived' = (outlived \/ r \in lapsed)
         \/ chain'.landed = chain.landed /\ chain'.dead = chain.dead \cup {r}
  BY <1>0 DEF Typed
<1>2. Sent' = Sent
  BY <1>0, <1>1 DEF Sent
<1>3. Rows'
  <2>1. Typed'
    BY <1>0, <1>1, <1>2 DEF Typed, AuthorizerTypeOK, CycleOf, memory, stored
  <2>2. SentOnce' /\ RowsFit' /\ InLedger'
    BY <1>0, <1>1, <1>2 DEF SentOnce, RowsFit, InLedger, memory, stored
  <2>3. CallsFit'
    BY <1>0 DEF CallsFit, memory, stored
  <2> QED
    BY <2>1, <2>2, <2>3
<1>4. ASSUME Undisturbed' PROVE OneSigner' /\ NothingMissed' /\ WithinBudget'
  <2>1. Undisturbed /\ rejected' = rejected
    BY <1>0, <1>2, <1>4 DEF Undisturbed, memory, Typed
  <2>2. OneSigner'
    BY <1>0, <2>1 DEF OneSigner, memory
  <2>3. calls' = calls /\ issued' = issued /\ lapsed' = lapsed /\ envelopes' = envelopes /\ intents' = intents
    BY <1>0 DEF memory, stored
  <2>4. CASE chain'.landed = chain.landed
    <3>1. NothingMissed'
      BY <2>1, <2>3, <2>4 DEF NothingMissed, OpenFor
    <3>2. Live' \subseteq Live
      BY <1>1, <1>2, <2>3, <2>4 DEF Live
    <3> QED
      BY <2>1, <2>2, <2>4, <3>1, <3>2, LiveShrinks
  <2>5. CASE chain'.landed = chain.landed \cup {r} /\ r \notin chain.landed
    <3>1. r \notin lapsed
      BY <1>1, <1>4, <2>5 DEF Undisturbed
    <3>2. r \in Live /\ calls[r].at # "sign"
      BY <1>0, <2>5, <3>1 DEF Live, CallsFit, SentOnce, Sent, Judging
    <3>3. r \in issued
      BY <2>1, <3>2, LiveIsIssued
    <3>4. NothingMissed'
      <4>1. \A q \in Requests : chain'.landed \ OpenFor(q)' = chain.landed \ OpenFor(q)
        BY <2>3, <2>5, <3>1, <3>3 DEF OpenFor, CallsFit
      <4> QED
        BY <2>1, <2>3, <4>1 DEF NothingMissed
    <3>5. Live' \subseteq Live \ {r}
      BY <1>1, <1>2, <2>3, <2>5 DEF Live
    <3>6. Live \subseteq Requests /\ Live' \subseteq Requests /\ chain.landed \subseteq Requests /\ Live \ {r} \subseteq Requests
      BY DEF Typed, Live
    <3>7. /\ IsFiniteSet(Live) /\ IsFiniteSet(chain.landed)
          /\ Cardinality(Live) \in Nat /\ Cardinality(chain.landed) \in Nat /\ Cardinality(Live') \in Nat
      BY <3>6, FewRequests
    <3>8. Cardinality(Live \ {r}) = Cardinality(Live) - 1
      BY <3>2, <3>7, FS_RemoveElement
    <3>9. Cardinality(chain'.landed) = Cardinality(chain.landed) + 1
      BY <2>5, <3>7, FS_AddElement
    <3>10. Cardinality(Live') <= Cardinality(Live \ {r})
      BY <3>5, <3>6, FewRequests
    <3>11. WithinBudget'
      BY <2>1, <3>7, <3>8, <3>9, <3>10, Bounds DEF WithinBudget
    <3> QED
      BY <2>2, <3>4, <3>11
  <2> QED
    BY <1>0, <1>1, <2>4, <2>5 DEF SentOnce
<1> QED
  BY <1>3, <1>4

LEMMA StepAuthorityInv == AuthorityInv /\ [AuthorizerNext]_authorizerVars => AuthorityInv'
<1> SUFFICES ASSUME AuthorityInv, [AuthorizerNext]_authorizerVars PROVE AuthorityInv'
  OBVIOUS
<1>1. ASSUME NEW r \in Requests, AuthorizeStep(r) PROVE AuthorityInv'
  BY <1>1, ReadingKeeps, EvaluateKeeps, IssueKeeps, StoringKeeps DEF AuthorizeStep
<1>2. ASSUME NEW r \in Requests,
             ListAwaiting(r) \/ Execute(r) \/ Settle(r) \/ PersistExecution(r) \/ OperatorRejects(r) \/ ExpiryPasses(r)
      PROVE  AuthorityInv'
  BY <1>2, DeliveryKeeps, SettleKeeps
<1>3. CASE Restart \/ WriteProjection
  BY <1>3, RestartKeeps, WriteProjectionKeeps
<1>4. CASE UNCHANGED authorizerVars
  BY <1>4
     DEF authorizerVars, AuthorityInv, Rows, Typed, AuthorizerTypeOK, SentOnce, CallsFit, RowsFit, InLedger, Sent,
         CycleOf, Undisturbed, OneSigner, NothingMissed, OpenFor, WithinBudget, Live
<1> QED
  BY <1>1, <1>2, <1>3, <1>4 DEF AuthorizerNext

(* Every state the authorizer, its rows and the chain can reach satisfies   *)
(* the inductive invariant.                                                 *)
THEOREM AuthorityInvariant == AuthorizerSpec => []AuthorityInv
BY InitAuthorityInv, StepAuthorityInv, PTL DEF AuthorizerSpec

\* An envelope that may spend is live, unless it outlived its expiry in flight.
LEMMA SpendableIsLive ==
  ASSUME AuthorityInv, chain.flying \cap lapsed = {}
  PROVE  {r \in Requests : Spendable(r)} \subseteq Live
BY DEF AuthorityInv, Rows, Typed, SentOnce, Spendable, Live, Sent

LEMMA CapitalFollows == AuthorityInv => CapitalSignedOnce
<1> SUFFICES ASSUME AuthorityInv PROVE CapitalSignedOnce
  OBVIOUS
<1>1. \A r \in envelopes \ (lapsed \cup rejected) : Spendable(r) => r \in issued
  BY DEF AuthorityInv, Rows, SentOnce, InLedger, Spendable, Sent
<1>2. ASSUME ~overlap, ~outlived, chain.flying \cap lapsed = {}, rejected \cap Sent = {}
      PROVE  Cardinality(chain.landed) + Cardinality({r \in Requests : Spendable(r)}) <= Budget
  <2>1. {r \in Requests : Spendable(r)} \subseteq Live
    BY <1>2, SpendableIsLive
  <2>2. Live \subseteq Requests /\ {r \in Requests : Spendable(r)} \subseteq Requests /\ chain.landed \subseteq Requests
    BY DEF AuthorityInv, Rows, Typed, Live
  <2>3. /\ Cardinality({r \in Requests : Spendable(r)}) <= Cardinality(Live)
        /\ Cardinality({r \in Requests : Spendable(r)}) \in Nat /\ Cardinality(Live) \in Nat
        /\ Cardinality(chain.landed) \in Nat
    BY <2>1, <2>2, FewRequests
  <2>4. WithinBudget
    BY <1>2 DEF AuthorityInv, Undisturbed
  <2> QED
    BY <2>3, <2>4, Bounds DEF WithinBudget
<1> QED
  BY <1>1, <1>2 DEF CapitalSignedOnce

(* What has landed and what can still land is within the budget, for any    *)
(* number of requests and restarts, as long as requests do not overlap      *)
(* between judgement and signature, no flight outlives its envelope and     *)
(* nothing an operator rejected is sent; and an envelope that may still     *)
(* spend is in the ledger of the authorizer that runs.                      *)
THEOREM CapitalIsSignedOnce == AuthorizerSpec => []CapitalSignedOnce
BY AuthorityInvariant, CapitalFollows, PTL

-----------------------------------------------------------------------------
(* The arming of a Release.                                                *)

Petition == [kind : PetitionKinds, state : {"PENDING", "ACCEPTED", "REJECTED"}]
Approval == [at : {"idle", "load", "validate", "attest", "ceiling", "move", "answer"}, todo : SUBSET Nat,
             seen : ReleaseStatus, answer : {"PENDING", "ACCEPTED", "REJECTED"}]

\* The types, also of who has requests in hand.
ArmingShape ==
  /\ release \in ReleaseStatus /\ petitions \in Seq(Petition) /\ ceilings \subseteq DOMAIN petitions
  /\ approver \in [Approvers -> Approval] /\ mishaps \in Nat
  /\ \A a \in Approvers : approver[a].todo \subseteq DOMAIN petitions /\ (approver[a].at # "idle" => approver[a].todo # {})

Eligible == {"ELIGIBLE_LIVE", "ARMED"}

\* At each step the rows of the steps before are there, and the status that was loaded is one
\* its kind of request starts from.
ApprovalFits(a) ==
  LET kind == KindInHand(a)
      seen == approver[a].seen
  IN  /\ approver[a].at = "validate" => kind = "PROMOTE_RELEASE"
      /\ approver[a].at = "attest" => \/ kind = "PROMOTE_RELEASE" /\ seen = "PAPER_VALIDATED"
                                      \/ kind = "ARM_RELEASE" /\ seen \in Eligible
      /\ approver[a].at = "ceiling" => kind = "ARM_RELEASE" /\ seen \in Eligible /\ Attested(Hand(a), "ARM")
      /\ approver[a].at = "move" =>
           \/ kind = "PROMOTE_RELEASE" /\ seen = "PAPER_VALIDATED" /\ Attested(Hand(a), "PROMOTE")
           \/ kind = "ARM_RELEASE" /\ seen \in Eligible /\ Attested(Hand(a), "ARM") /\ Hand(a) \in ceilings
           \/ kind = "RETIRE_RELEASE" /\ seen # "RETIRED"
      /\ approver[a].at = "answer" /\ approver[a].answer = "ACCEPTED" => release \in Beyond[kind]

ArmingInv == ArmingShape /\ (\A a \in Approvers : approver[a].at # "idle" => ApprovalFits(a)) /\ ReleaseOnEvidence

\* A release goes on in its life and never back.
Onward == \A k \in PetitionKinds : release \in Beyond[k] => release' \in Beyond[k]

\* Petitions stay what they were filed as, and rows stay.
RowsStay ==
  /\ \A i \in DOMAIN petitions : i \in DOMAIN petitions' /\ petitions'[i].kind = petitions[i].kind
  /\ attestations \subseteq attestations' /\ ceilings \subseteq ceilings'

LEMMA SmallestIn ==
  ASSUME NEW S, S \subseteq Nat, S # {}
  PROVE  Min(S) \in S
<1>1. PICK n \in S : \A m \in S : ~ (<<m, n>> \in OpToRel(<, Nat))
  BY NatLessThanWellFounded, WFMin
<1>2. ASSUME NEW m \in S PROVE n <= m
  <2>1. OpToRel(<, Nat) = {p \in Nat \X Nat : p[1] < p[2]}
    BY DEF OpToRel
  <2>2. <<m, n>> \in Nat \X Nat /\ ~ (m < n)
    BY <1>1, <2>1
  <2> QED
    BY <2>2
<1> QED
  BY <1>2 DEF Min

LEMMA InHand ==
  ASSUME ArmingShape, NEW a \in Approvers, approver[a].at # "idle"
  PROVE  /\ Hand(a) \in approver[a].todo /\ Hand(a) \in DOMAIN petitions
         /\ petitions[Hand(a)] \in Petition /\ KindInHand(a) \in PetitionKinds
<1>1. approver[a].todo \subseteq Nat /\ approver[a].todo # {} /\ approver[a].todo \subseteq DOMAIN petitions
  BY DEF ArmingShape, Approval
<1>2. Hand(a) \in approver[a].todo
  BY <1>1, SmallestIn DEF Hand
<1>3. \A i \in DOMAIN petitions : petitions[i] \in Petition
  BY DEF ArmingShape
<1> QED
  BY <1>1, <1>2, <1>3 DEF KindInHand, Petition

\* What is said of an approver stays true while it waits.
LEMMA WaitingFits ==
  ASSUME ArmingShape, NEW b \in Approvers, approver[b].at # "idle", ApprovalFits(b), approver'[b] = approver[b],
         RowsStay, Onward
  PROVE  ApprovalFits(b)'
<1>1. Hand(b) \in DOMAIN petitions /\ KindInHand(b) \in PetitionKinds
  BY InHand
<1>2. Hand(b)' = Hand(b) /\ KindInHand(b)' = KindInHand(b)
  BY <1>1 DEF Hand, KindInHand, RowsStay
<1>3. \A p : Attested(Hand(b), p) => Attested(Hand(b), p)'
  BY <1>2 DEF Attested, RowsStay
<1> QED
  BY <1>1, <1>2, <1>3 DEF ApprovalFits, RowsStay, Onward

\* One approver, or none, has moved, and fits its new step.
LEMMA AllFit ==
  ASSUME ArmingInv, RowsStay, Onward, NEW a,
         \A b \in Approvers \ {a} : approver'[b] = approver[b],
         a \in Approvers => approver'[a].at = "idle" \/ ApprovalFits(a)'
  PROVE  \A b \in Approvers : approver'[b].at # "idle" => ApprovalFits(b)'
BY WaitingFits DEF ArmingInv

\* What was told stays true, and what is told anew is.
LEMMA EvidenceStays ==
  ASSUME ArmingInv, RowsStay, Onward, release' \in ReleaseStatus,
         release' \in Eligible => release \in Eligible \/ \E i \in DOMAIN petitions : Attested(i, "PROMOTE"),
         release' = "ARMED" => release = "ARMED" \/ \E i \in ceilings : Attested(i, "ARM"),
         \A i \in DOMAIN petitions' :
           petitions'[i].state = "ACCEPTED" =>
             \/ i \in DOMAIN petitions /\ petitions[i].state = "ACCEPTED"
             \/ release' \in Beyond[petitions'[i].kind]
  PROVE  ReleaseOnEvidence'
<1>1. \A i, p : Attested(i, p) => Attested(i, p)'
  BY DEF Attested, RowsStay
<1>2. release' \in {"ELIGIBLE_LIVE", "ARMED"} => \E i \in DOMAIN petitions' : Attested(i, "PROMOTE")'
  BY <1>1 DEF ArmingInv, ReleaseOnEvidence, RowsStay, Eligible
<1>3. release' = "ARMED" => \E i \in ceilings' : Attested(i, "ARM")'
  BY <1>1 DEF ArmingInv, ReleaseOnEvidence, RowsStay
<1>4. ASSUME NEW i \in DOMAIN petitions', petitions'[i].state = "ACCEPTED"
      PROVE  release' \in Beyond[petitions'[i].kind]
  <2>1. CASE i \in DOMAIN petitions /\ petitions[i].state = "ACCEPTED"
    <3>1. petitions[i] \in Petition
      BY <2>1 DEF ArmingInv, ArmingShape
    <3>2. release \in Beyond[petitions[i].kind]
      BY <2>1 DEF ArmingInv, ReleaseOnEvidence
    <3> QED
      BY <2>1, <3>1, <3>2 DEF RowsStay, Onward, Petition
  <2> QED
    BY <1>4, <2>1
<1> QED
  BY <1>2, <1>3, <1>4 DEF ReleaseOnEvidence

LEMMA InitArming == ArmingInit => ArmingInv
BY ReleaseArmingAssumption DEF ArmingInit, ArmingInv, ArmingShape, ApprovalFits, ReleaseOnEvidence, Unhired, Approval,
   ReleaseStatus, Petition

\* The rows and the Release are as they were: nothing is told anew.
LEMMA QuietApproval ==
  ASSUME ArmingInv, UNCHANGED <<release, petitions>>, RowsStay
  PROVE  Onward /\ ReleaseOnEvidence'
<1>1. Onward
  BY DEF Onward
<1> QED
  BY <1>1, EvidenceStays DEF ArmingInv, ArmingShape

LEMMA FilePetitionKeeps ==
  ASSUME ArmingInv, FilePetition
  PROVE  ArmingInv'
<1>1. PICK k \in PetitionKinds : petitions' = Append(petitions, [kind |-> k, state |-> "PENDING"])
  BY DEF FilePetition
<1>2. UNCHANGED <<release, attestations, ceilings, approver, mishaps>> /\ petitions \in Seq(Petition)
  BY DEF FilePetition, ArmingInv, ArmingShape
<1>3. [kind |-> k, state |-> "PENDING"] \in Petition
  BY DEF Petition
<1>4. /\ petitions' \in Seq(Petition) /\ Len(petitions') = Len(petitions) + 1
      /\ \A i \in 1..Len(petitions) : petitions'[i] = petitions[i]
      /\ petitions'[Len(petitions) + 1] = [kind |-> k, state |-> "PENDING"]
  BY <1>1, <1>2, <1>3
<1>5. DOMAIN petitions = 1..Len(petitions) /\ DOMAIN petitions' = 1..Len(petitions') /\ Len(petitions) \in Nat
  BY <1>2, <1>4
<1>6. /\ \A i \in DOMAIN petitions : i \in DOMAIN petitions' /\ petitions'[i] = petitions[i]
      /\ \A i \in DOMAIN petitions' : petitions'[i].state = "ACCEPTED" => i \in DOMAIN petitions
  BY <1>4, <1>5
<1>7. RowsStay /\ Onward
  BY <1>2, <1>6 DEF RowsStay, Onward
<1>8. ReleaseOnEvidence'
  BY <1>2, <1>6, <1>7, EvidenceStays DEF ArmingInv, ArmingShape
<1>9. ArmingShape'
  BY <1>2, <1>4, <1>6 DEF ArmingInv, ArmingShape
<1>10. \A b \in Approvers : approver'[b].at # "idle" => ApprovalFits(b)'
  BY <1>2, <1>7, WaitingFits DEF ArmingInv
<1> QED
  BY <1>8, <1>9, <1>10 DEF ArmingInv

\* An approver goes on; what it does to the rows is said in the assumptions.
LEMMA ApproverMoves ==
  ASSUME ArmingInv, NEW a \in Approvers, NEW to, approver' = [approver EXCEPT ![a] = to],
         to \in Approval, to.todo \subseteq approver[a].todo, to.at # "idle" => to.todo # {},
         to.at # "idle" => ApprovalFits(a)', UNCHANGED petitions, release' \in ReleaseStatus,
         ceilings' \subseteq DOMAIN petitions, mishaps' \in Nat, RowsStay, Onward, ReleaseOnEvidence'
  PROVE  ArmingInv'
<1>1. approver \in [Approvers -> Approval]
  BY DEF ArmingInv, ArmingShape
<1>2. approver'[a] = to /\ \A b \in Approvers \ {a} : approver'[b] = approver[b]
  BY <1>1
<1>3. ArmingShape'
  BY <1>1, <1>2 DEF ArmingInv, ArmingShape
<1>4. \A b \in Approvers : approver'[b].at # "idle" => ApprovalFits(b)'
  BY <1>2, AllFit
<1> QED
  BY <1>3, <1>4 DEF ArmingInv

LEMMA UnhiredType == Unhired \in Approval /\ Unhired.at = "idle" /\ Unhired.todo = {}
BY DEF Unhired, Approval, ReleaseStatus

LEMMA Loading ==
  ASSUME NEW S, S \subseteq Nat
  PROVE  LET c == [Unhired EXCEPT !.at = "load", !.todo = S]
         IN  c \in Approval /\ c.at = "load" /\ c.todo = S
BY DEF Unhired, Approval, ReleaseStatus

\* A cycle begins, goes on to the next request, or ends.
LEMMA NextIs ==
  ASSUME ArmingShape, NEW a \in Approvers
  PROVE  /\ NextInList(a) \in Approval /\ NextInList(a).at \in {"idle", "load"}
         /\ NextInList(a).todo \subseteq approver[a].todo /\ (NextInList(a).at # "idle" => NextInList(a).todo # {})
<1> DEFINE rest == approver[a].todo \ {Hand(a)}
<1>1. rest \subseteq Nat
  BY DEF ArmingShape, Approval
<1>2. CASE rest = {}
  BY <1>2, UnhiredType DEF NextInList
<1>3. CASE rest # {}
  BY <1>1, <1>3, Loading DEF NextInList
<1> QED
  BY <1>2, <1>3

LEMMA ListPetitionsKeeps ==
  ASSUME ArmingInv, NEW a \in Approvers, ListPetitions(a)
  PROVE  ArmingInv'
<1> DEFINE pending == {i \in DOMAIN petitions : petitions[i].state = "PENDING"}
           to == [Unhired EXCEPT !.at = "load", !.todo = pending]
<1>1. /\ pending # {} /\ approver' = [approver EXCEPT ![a] = to]
      /\ UNCHANGED <<release, attestations, ceilings, petitions, mishaps>>
  BY DEF ListPetitions, KeepRows
<1>2. petitions \in Seq(Petition) /\ approver \in [Approvers -> Approval]
  BY DEF ArmingInv, ArmingShape
<1>3. pending \subseteq Nat /\ pending \subseteq DOMAIN petitions
  BY <1>2
<1>4. to \in Approval /\ to.at = "load" /\ to.todo = pending
  BY <1>3, Loading
<1>5. RowsStay
  BY <1>1 DEF RowsStay
<1>6. Onward /\ ReleaseOnEvidence'
  BY <1>1, <1>5, QuietApproval
<1> HIDE DEF to
<1>7. approver'[a] = to /\ \A b \in Approvers \ {a} : approver'[b] = approver[b]
  BY <1>1, <1>2
<1>8. ArmingShape'
  BY <1>1, <1>2, <1>3, <1>4, <1>7 DEF ArmingInv, ArmingShape
<1>9. ApprovalFits(a)'
  BY <1>4, <1>7 DEF ApprovalFits
<1>10. \A b \in Approvers : approver'[b].at # "idle" => ApprovalFits(b)'
  BY <1>5, <1>6, <1>7, <1>9, AllFit
<1> QED
  BY <1>6, <1>8, <1>10 DEF ArmingInv

LEMMA LoadReleaseKeeps ==
  ASSUME ArmingInv, NEW a \in Approvers, LoadRelease(a)
  PROVE  ArmingInv'
<1>1. /\ UNCHANGED <<release, attestations, ceilings, petitions, mishaps>> /\ approver[a].at = "load"
      /\ approver \in [Approvers -> Approval] /\ release \in ReleaseStatus /\ ceilings \subseteq DOMAIN petitions
      /\ mishaps \in Nat
  BY DEF LoadRelease, KeepRows, ArmingInv, ArmingShape
<1>2. RowsStay
  BY <1>1 DEF RowsStay
<1>3. Onward /\ ReleaseOnEvidence'
  BY <1>1, <1>2, QuietApproval
<1>4. KindInHand(a) \in PetitionKinds /\ approver[a].todo # {}
  BY <1>1, InHand DEF ArmingInv, ArmingShape
<1> DEFINE same == approver'[a].todo = approver[a].todo
<1>5. CASE Answering(a, "REJECTED")
  <2> DEFINE to == [approver[a] EXCEPT !.at = "answer", !.answer = "REJECTED"]
  <2>1. approver' = [approver EXCEPT ![a] = to]
    BY <1>1, <1>5 DEF Answering
  <2>2. to \in Approval /\ to.at = "answer" /\ to.answer = "REJECTED" /\ to.todo = approver[a].todo
    BY <1>1 DEF Approval
  <2>3. approver'[a] = to
    BY <1>1, <2>1
  <2> HIDE DEF to
  <2>4. ApprovalFits(a)'
    BY <2>2, <2>3 DEF ApprovalFits
  <2> QED
    BY <1>1, <1>2, <1>3, <1>4, <2>1, <2>2, <2>4, ApproverMoves
<1>6. CASE /\ release \in MayStart(KindInHand(a))
           /\ approver' = [approver EXCEPT ![a].seen = release,
                ![a].at = CASE KindInHand(a) = "RETIRE_RELEASE" -> "move"
                            [] KindInHand(a) = "PROMOTE_RELEASE" /\ release = "DRAFT" -> "validate"
                            [] OTHER -> "attest"]
  <2> DEFINE step == CASE KindInHand(a) = "RETIRE_RELEASE" -> "move"
                       [] KindInHand(a) = "PROMOTE_RELEASE" /\ release = "DRAFT" -> "validate"
                       [] OTHER -> "attest"
             to == [approver[a] EXCEPT !.seen = release, !.at = step]
  <2>1. approver' = [approver EXCEPT ![a] = to]
    BY <1>1, <1>6
  <2>2. \/ step = "move" /\ KindInHand(a) = "RETIRE_RELEASE" /\ release # "RETIRED"
        \/ step = "validate" /\ KindInHand(a) = "PROMOTE_RELEASE"
        \/ step = "attest" /\ KindInHand(a) = "PROMOTE_RELEASE" /\ release = "PAPER_VALIDATED"
        \/ step = "attest" /\ KindInHand(a) = "ARM_RELEASE" /\ release \in Eligible
    BY <1>1, <1>4, <1>6 DEF MayStart, PetitionKinds, ReleaseStatus, Eligible
  <2> HIDE DEF step
  <2>3. to \in Approval /\ to.at = step /\ to.seen = release /\ to.todo = approver[a].todo
    BY <1>1, <2>2 DEF Approval
  <2>4. approver'[a] = to
    BY <1>1, <2>1
  <2> HIDE DEF to
  <2>5. Hand(a)' = Hand(a) /\ KindInHand(a)' = KindInHand(a)
    BY <1>1, <2>3, <2>4 DEF Hand, KindInHand
  <2>6. ApprovalFits(a)'
    BY <2>2, <2>3, <2>4, <2>5 DEF ApprovalFits
  <2>7. to.todo # {} /\ to.todo \subseteq approver[a].todo
    BY <1>4, <2>3
  <2> QED
    BY <1>1, <1>2, <1>3, <2>1, <2>3, <2>6, <2>7, ApproverMoves
<1> QED
  BY <1>5, <1>6 DEF LoadRelease

\* What holds of an approver that has a request in hand.
LEMMA AtIt ==
  ASSUME ArmingInv, NEW a \in Approvers, approver[a].at # "idle"
  PROVE  /\ approver \in [Approvers -> Approval] /\ release \in ReleaseStatus /\ ceilings \subseteq DOMAIN petitions
         /\ mishaps \in Nat /\ approver[a].todo # {} /\ ApprovalFits(a) /\ KindInHand(a) \in PetitionKinds
         /\ Hand(a) \in DOMAIN petitions
BY InHand DEF ArmingInv, ArmingShape

\* The step of an approver that keeps its list.
LEMMA StepKeeps ==
  ASSUME ArmingInv, NEW a \in Approvers, approver[a].at # "idle", NEW to, approver' = [approver EXCEPT ![a] = to],
         to \in Approval, to.todo = approver[a].todo, UNCHANGED <<petitions, mishaps>>,
         release' \in ReleaseStatus, ceilings' \subseteq DOMAIN petitions, RowsStay, Onward, ReleaseOnEvidence',
         Hand(a)' = Hand(a) /\ KindInHand(a)' = KindInHand(a) /\ approver'[a] = to => ApprovalFits(a)'
  PROVE  ArmingInv'
<1>0. approver \in [Approvers -> Approval] /\ mishaps \in Nat /\ approver[a].todo # {}
  BY AtIt
<1>1. approver'[a] = to
  BY <1>0
<1>2. Hand(a)' = Hand(a) /\ KindInHand(a)' = KindInHand(a)
  BY <1>1 DEF Hand, KindInHand
<1>3. ApprovalFits(a)'
  BY <1>1, <1>2
<1>4. to.todo \subseteq approver[a].todo /\ to.todo # {} /\ mishaps' \in Nat
  BY <1>0
<1> QED
  BY <1>3, <1>4, ApproverMoves

LEMMA ValidateReleaseKeeps ==
  ASSUME ArmingInv, NEW a \in Approvers, ValidateRelease(a)
  PROVE  ArmingInv'
<1>1. UNCHANGED <<attestations, ceilings, petitions, mishaps>> /\ approver[a].at = "validate"
  BY DEF ValidateRelease
<1>2. RowsStay /\ approver[a] \in Approval
  BY <1>1, AtIt DEF RowsStay
<1>3. CASE /\ ApplyReleaseStatus("DRAFT", "PAPER_VALIDATED")
           /\ approver' = [approver EXCEPT ![a].at = "attest", ![a].seen = "PAPER_VALIDATED"]
  <2> DEFINE to == [approver[a] EXCEPT !.at = "attest", !.seen = "PAPER_VALIDATED"]
  <2>1. approver' = [approver EXCEPT ![a] = to]
    BY <1>1, <1>3, AtIt
  <2>2. to \in Approval /\ to.todo = approver[a].todo /\ to.at = "attest" /\ to.seen = "PAPER_VALIDATED"
    BY <1>2 DEF Approval, ReleaseStatus
  <2>3. release = "DRAFT" /\ release' = "PAPER_VALIDATED" /\ release' \in ReleaseStatus
    BY <1>3 DEF ApplyReleaseStatus, ReleaseStatus
  <2>4. Onward
    BY <2>3 DEF Onward, Beyond, PetitionKinds
  <2>5. ReleaseOnEvidence'
    BY <1>1, <1>2, <2>3, <2>4, EvidenceStays DEF Eligible
  <2> HIDE DEF to
  <2>6. Hand(a)' = Hand(a) /\ KindInHand(a)' = KindInHand(a) /\ approver'[a] = to => ApprovalFits(a)'
    BY <1>1, <2>2, AtIt DEF ApprovalFits
  <2> QED
    BY <1>1, <1>2, <2>1, <2>2, <2>3, <2>4, <2>5, <2>6, AtIt, StepKeeps
<1>4. CASE Answering(a, "REJECTED") /\ UNCHANGED release
  <2> DEFINE to == [approver[a] EXCEPT !.at = "answer", !.answer = "REJECTED"]
  <2>1. approver' = [approver EXCEPT ![a] = to]
    BY <1>1, <1>4, AtIt DEF Answering
  <2>2. to \in Approval /\ to.todo = approver[a].todo /\ to.at = "answer" /\ to.answer = "REJECTED"
    BY <1>2 DEF Approval, ReleaseStatus
  <2>3. Onward /\ ReleaseOnEvidence' /\ release' \in ReleaseStatus
    BY <1>1, <1>2, <1>4, QuietApproval, AtIt
  <2> HIDE DEF to
  <2>4. Hand(a)' = Hand(a) /\ KindInHand(a)' = KindInHand(a) /\ approver'[a] = to => ApprovalFits(a)'
    BY <2>2 DEF ApprovalFits
  <2> QED
    BY <1>1, <1>2, <2>1, <2>2, <2>3, <2>4, AtIt, StepKeeps
<1> QED
  BY <1>3, <1>4 DEF ValidateRelease

LEMMA InsertAttestationKeeps ==
  ASSUME ArmingInv, NEW a \in Approvers, InsertAttestation(a)
  PROVE  ArmingInv'
<1> DEFINE step == IF KindInHand(a) = "ARM_RELEASE" THEN "ceiling" ELSE "move"
           to == [approver[a] EXCEPT !.at = step]
<1>1. /\ UNCHANGED <<release, ceilings, petitions, mishaps>> /\ approver[a].at = "attest"
      /\ attestations' = attestations \cup {[by |-> Hand(a), purpose |-> Purpose[KindInHand(a)]]}
  BY DEF InsertAttestation
<1>2. RowsStay /\ approver[a] \in Approval
  BY <1>1, AtIt DEF RowsStay
<1>3. approver' = [approver EXCEPT ![a] = to]
  BY <1>1, AtIt DEF InsertAttestation, Stage
<1>4. to \in Approval /\ to.todo = approver[a].todo /\ to.at = step /\ to.seen = approver[a].seen
  BY <1>2 DEF Approval, ReleaseStatus
<1>5. Onward /\ ReleaseOnEvidence' /\ release' \in ReleaseStatus
  BY <1>1, <1>2, QuietApproval, AtIt
<1>6. \/ KindInHand(a) = "PROMOTE_RELEASE" /\ approver[a].seen = "PAPER_VALIDATED" /\ step = "move"
      \/ KindInHand(a) = "ARM_RELEASE" /\ approver[a].seen \in Eligible /\ step = "ceiling"
  BY <1>1, AtIt DEF ApprovalFits
<1> HIDE DEF step, to
<1>7. ASSUME Hand(a)' = Hand(a), KindInHand(a)' = KindInHand(a), approver'[a] = to PROVE ApprovalFits(a)'
  <2>1. \A p : Purpose[KindInHand(a)] = p => Attested(Hand(a), p)'
    BY <1>1, <1>7 DEF Attested
  <2>2. KindInHand(a) = "PROMOTE_RELEASE" => Attested(Hand(a), "PROMOTE")'
    BY <2>1 DEF Purpose
  <2>3. KindInHand(a) = "ARM_RELEASE" => Attested(Hand(a), "ARM")'
    BY <2>1 DEF Purpose
  <2> QED
    BY <1>4, <1>6, <1>7, <2>2, <2>3 DEF ApprovalFits
<1> QED
  BY <1>1, <1>2, <1>3, <1>4, <1>5, <1>7, AtIt, StepKeeps

LEMMA InsertCapitalAttestationKeeps ==
  ASSUME ArmingInv, NEW a \in Approvers, InsertCapitalAttestation(a)
  PROVE  ArmingInv'
<1> DEFINE to == [approver[a] EXCEPT !.at = "move"]
<1>1. /\ UNCHANGED <<release, attestations, petitions, mishaps>> /\ approver[a].at = "ceiling"
      /\ ceilings' = ceilings \cup {Hand(a)}
  BY DEF InsertCapitalAttestation
<1>2. RowsStay /\ approver[a] \in Approval /\ ceilings' \subseteq DOMAIN petitions
  BY <1>1, AtIt DEF RowsStay
<1>3. approver' = [approver EXCEPT ![a] = to]
  BY <1>1, AtIt DEF InsertCapitalAttestation, Stage
<1>4. to \in Approval /\ to.todo = approver[a].todo /\ to.at = "move" /\ to.seen = approver[a].seen
  BY <1>2 DEF Approval, ReleaseStatus
<1>5. Onward /\ ReleaseOnEvidence' /\ release' \in ReleaseStatus
  BY <1>1, <1>2, QuietApproval, AtIt
<1>6. KindInHand(a) = "ARM_RELEASE" /\ approver[a].seen \in Eligible /\ Attested(Hand(a), "ARM")
  BY <1>1, AtIt DEF ApprovalFits
<1> HIDE DEF to
<1>7. ASSUME Hand(a)' = Hand(a), KindInHand(a)' = KindInHand(a), approver'[a] = to PROVE ApprovalFits(a)'
  <2>1. Attested(Hand(a), "ARM")' /\ (Hand(a) \in ceilings)'
    BY <1>1, <1>6, <1>7 DEF Attested
  <2> QED
    BY <1>4, <1>6, <1>7, <2>1 DEF ApprovalFits
<1> QED
  BY <1>1, <1>2, <1>3, <1>4, <1>5, <1>7, AtIt, StepKeeps

LEMMA MoveReleaseKeeps ==
  ASSUME ArmingInv, NEW a \in Approvers, MoveRelease(a)
  PROVE  ArmingInv'
<1> DEFINE kind == KindInHand(a)
           seen == approver[a].seen
<1>1. UNCHANGED <<attestations, ceilings, petitions, mishaps>> /\ approver[a].at = "move"
  BY DEF MoveRelease
<1>2. RowsStay /\ approver[a] \in Approval
  BY <1>1, AtIt DEF RowsStay
<1>3. ASSUME NEW answer \in {"ACCEPTED", "REJECTED"}, Answering(a, answer),
             Onward, ReleaseOnEvidence', release' \in ReleaseStatus,
             answer = "ACCEPTED" => release' \in Beyond[kind]
      PROVE  ArmingInv'
  <2> DEFINE to == [approver[a] EXCEPT !.at = "answer", !.answer = answer]
  <2>1. approver' = [approver EXCEPT ![a] = to]
    BY <1>1, <1>3, AtIt DEF Answering
  <2>2. to \in Approval /\ to.todo = approver[a].todo /\ to.at = "answer" /\ to.answer = answer
    BY <1>2 DEF Approval, ReleaseStatus
  <2> HIDE DEF to
  <2>4. Hand(a)' = Hand(a) /\ KindInHand(a)' = KindInHand(a) /\ approver'[a] = to => ApprovalFits(a)'
    BY <1>3, <2>2 DEF ApprovalFits
  <2> QED
    BY <1>1, <1>2, <1>3, <2>1, <2>2, <2>4, AtIt, StepKeeps
<1>4. CASE ApplyReleaseStatus(seen, Target[kind]) /\ Answering(a, "ACCEPTED")
  <2>1. \/ kind = "PROMOTE_RELEASE" /\ seen = "PAPER_VALIDATED" /\ Attested(Hand(a), "PROMOTE")
        \/ kind = "ARM_RELEASE" /\ seen \in Eligible /\ Attested(Hand(a), "ARM") /\ Hand(a) \in ceilings
        \/ kind = "RETIRE_RELEASE" /\ seen # "RETIRED"
    BY <1>1, AtIt DEF ApprovalFits
  <2> HIDE DEF kind, seen
  <2>2. release = seen /\ release' = Target[kind]
    BY <1>4 DEF ApplyReleaseStatus
  <2>3. Onward /\ release' \in ReleaseStatus /\ release' \in Beyond[kind]
    BY <2>1, <2>2 DEF Onward, Beyond, PetitionKinds, Target, Eligible, ReleaseStatus
  <2>4. release' \in Eligible => release \in Eligible \/ \E i \in DOMAIN petitions : Attested(i, "PROMOTE")
    BY <1>1, <2>1, <2>2, AtIt DEF Target, Eligible
  <2>5. release' = "ARMED" => release = "ARMED" \/ \E i \in ceilings : Attested(i, "ARM")
    BY <2>1, <2>2 DEF Target
  <2>6. ReleaseOnEvidence'
    BY <1>1, <1>2, <2>3, <2>4, <2>5, EvidenceStays
  <2> QED
    BY <1>3, <1>4, <2>3, <2>6
<1>5. CASE Answering(a, "REJECTED") /\ UNCHANGED release
  <2>1. Onward /\ ReleaseOnEvidence' /\ release' \in ReleaseStatus
    BY <1>1, <1>2, <1>5, QuietApproval, AtIt
  <2> QED
    BY <1>3, <1>5, <2>1
<1> QED
  BY <1>4, <1>5 DEF MoveRelease

LEMMA AnswerPetitionKeeps ==
  ASSUME ArmingInv, NEW a \in Approvers, AnswerPetition(a)
  PROVE  ArmingInv'
<1> DEFINE i == Hand(a)
           state == IF petitions[i].state = "PENDING" THEN approver[a].answer ELSE petitions[i].state
<1>1. /\ approver[a].at = "answer" /\ approver' = [approver EXCEPT ![a] = NextInList(a)]
      /\ UNCHANGED <<release, attestations, ceilings, mishaps>>
  BY DEF AnswerPetition
<1>2. i \in DOMAIN petitions /\ petitions \in Seq(Petition) /\ approver[a] \in Approval /\ ApprovalFits(a)
      /\ approver \in [Approvers -> Approval] /\ petitions[i] \in Petition
  BY <1>1, InHand, AtIt DEF ArmingInv, ArmingShape
<1>3. petitions' = [petitions EXCEPT ![i].state = state]
  BY DEF AnswerPetition
<1> HIDE DEF i
<1>4. /\ DOMAIN petitions' = DOMAIN petitions /\ petitions' \in Seq(Petition)
      /\ \A j \in DOMAIN petitions : petitions'[j].kind = petitions[j].kind /\ (j # i => petitions'[j] = petitions[j])
      /\ petitions'[i].state = state
  <2>1. state \in {"PENDING", "ACCEPTED", "REJECTED"}
    BY <1>2 DEF Petition, Approval
  <2> HIDE DEF state
  <2>2. [petitions[i] EXCEPT !.state = state] \in Petition
    BY <1>2, <2>1 DEF Petition
  <2>3. petitions' = [petitions EXCEPT ![i] = [petitions[i] EXCEPT !.state = state]]
    BY <1>2, <1>3
  <2>4. petitions' \in Seq(Petition) /\ DOMAIN petitions' = DOMAIN petitions
    BY <1>2, <2>2, <2>3, ExceptSeq
  <2>5. \A j \in DOMAIN petitions : j # i => petitions'[j] = petitions[j]
    BY <1>2, <2>3
  <2>6. petitions'[i].kind = petitions[i].kind /\ petitions'[i].state = state
    BY <1>2, <2>3 DEF Petition
  <2> QED
    BY <2>4, <2>5, <2>6
<1>5. RowsStay /\ Onward
  BY <1>1, <1>4 DEF RowsStay, Onward
<1>6. ReleaseOnEvidence'
  <2>1. ASSUME NEW j \in DOMAIN petitions', petitions'[j].state = "ACCEPTED"
        PROVE  petitions[j].state = "ACCEPTED" \/ release' \in Beyond[petitions'[j].kind]
    <3>1. CASE j = i /\ petitions[i].state = "PENDING"
      <4>1. approver[a].answer = "ACCEPTED"
        BY <1>4, <2>1, <3>1
      <4>2. release \in Beyond[petitions[i].kind]
        BY <1>1, <1>2, <4>1 DEF ApprovalFits, KindInHand, i
      <4> QED
        BY <1>1, <1>2, <1>4, <3>1, <4>2
    <3>2. CASE ~ (j = i /\ petitions[i].state = "PENDING")
      BY <1>4, <2>1, <3>2
    <3> QED
      BY <3>1, <3>2
  <2> QED
    BY <1>1, <1>4, <1>5, <2>1, EvidenceStays DEF ArmingInv, ArmingShape
<1>7. /\ NextInList(a) \in Approval /\ NextInList(a).at \in {"idle", "load"}
      /\ NextInList(a).todo \subseteq approver[a].todo /\ (NextInList(a).at # "idle" => NextInList(a).todo # {})
  BY NextIs DEF ArmingInv
<1>8. approver'[a] = NextInList(a) /\ \A b \in Approvers \ {a} : approver'[b] = approver[b]
  BY <1>1, <1>2
<1>9. ArmingShape'
  BY <1>1, <1>2, <1>4, <1>7, <1>8 DEF ArmingInv, ArmingShape
<1>10. approver'[a].at = "idle" \/ ApprovalFits(a)'
  BY <1>7, <1>8 DEF ApprovalFits
<1>11. \A b \in Approvers : approver'[b].at # "idle" => ApprovalFits(b)'
  BY <1>5, <1>8, <1>10, AllFit
<1> QED
  BY <1>6, <1>9, <1>11 DEF ArmingInv

LEMMA PetitionFailsKeeps ==
  ASSUME ArmingInv, NEW a \in Approvers, PetitionFails(a)
  PROVE  ArmingInv'
<1>1. UNCHANGED <<release, attestations, ceilings, petitions>> /\ approver[a].at # "idle" /\ mishaps' = mishaps + 1
  BY DEF PetitionFails
<1>2. PICK to \in {NextInList(a), Unhired} : approver' = [approver EXCEPT ![a] = to]
  BY DEF PetitionFails
<1>3. /\ to \in Approval /\ to.at \in {"idle", "load"} /\ to.todo \subseteq approver[a].todo
      /\ to.at # "idle" => to.todo # {}
  BY NextIs, UnhiredType DEF ArmingInv
<1>4. RowsStay /\ approver'[a] = to /\ mishaps' \in Nat
  BY <1>1, <1>2, AtIt DEF RowsStay
<1>5. Onward /\ ReleaseOnEvidence' /\ release' \in ReleaseStatus
  BY <1>1, <1>4, QuietApproval, AtIt
<1>6. to.at # "idle" => ApprovalFits(a)'
  BY <1>3, <1>4 DEF ApprovalFits
<1> QED
  BY <1>1, <1>2, <1>3, <1>4, <1>5, <1>6, AtIt, ApproverMoves

LEMMA StepArmingInv == ArmingInv /\ [ArmingNext]_armingVars => ArmingInv'
<1> SUFFICES ASSUME ArmingInv, [ArmingNext]_armingVars PROVE ArmingInv'
  OBVIOUS
<1>1. CASE UNCHANGED armingVars
  <2>1. UNCHANGED <<release, attestations, ceilings, petitions, approver, mishaps>>
    BY <1>1 DEF armingVars
  <2>2. RowsStay
    BY <2>1 DEF RowsStay
  <2>3. Onward /\ ReleaseOnEvidence'
    BY <2>1, <2>2, QuietApproval
  <2>4. \A b \in Approvers : approver'[b].at # "idle" => ApprovalFits(b)'
    BY <2>1, <2>2, <2>3, WaitingFits DEF ArmingInv
  <2> QED
    BY <2>1, <2>3, <2>4 DEF ArmingInv, ArmingShape
<1> QED
  BY <1>1, FilePetitionKeeps, ListPetitionsKeeps, LoadReleaseKeeps, ValidateReleaseKeeps, InsertAttestationKeeps,
     InsertCapitalAttestationKeeps, MoveReleaseKeeps, AnswerPetitionKeeps, PetitionFailsKeeps DEF ArmingNext

\* Whoever handles a request has written the rows of its kind before it moves the Release, and
\* moves it only onwards from the status it loaded.
THEOREM ArmingInvariant == ArmingSpec => []ArmingInv
<1> QED
  BY InitArming, StepArmingInv, PTL DEF ArmingSpec

\* A Release is eligible or armed only on its attestations and its ceiling, and what an operator
\* was told is done stays done, for any approvers, requests and failures.
THEOREM ReleasedOnEvidence == ArmingSpec => []ReleaseOnEvidence
<1>1. ArmingInv => ReleaseOnEvidence
  BY DEF ArmingInv
<1> QED
  BY <1>1, ArmingInvariant, PTL

=============================================================================
