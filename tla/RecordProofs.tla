---------------------------- MODULE RecordProofs ----------------------------
(* Proofs about the records of the chain and of the worker, for any views,  *)
(* transactions, runners, handlers, orders, books and faults: what a proof  *)
(* of death over views is worth, custody forgets no transfer that nobody    *)
(* claims, the executor's shadow is the worker's, a confirmed action moves  *)
(* exposure once, the import of the executor's journal skips nothing worth  *)
(* it, and the books of a replay balance with the rows it reports.          *)
EXTENDS MCRecords, SumTheorems, SequenceTheorems

----------------------------------------------------------------------------
(* The death proof. What a view tells in its two answers bounds from both   *)
(* sides the block that may hold the transaction all the same; nothing is   *)
(* assumed of how far a view moves between them.                            *)

\* No block above the last valid height holds the transaction, and no view is ahead of the
\* chain.
ChainOK ==
  /\ landed <= LastValid /\ landed <= tip
  /\ \A v \in Views : head[v] <= tip

\* What a view that had no record of the signature tells: if it landed, it landed later.
StatusOK ==
  \A v \in Views :
    status[v] = "missing" => asked[v] <= head[v] /\ (landed = 0 \/ landed > asked[v])

\* A height comes from a view that had no record, and it has processed as many blocks.
HeightOK ==
  \A v \in Views : height[v] # -1 => status[v] = "missing" /\ height[v] <= head[v]

\* A verdict of death rests on every view's height.
VerdictOK == verdict = "dead" => \A v \in Views : height[v] > LastValid

ViewsInv == TypeOK /\ ChainOK /\ StatusOK /\ HeightOK /\ VerdictOK

LEMMA ViewsStart == Init => ViewsInv
BY ViewsAssumption
   DEF Init, ViewsInv, TypeOK, ChainOK, StatusOK, HeightOK, VerdictOK

LEMMA ViewsStep == ViewsInv /\ [Next]_vars => ViewsInv'
<1> SUFFICES ASSUME ViewsInv, [Next]_vars
             PROVE  ViewsInv'
  OBVIOUS
<1> USE ViewsAssumption DEF ViewsInv, TypeOK
<1>1. CASE Produce
  BY <1>1 DEF Produce, ChainOK, StatusOK, HeightOK, VerdictOK
<1>2. CASE Conclude
  BY <1>2 DEF Conclude, Passed, ChainOK, StatusOK, HeightOK, VerdictOK
<1>3. CASE GiveUp
  BY <1>3 DEF GiveUp, ChainOK, StatusOK, HeightOK, VerdictOK
<1>4. CASE AskAgain
  BY <1>4 DEF AskAgain, ChainOK, StatusOK, HeightOK, VerdictOK
<1>5. ASSUME NEW v \in Views, Advance(v)
      PROVE  ViewsInv'
  <2>1. TypeOK' /\ ChainOK'
    BY <1>5 DEF Advance, ChainOK
  <2>2. StatusOK'
    BY <1>5 DEF Advance, StatusOK
  <2>3. HeightOK' /\ VerdictOK'
    BY <1>5 DEF Advance, HeightOK, VerdictOK
  <2> QED
    BY <2>1, <2>2, <2>3
<1>6. ASSUME NEW v \in Views, AskStatus(v)
      PROVE  ViewsInv'
  <2>1. TypeOK' /\ ChainOK'
    BY <1>6 DEF AskStatus, ChainOK
  <2>2. StatusOK'
    BY <1>6 DEF AskStatus, StatusOK, Finds
  <2>3. HeightOK' /\ VerdictOK'
    BY <1>6 DEF AskStatus, HeightOK, VerdictOK
  <2> QED
    BY <2>1, <2>2, <2>3
<1>7. ASSUME NEW v \in Views, AskHeight(v)
      PROVE  ViewsInv'
  <2>1. TypeOK' /\ ChainOK'
    BY <1>7 DEF AskHeight, ChainOK
  <2>2. StatusOK'
    BY <1>7 DEF AskHeight, StatusOK
  <2>3. HeightOK' /\ VerdictOK'
    BY <1>7 DEF AskHeight, AllMissing, HeightOK, VerdictOK
  <2> QED
    BY <2>1, <2>2, <2>3
<1>8. CASE UNCHANGED vars
  BY <1>8 DEF vars, ChainOK, StatusOK, HeightOK, VerdictOK
<1> QED
  BY <1>1, <1>2, <1>3, <1>4, <1>5, <1>6, <1>7, <1>8 DEF Next

\* The verdict was reached on heights above LastValid, from views that had no record.
LEMMA DeathIsBounded == ViewsInv => DeadUnlessOutrun
<1> SUFFICES ASSUME ViewsInv, verdict = "dead"
             PROVE  /\ tip > LastValid
                    /\ landed # 0 => \A v \in Views : asked[v] < landed /\ landed < height[v]
  BY DEF DeadUnlessOutrun
<1>1. ASSUME NEW v \in Views
      PROVE  /\ height[v] \in Int /\ head[v] \in Nat /\ height[v] > LastValid /\ height[v] <= head[v]
             /\ landed # 0 => landed > asked[v]
  BY ViewsAssumption DEF ViewsInv, TypeOK, StatusOK, HeightOK, VerdictOK
<1>2. landed \in Nat /\ landed <= LastValid /\ tip \in Nat /\ \A v \in Views : head[v] <= tip
  BY DEF ViewsInv, TypeOK, ChainOK
<1>3. PICK v \in Views : TRUE
  BY ViewsAssumption
<1>4. tip > LastValid
  BY <1>1, <1>2, <1>3, ViewsAssumption
<1>5. ASSUME NEW w \in Views, landed # 0
      PROVE  asked[w] < landed /\ landed < height[w]
  BY <1>1, <1>2, <1>5, ViewsAssumption DEF ViewsInv, TypeOK
<1> QED
  BY <1>4, <1>5

\* However many views there are and however slowly they answer: a transaction proven dead can
\* land no more, and if it did land, every view let its block go by between its two answers.
\* That is what the proof is worth without a bound on those answers; the run death_race shows
\* such a verdict.
THEOREM DeathProofIsSound == Spec => []DeadUnlessOutrun
<1> QED
  BY ViewsStart, ViewsStep, DeathIsBounded, PTL DEF Spec

----------------------------------------------------------------------------
(* Custody reconciliation. Each cycle read its cursor at a time of its own, *)
(* and two may be under way: what each would put behind the cursor has its  *)
(* row already, or brings it.                                               *)

Passing ==
  [at : {"idle", "balance", "signatures", "parse", "store", "over"}, from : Nat, base : Int, read : Nat,
   drifted : BOOLEAN, to : Nat, status : Statuses, next : [last : Nat, base : Int], unknown : SUBSET Nat]

\* Transfers nobody claims, up to n, are rows UNKNOWN or among the found.
Covered(n, found) == \A i \in 1..n : chain[i] = "foreign" => i \in unknownRows \cup found

PassFits(p) ==
  /\ p.from <= Len(chain) /\ p.to <= Len(chain) /\ p.next.last <= Len(chain)
  /\ Covered(p.from, {}) /\ Covered(p.next.last, p.unknown)

ReconInv ==
  /\ chain \in Seq(TxKinds) /\ cursor \in [last : Nat, base : Int] /\ passes \in [Runners -> Passing]
  /\ agree \in BOOLEAN
  /\ cursor.last <= Len(chain) /\ Covered(cursor.last, {})
  /\ \A r \in Runners : PassFits(passes[r])

LEMMA RestingPass == NoPass \in Passing /\ NoCursor \in [last : Nat, base : Int]
BY DEF NoPass, NoCursor, Passing, NoBaseline, Statuses

LEMMA RestingFits ==
  ASSUME ReconInv
  PROVE  PassFits(NoPass) /\ \A a : PassFits([NoPass EXCEPT !.at = a])
<1>1. NoPass.from = 0 /\ NoPass.to = 0 /\ NoPass.next.last = 0
  BY DEF NoPass, NoCursor
<1>2. Len(chain) \in Nat
  BY DEF ReconInv
<1>3. \A a : LET p == [NoPass EXCEPT !.at = a] IN p.from = 0 /\ p.to = 0 /\ p.next.last = 0
  BY DEF NoPass, NoCursor
<1> QED
  BY <1>1, <1>2, <1>3 DEF PassFits, Covered

LEMMA ReconStart == ReconInit => ReconInv
<1> SUFFICES ASSUME ReconInit PROVE ReconInv
  OBVIOUS
<1>1. chain = <<>> /\ Len(chain) = 0 /\ chain \in Seq(TxKinds)
  BY DEF ReconInit
<1>2. passes \in [Runners -> Passing] /\ cursor \in [last : Nat, base : Int] /\ cursor.last = 0
  BY RestingPass DEF ReconInit, NoCursor
<1>3. PassFits(NoPass)
  BY <1>1 DEF PassFits, Covered, NoPass, NoCursor
<1> QED
  BY <1>1, <1>2, <1>3 DEF ReconInv, ReconInit, Covered

\* Where the cycle would leave the cursor, and what it found, when the walk was parsed or not.
LEMMA CursorStops ==
  ASSUME ReconInv, NEW p \in Passing, PassFits(p),
         NEW parsed \in SUBSET New(p), NEW unparsed \in SUBSET New(p), parsed \cup unparsed = New(p),
         NEW unrecorded \in SUBSET New(p)
  PROVE  LET q == Reconciled(p, parsed, unparsed, unrecorded) IN q \in Passing /\ PassFits(q)
<1> DEFINE q == Reconciled(p, parsed, unparsed, unrecorded)
           next == NextCursor(p, unparsed)
           unknown == {i \in parsed : chain[i] = "foreign" \/ i \in unrecorded}
<1>1. p.from \in Nat /\ p.to \in Nat /\ p.base \in Int /\ p.read \in Nat /\ p.to <= Len(chain) /\ p.from <= Len(chain)
  BY DEF Passing, PassFits
<1>2. New(p) \subseteq p.from + 1..p.to /\ (New(p) # {} => New(p) = p.from + 1..p.to)
  BY DEF New
<1>3. unknown \subseteq Nat
  BY <1>1, <1>2
<1>4. next.last \in Nat /\ next.last <= Len(chain) /\ next.base \in Int /\ next \in [last : Nat, base : Int]
      /\ \A i \in 1..next.last : i \in 1..p.from \/ i \in parsed
  <2>0. Len(chain) \in Nat
    BY DEF ReconInv
  <2>1. next = [last |-> next.last, base |-> next.base] /\ next.base \in {p.base, p.read}
        /\ next.last = IF New(p) = {} THEN p.from ELSE IF unparsed = {} THEN p.to ELSE Min(unparsed) - 1
    BY DEF NextCursor
  <2>2. CASE New(p) = {}
    BY <1>1, <2>1, <2>2
  <2>3. CASE New(p) # {} /\ unparsed = {}
    <3>1. next.last = p.to
      BY <2>1, <2>3
    <3>2. \A i \in 1..p.to : i \in 1..p.from \/ i \in p.from + 1..p.to
      BY <1>1
    <3> QED
      BY <1>1, <1>2, <2>1, <2>3, <3>1, <3>2
  <2>4. CASE New(p) # {} /\ unparsed # {}
    <3> DEFINE m == Min(unparsed)
    <3>1. unparsed \subseteq Nat
      BY <1>1, <1>2
    <3>2. m \in unparsed /\ \A i \in unparsed : m <= i
      BY <2>4, <3>1, LeastOf
    <3>3. m \in p.from + 1..p.to /\ m \in Nat /\ next.last = m - 1
      BY <1>2, <2>1, <2>4, <3>1, <3>2
    <3>4. \A i \in 1..m - 1 : i \notin unparsed /\ (i \in 1..p.from \/ i \in p.from + 1..p.to)
      BY <1>1, <3>2, <3>3
    <3>5. next.last \in Nat /\ next.last <= Len(chain)
      BY <1>1, <2>0, <3>3
    <3> HIDE DEF next, m
    <3>6. \A i \in 1..next.last : i \in 1..p.from \/ i \in parsed
      BY <1>2, <2>4, <3>3, <3>4
    <3> QED
      BY <1>1, <2>1, <3>5, <3>6
  <2> QED
    BY <2>2, <2>3, <2>4
<1>5. \E outcome \in {"CLEAN", "MISMATCH"} :
        q = [NoPass EXCEPT !.at = "store", !.status = outcome, !.next = next, !.unknown = unknown]
  BY DEF Reconciled
<1> HIDE DEF q, next, unknown
<1>6. q \in Passing
  BY <1>3, <1>4, <1>5, RestingPass DEF Passing, Statuses
<1>9. q.next = next /\ q.unknown = unknown /\ q.from = 0 /\ q.to = 0
  BY <1>5 DEF NoPass
<1>7. Covered(next.last, unknown)
  <2> SUFFICES ASSUME NEW i \in 1..next.last, chain[i] = "foreign" PROVE i \in unknownRows \cup unknown
    BY DEF Covered
  <2>1. i \in 1..p.from => i \in unknownRows
    BY DEF PassFits, Covered
  <2>2. i \in parsed => i \in unknown
    BY DEF unknown
  <2> QED
    BY <1>4, <2>1, <2>2
<1>8. PassFits(q)
  <2>1. Len(chain) \in Nat
    BY DEF ReconInv
  <2> QED
    BY <1>4, <1>9, <1>7, <2>1 DEF PassFits, Covered
<1> QED
  BY <1>6, <1>8 DEF q

\* One cycle goes on; the chain and the rows are as they were.
LEMMA PassGoesOn ==
  ASSUME ReconInv, NEW r \in Runners, NEW p \in Passing, PassFits(p), PassTo(r, p)
  PROVE  ReconInv'
<1>1. passes' \in [Runners -> Passing] /\ \A s \in Runners : passes'[s] = IF s = r THEN p ELSE passes[s]
  BY DEF PassTo, ReconInv
<1>2. UNCHANGED <<chain, cursor, unknownRows, agree>>
  BY DEF PassTo
<1>3. \A s \in Runners : PassFits(passes'[s])
  BY <1>1 DEF ReconInv
<1>4. \A s \in Runners : PassFits(passes[s])'
  BY <1>2, <1>3 DEF PassFits, Covered
<1>5. Covered(cursor.last, {})'
  BY <1>2 DEF Covered, ReconInv
<1> QED
  BY <1>1, <1>2, <1>4, <1>5 DEF ReconInv

\* Rows only come, and the chain only grows.
LEMMA RowsStay ==
  ASSUME ReconInv, Len(chain) <= Len(chain)', \A i \in 1..Len(chain) : chain'[i] = chain[i],
         chain' \in Seq(TxKinds), unknownRows \subseteq unknownRows'
  PROVE  /\ \A n \in Nat : \A found : n <= Len(chain) /\ Covered(n, found) => Covered(n, found)'
         /\ \A p \in Passing : PassFits(p) => PassFits(p)'
<1>1. ASSUME NEW n \in Nat, NEW found, n <= Len(chain), Covered(n, found) PROVE Covered(n, found)'
  <2>1. \A i \in 1..n : i \in 1..Len(chain)
    BY <1>1 DEF ReconInv
  <2> QED
    BY <1>1, <2>1 DEF Covered
<1>2. ASSUME NEW p \in Passing, PassFits(p) PROVE PassFits(p)'
  <2>1. p.from \in Nat /\ p.to \in Nat /\ p.next.last \in Nat /\ Len(chain) \in Nat /\ Len(chain)' \in Nat
    BY DEF Passing, ReconInv
  <2>2. Covered(p.from, {})' /\ Covered(p.next.last, p.unknown)'
    BY <1>1, <1>2, <2>1 DEF PassFits
  <2> QED
    BY <1>2, <2>1, <2>2 DEF PassFits
<1> QED
  BY <1>1, <1>2

LEMMA ReconStep == ReconInv /\ [ReconNext]_reconVars => ReconInv'
<1> SUFFICES ASSUME ReconInv, [ReconNext]_reconVars PROVE ReconInv'
  OBVIOUS
<1> USE ReconciliationAssumption
<1>0. /\ chain \in Seq(TxKinds) /\ Len(chain) \in Nat /\ passes \in [Runners -> Passing]
      /\ cursor \in [last : Nat, base : Int] /\ cursor.last <= Len(chain) /\ Covered(cursor.last, {})
      /\ \A r \in Runners : passes[r] \in Passing /\ PassFits(passes[r])
  BY DEF ReconInv
<1>1. ASSUME NEW k \in TxKinds, Lands(k) PROVE ReconInv'
  <2>1. /\ chain' \in Seq(TxKinds) /\ Len(chain)' = Len(chain) + 1
        /\ \A i \in 1..Len(chain) : chain'[i] = chain[i]
        /\ UNCHANGED <<agree, cursor, passes, unknownRows>>
    BY <1>0, <1>1 DEF Lands
  <2>2. \A r \in Runners : PassFits(passes[r])'
    <3> SUFFICES ASSUME NEW r \in Runners PROVE PassFits(passes[r])'
      OBVIOUS
    <3>1. PICK p \in Passing : p = passes[r] /\ PassFits(p)
      BY <1>0
    <3>2. PassFits(p)'
      BY <1>0, <2>1, <3>1, RowsStay
    <3> QED
      BY <2>1, <3>1, <3>2
  <2>3. cursor.last \in Nat /\ Covered(cursor.last, {})'
    BY <1>0, <2>1, RowsStay
  <2>4. Covered(cursor.last, {})' /\ (cursor.last)' <= Len(chain)'
    BY <1>0, <2>1, <2>3 DEF Covered
  <2> QED
    BY <1>0, <2>1, <2>2, <2>4 DEF ReconInv
<1>2. ASSUME TokensAgree PROVE ReconInv'
  BY <1>2 DEF TokensAgree, ReconInv, PassFits, Covered
<1>3. ASSUME WorkerRestarts PROVE ReconInv'
  <2>1. UNCHANGED <<chain, agree, cursor, unknownRows>> /\ passes' = [r \in Runners |-> NoPass]
    BY <1>3 DEF WorkerRestarts
  <2>2. PassFits(NoPass)'
    BY <2>1, RestingFits DEF PassFits, Covered, NoPass, NoCursor
  <2> QED
    BY <2>1, <2>2, RestingPass DEF ReconInv, Covered, PassFits
<1>4. ASSUME NEW r \in Runners, BeginPass(r) PROVE ReconInv'
  <2> DEFINE p == [NoPass EXCEPT !.at = "balance", !.from = cursor.last, !.base = cursor.base]
  <2>1. p \in Passing /\ p.from = cursor.last /\ p.to = 0 /\ p.next.last = 0 /\ p.unknown = {}
    <3>1. p \in Passing
      BY <1>0, RestingPass DEF Passing
    <3>2. NoPass.to = 0 /\ NoPass.next.last = 0 /\ NoPass.unknown = {}
      BY DEF NoPass, NoCursor
    <3> QED
      BY <3>1, <3>2, RestingPass DEF Passing
  <2>2. PassTo(r, p)
    BY <1>4 DEF BeginPass
  <2> HIDE DEF p
  <2>3. PassFits(p)
    BY <1>0, <2>1 DEF PassFits, Covered
  <2> QED
    BY <2>1, <2>2, <2>3, PassGoesOn
<1>5. Unavailable \in Passing /\ PassFits(Unavailable)
  <2>1. Unavailable.from = 0 /\ Unavailable.to = 0 /\ Unavailable.next.last = 0
    BY DEF Unavailable, NoPass, NoCursor
  <2>2. Unavailable \in Passing
    BY RestingPass DEF Unavailable, Passing, Statuses
  <2> QED
    BY <1>0, <2>1, <2>2 DEF PassFits, Covered
<1>6. ASSUME NEW r \in Runners, ObserveBalances(r) PROVE ReconInv'
  <2> DEFINE p == [passes[r] EXCEPT !.at = "signatures", !.read = Len(chain), !.drifted = ~agree]
  <2>1. p \in Passing /\ p.from = passes[r].from /\ p.to = passes[r].to /\ p.next = passes[r].next
        /\ p.unknown = passes[r].unknown
    BY <1>0 DEF Passing, ReconInv
  <2>2. PassTo(r, p) \/ PassTo(r, Unavailable)
    BY <1>6 DEF ObserveBalances
  <2> HIDE DEF p
  <2>3. PassFits(p)
    BY <1>0, <2>1 DEF PassFits
  <2> QED
    BY <1>5, <2>1, <2>2, <2>3, PassGoesOn
<1>7. ASSUME NEW r \in Runners, SignaturesSince(r) PROVE ReconInv'
  <2> DEFINE p == [passes[r] EXCEPT !.at = "parse", !.to = Len(chain)]
  <2>1. p \in Passing /\ p.from = passes[r].from /\ p.to = Len(chain) /\ p.next = passes[r].next
        /\ p.unknown = passes[r].unknown
    BY <1>0 DEF Passing
  <2>2. PassTo(r, p) \/ PassTo(r, Unavailable)
    BY <1>7 DEF SignaturesSince
  <2> HIDE DEF p
  <2>3. PassFits(p)
    BY <1>0, <2>1 DEF PassFits
  <2> QED
    BY <1>5, <2>1, <2>2, <2>3, PassGoesOn
<1>8. ASSUME NEW r \in Runners, Parse(r) PROVE ReconInv'
  <2> DEFINE p == passes[r]
  <2>1. PICK unrecorded \in SUBSET New(p), parsed \in SUBSET New(p), unparsed \in SUBSET New(p) :
          /\ parsed \cup unparsed = New(p)
          /\ PassTo(r, Reconciled(p, parsed, unparsed, unrecorded))
    <3>1. PICK unrecorded \in SUBSET New(p) :
            \/ PassTo(r, Reconciled(p, New(p), {}, unrecorded))
            \/ \E missed \in SUBSET New(p) \ {{}} : PassTo(r, Reconciled(p, New(p) \ missed, missed, unrecorded))
            \/ \E done \in SUBSET New(p) : PassTo(r, Reconciled(p, done, New(p), unrecorded))
      BY <1>8, Zenon DEF Parse
    <3> HIDE DEF p
    <3>2. CASE PassTo(r, Reconciled(p, New(p), {}, unrecorded))
      BY <3>2, Zenon
    <3>3. ASSUME NEW missed \in SUBSET New(p), PassTo(r, Reconciled(p, New(p) \ missed, missed, unrecorded))
          PROVE  \E v \in SUBSET New(p), parsed \in SUBSET New(p), unparsed \in SUBSET New(p) :
                   parsed \cup unparsed = New(p) /\ PassTo(r, Reconciled(p, parsed, unparsed, v))
      <4>1. New(p) \ missed \in SUBSET New(p) /\ (New(p) \ missed) \cup missed = New(p)
        OBVIOUS
      <4> QED
        BY <3>3, <4>1, Zenon
    <3>4. ASSUME NEW done \in SUBSET New(p), PassTo(r, Reconciled(p, done, New(p), unrecorded))
          PROVE  \E v \in SUBSET New(p), parsed \in SUBSET New(p), unparsed \in SUBSET New(p) :
                   parsed \cup unparsed = New(p) /\ PassTo(r, Reconciled(p, parsed, unparsed, v))
      <4>1. New(p) \in SUBSET New(p) /\ done \cup New(p) = New(p)
        OBVIOUS
      <4> QED
        BY <3>4, <4>1, Zenon
    <3> QED
      BY <3>1, <3>2, <3>3, <3>4, Zenon
  <2> DEFINE q == Reconciled(p, parsed, unparsed, unrecorded)
  <2>2. q \in Passing /\ PassFits(q)
    BY <1>0, <2>1, CursorStops
  <2>3. PassTo(r, q)
    BY <2>1
  <2> HIDE DEF q
  <2> QED
    BY <2>2, <2>3, PassGoesOn
<1>9. ASSUME NEW r \in Runners, RecordReconciliation(r) PROVE ReconInv'
  <2> DEFINE p == passes[r]
             rest(a) == [NoPass EXCEPT !.at = a]
  <2>a. \/ UNCHANGED <<cursor, unknownRows>>
        \/ cursor' \in {cursor, p.next} /\ unknownRows' = unknownRows \cup p.unknown
    BY <1>9 DEF RecordReconciliation
  <2>b. \E a \in {"idle", "over"} : passes' = [passes EXCEPT ![r] = rest(a)]
    BY <1>9 DEF RecordReconciliation
  <2>1. UNCHANGED <<chain, agree>> /\ unknownRows \subseteq unknownRows'
    BY <1>9, <2>a DEF RecordReconciliation
  <2>2. \A s \in Runners : PassFits(passes[s])'
    <3>1. PICK a \in {"idle", "over"} : passes' = [passes EXCEPT ![r] = rest(a)]
      BY <2>b
    <3>2. \A q \in Passing : PassFits(q) => PassFits(q)'
      BY <1>0, <2>1, RowsStay
    <3>3. rest(a) \in Passing /\ PassFits(rest(a))
      BY RestingPass, RestingFits DEF Passing
    <3> HIDE DEF rest
    <3>4. \A s \in Runners : passes'[s] \in Passing /\ PassFits(passes'[s])
      BY <1>0, <3>1, <3>3
    <3>5. ASSUME NEW s \in Runners PROVE PassFits(passes[s])'
      <4>1. PICK q \in Passing : q = passes'[s] /\ PassFits(q)
        BY <3>4
      <4>2. PassFits(q)'
        BY <3>2, <4>1
      <4> QED
        BY <4>1, <4>2 DEF PassFits, Covered
    <3> QED
      BY <3>5
  <2>3. passes' \in [Runners -> Passing]
    <3>1. \A a \in {"idle", "over"} : rest(a) \in Passing
      BY RestingPass DEF Passing
    <3> HIDE DEF rest
    <3> QED
      BY <1>0, <2>b, <3>1
  <2>4. cursor' \in [last : Nat, base : Int] /\ (cursor.last)' <= Len(chain)' /\ Covered(cursor.last, {})'
    <3>1. CASE cursor' = cursor
      BY <1>0, <2>1, <3>1 DEF Covered
    <3>2. CASE cursor' = p.next /\ unknownRows' = unknownRows \cup p.unknown
      <4>1. p \in Passing /\ PassFits(p)
        BY <1>0
      <4>2. p.next \in [last : Nat, base : Int] /\ p.next.last <= Len(chain) /\ Covered(p.next.last, p.unknown)
        BY <4>1 DEF Passing, PassFits
      <4> QED
        BY <2>1, <3>2, <4>2 DEF Covered
    <3> QED
      BY <2>a, <3>1, <3>2
  <2> QED
    BY <1>0, <2>1, <2>2, <2>3, <2>4 DEF ReconInv
<1>10. CASE UNCHANGED reconVars
  BY <1>10 DEF reconVars, ReconInv, PassFits, Covered
<1> QED
  BY <1>1, <1>2, <1>3, <1>4, <1>6, <1>7, <1>8, <1>9, <1>10 DEF ReconNext, PassStep

\* Neither the cursor nor a cycle under way is past a transfer nobody claims that has no row and gets none.
THEOREM ReconInvariant == ReconSpec => []ReconInv
BY ReconStart, ReconStep, PTL DEF ReconSpec

\* A transfer nobody claims that the cursor has passed is in the custody movements, for any number of cycles at
\* once, unanswered signatures, failed stores and dead workers (role custody-reconciliation).
THEOREM CustodyForgetsNothing == ReconSpec => []NothingForgotten
<1>1. ReconInv => NothingForgotten
  <2> SUFFICES ASSUME ReconInv, NEW i \in Seen, chain[i] = "foreign", i <= cursor.last PROVE i \in unknownRows
    BY DEF NothingForgotten
  <2>1. cursor.last \in Nat /\ Len(chain) \in Nat /\ i \in 1..cursor.last
    BY DEF ReconInv, Seen
  <2> QED
    BY <2>1 DEF ReconInv, Covered
<1> QED
  BY <1>1, ReconInvariant, PTL

----------------------------------------------------------------------------
(* The position shadow. As long as nothing of the worker's file is lost its *)
(* entries are numbered by their place, and what is on its way, in hand or  *)
(* with the executor is one of them.                                        *)

EntryOf == [sequence : Nat, book : Books \cup {"none"}]

Filed(s) == s = NoShadow \/ \E i \in DOMAIN shadows : shadows[i] = s

FileKept ==
  /\ \A i \in DOMAIN shadows : shadows[i].sequence = i
  /\ \A s \in pushes : Filed(s)
  /\ Filed(held) /\ ~refused
  /\ shadowRole.at = "append" => shadowRole.shadow.sequence = Len(shadows) + 1
  /\ shadowRole.at \in {"push", "await"} => Filed(shadowRole.shadow)

Shadowing == [at : {"idle", "append", "push", "await", "alarm", "raise"},
              shadow : EntryOf, failures : 0..2]

ShadowInv ==
  /\ shadows \in Seq(EntryOf) /\ book \in Books
  /\ shadowRole \in Shadowing
  /\ ~lost => FileKept

LEMMA AtRestFits == NoShadow \in EntryOf /\ RoleAtRest \in Shadowing
BY DEF NoShadow, RoleAtRest, Shadowing, EntryOf

LEMMA ShadowStart == ShadowInit => ShadowInv
<1> SUFFICES ASSUME ShadowInit PROVE ShadowInv
  OBVIOUS
<1>1. shadowRole.at = "idle" /\ shadowRole \in Shadowing
  BY AtRestFits DEF ShadowInit, RoleAtRest
<1> QED
  BY <1>1 DEF ShadowInit, ShadowInv, FileKept, Filed

\* The newest entry is filed, and none of the filed has a higher number.
LEMMA LatestFiled ==
  ASSUME ShadowInv
  PROVE  /\ Latest \in EntryOf /\ Len(shadows) \in Nat
         /\ ~lost => Filed(Latest) /\ Latest.sequence = Len(shadows)
<1>1. CASE shadows = <<>>
  BY <1>1, AtRestFits DEF Latest, Filed, NoShadow, ShadowInv
<1>2. CASE shadows # <<>>
  <2>1. Latest = shadows[Len(shadows)] /\ Len(shadows) \in DOMAIN shadows /\ Len(shadows) \in Nat
    BY <1>2 DEF Latest, Last, ShadowInv
  <2>2. Latest \in EntryOf
    BY <2>1 DEF ShadowInv
  <2>3. ~lost => Filed(Latest) /\ Latest.sequence = Len(shadows)
    BY <2>1 DEF ShadowInv, FileKept, Filed
  <2> QED
    BY <2>1, <2>2, <2>3
<1> QED
  BY <1>1, <1>2

LEMMA KeptFits ==
  ASSUME ShadowInv
  PROVE  Kept \in Seq(EntryOf)
<1>1. Front(shadows) \in Seq(EntryOf)
  <2>1. Len(shadows) \in Nat /\ \A i \in 1..Len(shadows) : shadows[i] \in EntryOf
    BY DEF ShadowInv
  <2>2. Len(shadows) - 1 \in Int /\ \A i \in 1..Len(shadows) - 1 : shadows[i] \in EntryOf
    BY <2>1
  <2> QED
    BY <2>2, SubSeqProperties DEF Front
<1> QED
  BY <1>1 DEF Kept, ShadowInv

\* An entry more: what was filed stays so, under its number.
LEMMA OneMoreEntry ==
  ASSUME ShadowInv, ~lost, shadowRole.at = "append", shadows' = Append(shadows, shadowRole.shadow)
  PROVE  /\ shadows' \in Seq(EntryOf)
         /\ \A i \in DOMAIN shadows' : shadows'[i].sequence = i
         /\ \E i \in DOMAIN shadows' : shadows'[i] = shadowRole.shadow
         /\ \A s : Filed(s) => s = NoShadow \/ \E i \in DOMAIN shadows' : shadows'[i] = s
<1>1. /\ shadows \in Seq(EntryOf) /\ Len(shadows) \in Nat
      /\ shadowRole.shadow \in EntryOf
      /\ shadowRole.shadow.sequence = Len(shadows) + 1
  BY DEF ShadowInv, FileKept, Shadowing
<1>2. /\ shadows' \in Seq(EntryOf)
      /\ DOMAIN shadows = 1..Len(shadows) /\ DOMAIN shadows' = 1..Len(shadows) + 1
      /\ \A i \in 1..Len(shadows) : shadows'[i] = shadows[i]
      /\ shadows'[Len(shadows) + 1] = shadowRole.shadow
  BY <1>1
<1>3. \A i \in DOMAIN shadows' : shadows'[i].sequence = i
  BY <1>1, <1>2 DEF ShadowInv, FileKept
<1>4. \E i \in DOMAIN shadows' : shadows'[i] = shadowRole.shadow
  BY <1>1, <1>2
<1>5. \A s : Filed(s) => s = NoShadow \/ \E i \in DOMAIN shadows' : shadows'[i] = s
  BY <1>1, <1>2 DEF Filed
<1> QED
  BY <1>2, <1>3, <1>4, <1>5

LEMMA ShadowStepKeeps == ShadowInv /\ [ShadowNext]_shadowVars => ShadowInv'
<1> SUFFICES ASSUME ShadowInv, [ShadowNext]_shadowVars PROVE ShadowInv'
  OBVIOUS
<1> USE ShadowAssumption
<1>0. /\ shadows \in Seq(EntryOf) /\ book \in Books
      /\ shadowRole \in Shadowing /\ (~lost => FileKept)
  BY DEF ShadowInv
\* The file, what is under way and what the role holds stay; the rest does not matter.
<1>1. CASE BookChanges \/ DatabaseFails \/ DatabaseReturns \/ OperatorResumes \/ OperatorCloses \/ UNCHANGED shadowVars
  <2>1. UNCHANGED <<shadows, shadowRole, pushes, held, refused, lost>> /\ book' \in Books
    BY <1>0, <1>1 DEF BookChanges, DatabaseFails, DatabaseReturns, OperatorResumes, OperatorCloses, shadowVars, fileVars
  <2> QED
    BY <1>0, <2>1 DEF ShadowInv, FileKept, Filed
<1>2. CASE WorkerDies
  <2>1. UNCHANGED <<book, shadows, pushes, held, refused, lost>> /\ shadowRole' \in Shadowing /\ shadowRole'.at = "idle"
    BY <1>2, AtRestFits DEF WorkerDies, fileVars, RoleAtRest
  <2> QED
    BY <1>0, <2>1 DEF ShadowInv, FileKept, Filed
<1>3. CASE WorkerDiskLost
  <2>1. shadowRole' \in Shadowing /\ lost' /\ shadows' = <<>> /\ book' = book
    BY <1>3, AtRestFits DEF WorkerDiskLost
  <2> QED
    BY <1>0, <2>1 DEF ShadowInv
<1>4. CASE ExecutorDiskLost
  <2>1. UNCHANGED <<book, shadows, shadowRole, pushes, refused, lost>> /\ held' = NoShadow
    BY <1>4 DEF ExecutorDiskLost, fileVars
  <2> QED
    BY <1>0, <2>1 DEF ShadowInv, FileKept, Filed
<1>5. CASE ReadBook
  <2> DEFINE s == [sequence |-> Latest.sequence + 1, book |-> book]
  <2>1. UNCHANGED <<book, shadows, pushes, held, refused, lost>>
        /\ \/ shadowRole' = [at |-> "push", shadow |-> Latest, failures |-> 0]
           \/ shadowRole' = [at |-> "append", failures |-> 0, shadow |-> s]
    BY <1>5 DEF ReadBook, fileVars
  <2>2. Latest \in EntryOf /\ s \in EntryOf
    BY <1>0, LatestFiled DEF EntryOf
  <2>3. shadowRole' \in Shadowing
    BY <2>1, <2>2 DEF Shadowing
  <2>4. ~lost => FileKept'
    <3> SUFFICES ASSUME ~lost PROVE FileKept'
      OBVIOUS
    <3>1. Filed(Latest) /\ Latest.sequence = Len(shadows) /\ FileKept
      BY <1>0, LatestFiled
    <3>2. shadowRole'.at = "append" => shadowRole'.shadow.sequence = Len(shadows) + 1
      BY <2>1, <3>1
    <3>3. shadowRole'.at \in {"push", "await"} => Filed(shadowRole'.shadow)
      BY <2>1, <3>1
    <3> QED
      BY <2>1, <3>1, <3>2, <3>3 DEF FileKept, Filed
  <2> QED
    BY <1>0, <2>1, <2>3, <2>4 DEF ShadowInv
<1>6. CASE FileUnread
  <2>1. lost' /\ UNCHANGED <<book, shadows>>
        /\ shadowRole' = [at |-> "append", failures |-> 0, shadow |-> [sequence |-> 1, book |-> book]]
    BY <1>6 DEF FileUnread
  <2> QED
    BY <1>0, <2>1 DEF ShadowInv, Shadowing, EntryOf
<1>7. CASE ReadFails
  <2>1. UNCHANGED <<book, shadows, pushes, held, lost>> /\ shadowRole' \in Shadowing /\ shadowRole'.at = "idle"
    <3>1. shadowRole.failures \in 0..2
      BY <1>0 DEF Shadowing
    <3>2. (IF shadowRole.failures < 2 THEN 0 + 1 ELSE 2) \in 0..2
      BY <3>1
    <3> QED
      BY <1>7, <3>1, <3>2, AtRestFits DEF ReadFails, fileVars, RoleAtRest, Shadowing
  <2>2. ~lost => ~refused'
    <3> SUFFICES ASSUME ~lost PROVE ~(0 < Latest.sequence /\ Latest.sequence < held.sequence)
      BY <1>0, <1>7 DEF ReadFails, FileKept
    <3>1. Latest.sequence = Len(shadows) /\ Len(shadows) \in Nat
      BY LatestFiled
    <3>2. CASE held = NoShadow
      BY <3>1, <3>2 DEF NoShadow
    <3>3. ASSUME NEW i \in DOMAIN shadows, shadows[i] = held PROVE held.sequence = i /\ i \in 1..Len(shadows)
      BY <1>0, <3>3 DEF FileKept
    <3> QED
      BY <1>0, <3>1, <3>2, <3>3 DEF FileKept, Filed
  <2> QED
    BY <1>0, <2>1, <2>2 DEF ShadowInv, FileKept, Filed
<1>8. CASE AppendShadow
  <2>1. /\ shadowRole.at = "append" /\ shadowRole' = [shadowRole EXCEPT !.at = "push"]
        /\ UNCHANGED <<book, pushes, held, refused>> /\ (lost' <=> lost \/ tail # "clean")
        /\ shadows' = IF tail = "clean" THEN Append(shadows, shadowRole.shadow) ELSE Kept
    BY <1>8 DEF AppendShadow, RoleTo
  <2>2. shadowRole' \in Shadowing /\ shadowRole'.at = "push" /\ shadowRole'.shadow = shadowRole.shadow
    BY <1>0, <2>1 DEF Shadowing
  <2>3. shadows' \in Seq(EntryOf)
    BY <1>0, <2>1, KeptFits DEF Shadowing
  <2>4. ~lost' => FileKept'
    <3> SUFFICES ASSUME ~lost' PROVE FileKept'
      OBVIOUS
    <3>1. ~lost /\ shadows' = Append(shadows, shadowRole.shadow) /\ FileKept
      BY <1>0, <2>1
    <3>2. /\ \A i \in DOMAIN shadows' : shadows'[i].sequence = i
          /\ \E i \in DOMAIN shadows' : shadows'[i] = shadowRole.shadow
          /\ \A s : Filed(s) => s = NoShadow \/ \E i \in DOMAIN shadows' : shadows'[i] = s
      BY <2>1, <3>1, OneMoreEntry
    <3>3. \A s \in pushes : Filed(s)
      BY <3>1 DEF FileKept
    <3>4. Filed(held)
      BY <3>1 DEF FileKept
    <3>5. (\A s \in pushes : Filed(s))' /\ Filed(held)' /\ Filed(shadowRole.shadow)'
      BY <2>1, <2>2, <3>2, <3>3, <3>4 DEF Filed
    <3> QED
      BY <2>1, <2>2, <3>1, <3>2, <3>5 DEF FileKept
  <2> QED
    BY <1>0, <2>1, <2>2, <2>3, <2>4 DEF ShadowInv
<1>9. CASE DiesInAppend
  <2>1. /\ shadowRole.at = "append" /\ shadowRole' = RoleAtRest
        /\ UNCHANGED <<book, pushes, held, refused>>
        /\ \/ shadows' = Kept /\ (lost' <=> lost \/ tail = "unterminated")
           \/ shadows' = Append(shadows, shadowRole.shadow) /\ lost' = lost
    BY <1>9 DEF DiesInAppend
  <2>2. shadowRole' \in Shadowing /\ shadowRole'.at = "idle"
    BY <2>1, AtRestFits DEF RoleAtRest
  <2>3. shadows' \in Seq(EntryOf)
    BY <1>0, <2>1, KeptFits DEF Shadowing
  <2>4. ~lost' => FileKept'
    <3> SUFFICES ASSUME ~lost' PROVE FileKept'
      OBVIOUS
    <3>1. ~lost /\ FileKept /\ (shadows' = shadows \/ shadows' = Append(shadows, shadowRole.shadow))
      BY <1>0, <2>1 DEF Kept
    <3>2. /\ \A i \in DOMAIN shadows' : shadows'[i].sequence = i
          /\ \A s : Filed(s) => s = NoShadow \/ \E i \in DOMAIN shadows' : shadows'[i] = s
      BY <2>1, <3>1, OneMoreEntry DEF FileKept, Filed
    <3>3. \A s \in pushes : Filed(s)
      BY <3>1 DEF FileKept
    <3>4. Filed(held)
      BY <3>1 DEF FileKept
    <3>5. (\A s \in pushes : Filed(s))' /\ Filed(held)'
      BY <2>1, <3>2, <3>3, <3>4 DEF Filed
    <3> QED
      BY <2>1, <2>2, <3>1, <3>2, <3>5 DEF FileKept
  <2> QED
    BY <1>0, <2>1, <2>2, <2>3, <2>4 DEF ShadowInv
<1>10. CASE Push
  <2>1. /\ shadowRole.at = "push" /\ shadowRole' = [shadowRole EXCEPT !.at = "await"]
        /\ UNCHANGED <<book, shadows, held, refused, lost>> /\ pushes' = pushes \cup {shadowRole.shadow}
    BY <1>10 DEF Push, RoleTo, fileVars
  <2>2. shadowRole' \in Shadowing /\ shadowRole'.at = "await" /\ shadowRole'.shadow = shadowRole.shadow
    BY <1>0, <2>1 DEF Shadowing
  <2> QED
    BY <1>0, <2>1, <2>2 DEF ShadowInv, FileKept, Filed
<1>11. ASSUME NEW s \in pushes, SyncShadow(s) PROVE ShadowInv'
  <2>1. /\ UNCHANGED <<book, shadows, refused, lost>> /\ pushes' \subseteq pushes /\ held' \in {held, s}
        /\ \/ shadowRole' = shadowRole
           \/ shadowRole' = [shadowRole EXCEPT !.at = "alarm"]
           \/ shadowRole' = [RoleAtRest EXCEPT !.failures = shadowRole.failures]
    BY <1>11 DEF SyncShadow, RoleTo, AtRest, fileVars
  <2>2. shadowRole' \in Shadowing /\ (shadowRole' = shadowRole \/ shadowRole'.at \in {"alarm", "idle"})
    BY <1>0, <2>1, AtRestFits DEF Shadowing, RoleAtRest
  <2> QED
    BY <1>0, <2>1, <2>2 DEF ShadowInv, FileKept, Filed
<1>12. CASE PushFails \/ AlarmThrows \/ SetAlarm \/ Raise
  <2>1. /\ UNCHANGED <<book, shadows, held, refused, lost>> /\ pushes' \subseteq pushes
        /\ \/ shadowRole' = [shadowRole EXCEPT !.at = "raise"]
           \/ shadowRole' = [RoleAtRest EXCEPT !.failures = shadowRole.failures]
    BY <1>12 DEF PushFails, AlarmThrows, SetAlarm, Raise, RoleTo, AtRest, fileVars, alarmVars
  <2>2. shadowRole' \in Shadowing /\ shadowRole'.at \in {"raise", "idle"}
    BY <1>0, <2>1, AtRestFits DEF Shadowing, RoleAtRest
  <2> QED
    BY <1>0, <2>1, <2>2 DEF ShadowInv, FileKept, Filed
<1> QED
  BY <1>1, <1>2, <1>3, <1>4, <1>5, <1>6, <1>7, <1>8, <1>9, <1>10, <1>11, <1>12 DEF ShadowNext, ShadowStep

\* While the worker's file was read and lost no entry, every shadow pushed, held or in hand is an entry of it.
THEOREM ShadowInvariant == ShadowSpec => []ShadowInv
BY ShadowStart, ShadowStepKeeps, PTL DEF ShadowSpec

\* The executor then holds the worker's entry, and refuses no close as stale, for any books, late pushes, outages
\* and restarts of either side (role shadow-sync, syncShadow).
THEOREM ShadowIsTheWorkers == ShadowSpec => []ShadowAgrees
<1>1. ShadowInv => ShadowAgrees
  BY DEF ShadowInv, FileKept, Filed, ShadowAgrees
<1> QED
  BY <1>1, ShadowInvariant, PTL

----------------------------------------------------------------------------
(* The agent cycle. A row that authorizes an action was stored by a runner   *)
(* that gave both models the packet of the last cutoff; a message is told    *)
(* after its row, and the evaluation is linked by one handler.               *)

CycleStates == Terminal \cup {"TRIGGERED", "CONTEXT_BUILT", "PROPOSED", "REVISION_REQUESTED"}
Actions == ExposureActions \cup {"IGNORE", "none"}

CycleShape ==
  [n : 0..MaxCycles, target : {"CANDIDATE", "POSITION", "none"}, state : CycleStates, cutoff : Nat, packet : Nat,
   action : Actions, verdict : {"none", "CONFIRM", "REJECT", "CHALLENGE"}, round : Nat, cleared : Nat,
   reason : Failures \cup {"none", "REVISION_EXHAUSTED"}, seen : [proposer : Nat, adversary : Nat]]

RowShape == [state : CycleStates, authorizes : Actions, evaluated : BOOLEAN, sound : BOOLEAN]
HandlerShape == [at : {"waiting", "check", "evaluate", "fill", "finish"}, n : 0..MaxCycles]

AgentShape ==
  /\ cycle \in CycleShape /\ stored \in [Numbers -> RowShape] /\ outbox \subseteq Numbers
  /\ runner \in {"resting", "gate", "revise", "rebuild", "propose", "review", "store"}
  /\ handler \in [Handlers -> HandlerShape] /\ executed \in [Numbers -> Nat]
  /\ \A h \in Handlers : handler[h].at # "waiting" => handler[h].n \in Numbers
  /\ runner # "resting" => cycle.n \in Numbers

InformedBy(c) == c.seen = [proposer |-> c.cutoff, adversary |-> c.cutoff]

\* Where the runner is tells the state of its cycle, and what its models have seen.
CycleFits ==
  /\ runner = "gate" => cycle.state = "TRIGGERED"
  /\ runner = "propose" => cycle.state \in {"CONTEXT_BUILT", "REVISION_REQUESTED"}
  /\ runner = "review" => cycle.state = "PROPOSED" /\ cycle.seen.proposer = cycle.cutoff
  /\ runner \in {"revise", "rebuild"} => cycle.state = "REVISION_REQUESTED"
  /\ runner \in {"revise", "propose", "review"} => cycle.packet = cycle.cutoff
  /\ runner = "store" => cycle.state \in Terminal /\ (CanAuthorize(cycle) => InformedBy(cycle))

\* A cycle that is not stored: nobody was told of it, and nothing came of it.
Untold(n) == n > cycle.n \/ (n = cycle.n /\ runner # "resting")
ActsFor(h, n) == handler[h].at # "waiting" /\ handler[h].n = n

NotTold ==
  \A n \in Numbers : Untold(n) =>
    n \notin outbox /\ executed[n] = 0 /\ \A h \in Handlers : ~ActsFor(h, n)

RowsSound == \A n \in Numbers : stored[n].authorizes # "none" => stored[n].state = "CLEARED" /\ stored[n].sound

\* One handler at most has linked the evaluation and not filled yet; it is the first to fill.
Sells(n) == stored[n].authorizes \in {"REDUCE", "EXIT"}
Fills(h, n) == handler[h].at = "fill" /\ handler[h].n = n

FillsOnce ==
  /\ \A h \in Handlers : handler[h].at \in {"evaluate", "fill"} => Sells(handler[h].n)
  /\ \A h \in Handlers, n \in Numbers : Fills(h, n) => stored[n].evaluated /\ executed[n] = 0
  /\ \A h, g \in Handlers, n \in Numbers : Fills(h, n) /\ Fills(g, n) => h = g
  /\ \A n \in Numbers : executed[n] # 0 => executed[n] = 1 /\ stored[n].evaluated /\ Sells(n)

AgentInv == AgentShape /\ CycleFits /\ NotTold /\ RowsSound /\ FillsOnce

LEMMA NoCycleFits ==
  /\ NoCycle \in CycleShape /\ NoCycle.state = "TRIGGERED" /\ NoCycle.n = 0
  /\ \A n \in 0..MaxCycles, target \in {"CANDIDATE", "POSITION"} :
       LET c == NewCycle(n, target) IN c \in CycleShape /\ c.state = "TRIGGERED" /\ c.n = n
BY CycleAssumption
   DEF NoCycle, NewCycle, CycleShape, CycleStates, Actions, Terminal, ExposureActions, Failures

LEMMA RowOfCycle ==
  ASSUME NEW c \in CycleShape
  PROVE  /\ Row(c) \in RowShape /\ Row(c).evaluated = FALSE
         /\ Row(c).authorizes # "none" => CanAuthorize(c)
         /\ CanAuthorize(c) /\ InformedBy(c) => Row(c).state = "CLEARED" /\ Row(c).sound
         /\ ~CanAuthorize(c) => Row(c).authorizes = "none"
<1>1. /\ Row(c).state = c.state /\ Row(c).evaluated = FALSE
      /\ Row(c).authorizes = IF CanAuthorize(c) THEN c.action ELSE "none"
      /\ Row(c).sound \in BOOLEAN
      /\ Row(c).sound <=> InformedBy(c) /\ c.verdict = "CONFIRM"
      /\ Row(c) = [state |-> Row(c).state, authorizes |-> Row(c).authorizes,
                   evaluated |-> Row(c).evaluated, sound |-> Row(c).sound]
  BY DEF Row, InformedBy
<1>2. CanAuthorize(c) => c.state = "CLEARED" /\ c.verdict = "CONFIRM"
  BY DEF CanAuthorize
<1>3. Row(c) \in RowShape
  BY <1>1 DEF RowShape, CycleShape, Actions
<1> QED
  BY <1>1, <1>2, <1>3

LEMMA AgentStart == AgentInit => AgentInv
<1> SUFFICES ASSUME AgentInit PROVE AgentInv
  OBVIOUS
<1> USE CycleAssumption DEF AgentInit
<1>1. NoRow \in RowShape /\ NoRow.authorizes = "none"
  <2>1. ~CanAuthorize(NoCycle)
    BY DEF CanAuthorize, NoCycle, NewCycle
  <2> QED
    BY <2>1, NoCycleFits, RowOfCycle DEF NoRow
<1>2. AgentShape
  BY <1>1, NoCycleFits DEF AgentShape, HandlerShape, Numbers
<1>3. CycleFits /\ NotTold /\ FillsOnce
  BY NoCycleFits DEF CycleFits, NotTold, FillsOnce, ActsFor, Fills
<1>4. RowsSound
  BY <1>1 DEF RowsSound
<1> QED
  BY <1>2, <1>3, <1>4 DEF AgentInv

----------------------------------------------------------------------------
(* What an event makes of a cycle that has not ended.                       *)

LEMMA StateNames ==
  /\ {"TRIGGERED", "CONTEXT_BUILT", "PROPOSED", "REVISION_REQUESTED"} \subseteq CycleStates \ Terminal
  /\ {"CLEARED", "REJECTED", "EXPIRED", "UNRESOLVED"} = Terminal /\ Terminal \subseteq CycleStates
BY DEF CycleStates, Terminal

\* A cycle of which some fields change.
LEMMA CycleChanged ==
  ASSUME NEW c \in CycleShape
  PROVE  /\ \A s \in CycleStates : LET d == Ends(c, s)
              IN  d \in CycleShape /\ d.state = s /\ d.n = c.n /\ d.cutoff = c.cutoff /\ d.packet = c.packet
                  /\ d.seen = c.seen /\ d.verdict = c.verdict
         /\ \A why \in Failures \cup {"REVISION_EXHAUSTED"} : LET d == [c EXCEPT !.reason = why]
              IN  d \in CycleShape /\ d.state = c.state /\ d.n = c.n /\ d.cutoff = c.cutoff /\ d.packet = c.packet
                  /\ d.seen = c.seen
<1>1. ASSUME NEW s \in CycleStates PROVE
        LET d == Ends(c, s)
        IN  d \in CycleShape /\ d.state = s /\ d.n = c.n /\ d.cutoff = c.cutoff /\ d.packet = c.packet
            /\ d.seen = c.seen /\ d.verdict = c.verdict
  BY DEF Ends, CycleShape
<1>2. ASSUME NEW why \in Failures \cup {"REVISION_EXHAUSTED"} PROVE
        LET d == [c EXCEPT !.reason = why]
        IN  d \in CycleShape /\ d.state = c.state /\ d.n = c.n /\ d.cutoff = c.cutoff /\ d.packet = c.packet
            /\ d.seen = c.seen
  BY DEF CycleShape
<1> QED
  BY <1>1, <1>2

LEMMA UnresolvedEnds ==
  ASSUME NEW c \in CycleShape, NEW why \in Failures \cup {"REVISION_EXHAUSTED"}
  PROVE  LET d == Unresolved(c, why)
         IN  /\ d \in CycleShape /\ d.state = "UNRESOLVED" /\ d.n = c.n /\ d.cutoff = c.cutoff
             /\ d.packet = c.packet /\ d.seen = c.seen
<1> DEFINE b == Ends(c, "UNRESOLVED")
<1>1. b \in CycleShape /\ b.state = "UNRESOLVED" /\ b.n = c.n /\ b.cutoff = c.cutoff /\ b.packet = c.packet /\ b.seen = c.seen
  BY CycleChanged, StateNames
<1>2. Unresolved(c, why) = [b EXCEPT !.reason = why]
  BY DEF Unresolved
<1> HIDE DEF b
<1> QED
  BY <1>1, <1>2, CycleChanged

\* CLEARED, on a verdict.
LEMMA ClearedEnds ==
  ASSUME NEW c \in CycleShape, NEW k \in Nat
  PROVE  /\ LET d == [Ends(c, "CLEARED") EXCEPT !.cleared = k]
            IN  /\ d \in CycleShape /\ d.state = "CLEARED" /\ d.n = c.n /\ d.cutoff = c.cutoff
                /\ d.packet = c.packet /\ d.seen = c.seen
         /\ LET d == [Ends(c, "CLEARED") EXCEPT !.verdict = "none", !.cleared = k]
            IN  /\ d \in CycleShape /\ d.state = "CLEARED" /\ d.n = c.n /\ d.cutoff = c.cutoff
                /\ d.packet = c.packet /\ d.seen = c.seen /\ d.verdict = "none"
<1> DEFINE b == Ends(c, "CLEARED")
<1>1. b \in CycleShape /\ b.state = "CLEARED" /\ b.n = c.n /\ b.cutoff = c.cutoff /\ b.packet = c.packet /\ b.seen = c.seen
  BY CycleChanged, StateNames
<1> HIDE DEF b
<1>2. LET d == [b EXCEPT !.cleared = k]
      IN  /\ d \in CycleShape /\ d.state = "CLEARED" /\ d.n = c.n /\ d.cutoff = c.cutoff
          /\ d.packet = c.packet /\ d.seen = c.seen
  BY <1>1 DEF CycleShape
<1>3. LET d == [b EXCEPT !.verdict = "none", !.cleared = k]
      IN  /\ d \in CycleShape /\ d.state = "CLEARED" /\ d.n = c.n /\ d.cutoff = c.cutoff
          /\ d.packet = c.packet /\ d.seen = c.seen /\ d.verdict = "none"
  BY <1>1 DEF CycleShape
<1> QED
  BY <1>2, <1>3 DEF b

LEMMA FailureEnds ==
  ASSUME NEW c \in CycleShape, c.state \notin Terminal, NEW why \in Failures \cup {"EXPIRED"}
  PROVE  LET d == Transition(c, [type |-> why])
         IN  d \in CycleShape /\ d.n = c.n /\ d.state \in {"EXPIRED", "UNRESOLVED"}
<1> DEFINE d == Transition(c, [type |-> why])
<1>1. CASE why = "EXPIRED"
  <2>1. d = Ends(c, "EXPIRED")
    BY <1>1 DEF Transition, Failures
  <2> QED
    <3>1. "EXPIRED" \in CycleStates
      BY StateNames
    <3>2. Ends(c, "EXPIRED") \in CycleShape /\ Ends(c, "EXPIRED").n = c.n /\ Ends(c, "EXPIRED").state = "EXPIRED"
      BY <3>1, CycleChanged
    <3> QED
      BY <2>1, <3>2
<1>2. CASE why # "EXPIRED"
  <2>1. d = Unresolved(c, why) /\ why \in Failures
    BY <1>2 DEF Transition, Failures
  <2> QED
    BY <2>1, UnresolvedEnds
<1> QED
  BY <1>1, <1>2

LEMMA ContextIsBuilt ==
  ASSUME NEW c \in CycleShape, c.state = "TRIGGERED"
  PROVE  Transition(c, [type |-> "CONTEXT_BUILT"]) = Ends(c, "CONTEXT_BUILT")
BY DEF Transition, Terminal, Failures

LEMMA EvidenceIsRefreshed ==
  ASSUME NEW c \in CycleShape, c.state = "REVISION_REQUESTED"
  PROVE  Transition(c, [type |-> "EVIDENCE_REFRESHED"]) = [c EXCEPT !.cutoff = @ + 1]
<1>1. Transition(c, [type |-> "EVIDENCE_REFRESHED"]) = Refreshed(c)
  BY DEF Transition, Terminal, Failures
<1>2. Refreshed(c) = [c EXCEPT !.cutoff = @ + 1]
  <2>1. [c EXCEPT !.cutoff = @ + 1].state = "REVISION_REQUESTED"
    BY DEF CycleShape
  <2> QED
    BY <2>1 DEF Refreshed
<1> QED
  BY <1>1, <1>2

LEMMA ActionIsProposed ==
  ASSUME NEW c \in CycleShape, c.state \in {"CONTEXT_BUILT", "REVISION_REQUESTED"},
         NEW action \in AllowedActions(c.target)
  PROVE  LET d == Transition(c, [type |-> "PROPOSED", action |-> action, version |-> c.cutoff])
         IN  /\ d \in CycleShape /\ d.n = c.n /\ d.cutoff = c.cutoff /\ d.packet = c.packet /\ d.seen = c.seen
             /\ d.state = "PROPOSED" \/ (d.state = "CLEARED" /\ d.verdict = "none")
<1> DEFINE d == Transition(c, [type |-> "PROPOSED", action |-> action, version |-> c.cutoff])
           base == [c EXCEPT !.action = action]
<1>1. d = Proposed(c, action, c.cutoff)
  BY DEF Transition, Terminal, Failures
<1>2. action \in Actions
  BY DEF AllowedActions, Actions, ExposureActions
<1>3. base \in CycleShape /\ base.n = c.n /\ base.cutoff = c.cutoff /\ base.packet = c.packet /\ base.seen = c.seen
  BY <1>2 DEF CycleShape
<1>4. d = IF action = "IGNORE" THEN [Ends(base, "CLEARED") EXCEPT !.verdict = "none", !.cleared = c.cutoff]
          ELSE [base EXCEPT !.state = "PROPOSED"]
  BY <1>1 DEF Proposed
<1>5. c.cutoff \in Nat
  BY DEF CycleShape
<1> HIDE DEF base
<1>6. CASE action = "IGNORE"
  <2> DEFINE e == [Ends(base, "CLEARED") EXCEPT !.verdict = "none", !.cleared = c.cutoff]
  <2>1. /\ e \in CycleShape /\ e.state = "CLEARED" /\ e.n = base.n /\ e.cutoff = base.cutoff
        /\ e.packet = base.packet /\ e.seen = base.seen /\ e.verdict = "none"
    BY <1>3, <1>5, ClearedEnds
  <2>2. d = e
    BY <1>4, <1>6
  <2> QED
    BY <1>3, <2>1, <2>2
<1>7. CASE action # "IGNORE"
  <2> DEFINE e == Ends(base, "PROPOSED")
  <2>1. "PROPOSED" \in CycleStates
    BY StateNames
  <2>2. /\ e \in CycleShape /\ e.state = "PROPOSED" /\ e.n = base.n /\ e.cutoff = base.cutoff
        /\ e.packet = base.packet /\ e.seen = base.seen
    BY <1>3, <2>1, CycleChanged
  <2>3. d = e
    BY <1>4, <1>7 DEF Ends
  <2> QED
    BY <1>3, <2>2, <2>3
<1> QED
  BY <1>6, <1>7

LEMMA ActionIsReviewed ==
  ASSUME NEW c \in CycleShape, c.state = "PROPOSED", NEW judgement \in {"CONFIRM", "REJECT", "CHALLENGE"}
  PROVE  LET d == Transition(c, [type |-> "ADVERSARY_REVIEWED", verdict |-> judgement, version |-> c.cutoff])
         IN  /\ d \in CycleShape /\ d.n = c.n /\ d.cutoff = c.cutoff /\ d.packet = c.packet /\ d.seen = c.seen
             /\ d.state \in {"CLEARED", "REJECTED", "UNRESOLVED", "REVISION_REQUESTED"}
<1> DEFINE d == Transition(c, [type |-> "ADVERSARY_REVIEWED", verdict |-> judgement, version |-> c.cutoff])
           judged == [c EXCEPT !.verdict = judgement]
<1>1. d = Reviewed(c, judgement, c.cutoff)
  BY DEF Transition, Terminal, Failures
<1>2. /\ judged \in CycleShape /\ judged.n = c.n /\ judged.cutoff = c.cutoff /\ judged.packet = c.packet
      /\ judged.seen = c.seen
  BY DEF CycleShape
<1>3. \/ d = [Ends(judged, "CLEARED") EXCEPT !.cleared = c.cutoff]
      \/ d = Ends(judged, "REJECTED")
      \/ d = Unresolved(judged, "REVISION_EXHAUSTED")
      \/ d = [judged EXCEPT !.state = "REVISION_REQUESTED", !.round = @ + 1]
  BY <1>1 DEF Reviewed
<1>4. c.cutoff \in Nat
  BY DEF CycleShape
<1> HIDE DEF judged
<1>5. CASE d = [Ends(judged, "CLEARED") EXCEPT !.cleared = c.cutoff]
  <2> DEFINE e == [Ends(judged, "CLEARED") EXCEPT !.cleared = c.cutoff]
  <2>1. /\ e \in CycleShape /\ e.state = "CLEARED" /\ e.n = judged.n /\ e.cutoff = judged.cutoff
        /\ e.packet = judged.packet /\ e.seen = judged.seen
    BY <1>2, <1>4, ClearedEnds
  <2>2. d = e
    BY <1>5
  <2> QED
    BY <1>2, <2>1, <2>2
<1>6. CASE d = Ends(judged, "REJECTED")
  <2> DEFINE e == Ends(judged, "REJECTED")
  <2>1. "REJECTED" \in CycleStates
    BY StateNames
  <2>2. /\ e \in CycleShape /\ e.state = "REJECTED" /\ e.n = judged.n /\ e.cutoff = judged.cutoff
        /\ e.packet = judged.packet /\ e.seen = judged.seen
    BY <1>2, <2>1, CycleChanged
  <2>3. d = e
    BY <1>6
  <2> QED
    BY <1>2, <2>2, <2>3
<1>7. CASE d = Unresolved(judged, "REVISION_EXHAUSTED")
  BY <1>2, <1>7, UnresolvedEnds
<1>8. CASE d = [judged EXCEPT !.state = "REVISION_REQUESTED", !.round = @ + 1]
  <2> DEFINE e == [judged EXCEPT !.state = "REVISION_REQUESTED", !.round = @ + 1]
  <2>1. "REVISION_REQUESTED" \in CycleStates
    BY StateNames
  <2>2. /\ e \in CycleShape /\ e.state = "REVISION_REQUESTED" /\ e.n = judged.n /\ e.cutoff = judged.cutoff
        /\ e.packet = judged.packet /\ e.seen = judged.seen
    <3> DEFINE b == Ends(judged, "REVISION_REQUESTED")
    <3>1. /\ b \in CycleShape /\ b.state = "REVISION_REQUESTED" /\ b.n = judged.n /\ b.cutoff = judged.cutoff
          /\ b.packet = judged.packet /\ b.seen = judged.seen
      BY <1>2, <2>1, CycleChanged
    <3>2. judged.round + 1 \in Nat /\ e = [b EXCEPT !.round = judged.round + 1]
      BY <1>2 DEF CycleShape, Ends
    <3> HIDE DEF b, e
    <3> QED
      BY <3>1, <3>2 DEF CycleShape
  <2>3. d = e
    BY <1>8
  <2> QED
    BY <1>2, <2>2, <2>3
<1> QED
  BY <1>3, <1>5, <1>6, <1>7, <1>8

LEMMA StepToLeads ==
  ASSUME NEW c, NEW e, NEW next, StepTo(c, e, next), Transition(c, e).state \in CycleStates
  PROVE  /\ cycle' = Transition(c, e)
         /\ Transition(c, e).state \in Terminal => runner' = "store"
         /\ (Transition(c, e).state = "REVISION_REQUESTED" /\ e.type = "ADVERSARY_REVIEWED") => runner' = "revise"
         /\ (Transition(c, e).state \notin Terminal /\ e.type # "ADVERSARY_REVIEWED") => runner' = next
<1> DEFINE d == Transition(c, e)
<1>1. cycle' = d /\ runner' = CASE d.state = "rejected" -> "rejected"
                     [] d.state \in Terminal -> "store"
                     [] d.state = "REVISION_REQUESTED" /\ e.type = "ADVERSARY_REVIEWED" -> "revise"
                     [] OTHER -> next
  BY DEF StepTo
<1>2. d.state # "rejected" /\ "REVISION_REQUESTED" \notin Terminal
  BY DEF CycleStates, Terminal
<1> HIDE DEF d
<1>3. d.state \in Terminal => runner' = "store"
  BY <1>1, <1>2
<1>4. d.state = "REVISION_REQUESTED" /\ e.type = "ADVERSARY_REVIEWED" => runner' = "revise"
  BY <1>1, <1>2
<1>5. d.state \notin Terminal /\ e.type # "ADVERSARY_REVIEWED" => runner' = next
  BY <1>1, <1>2
<1> QED
  BY <1>1, <1>3, <1>4, <1>5 DEF d

\* What an await of the runner leaves: a cycle of the same number, as the next await needs it.
RunnerFits == cycle' \in CycleShape /\ (cycle.n)' = cycle.n /\ CycleFits'
              /\ runner' \in {"revise", "rebuild", "propose", "review", "store"}

LEMMA FailFits ==
  ASSUME NEW c \in CycleShape, c.n = cycle.n, c.state \notin Terminal,
         NEW why \in Failures \cup {"EXPIRED"}, StepTo(c, [type |-> why], "none")
  PROVE  RunnerFits
<1> DEFINE d == Transition(c, [type |-> why])
<1>1. d \in CycleShape /\ d.n = c.n /\ d.state \in {"EXPIRED", "UNRESOLVED"}
  BY FailureEnds
<1>2. d.state \in Terminal /\ d.state \in CycleStates
  BY <1>1, StateNames
<1>3. cycle' = d /\ runner' = "store"
  BY <1>2, StepToLeads
<1> HIDE DEF d
<1>4. ~CanAuthorize(d)
  BY <1>1 DEF CanAuthorize
<1>5. CycleFits'
  BY <1>2, <1>3, <1>4 DEF CycleFits, CanAuthorize, InformedBy
<1> QED
  BY <1>1, <1>3, <1>5 DEF RunnerFits

LEMMA FailNames == {"BUDGET", "ADVERSARY_UNAVAILABLE", "MALFORMED_OUTPUT", "TIMEOUT"} \subseteq Failures
BY DEF Failures

LEMMA GateFits ==
  ASSUME AgentInv, GateAndBuild
  PROVE  RunnerFits
<1>1. cycle \in CycleShape /\ cycle.state = "TRIGGERED" /\ cycle.state \notin Terminal
  BY StateNames DEF GateAndBuild, AgentInv, AgentShape, CycleFits
<1> DEFINE given == [cycle EXCEPT !.packet = cycle.cutoff]
           built == Transition(given, [type |-> "CONTEXT_BUILT"])
<1>2. /\ given \in CycleShape /\ given.n = cycle.n /\ given.state = "TRIGGERED"
      /\ given.cutoff = cycle.cutoff /\ given.packet = cycle.cutoff
  BY <1>1 DEF CycleShape
<1>3. /\ built \in CycleShape /\ built.n = cycle.n /\ built.state = "CONTEXT_BUILT" /\ built.packet = built.cutoff
      /\ built.state \in CycleStates \ Terminal
  <2> HIDE DEF given
  <2>1. "CONTEXT_BUILT" \in CycleStates \ Terminal /\ built = Ends(given, "CONTEXT_BUILT")
    BY <1>2, StateNames, ContextIsBuilt
  <2> HIDE DEF built
  <2> QED
    BY <1>2, <2>1, CycleChanged
<1>4. \/ \E why \in {"BUDGET", "ADVERSARY_UNAVAILABLE", "EXPIRED"} : StepTo(cycle, [type |-> why], "none")
      \/ StepTo(given, [type |-> "CONTEXT_BUILT"], "propose")
      \/ StepTo(built, [type |-> "ADVERSARY_UNAVAILABLE"], "none")
  BY DEF GateAndBuild, Fail
<1>5. ASSUME NEW why \in {"BUDGET", "ADVERSARY_UNAVAILABLE", "EXPIRED"}, StepTo(cycle, [type |-> why], "none")
      PROVE  RunnerFits
  BY <1>1, <1>5, FailFits, FailNames
<1>6. ASSUME StepTo(given, [type |-> "CONTEXT_BUILT"], "propose") PROVE RunnerFits
  <2>1. cycle' = built /\ runner' = "propose"
    BY <1>3, <1>6, StepToLeads
  <2> HIDE DEF built
  <2> QED
    BY <1>3, <2>1 DEF RunnerFits, CycleFits
<1>7. ASSUME StepTo(built, [type |-> "ADVERSARY_UNAVAILABLE"], "none") PROVE RunnerFits
  <2>1. "ADVERSARY_UNAVAILABLE" \in Failures \cup {"EXPIRED"}
    BY FailNames
  <2> HIDE DEF built
  <2> QED
    BY <1>3, <1>7, <2>1, FailFits
<1> QED
  BY <1>4, <1>5, <1>6, <1>7

LEMMA ReviseFits ==
  ASSUME AgentInv, Revise
  PROVE  RunnerFits
<1>1. /\ cycle \in CycleShape /\ cycle.state = "REVISION_REQUESTED" /\ cycle.packet = cycle.cutoff
      /\ cycle.state \in CycleStates \ Terminal
  BY StateNames DEF Revise, AgentInv, AgentShape, CycleFits
<1>2. CASE StepTo(cycle, [type |-> "EVIDENCE_REFRESHED"], "rebuild")
  <2> DEFINE d == [cycle EXCEPT !.cutoff = @ + 1]
  <2>1. cycle.cutoff + 1 \in Nat
    BY <1>1 DEF CycleShape
  <2>2. d \in CycleShape /\ d.n = cycle.n /\ d.state = "REVISION_REQUESTED"
    BY <1>1, <2>1 DEF CycleShape
  <2>3. Transition(cycle, [type |-> "EVIDENCE_REFRESHED"]) = d
    BY <1>1, EvidenceIsRefreshed
  <2> HIDE DEF d
  <2>4. cycle' = d /\ runner' = "rebuild"
    BY <1>1, <1>2, <2>2, <2>3, StepToLeads
  <2> QED
    BY <2>2, <2>4 DEF RunnerFits, CycleFits
<1>3. CASE runner' = "propose" /\ UNCHANGED cycle
  BY <1>1, <1>3 DEF RunnerFits, CycleFits
<1> QED
  BY <1>2, <1>3 DEF Revise

LEMMA RebuildFits ==
  ASSUME AgentInv, Rebuild
  PROVE  RunnerFits
<1>1. cycle \in CycleShape /\ cycle.state = "REVISION_REQUESTED" /\ cycle.state \notin Terminal
  BY StateNames DEF Rebuild, AgentInv, AgentShape, CycleFits
<1>2. CASE cycle' = [cycle EXCEPT !.packet = cycle.cutoff] /\ runner' = "propose"
  <2>1. /\ cycle' \in CycleShape /\ cycle'.n = cycle.n /\ cycle'.state = "REVISION_REQUESTED"
        /\ cycle'.packet = cycle'.cutoff
    BY <1>1, <1>2 DEF CycleShape
  <2> QED
    BY <1>2, <2>1 DEF RunnerFits, CycleFits
<1>3. CASE StepTo(cycle, [type |-> "ADVERSARY_UNAVAILABLE"], "none")
  BY <1>1, <1>3, FailFits, FailNames
<1> QED
  BY <1>2, <1>3 DEF Rebuild, Fail

LEMMA CallFailsFits ==
  ASSUME AgentInv, CallFails
  PROVE  RunnerFits
<1>1. cycle \in CycleShape /\ cycle.state \notin Terminal
  BY StateNames DEF CallFails, AgentInv, AgentShape, CycleFits
<1> QED
  BY <1>1, FailFits, FailNames DEF CallFails, Fail

LEMMA ProposeFits ==
  ASSUME AgentInv, ProposeAction
  PROVE  RunnerFits
<1>1. /\ cycle \in CycleShape /\ cycle.state \in {"CONTEXT_BUILT", "REVISION_REQUESTED"}
      /\ cycle.packet = cycle.cutoff
  BY DEF ProposeAction, AgentInv, AgentShape, CycleFits
<1> DEFINE c == [cycle EXCEPT !.seen.proposer = cycle.packet]
<1>2. /\ c \in CycleShape /\ c.n = cycle.n /\ c.state = cycle.state /\ c.cutoff = cycle.cutoff
      /\ c.target = cycle.target /\ c.packet = c.cutoff /\ c.seen.proposer = c.cutoff
  BY <1>1 DEF CycleShape
<1>3. PICK action \in AllowedActions(c.target) :
        StepTo(c, [type |-> "PROPOSED", action |-> action, version |-> c.cutoff], "review")
  BY <1>2 DEF ProposeAction
<1> DEFINE d == Transition(c, [type |-> "PROPOSED", action |-> action, version |-> c.cutoff])
<1> HIDE DEF c
<1>4. /\ d \in CycleShape /\ d.n = c.n /\ d.cutoff = c.cutoff /\ d.packet = c.packet /\ d.seen = c.seen
      /\ d.state = "PROPOSED" \/ (d.state = "CLEARED" /\ d.verdict = "none")
  BY <1>1, <1>2, ActionIsProposed
<1>5. cycle' = d /\ (d.state = "PROPOSED" => runner' = "review") /\ (d.state = "CLEARED" => runner' = "store")
  BY <1>3, <1>4, StepToLeads, StateNames
<1> HIDE DEF d
<1>6. CASE d.state = "PROPOSED"
  BY <1>2, <1>4, <1>5, <1>6 DEF RunnerFits, CycleFits
<1>7. CASE d.state = "CLEARED"
  <2>1. ~CanAuthorize(d) /\ d.state \in Terminal
    BY <1>4, <1>7, StateNames DEF CanAuthorize
  <2> QED
    BY <1>2, <1>4, <1>5, <1>7, <2>1 DEF RunnerFits, CycleFits, CanAuthorize, InformedBy
<1> QED
  BY <1>4, <1>6, <1>7

LEMMA ReviewFits ==
  ASSUME AgentInv, ReviewAction
  PROVE  RunnerFits
<1>1. /\ cycle \in CycleShape /\ cycle.state = "PROPOSED" /\ cycle.packet = cycle.cutoff
      /\ cycle.seen.proposer = cycle.cutoff
  BY DEF ReviewAction, AgentInv, AgentShape, CycleFits
<1> DEFINE c == [cycle EXCEPT !.seen.adversary = cycle.packet]
<1>2. /\ c \in CycleShape /\ c.n = cycle.n /\ c.state = "PROPOSED" /\ c.cutoff = cycle.cutoff
      /\ c.packet = c.cutoff /\ c.seen = [proposer |-> c.cutoff, adversary |-> c.cutoff]
  BY <1>1 DEF CycleShape
<1>3. PICK judgement \in {"CONFIRM", "REJECT", "CHALLENGE"} :
        StepTo(c, [type |-> "ADVERSARY_REVIEWED", verdict |-> judgement, version |-> c.cutoff], "none")
  BY <1>2 DEF ReviewAction
<1> DEFINE d == Transition(c, [type |-> "ADVERSARY_REVIEWED", verdict |-> judgement, version |-> c.cutoff])
<1> HIDE DEF c
<1>4. /\ d \in CycleShape /\ d.n = c.n /\ d.cutoff = c.cutoff /\ d.packet = c.packet /\ d.seen = c.seen
      /\ d.state \in {"CLEARED", "REJECTED", "UNRESOLVED", "REVISION_REQUESTED"}
  BY <1>2, ActionIsReviewed
<1>5. /\ cycle' = d
      /\ d.state = "REVISION_REQUESTED" => runner' = "revise"
      /\ d.state # "REVISION_REQUESTED" => runner' = "store" /\ d.state \in Terminal
  BY <1>3, <1>4, StepToLeads, StateNames
<1> HIDE DEF d
<1>6. CASE d.state = "REVISION_REQUESTED"
  BY <1>2, <1>4, <1>5, <1>6 DEF RunnerFits, CycleFits
<1>7. CASE d.state # "REVISION_REQUESTED"
  BY <1>2, <1>4, <1>5, <1>7 DEF RunnerFits, CycleFits, InformedBy
<1> QED
  BY <1>6, <1>7

----------------------------------------------------------------------------
(* The steps.                                                               *)

\* A step of the runner alone: rows, messages, handlers and executions stay.
LEMMA RunnerAlone ==
  ASSUME AgentInv, InRunner, cycle' \in CycleShape, (cycle.n)' \in Numbers, CycleFits',
         runner' \in {"gate", "revise", "rebuild", "propose", "review", "store"},
         \A n \in Numbers : Untold(n)' => Untold(n)
  PROVE  AgentInv'
<1>1. UNCHANGED <<stored, outbox, handler, executed>>
  BY DEF InRunner
<1>2. AgentShape'
  BY <1>1 DEF AgentInv, AgentShape
<1>3. NotTold'
  BY <1>1 DEF AgentInv, NotTold, ActsFor
<1>4. RowsSound'
  BY <1>1 DEF AgentInv, RowsSound
<1>5. FillsOnce'
  BY <1>1 DEF AgentInv, FillsOnce, Fills, Sells
<1> QED
  BY <1>2, <1>3, <1>4, <1>5 DEF AgentInv

LEMMA StartKeeps ==
  ASSUME AgentInv, NEW target \in {"CANDIDATE", "POSITION"}, StartCycle(target)
  PROVE  AgentInv'
<1>1. cycle.n \in 0..MaxCycles /\ runner = "resting" /\ MaxCycles \in Nat
  BY CycleAssumption DEF AgentInv, AgentShape, CycleShape, StartCycle
<1>2. cycle.n + 1 \in 0..MaxCycles /\ cycle' = NewCycle(cycle.n + 1, target) /\ runner' = "gate" /\ InRunner
  BY <1>1 DEF StartCycle
<1>3. cycle' \in CycleShape /\ cycle'.state = "TRIGGERED" /\ cycle'.n = cycle.n + 1
  BY <1>2, NoCycleFits
<1>4. CycleFits'
  BY <1>2, <1>3 DEF CycleFits
<1>5. \A n \in Numbers : Untold(n)' => Untold(n)
  BY <1>1, <1>3 DEF Untold, Numbers
<1>6. (cycle.n)' \in Numbers
  BY <1>1, <1>2, <1>3 DEF Numbers
<1> QED
  BY <1>2, <1>3, <1>4, <1>5, <1>6, RunnerAlone

LEMMA RunnerKeeps ==
  ASSUME AgentInv, RunnerFits, InRunner, runner # "resting"
  PROVE  AgentInv'
<1>1. cycle' \in CycleShape /\ CycleFits' /\ (cycle.n)' = cycle.n
      /\ runner' \in {"revise", "rebuild", "propose", "review", "store"}
      /\ cycle.n \in Numbers
  BY DEF RunnerFits, AgentInv, AgentShape
<1>2. \A n \in Numbers : Untold(n)' => Untold(n)
  BY <1>1 DEF Untold
<1> QED
  BY <1>1, <1>2, RunnerAlone

\* The cycle is forgotten: nothing of it is told but what its row backs.
LEMMA StoreKeeps ==
  ASSUME AgentInv, StoreOutcome
  PROVE  AgentInv'
<1> DEFINE n == cycle.n
<1>1. /\ cycle \in CycleShape /\ runner = "store" /\ stored \in [Numbers -> RowShape] /\ outbox \subseteq Numbers
      /\ CanAuthorize(cycle) => InformedBy(cycle)
  BY DEF StoreOutcome, AgentInv, AgentShape, CycleFits
<1>2. /\ stored' = [stored EXCEPT ![n] = Row(cycle)]
      /\ runner' = "resting" /\ cycle' = [NoCycle EXCEPT !.n = n]
      /\ outbox' \subseteq outbox \cup {n}
      /\ UNCHANGED <<handler, executed>>
  BY DEF StoreOutcome, Forget
<1>3. cycle' \in CycleShape /\ cycle'.n = n
  BY <1>1, <1>2, NoCycleFits DEF CycleShape
<1>4. Row(cycle) \in RowShape
  BY <1>1, RowOfCycle
<1>5. n \in Numbers
  BY <1>1 DEF AgentInv, AgentShape
<1>6. outbox' \subseteq Numbers
  BY <1>1, <1>2, <1>5
<1>7. AgentShape'
  BY <1>1, <1>2, <1>3, <1>4, <1>6 DEF AgentInv, AgentShape
<1>8. CycleFits'
  BY <1>2 DEF CycleFits
<1>9. NotTold'
  <2> SUFFICES ASSUME NEW k \in Numbers, Untold(k)'
               PROVE  (k \notin outbox /\ executed[k] = 0 /\ \A h \in Handlers : ~ActsFor(h, k))'
    BY DEF NotTold
  <2>1. k > n /\ Untold(k)
    BY <1>2, <1>3 DEF Untold
  <2> QED
    BY <1>1, <1>2, <2>1 DEF AgentInv, NotTold, ActsFor, Numbers, CycleShape
<1>10. \A k \in Numbers : stored'[k] = IF k = n THEN Row(cycle) ELSE stored[k]
  BY <1>1, <1>2
<1>11. RowsSound'
  <2>1. Row(cycle).authorizes # "none" => Row(cycle).state = "CLEARED" /\ Row(cycle).sound
    BY <1>1, RowOfCycle
  <2> QED
    BY <1>10, <2>1 DEF AgentInv, RowsSound
<1>12. n \in Numbers => executed[n] = 0 /\ \A h \in Handlers : ~ActsFor(h, n)
  BY <1>1 DEF AgentInv, NotTold, Untold
<1>13. FillsOnce'
  <2>1. \A h \in Handlers : handler[h].at \in {"evaluate", "fill"} => handler[h].n \in Numbers /\ handler[h].n # n
    BY <1>12 DEF AgentInv, AgentShape, ActsFor
  <2>2. \A h \in Handlers : handler[h].at \in {"evaluate", "fill"} => stored'[handler[h].n] = stored[handler[h].n]
    BY <1>10, <2>1
  <2>3. \A h \in Handlers, k \in Numbers : Fills(h, k) => stored'[k] = stored[k]
    BY <2>2 DEF Fills
  <2>4. \A k \in Numbers : executed[k] # 0 => stored'[k] = stored[k]
    BY <1>10, <1>12
  <2> QED
    BY <1>2, <2>2, <2>3, <2>4 DEF AgentInv, FillsOnce, Fills, Sells
<1> QED
  BY <1>7, <1>8, <1>9, <1>11, <1>13 DEF AgentInv

LEMMA StoreFailsKeeps ==
  ASSUME AgentInv, StoreFails
  PROVE  AgentInv'
<1>1. /\ runner = "store" /\ runner' = "resting" /\ cycle' = [NoCycle EXCEPT !.n = cycle.n]
      /\ UNCHANGED <<stored, outbox, handler, executed>> /\ cycle \in CycleShape
  BY DEF StoreFails, Forget, AgentInv, AgentShape
<1>2. cycle' \in CycleShape /\ cycle'.n = cycle.n
  BY <1>1, NoCycleFits DEF CycleShape
<1>3. AgentShape' /\ CycleFits'
  BY <1>1, <1>2 DEF AgentInv, AgentShape, CycleFits
<1>4. NotTold'
  BY <1>1, <1>2 DEF AgentInv, NotTold, Untold, ActsFor
<1>5. RowsSound' /\ FillsOnce'
  BY <1>1 DEF AgentInv, RowsSound, FillsOnce, Fills, Sells
<1> QED
  BY <1>3, <1>4, <1>5 DEF AgentInv

\* A handler moves on, and neither links an evaluation nor fills.
LEMMA HandlerMoves ==
  ASSUME AgentInv, NEW h \in Handlers, NEW to \in HandlerShape,
         handler' = [handler EXCEPT ![h] = to], UNCHANGED <<cycle, runner, stored, executed>>,
         outbox' \subseteq outbox,
         to.at # "waiting" => to.n \in Numbers /\ ~Untold(to.n),
         to.at # "fill", to.at = "evaluate" => Sells(to.n)
  PROVE  AgentInv'
<1>1. handler \in [Handlers -> HandlerShape] /\ \A g \in Handlers : handler'[g] = IF g = h THEN to ELSE handler[g]
  BY DEF AgentInv, AgentShape
<1>2. AgentShape' /\ CycleFits' /\ RowsSound'
  BY <1>1 DEF AgentInv, AgentShape, CycleFits, RowsSound, CanAuthorize, InformedBy
<1>3. NotTold'
  BY <1>1 DEF AgentInv, NotTold, ActsFor, Untold
<1>4. FillsOnce'
  BY <1>1 DEF AgentInv, FillsOnce, Fills, Sells
<1> QED
  BY <1>2, <1>3, <1>4 DEF AgentInv

LEMMA EvaluateKeeps ==
  ASSUME AgentInv, NEW h \in Handlers, EvaluateAction(h), ~RowOf(h).evaluated
  PROVE  AgentInv'
<1> DEFINE n == handler[h].n
<1>1. /\ handler \in [Handlers -> HandlerShape] /\ handler[h].at = "evaluate" /\ n \in Numbers
      /\ stored \in [Numbers -> RowShape] /\ Sells(n) /\ ~stored[n].evaluated
  BY DEF AgentInv, AgentShape, EvaluateAction, Handles, RowOf, FillsOnce
<1>2. /\ handler' = [handler EXCEPT ![h].at = "fill"] /\ stored' = [stored EXCEPT ![n].evaluated = TRUE]
      /\ UNCHANGED <<cycle, runner, outbox, executed>>
  BY DEF EvaluateAction, HandlerGoes, InHandler
<1> DEFINE to == [handler[h] EXCEPT !.at = "fill"]
           row == [stored[n] EXCEPT !.evaluated = TRUE]
<1>3. to \in HandlerShape /\ to.at = "fill" /\ to.n = n
  BY <1>1 DEF HandlerShape
<1>4. /\ row \in RowShape /\ row.evaluated /\ row.authorizes = stored[n].authorizes
      /\ row.state = stored[n].state /\ (row.sound <=> stored[n].sound)
  BY <1>1 DEF RowShape
<1>5. \A g \in Handlers : handler'[g] = IF g = h THEN to ELSE handler[g]
  BY <1>1, <1>2
<1>6. \A k \in Numbers : stored'[k] = IF k = n THEN row ELSE stored[k]
  BY <1>1, <1>2
<1>7. handler' \in [Handlers -> HandlerShape] /\ stored' \in [Numbers -> RowShape]
  BY <1>1, <1>2, <1>3, <1>4
<1> HIDE DEF to, row
<1>8. AgentShape' /\ CycleFits'
  BY <1>1, <1>2, <1>3, <1>5, <1>7 DEF AgentInv, AgentShape, CycleFits, CanAuthorize, InformedBy
<1>9. NotTold'
  <2>1. ~Untold(n)
    BY <1>1 DEF AgentInv, NotTold, ActsFor
  <2> QED
    BY <1>2, <1>3, <1>5, <2>1 DEF AgentInv, NotTold, ActsFor, Untold
<1>10. RowsSound'
  BY <1>4, <1>6 DEF AgentInv, RowsSound
<1>11. \A k \in Numbers : Sells(k)' <=> Sells(k)
  BY <1>4, <1>6 DEF Sells
<1>12. \A k \in Numbers : stored[k].evaluated => stored'[k].evaluated
  BY <1>4, <1>6
<1>13. executed[n] = 0 /\ \A g \in Handlers : ~Fills(g, n)
  BY <1>1 DEF AgentInv, AgentShape, FillsOnce
<1>14. FillsOnce'
  <2>1. \A g \in Handlers : handler'[g].at \in {"evaluate", "fill"} => stored'[handler'[g].n].authorizes \in {"REDUCE", "EXIT"}
    BY <1>1, <1>3, <1>4, <1>5, <1>6 DEF AgentInv, AgentShape, FillsOnce, Sells
  <2>2. \A g \in Handlers, k \in Numbers : Fills(g, k)' => (Fills(g, k) \/ (g = h /\ k = n))
    BY <1>3, <1>5 DEF Fills
  <2>3. stored'[n].evaluated
    BY <1>1, <1>4, <1>6
  <2>4. \A g \in Handlers, k \in Numbers : Fills(g, k)' => stored'[k].evaluated /\ executed'[k] = 0
    BY <1>2, <1>12, <1>13, <2>2, <2>3 DEF AgentInv, FillsOnce
  <2>5. \A f, g \in Handlers, k \in Numbers : Fills(f, k)' /\ Fills(g, k)' => f = g
    BY <1>13, <2>2 DEF AgentInv, FillsOnce
  <2>6. \A k \in Numbers : executed'[k] # 0 => executed'[k] = 1 /\ stored'[k].evaluated /\ Sells(k)'
    BY <1>2, <1>11, <1>12 DEF AgentInv, FillsOnce
  <2> QED
    BY <2>1, <2>4, <2>5, <2>6 DEF FillsOnce, Sells
<1> QED
  BY <1>8, <1>9, <1>10, <1>14 DEF AgentInv

LEMMA FillKeeps ==
  ASSUME AgentInv, NEW h \in Handlers, FillAction(h)
  PROVE  AgentInv'
<1> DEFINE n == handler[h].n
<1>1. /\ handler \in [Handlers -> HandlerShape] /\ handler[h].at = "fill" /\ n \in Numbers
      /\ executed \in [Numbers -> Nat] /\ Fills(h, n)
  BY DEF AgentInv, AgentShape, FillAction, Handles, Fills
<1>2. executed[n] = 0 /\ stored[n].evaluated /\ Sells(n) /\ \A g \in Handlers : Fills(g, n) => g = h
  BY <1>1 DEF AgentInv, FillsOnce, Fills
<1>3. /\ handler' = [handler EXCEPT ![h].at = "finish"]
      /\ executed' = [executed EXCEPT ![n] = 1]
      /\ UNCHANGED <<cycle, runner, stored, outbox>>
  BY <1>1, <1>2 DEF FillAction, HandlerGoes, InHandler
<1> DEFINE to == [handler[h] EXCEPT !.at = "finish"]
<1>4. to \in HandlerShape /\ to.at = "finish" /\ to.n = n
  BY <1>1 DEF HandlerShape
<1>5. \A g \in Handlers : handler'[g] = IF g = h THEN to ELSE handler[g]
  BY <1>1, <1>3
<1>6. \A k \in Numbers : executed'[k] = IF k = n THEN 1 ELSE executed[k]
  BY <1>1, <1>3
<1>7. handler' \in [Handlers -> HandlerShape] /\ executed' \in [Numbers -> Nat]
  BY <1>1, <1>3, <1>4
<1> HIDE DEF to
<1>8. AgentShape' /\ CycleFits' /\ RowsSound'
  BY <1>1, <1>3, <1>4, <1>5, <1>7 DEF AgentInv, AgentShape, CycleFits, CanAuthorize, InformedBy, RowsSound
<1>9. NotTold'
  <2>1. ~Untold(n)
    BY <1>1 DEF AgentInv, NotTold, ActsFor
  <2> QED
    BY <1>3, <1>4, <1>5, <1>6, <2>1 DEF AgentInv, NotTold, ActsFor, Untold
<1>10. FillsOnce'
  <2>1. \A g \in Handlers, k \in Numbers : Fills(g, k)' => Fills(g, k) /\ g # h
    BY <1>4, <1>5 DEF Fills
  <2>2. \A g \in Handlers : handler'[g].at \in {"evaluate", "fill"} => g # h /\ handler'[g] = handler[g]
    BY <1>4, <1>5
  <2>3. \A g \in Handlers, k \in Numbers : Fills(g, k)' => k # n
    BY <1>2, <2>1
  <2>4. \A g \in Handlers, k \in Numbers : Fills(g, k)' => stored'[k].evaluated /\ executed'[k] = 0
    BY <1>3, <1>6, <2>1, <2>3 DEF AgentInv, FillsOnce
  <2>5. \A g \in Handlers : handler'[g].at \in {"evaluate", "fill"} => stored'[handler'[g].n].authorizes \in {"REDUCE", "EXIT"}
    BY <1>3, <2>2 DEF AgentInv, FillsOnce, Sells
  <2>6. \A f, g \in Handlers, k \in Numbers : Fills(f, k)' /\ Fills(g, k)' => f = g
    BY <2>1 DEF AgentInv, FillsOnce
  <2>7. \A k \in Numbers : executed'[k] # 0 => executed'[k] = 1 /\ stored'[k].evaluated /\ Sells(k)'
    BY <1>2, <1>3, <1>6 DEF AgentInv, FillsOnce, Sells
  <2> QED
    BY <2>4, <2>5, <2>6, <2>7 DEF FillsOnce, Sells
<1> QED
  BY <1>8, <1>9, <1>10 DEF AgentInv

LEMMA AgentStep == AgentInv /\ [AgentNext]_agentVars => AgentInv'
<1> SUFFICES ASSUME AgentInv, [AgentNext]_agentVars PROVE AgentInv'
  OBVIOUS
<1>0. handler \in [Handlers -> HandlerShape] /\ outbox \subseteq Numbers
  BY DEF AgentInv, AgentShape
<1>1. ASSUME NEW target \in {"CANDIDATE", "POSITION"}, StartCycle(target) PROVE AgentInv'
  BY <1>1, StartKeeps
<1>2. CASE RunnerStep
  <2>1. CASE GateAndBuild \/ Revise \/ Rebuild \/ CallFails \/ ProposeAction \/ ReviewAction
    <3>1. RunnerFits
      BY <2>1, GateFits, ReviseFits, RebuildFits, CallFailsFits, ProposeFits, ReviewFits
    <3>2. InRunner /\ runner # "resting"
      BY <2>1 DEF GateAndBuild, Revise, Rebuild, CallFails, ProposeAction, ReviewAction
    <3> QED
      BY <3>1, <3>2, RunnerKeeps
  <2> QED
    BY <1>2, <2>1, StoreKeeps, StoreFailsKeeps DEF RunnerStep
<1>3. CASE MandatoryExit \/ UNCHANGED agentVars
  <2>1. UNCHANGED <<cycle, runner, stored, outbox, handler, executed>>
    BY <1>3 DEF MandatoryExit, agentVars
  <2>2. AgentShape' /\ CycleFits'
    BY <2>1 DEF AgentInv, AgentShape, CycleFits, CanAuthorize, InformedBy
  <2>3. NotTold' /\ RowsSound' /\ FillsOnce'
    BY <2>1 DEF AgentInv, NotTold, Untold, ActsFor, RowsSound, FillsOnce, Fills, Sells
  <2> QED
    BY <2>2, <2>3 DEF AgentInv
<1>4. ASSUME NEW h \in Handlers, DeliverAction(h) PROVE AgentInv'
  <2>1. PICK n \in outbox : handler' = [handler EXCEPT ![h] = [at |-> "check", n |-> n]]
    BY <1>4 DEF DeliverAction
  <2> DEFINE to == [at |-> "check", n |-> n]
  <2>2. n \in Numbers /\ ~Untold(n)
    BY <1>0 DEF AgentInv, NotTold
  <2>3. to \in HandlerShape /\ to.at = "check" /\ to.n = n
    BY <2>2, CycleAssumption DEF HandlerShape, Numbers
  <2>4. UNCHANGED <<cycle, runner, stored, executed>> /\ outbox' \subseteq outbox
    BY <1>4 DEF DeliverAction, InHandler
  <2>5. handler' = [handler EXCEPT ![h] = to]
    BY <2>1
  <2> HIDE DEF to
  <2> QED
    BY <2>2, <2>3, <2>4, <2>5, HandlerMoves
<1>5. ASSUME NEW h \in Handlers, CheckAction(h) \/ FinishAction(h) \/ ActionThrows(h) \/ (EvaluateAction(h) /\ RowOf(h).evaluated)
      PROVE  AgentInv'
  <2>1. PICK at \in {"waiting", "evaluate", "finish"} : handler' = [handler EXCEPT ![h].at = at]
    BY <1>5 DEF CheckAction, FinishAction, ActionThrows, EvaluateAction, HandlerGoes
  <2>2. handler[h].at # "waiting"
    BY <1>5 DEF CheckAction, FinishAction, ActionThrows, EvaluateAction, Handles
  <2>3. UNCHANGED <<cycle, runner, stored, executed>> /\ outbox' \subseteq outbox
    BY <1>5 DEF CheckAction, FinishAction, ActionThrows, EvaluateAction, InHandler
  <2> DEFINE to == [handler[h] EXCEPT !.at = at]
  <2>4. to \in HandlerShape /\ to.at = at /\ to.n = handler[h].n /\ handler' = [handler EXCEPT ![h] = to]
    BY <1>0, <2>1 DEF HandlerShape
  <2>5. handler[h].n \in Numbers /\ ~Untold(handler[h].n)
    BY <2>2 DEF AgentInv, AgentShape, NotTold, ActsFor
  <2>6. at = "evaluate" => Sells(handler[h].n)
    <3> SUFFICES ASSUME at = "evaluate" PROVE Sells(handler[h].n)
      OBVIOUS
    <3>1. handler'[h].at = "evaluate"
      BY <1>0, <2>1
    <3>2. CASE CheckAction(h)
      BY <1>0, <3>1, <3>2 DEF CheckAction, HandlerGoes, RowOf, Sells
    <3>3. CASE FinishAction(h) \/ ActionThrows(h) \/ (EvaluateAction(h) /\ RowOf(h).evaluated)
      <4>1. handler' = [handler EXCEPT ![h].at = "waiting"]
        BY <3>3 DEF FinishAction, ActionThrows, EvaluateAction, HandlerGoes
      <4> QED
        BY <1>0, <3>1, <4>1
    <3> QED
      BY <1>5, <3>2, <3>3
  <2> HIDE DEF to
  <2> QED
    BY <2>3, <2>4, <2>5, <2>6, HandlerMoves
<1>6. ASSUME NEW h \in Handlers, EvaluateAction(h), ~RowOf(h).evaluated PROVE AgentInv'
  BY <1>6, EvaluateKeeps
<1>7. ASSUME NEW h \in Handlers, FillAction(h) PROVE AgentInv'
  BY <1>7, FillKeeps
<1> QED
  BY <1>1, <1>2, <1>3, <1>4, <1>5, <1>6, <1>7 DEF AgentNext

\* The runner never offers the machine an event it refuses, stores only what both models saw, and of the handlers
\* of a message one links the evaluation.
THEOREM AgentInvariant == AgentSpec => []AgentInv
BY AgentStart, AgentStep, PTL DEF AgentSpec

\* An action moves exposure at most once, and only when the adversary confirmed it on the packet of the latest
\* cutoff, for any cycles, cutoffs, handlers, redeliveries and throws (INV-14, INV-19).
THEOREM ConfirmedIsExecuted == AgentSpec => []ExecutedAsConfirmed
<1>1. AgentInv => ExecutedAsConfirmed
  <2> SUFFICES ASSUME AgentInv, NEW n \in Numbers
               PROVE  /\ executed[n] <= 1
                      /\ executed[n] = 1 => stored[n].state = "CLEARED" /\ Sells(n) /\ stored[n].sound
    BY DEF ExecutedAsConfirmed, Sells
  <2>1. executed[n] \in Nat /\ (executed[n] # 0 => executed[n] = 1 /\ Sells(n))
    BY DEF AgentInv, AgentShape, FillsOnce
  <2>2. Sells(n) => stored[n].state = "CLEARED" /\ stored[n].sound
    BY DEF AgentInv, RowsSound, Sells
  <2> QED
    BY <2>1, <2>2
<1> QED
  BY <1>1, AgentInvariant, PTL

----------------------------------------------------------------------------
(* The import of the executor's journal. The first line of an intent, which  *)
(* says whether it is an emergency, is before the lines that follow it: in   *)
(* the same page, or in the ledger.                                          *)


Importing == [todo : SUBSET (Nat \ {0}), closes : BOOLEAN, at : {"idle", "import"}]

ImportShape ==
  /\ lines \in Seq(Lines) /\ imported \subseteq 1..Len(lines) /\ importer \in Importing
  /\ importer.todo \subseteq 1..Len(lines)

\* The line that makes an intent an emergency is the first of its lines.
FirstLines ==
  \A i, j \in 1..Len(lines) :
    lines[j].kind = "PREPARED_EMERGENCY" /\ lines[i].order = lines[j].order => j <= i

\* The ledger names the emergencies whose first line it has.
Known == \A i \in imported : lines[i].kind = "PREPARED_EMERGENCY" => lines[i].order \in emergencies

NoneBehind == \A m \in imported : \A k \in 1..m : WorthImporting(k) => k \in imported

\* What is worth it and not after an entry of the page is imported, or in the page.
PageCovers == \A m \in importer.todo : \A k \in 1..m : WorthImporting(k) => k \in imported \cup importer.todo

ImportInv == ImportShape /\ FirstLines /\ Known /\ NoneBehind /\ PageCovers

LEMMA ImportStart == ImportInit => ImportInv
<1> SUFFICES ASSUME ImportInit PROVE ImportInv
  OBVIOUS
<1>1. lines = <<>> /\ imported = {} /\ importer = NoPage
  BY DEF ImportInit
<1>2. NoPage \in Importing /\ NoPage.todo = {}
  BY DEF NoPage, Importing
<1> QED
  BY <1>1, <1>2 DEF ImportInv, ImportShape, FirstLines, Known, NoneBehind, PageCovers

LEMMA CursorFits ==
  ASSUME ImportInv
  PROVE  /\ lastImported \in 0..Len(lines) /\ Len(lines) \in Nat
         /\ lastImported \in imported \cup {0}
         /\ \A m \in imported : m <= lastImported
<1>1. imported \subseteq 1..Len(lines) /\ Len(lines) \in Nat
  BY DEF ImportInv, ImportShape
<1>2. CASE imported = {}
  BY <1>1, <1>2 DEF lastImported
<1>3. CASE imported # {}
  <2>1. lastImported = Max(imported)
    BY <1>3 DEF lastImported
  <2>2. Max(imported) \in imported /\ \A m \in imported : m <= Max(imported)
    BY <1>1, <1>3, GreatestOf
  <2>3. Max(imported) \in 1..Len(lines)
    BY <1>1, <2>2
  <2>4. Max(imported) \in 0..Len(lines)
    BY <1>1, <2>3
  <2> QED
    BY <1>1, <2>1, <2>2, <2>4
<1> QED
  BY <1>2, <1>3

\* A line more changes nothing for the lines before it: an emergency's first line is no later one.
LEMMA WriteKeeps ==
  ASSUME ImportInv, NEW l \in Lines, ExecutorWrites(l)
  PROVE  ImportInv'
<1>1. /\ lines \in Seq(Lines) /\ Len(lines) \in Nat /\ imported \subseteq 1..Len(lines) /\ importer \in Importing
      /\ UNCHANGED <<imported, emergencies, importer>>
  BY DEF ImportInv, ImportShape, ExecutorWrites
<1>2. /\ lines' \in Seq(Lines) /\ Len(lines)' = Len(lines) + 1
      /\ lines'[Len(lines) + 1] = l /\ \A i \in 1..Len(lines) : lines'[i] = lines[i]
  BY <1>1 DEF ExecutorWrites
<1>3. l.kind = "PREPARED_EMERGENCY" => \A i \in 1..Len(lines) : lines[i].order # l.order
  <2> SUFFICES ASSUME l.kind = "PREPARED_EMERGENCY", NEW i \in 1..Len(lines), lines[i].order = l.order PROVE FALSE
    OBVIOUS
  <2>1. l.order \in Orders
    BY DEF Lines, LineKinds
  <2>2. l.order # "none" /\ l.kind # "ATTEMPT"
    BY <2>1, ImportAssumption
  <2>3. (l.kind = "ATTEMPT") = Prepared(l.order)
    BY <2>2 DEF ExecutorWrites
  <2>4. DOMAIN lines = 1..Len(lines)
    BY <1>1
  <2>5. Prepared(l.order)
    BY <2>4 DEF Prepared
  <2> QED
    BY <2>2, <2>3, <2>5
<1>4. \A k \in 1..Len(lines) : WorthImporting(k)' => WorthImporting(k)
  <2> SUFFICES ASSUME NEW k \in 1..Len(lines), WorthImporting(k)' PROVE WorthImporting(k)
    OBVIOUS
  <2>1. lines'[k] = lines[k] /\ DOMAIN lines = 1..Len(lines) /\ DOMAIN lines' = 1..Len(lines) + 1
    BY <1>1, <1>2
  <2>2. lines[k].kind \in LineKinds
        \/ \E j \in 1..Len(lines) + 1 : lines'[j].kind = "PREPARED_EMERGENCY" /\ lines'[j].order = lines[k].order
    BY <2>1 DEF WorthImporting, EmergencyOrder, LineKinds
  <2>3. ASSUME NEW j \in 1..Len(lines) + 1, lines'[j].kind = "PREPARED_EMERGENCY", lines'[j].order = lines[k].order
        PROVE  j \in 1..Len(lines)
    <3>1. j = Len(lines) + 1 => FALSE
      BY <1>2, <1>3, <2>3
    <3> QED
      BY <1>1, <3>1
  <2>4. lines[k].kind \in LineKinds
        \/ \E j \in 1..Len(lines) : lines[j].kind = "PREPARED_EMERGENCY" /\ lines[j].order = lines[k].order
    BY <1>2, <2>2, <2>3
  <2> QED
    BY <2>1, <2>4 DEF WorthImporting, EmergencyOrder
<1>5. ImportShape'
  <2>1. imported' \subseteq 1..Len(lines)'
    BY <1>1, <1>2
  <2>2. importer.todo \subseteq 1..Len(lines)
    BY DEF ImportInv, ImportShape
  <2>3. importer'.todo \subseteq 1..Len(lines)'
    BY <1>1, <1>2, <2>2
  <2> QED
    BY <1>1, <1>2, <2>1, <2>3 DEF ImportShape
<1>6. FirstLines'
  <2> SUFFICES ASSUME NEW i \in 1..Len(lines) + 1, NEW j \in 1..Len(lines) + 1,
                      lines'[j].kind = "PREPARED_EMERGENCY", lines'[i].order = lines'[j].order
               PROVE  j <= i
    BY <1>2 DEF FirstLines
  <2>1. CASE i = Len(lines) + 1
    BY <1>1, <2>1
  <2>2. CASE i # Len(lines) + 1
    <3>1. i \in 1..Len(lines) /\ lines'[i] = lines[i]
      BY <1>1, <1>2, <2>2
    <3>2. j \in 1..Len(lines)
      <4>1. j = Len(lines) + 1 => FALSE
        BY <1>2, <1>3, <3>1
      <4> QED
        BY <1>1, <4>1
    <3> QED
      BY <1>2, <3>1, <3>2 DEF ImportInv, FirstLines
  <2> QED
    BY <2>1, <2>2
<1>7. Known'
  BY <1>1, <1>2 DEF ImportInv, Known
<1>8. NoneBehind'
  <2> SUFFICES ASSUME NEW m \in imported, NEW k \in 1..m, WorthImporting(k)' PROVE k \in imported
    BY <1>1 DEF NoneBehind
  <2>1. k \in 1..Len(lines)
    BY <1>1
  <2> QED
    BY <1>4, <2>1 DEF ImportInv, NoneBehind
<1>9. PageCovers'
  <2> SUFFICES ASSUME NEW m \in importer.todo, NEW k \in 1..m, WorthImporting(k)'
               PROVE  k \in imported \cup importer.todo
    BY <1>1 DEF PageCovers
  <2>1. m \in 1..Len(lines)
    BY DEF ImportInv, ImportShape
  <2>2. k \in 1..Len(lines)
    BY <1>1, <2>1
  <2> QED
    BY <1>4, <2>2 DEF ImportInv, PageCovers
<1> QED
  BY <1>5, <1>6, <1>7, <1>8, <1>9 DEF ImportInv

\* The page's selection holds all of it that is worth importing.
LEMMA SelectionCovers ==
  ASSUME ImportInv, NEW page, page = {i \in DOMAIN lines : i > lastImported /\ i <= lastImported + BatchSize},
         NEW k \in page, WorthImporting(k)
  PROVE  k \in SelectImportable(page, emergencies)
<1>1. DOMAIN lines = 1..Len(lines) /\ Len(lines) \in Nat
  BY DEF ImportInv, ImportShape
<1>2. CASE lines[k].kind \in LineKinds
  BY <1>2 DEF SelectImportable
<1>3. CASE EmergencyOrder(lines[k].order)
  <2>1. PICK j \in 1..Len(lines) : lines[j].kind = "PREPARED_EMERGENCY" /\ lines[j].order = lines[k].order
    BY <1>1, <1>3 DEF EmergencyOrder
  <2>2. k \in 1..Len(lines) /\ j <= k
    BY <1>1, <2>1 DEF ImportInv, FirstLines
  <2>3. lastImported \in 0..Len(lines) /\ lastImported \in imported \cup {0} /\ BatchSize \in Nat
    BY CursorFits, ImportAssumption
  <2>4. CASE j <= lastImported
    <3>1. WorthImporting(j)
      BY <1>1, <2>1 DEF WorthImporting, EmergencyOrder
    <3>2. j \in 1..lastImported /\ lastImported \in imported
      BY <1>1, <2>1, <2>3, <2>4
    <3>3. j \in imported
      BY <3>1, <3>2 DEF ImportInv, NoneBehind
    <3>4. lines[j].order \in emergencies
      BY <2>1, <3>3 DEF ImportInv, Known
    <3> QED
      BY <2>1, <3>4 DEF SelectImportable
  <2>5. CASE ~(j <= lastImported)
    <3>1. j \in page
      BY <1>1, <2>1, <2>2, <2>3, <2>5
    <3> QED
      BY <2>1, <3>1 DEF SelectImportable
  <2> QED
    BY <2>4, <2>5
<1> QED
  BY <1>2, <1>3 DEF WorthImporting

LEMMA PullKeeps ==
  ASSUME ImportInv, Pull
  PROVE  ImportInv'
<1> DEFINE page == {i \in DOMAIN lines : i > lastImported /\ i <= lastImported + BatchSize}
           S == SelectImportable(page, emergencies)
<1>1. importer' = [NoPage EXCEPT !.todo = S, !.at = "import"] /\ UNCHANGED <<lines, imported, emergencies>>
  BY DEF Pull
<1>2. lines \in Seq(Lines) /\ Len(lines) \in Nat /\ DOMAIN lines = 1..Len(lines)
  BY DEF ImportInv, ImportShape
<1>3. S \subseteq page /\ page \subseteq 1..Len(lines)
  BY <1>2 DEF SelectImportable
<1>4. ASSUME NEW m \in S, NEW k \in 1..m, WorthImporting(k)
      PROVE  k \in imported \cup S
  <2>1. m \in page /\ m \in Nat /\ k \in Nat /\ 1 <= k /\ k <= m
    BY <1>2, <1>3
  <2>2. lastImported \in 0..Len(lines) /\ lastImported \in imported \cup {0} /\ BatchSize \in Nat
    BY CursorFits, ImportAssumption
  <2>3. CASE k <= lastImported
    <3>1. k \in 1..lastImported /\ lastImported \in imported
      BY <2>1, <2>2, <2>3
    <3> QED
      BY <1>4, <3>1 DEF ImportInv, NoneBehind
  <2>4. CASE ~(k <= lastImported)
    <3>1. k \in page
      BY <1>2, <2>1, <2>2, <2>4
    <3> QED
      BY <1>4, <3>1, SelectionCovers
  <2> QED
    BY <2>3, <2>4
<1> HIDE DEF S
<1>5. S \in SUBSET (Nat \ {0})
  BY <1>2, <1>3
<1>6. importer' \in Importing /\ importer'.todo = S
  BY <1>1, <1>5 DEF NoPage, Importing
<1>7. ImportShape'
  BY <1>1, <1>2, <1>3, <1>6 DEF ImportInv, ImportShape
<1>8. FirstLines' /\ Known' /\ NoneBehind'
  BY <1>1 DEF ImportInv, FirstLines, Known, NoneBehind, WorthImporting, EmergencyOrder
<1>9. PageCovers'
  BY <1>1, <1>4, <1>6 DEF PageCovers, WorthImporting, EmergencyOrder
<1> QED
  BY <1>7, <1>8, <1>9 DEF ImportInv

LEMMA EntryKeeps ==
  ASSUME ImportInv, ImportEntry
  PROVE  ImportInv'
<1> DEFINE i == Min(importer.todo)
           todo == importer.todo
<1>1. /\ todo \subseteq 1..Len(lines) /\ todo # {} /\ importer \in Importing
      /\ lines \in Seq(Lines) /\ Len(lines) \in Nat /\ imported \subseteq 1..Len(lines)
  BY DEF ImportInv, ImportShape, ImportEntry
<1>2. /\ imported' = imported \cup {i} /\ emergencies \subseteq emergencies'
      /\ lines[i].kind = "PREPARED_EMERGENCY" => lines[i].order \in emergencies'
      /\ UNCHANGED lines
  BY DEF ImportEntry
<1>3. \E d \in BOOLEAN : importer' = [importer EXCEPT !.todo = todo \ {i}, !.closes = d]
  <2> DEFINE d == importer.closes \/ lines[i].kind = "CLOSE_COMMAND"
  <2>1. d \in BOOLEAN
    OBVIOUS
  <2>2. importer' = [importer EXCEPT !.todo = todo \ {i}, !.closes = d]
    BY DEF ImportEntry
  <2> QED
    BY <2>1, <2>2
<1>4. i \in todo /\ \A m \in todo : i <= m
  <2>1. todo \subseteq Nat
    BY <1>1
  <2> QED
    BY <1>1, <2>1, LeastOf
<1> HIDE DEF i
<1>5. importer'.todo = todo \ {i} /\ importer' \in Importing
  BY <1>1, <1>3 DEF Importing
<1>6. ImportShape'
  BY <1>1, <1>2, <1>4, <1>5 DEF ImportShape
<1>7. FirstLines' /\ Known'
  BY <1>2 DEF ImportInv, FirstLines, Known
<1>8. \A k : WorthImporting(k)' <=> WorthImporting(k)
  BY <1>2 DEF WorthImporting, EmergencyOrder
<1>9. \A m \in todo : \A k \in 1..m : WorthImporting(k) => k \in imported \cup todo
  BY DEF ImportInv, PageCovers
<1> HIDE DEF todo
<1>10. NoneBehind'
  <2> SUFFICES ASSUME NEW m \in imported \cup {i}, NEW k \in 1..m, WorthImporting(k) PROVE k \in imported \cup {i}
    BY <1>2, <1>8 DEF NoneBehind
  <2>1. CASE m \in imported
    BY <2>1 DEF ImportInv, NoneBehind
  <2>2. CASE m = i
    <3>1. k \in imported \cup todo /\ k <= i /\ k \in Nat /\ i \in Nat
      BY <1>1, <1>4, <1>9, <2>2
    <3>2. k \in todo => i <= k
      BY <1>4
    <3> QED
      BY <3>1, <3>2
  <2> QED
    BY <2>1, <2>2
<1>11. PageCovers'
  <2>1. ASSUME NEW m \in todo, NEW k \in 1..m, WorthImporting(k) PROVE k \in imported' \cup importer'.todo
    BY <1>2, <1>5, <1>9, <2>1
  <2> QED
    BY <1>5, <1>8, <2>1 DEF PageCovers
<1> QED
  BY <1>6, <1>7, <1>10, <1>11 DEF ImportInv

LEMMA ImportStep == ImportInv /\ [ImportNext]_importVars => ImportInv'
<1> SUFFICES ASSUME ImportInv, [ImportNext]_importVars PROVE ImportInv'
  OBVIOUS
<1>1. CASE SetReviewGate \/ ImportThrows \/ UNCHANGED importVars
  <2>1. UNCHANGED <<lines, imported, emergencies>> /\ importer' \in {importer, NoPage}
    BY <1>1 DEF SetReviewGate, ImportThrows, importVars
  <2>2. NoPage \in Importing /\ NoPage.todo = {}
    BY DEF NoPage, Importing
  <2>3. ImportShape' /\ PageCovers'
    BY <2>1, <2>2 DEF ImportInv, ImportShape, PageCovers, WorthImporting, EmergencyOrder
  <2>4. FirstLines' /\ Known' /\ NoneBehind'
    BY <2>1 DEF ImportInv, FirstLines, Known, NoneBehind, WorthImporting, EmergencyOrder
  <2> QED
    BY <2>3, <2>4 DEF ImportInv
<1>2. ASSUME NEW l \in Lines, ExecutorWrites(l) PROVE ImportInv'
  BY <1>2, WriteKeeps
<1> QED
  BY <1>1, <1>2, PullKeeps, EntryKeeps DEF ImportNext

\* Of what is before an imported entry, or before an entry of the page in hand, nothing worth the ledger is left out.
THEOREM ImportInvariant == ImportSpec => []ImportInv
BY ImportStart, ImportStep, PTL DEF ImportSpec

\* Nothing worth the ledger is behind the import's cursor without being in it, for any journal, size of a page and
\* imports that throw anywhere (role journal-import).
THEOREM NothingIsSkipped == ImportSpec => []NoImportableSkipped
<1>1. ImportInv => NoImportableSkipped
  <2> SUFFICES ASSUME ImportInv, NEW k \in DOMAIN lines, k <= lastImported, WorthImporting(k) PROVE k \in imported
    BY DEF NoImportableSkipped
  <2>1. DOMAIN lines = 1..Len(lines) /\ lastImported \in 0..Len(lines) /\ lastImported \in imported \cup {0}
        /\ Len(lines) \in Nat
    BY CursorFits DEF ImportInv, ImportShape
  <2>2. k \in 1..lastImported /\ lastImported \in imported
    BY <2>1
  <2> QED
    BY <2>2 DEF ImportInv, NoneBehind
<1> QED
  BY <1>1, ImportInvariant, PTL

----------------------------------------------------------------------------
(* The replay. A book balances because each position carries what is left of  *)
(* its cost, and a decision ends once because a pending entry, an open        *)
(* position and a row that ended are never of one candidate.                  *)

Stages == {"off", "drain", "manage", "lastDrain", "closeAll", "decisions", "trades", "complete"}
PositionRecord == [qty : Nat \ {0}, basis : Nat, cost : Int, price : Nat, since : Int, proceeds : Int]
PositionMaps == UNION {[D -> PositionRecord] : D \in SUBSET Nat}
BookRecord == [balance : Int, realized : Int, committed : Int, positions : PositionMaps]
DecisionRow == [rejection : Rejections, filledAt : Int, closedAt : Int, reason : Reasons, pnl : Int]
PendingEntry == [stream : Streams, candidate : Nat, decidedAt : Nat]

ReplayShape ==
  /\ run \in {"QUEUED", "RUNNING", "COMPLETED", "FAILED"} /\ stage \in Stages
  /\ clock \in Nat /\ tick \in Nat
  /\ pending \subseteq PendingEntry /\ waiting \subseteq [stream : Streams, candidate : Nat]
  /\ books \in [Streams -> BookRecord] /\ decisions \in [Streams -> Seq(DecisionRow)]

\* The process works on the run it claimed, and the clock follows the window.
StageFits ==
  /\ clock <= tick /\ tick <= WindowTo
  /\ stage # "off" => run = "RUNNING"
  /\ run = "QUEUED" => pending = {}
  /\ stage \in {"manage", "closeAll"} => clock = tick
  /\ stage \in {"lastDrain", "closeAll"} => tick = WindowTo
  /\ \A p \in pending : clock <= p.decidedAt

Returned == stage \in {"decisions", "trades", "complete"} \/ run = "COMPLETED"

\* Every stream has a row for each candidate; at most one entry of it is pending.
RowsFit ==
  /\ \A s, t \in Streams : Len(decisions[s]) = Len(decisions[t])
  /\ \A p \in pending : p.candidate \in 1..Len(decisions[p.stream])
  /\ \A p, q \in pending : p.stream = q.stream /\ p.candidate = q.candidate => p = q
  /\ \A s \in Streams : DOMAIN books[s].positions \subseteq 1..Len(decisions[s])
  /\ stage \in {"manage", "closeAll"} => \A w \in waiting : w.candidate \in DOMAIN books[w.stream].positions

OneFate(a, b, c, d) ==
  /\ a \/ b \/ c \/ d
  /\ ~(a /\ b) /\ ~(a /\ c) /\ ~(a /\ d) /\ ~(b /\ c) /\ ~(b /\ d) /\ ~(c /\ d)

FatesFit ==
  /\ \A s \in Streams : \A c \in 1..Len(decisions[s]) :
       OneFate(IsPending(s, c), decisions[s][c].rejection # "", IsOpen(s, c), decisions[s][c].closedAt # Never)
  /\ stage = "closeAll" \/ Returned => pending = {}
  /\ stage = "closeAll" =>
       \A s \in Streams : \A c \in DOMAIN books[s].positions :
         books[s].positions[c].price = 0 \/ [stream |-> s, candidate |-> c] \in waiting
  /\ Returned => \A s \in Streams : \A c \in DOMAIN books[s].positions : books[s].positions[c].price = 0

\* A position was executed before anything happened to it.
FillsFit ==
  \A s \in Streams :
    /\ \A c \in 1..Len(decisions[s]) :
         /\ TradeOrder(decisions[s][c]) \/ decisions[s][c].filledAt > WindowTo
         /\ decisions[s][c].closedAt = Never => decisions[s][c].pnl = 0
    /\ \A c \in DOMAIN books[s].positions :
         LET since == books[s].positions[c].since
         IN  /\ decisions[s][c].filledAt <= clock + FillDelay
             /\ since # Never => since <= clock /\ decisions[s][c].filledAt <= since + FillDelay

Balanced(account, rows) ==
  /\ account.balance + SumFunction(Basis(account.positions)) = Start + account.realized
  /\ account.committed = SumFunction(Basis(account.positions))
  /\ account.realized = SumFunction(Pnl(rows)) + SumFunction(Gain(account.positions))

ReplayInv == ReplayShape /\ StageFits /\ RowsFit /\ FatesFit /\ FillsFit /\ \A s \in Streams : Balanced(books[s], decisions[s])

LEMMA MapFacts ==
  ASSUME NEW m \in PositionMaps
  PROVE  /\ m = [c \in DOMAIN m |-> m[c]] /\ DOMAIN m \subseteq Nat
         /\ \A c \in DOMAIN m :
              /\ m[c] \in PositionRecord /\ m[c].qty \in Nat \ {0} /\ m[c].basis \in Nat /\ m[c].cost \in Int
              /\ m[c].price \in Nat /\ m[c].since \in Int /\ m[c].proceeds \in Int
<1>1. PICK D \in SUBSET Nat : m \in [D -> PositionRecord]
  BY DEF PositionMaps
<1>2. \A c \in D : m[c] \in PositionRecord
  BY <1>1
<1> QED
  BY <1>1, <1>2 DEF PositionRecord

LEMMA MapIs ==
  ASSUME NEW D \in SUBSET Nat, NEW m \in [D -> PositionRecord]
  PROVE  m \in PositionMaps
BY DEF PositionMaps

\* The sums of a book whose positions are among finitely many rows.
LEMMA BookSums ==
  ASSUME NEW m \in PositionMaps, NEW n \in Nat, DOMAIN m \subseteq 1..n
  PROVE  /\ IsFiniteSet(DOMAIN m)
         /\ DOMAIN Basis(m) = DOMAIN m /\ \A c \in DOMAIN m : Basis(m)[c] = m[c].basis /\ Basis(m)[c] \in Nat
         /\ DOMAIN Gain(m) = DOMAIN m
         /\ \A c \in DOMAIN m : Gain(m)[c] = m[c].proceeds - (m[c].cost - m[c].basis) /\ Gain(m)[c] \in Int
         /\ SumFunction(Basis(m)) \in Nat /\ SumFunction(Gain(m)) \in Int
<1>1. IsFiniteSet(DOMAIN m)
  <2>1. IsFiniteSet(1..n)
    BY FS_Interval
  <2> QED
    BY <2>1, FS_Subset
<1>2. DOMAIN Basis(m) = DOMAIN m /\ \A c \in DOMAIN m : Basis(m)[c] = m[c].basis /\ Basis(m)[c] \in Nat
  BY MapFacts DEF Basis
<1>3. DOMAIN Gain(m) = DOMAIN m
      /\ \A c \in DOMAIN m : Gain(m)[c] = m[c].proceeds - (m[c].cost - m[c].basis) /\ Gain(m)[c] \in Int
  BY MapFacts DEF Gain
<1>4. SumFunction(Basis(m)) \in Nat
  BY <1>1, <1>2, SumType DEF SumFunction
<1>5. SumFunction(Gain(m)) \in Int
  BY <1>1, <1>3, SumIsInt DEF SumFunction
<1> QED
  BY <1>1, <1>2, <1>3, <1>4, <1>5

\* A part of a position takes no more of the cost with it than is left.
LEMMA PartOfBasis ==
  ASSUME NEW p \in PositionRecord, NEW sold \in 1..p.qty
  PROVE  BasisOut(p, sold) \in 0..p.basis
<1>1. p.qty \in Nat \ {0} /\ p.basis \in Nat
  BY DEF PositionRecord
<1> DEFINE b == p.basis
           q == p.qty
<1>2. b \in Nat /\ q \in Nat \ {0} /\ sold \in Nat /\ sold <= q
  BY <1>1
<1> HIDE DEF b, q
<1>3. b * sold \in Nat /\ b * sold <= b * q
  BY <1>2
<1>4. (b * sold) \div q \in 0..b
  <2> DEFINE d == (b * sold) \div q
  <2>1. d \in Int /\ q * d <= b * sold /\ b * sold < q * d + q
    BY <1>2, <1>3
  <2> HIDE DEF d
  <2>2. q * d <= q * b
    BY <1>2, <1>3, <2>1
  <2>3. d <= b
    BY <1>2, <2>1, <2>2
  <2>4. d >= 0
    BY <1>2, <1>3, <2>1
  <2> QED
    BY <1>2, <2>1, <2>3, <2>4 DEF d
<1> QED
  BY <1>1, <1>2, <1>4 DEF BasisOut, b, q

LEMMA PriceIsNatural ==
  ASSUME NEW cost \in Nat, NEW qty \in Nat \ {0}
  PROVE  ImpliedPrice(cost, qty) \in Nat
<1> DEFINE x == 2 * cost + qty
           y == 2 * qty
<1>1. x \in Nat /\ y \in Nat \ {0}
  OBVIOUS
<1> HIDE DEF x, y
<1>2. x \div y \in Nat
  <2> DEFINE d == x \div y
  <2>1. d \in Int /\ x < y * d + y
    BY <1>1
  <2> HIDE DEF d
  <2>2. d >= 0
    BY <1>1, <2>1
  <2> QED
    BY <2>1, <2>2 DEF d
<1> QED
  BY <1>2 DEF ImpliedPrice, x, y

LEMMA RowSums ==
  ASSUME NEW rows \in Seq(DecisionRow)
  PROVE  /\ Len(rows) \in Nat /\ DOMAIN rows = 1..Len(rows)
         /\ \A c \in 1..Len(rows) : rows[c] \in DecisionRow
         /\ DOMAIN Pnl(rows) = 1..Len(rows) /\ IsFiniteSet(1..Len(rows))
         /\ \A c \in 1..Len(rows) : Pnl(rows)[c] = rows[c].pnl /\ Pnl(rows)[c] \in Int
         /\ SumFunction(Pnl(rows)) \in Int
<1>1. Len(rows) \in Nat /\ DOMAIN rows = 1..Len(rows) /\ \A c \in 1..Len(rows) : rows[c] \in DecisionRow
  OBVIOUS
<1>2. \A c \in 1..Len(rows) : rows[c].pnl \in Int
  BY <1>1 DEF DecisionRow
<1>3. DOMAIN Pnl(rows) = 1..Len(rows) /\ \A c \in 1..Len(rows) : Pnl(rows)[c] = rows[c].pnl /\ Pnl(rows)[c] \in Int
  BY <1>1, <1>2 DEF Pnl
<1>4. IsFiniteSet(1..Len(rows))
  BY <1>1, FS_Interval
<1>5. SumFunction(Pnl(rows)) \in Int
  BY <1>3, <1>4, SumIsInt DEF SumFunction
<1> QED
  BY <1>1, <1>3, <1>4, <1>5

\* A row that reports nothing more leaves the report as it was; one that is added reports nothing.
LEMMA SameReport ==
  ASSUME NEW rows \in Seq(DecisionRow), NEW next \in Seq(DecisionRow), Len(next) = Len(rows),
         \A c \in 1..Len(rows) : next[c].pnl = rows[c].pnl
  PROVE  Pnl(next) = Pnl(rows)
BY RowSums DEF Pnl

LEMMA LongerReport ==
  ASSUME NEW rows \in Seq(DecisionRow), NEW row \in DecisionRow, row.pnl = 0
  PROVE  SumFunction(Pnl(Append(rows, row))) = SumFunction(Pnl(rows))
<1> DEFINE next == Append(rows, row)
           n == Len(rows) + 1
<1>1. /\ next \in Seq(DecisionRow) /\ Len(next) = n /\ n \in Nat /\ next[n] = row
      /\ \A c \in 1..Len(rows) : next[c] = rows[c]
  OBVIOUS
<1> DEFINE f == Pnl(rows)
           g == Pnl(next)
<1>2. /\ DOMAIN f = 1..Len(rows) /\ IsFiniteSet(DOMAIN f) /\ SumFunction(f) \in Int /\ Len(rows) \in Nat
      /\ \A c \in DOMAIN f : f[c] = rows[c].pnl /\ f[c] \in Int
  BY RowSums
<1> HIDE DEF next
<1>3. DOMAIN g = 1..n /\ \A c \in 1..n : g[c] = next[c].pnl
  BY <1>1, RowSums
<1>4. /\ DOMAIN g = DOMAIN f \cup {n} /\ n \notin DOMAIN f /\ g[n] = 0 /\ g[n] \in Int
      /\ \A c \in DOMAIN f : g[c] = f[c]
  BY <1>1, <1>2, <1>3
<1> HIDE DEF n, f, g
<1>5. SumFunction(g) = SumFunction(f) + g[n]
  BY <1>2, <1>4, SumWithMore
<1> QED
  BY <1>2, <1>4, <1>5 DEF next, f, g

LEMMA ReportAt ==
  ASSUME NEW rows \in Seq(DecisionRow), NEW next \in Seq(DecisionRow), Len(next) = Len(rows),
         NEW c \in 1..Len(rows), \A x \in 1..Len(rows) : x # c => next[x] = rows[x], rows[c].pnl = 0
  PROVE  SumFunction(Pnl(next)) = SumFunction(Pnl(rows)) + next[c].pnl
<1> DEFINE f == Pnl(rows)
           g == Pnl(next)
<1>1. /\ DOMAIN f = 1..Len(rows) /\ IsFiniteSet(DOMAIN f) /\ SumFunction(f) \in Int
      /\ \A x \in DOMAIN f : f[x] = rows[x].pnl /\ f[x] \in Int
  BY RowSums
<1>2. DOMAIN g = 1..Len(rows) /\ \A x \in 1..Len(rows) : g[x] = next[x].pnl /\ g[x] \in Int
  BY RowSums
<1>3. c \in DOMAIN f /\ DOMAIN g = DOMAIN f /\ f[c] = 0 /\ g[c] \in Int /\ \A x \in DOMAIN f \ {c} : g[x] = f[x]
  BY <1>1, <1>2
<1>4. g[c] = next[c].pnl
  BY <1>2
<1> HIDE DEF f, g
<1>5. SumFunction(g) = SumFunction(f) - f[c] + g[c]
  BY <1>1, <1>3, SumWithChange
<1>6. SumFunction(g) = SumFunction(f) + g[c]
  BY <1>1, <1>3, <1>5
<1> QED
  BY <1>4, <1>6 DEF f, g

LEMMA BookOpens ==
  ASSUME NEW account \in BookRecord, NEW rows \in Seq(DecisionRow), DOMAIN account.positions \subseteq 1..Len(rows),
         Balanced(account, rows), NEW c \in 1..Len(rows), c \notin DOMAIN account.positions,
         NEW cost \in Nat \ {0}, NEW qty \in Nat \ {0}
  PROVE  LET next == Opened(account, c, cost, qty)
         IN  /\ next \in BookRecord /\ Balanced(next, rows)
             /\ DOMAIN next.positions = DOMAIN account.positions \cup {c} /\ next.positions[c].since = Never
             /\ \A x \in DOMAIN account.positions : next.positions[x] = account.positions[x]
<1> DEFINE next == Opened(account, c, cost, qty)
           was == account.positions
           now == [x \in DOMAIN was \cup {c} |-> IF x = c THEN Position(cost, qty) ELSE was[x]]
<1>1. Position(cost, qty) \in PositionRecord
      /\ Position(cost, qty).basis = cost /\ Position(cost, qty).since = Never
      /\ Position(cost, qty).proceeds - (Position(cost, qty).cost - Position(cost, qty).basis) = 0
  <2> DEFINE price == ImpliedPrice(cost, qty)
  <2>1. price \in Nat /\ cost \in Nat /\ cost \in Int /\ Never \in Int
    <3>1. ImpliedPrice(cost, qty) \in Nat
      BY PriceIsNatural
    <3> QED
      BY <3>1 DEF Never
  <2> HIDE DEF price
  <2>2. Position(cost, qty) =
          [qty |-> qty, basis |-> cost, cost |-> cost, price |-> price, since |-> Never, proceeds |-> 0]
    BY DEF Position, price
  <2>3. Position(cost, qty) \in PositionRecord
    BY <2>1, <2>2 DEF PositionRecord
  <2> QED
    BY <2>1, <2>2, <2>3
<1>2. was \in PositionMaps /\ Len(rows) \in Nat
  BY DEF BookRecord
<1>3. next = [account EXCEPT !.balance = account.balance - cost, !.committed = account.committed + cost, !.positions = now]
  BY DEF Opened
<1>4. now \in PositionMaps /\ DOMAIN now \subseteq 1..Len(rows)
  <2>1. DOMAIN was \cup {c} \in SUBSET Nat
    BY <1>2
  <2>2. now \in [DOMAIN was \cup {c} -> PositionRecord]
    BY <1>1, <1>2, MapFacts
  <2> QED
    BY <2>1, <2>2, MapIs
<1>5. DOMAIN now = DOMAIN was \cup {c} /\ now[c] = Position(cost, qty) /\ \A x \in DOMAIN was : now[x] = was[x]
  OBVIOUS
<1> HIDE DEF was, now, next
<1>6. SumFunction(Basis(now)) = SumFunction(Basis(was)) + cost
  <2> DEFINE f == Basis(was)
             g == Basis(now)
  <2>1. /\ IsFiniteSet(DOMAIN f) /\ DOMAIN f = DOMAIN was
        /\ \A x \in DOMAIN f : f[x] = was[x].basis /\ f[x] \in Int
    BY <1>2, BookSums DEF was
  <2>2. DOMAIN g = DOMAIN now /\ \A x \in DOMAIN now : g[x] = now[x].basis
    BY <1>4, <1>2, BookSums
  <2>3. DOMAIN g = DOMAIN f \cup {c} /\ c \notin DOMAIN f /\ g[c] = cost /\ g[c] \in Int /\ \A x \in DOMAIN f : g[x] = f[x]
    BY <1>1, <1>5, <2>1, <2>2 DEF was
  <2> HIDE DEF f, g
  <2>4. SumFunction(g) = SumFunction(f) + g[c]
    BY <2>1, <2>3, SumWithMore
  <2> QED
    BY <2>3, <2>4 DEF f, g
<1>7. SumFunction(Gain(now)) = SumFunction(Gain(was))
  <2> DEFINE f == Gain(was)
             g == Gain(now)
  <2>1. /\ IsFiniteSet(DOMAIN f) /\ DOMAIN f = DOMAIN was
        /\ \A x \in DOMAIN f : f[x] = was[x].proceeds - (was[x].cost - was[x].basis) /\ f[x] \in Int
    BY <1>2, BookSums DEF was
  <2>2. DOMAIN g = DOMAIN now /\ \A x \in DOMAIN now : g[x] = now[x].proceeds - (now[x].cost - now[x].basis)
    BY <1>4, <1>2, BookSums
  <2>3. DOMAIN g = DOMAIN f \cup {c} /\ c \notin DOMAIN f /\ g[c] = 0 /\ g[c] \in Int /\ \A x \in DOMAIN f : g[x] = f[x]
    BY <1>1, <1>5, <2>1, <2>2 DEF was
  <2> HIDE DEF f, g
  <2>4. SumFunction(f) \in Int /\ SumFunction(g) = SumFunction(f) + g[c]
    BY <2>1, <2>3, SumWithMore
  <2> QED
    BY <2>3, <2>4 DEF f, g
<1>8. /\ next \in BookRecord /\ next.balance = account.balance - cost /\ next.committed = account.committed + cost
      /\ next.positions = now /\ next.realized = account.realized
      /\ account.balance \in Int /\ account.committed \in Int /\ account.realized \in Int
  <2> DEFINE bal == account.balance - cost
             com == account.committed + cost
  <2>1. account.balance \in Int /\ account.committed \in Int /\ account.realized \in Int /\ bal \in Int /\ com \in Int
    BY DEF BookRecord
  <2>2. next = [account EXCEPT !.balance = bal, !.committed = com, !.positions = now]
    BY <1>3
  <2> HIDE DEF bal, com
  <2>3. next \in BookRecord /\ next.balance = bal /\ next.committed = com /\ next.positions = now /\ next.realized = account.realized
    BY <1>4, <2>1, <2>2 DEF BookRecord
  <2> QED
    BY <2>1, <2>3 DEF bal, com
<1>9. Balanced(next, rows)
  <2>1. SumFunction(Basis(was)) \in Nat /\ SumFunction(Gain(was)) \in Int /\ SumFunction(Pnl(rows)) \in Int /\ Start \in Nat
    BY <1>2, BookSums, RowSums, ReplayAssumption DEF was
  <2>2. /\ account.balance + SumFunction(Basis(was)) = Start + account.realized
        /\ account.committed = SumFunction(Basis(was))
        /\ account.realized = SumFunction(Pnl(rows)) + SumFunction(Gain(was))
    BY DEF Balanced, was
  <2> QED
    BY <1>6, <1>7, <1>8, <2>1, <2>2 DEF Balanced
<1> QED
  BY <1>1, <1>5, <1>8, <1>9 DEF was, next

LEMMA BookPaid ==
  ASSUME NEW account \in BookRecord, NEW proceeds \in Nat, NEW out \in Nat
  PROVE  LET next == Paid(account, proceeds, out)
         IN  /\ next \in BookRecord /\ next.positions = account.positions
             /\ next.balance = account.balance + proceeds /\ next.realized = account.realized + proceeds - out
             /\ next.committed = IF account.committed > out THEN account.committed - out ELSE 0
<1> DEFINE bal == account.balance + proceeds
           rea == account.realized + proceeds - out
           com == IF account.committed > out THEN account.committed - out ELSE 0
           next == Paid(account, proceeds, out)
<1>1. bal \in Int /\ rea \in Int /\ com \in Int
  BY DEF BookRecord
<1>2. next = [account EXCEPT !.balance = bal, !.realized = rea, !.committed = com]
  BY DEF Paid
<1> HIDE DEF bal, rea, com, next
<1>3. /\ next \in BookRecord /\ next.positions = account.positions /\ next.balance = bal
      /\ next.realized = rea /\ next.committed = com
  BY <1>1, <1>2 DEF BookRecord
<1> QED
  BY <1>3 DEF bal, rea, com, next

\* One position is put in the place of another, or none.
LEMMA SumsMove ==
  ASSUME NEW was \in PositionMaps, NEW now \in PositionMaps, NEW n \in Nat, DOMAIN was \subseteq 1..n,
         NEW c \in DOMAIN was, DOMAIN now = DOMAIN was, \A x \in DOMAIN was : x # c => now[x] = was[x]
  PROVE  /\ SumFunction(Basis(now)) = SumFunction(Basis(was)) - was[c].basis + now[c].basis
         /\ SumFunction(Gain(now)) = SumFunction(Gain(was)) - Gain(was)[c] + Gain(now)[c]
<1>1. SumFunction(Basis(now)) = SumFunction(Basis(was)) - was[c].basis + now[c].basis
  <2> DEFINE f == Basis(was)
             g == Basis(now)
  <2>1. /\ IsFiniteSet(DOMAIN f) /\ DOMAIN f = DOMAIN was
        /\ \A x \in DOMAIN f : f[x] = was[x].basis /\ f[x] \in Int
    BY BookSums
  <2>2. DOMAIN g = DOMAIN now /\ \A x \in DOMAIN now : g[x] = now[x].basis /\ g[x] \in Int
    BY BookSums
  <2>3. c \in DOMAIN f /\ DOMAIN g = DOMAIN f /\ g[c] \in Int /\ \A x \in DOMAIN f \ {c} : g[x] = f[x]
    BY <2>1, <2>2
  <2>4. f[c] = was[c].basis /\ g[c] = now[c].basis
    BY <2>1, <2>2
  <2> HIDE DEF f, g
  <2>5. SumFunction(g) = SumFunction(f) - f[c] + g[c]
    BY <2>1, <2>3, SumWithChange
  <2> QED
    BY <2>4, <2>5 DEF f, g
<1>2. SumFunction(Gain(now)) = SumFunction(Gain(was)) - Gain(was)[c] + Gain(now)[c]
  <2> DEFINE f == Gain(was)
             g == Gain(now)
  <2>1. /\ IsFiniteSet(DOMAIN f) /\ DOMAIN f = DOMAIN was
        /\ \A x \in DOMAIN f : f[x] = was[x].proceeds - (was[x].cost - was[x].basis) /\ f[x] \in Int
    BY BookSums
  <2>2. DOMAIN g = DOMAIN now
        /\ \A x \in DOMAIN now : g[x] = now[x].proceeds - (now[x].cost - now[x].basis) /\ g[x] \in Int
    BY BookSums
  <2>3. c \in DOMAIN f /\ DOMAIN g = DOMAIN f /\ g[c] \in Int /\ \A x \in DOMAIN f \ {c} : g[x] = f[x]
    BY <2>1, <2>2
  <2> HIDE DEF f, g
  <2>4. SumFunction(g) = SumFunction(f) - f[c] + g[c]
    BY <2>1, <2>3, SumWithChange
  <2> QED
    BY <2>4 DEF f, g
<1> QED
  BY <1>1, <1>2

\* What management makes of a book: a position is marked, sold in part, or closed.
Marked(account, c, t) == [account EXCEPT !.positions[c].since = t]
Reduced(account, c, sold, proceeds) ==
  LET p == account.positions[c]
  IN  [Paid(account, proceeds, BasisOut(p, sold)) EXCEPT !.positions[c] = Rest(p, sold, proceeds)]
Closed(account, c, proceeds) ==
  [Paid(account, proceeds, account.positions[c].basis) EXCEPT !.positions = Restrict(@, DOMAIN @ \ {c})]

LEMMA BookMarks ==
  ASSUME NEW account \in BookRecord, NEW rows \in Seq(DecisionRow), DOMAIN account.positions \subseteq 1..Len(rows),
         Balanced(account, rows), NEW c \in DOMAIN account.positions, NEW t \in Int
  PROVE  LET next == Marked(account, c, t)
         IN  /\ next \in BookRecord /\ Balanced(next, rows)
             /\ DOMAIN next.positions = DOMAIN account.positions
             /\ next.positions[c].since = t /\ next.positions[c].price = account.positions[c].price
             /\ \A x \in DOMAIN account.positions : x # c => next.positions[x] = account.positions[x]
<1> DEFINE next == Marked(account, c, t)
           was == account.positions
           new == [was[c] EXCEPT !.since = t]
           now == [was EXCEPT ![c] = new]
<1>1. was \in PositionMaps /\ Len(rows) \in Nat /\ account.balance \in Int /\ account.committed \in Int /\ account.realized \in Int
  BY DEF BookRecord
<1>2. /\ new \in PositionRecord /\ new.basis = was[c].basis /\ new.cost = was[c].cost /\ new.price = was[c].price
      /\ new.proceeds = was[c].proceeds /\ new.since = t
  <2>1. was[c] \in PositionRecord
    BY <1>1, MapFacts
  <2> QED
    BY <2>1 DEF PositionRecord
<1>3. next = [account EXCEPT !.positions = now]
  BY DEF BookRecord, Marked
<1> HIDE DEF new, next
<1>4. now \in PositionMaps /\ DOMAIN now = DOMAIN was /\ now[c] = new /\ \A x \in DOMAIN was : x # c => now[x] = was[x]
  <2>1. now \in [DOMAIN was -> PositionRecord] /\ DOMAIN was \in SUBSET Nat
    BY <1>1, <1>2, MapFacts
  <2> QED
    BY <2>1, MapIs
<1> HIDE DEF was, now
<1>5. next \in BookRecord /\ next.positions = now
      /\ next.balance = account.balance /\ next.committed = account.committed /\ next.realized = account.realized
  BY <1>3, <1>4 DEF BookRecord
<1>6. Basis(now) = Basis(was) /\ Gain(now) = Gain(was)
  <2>1. \A x \in DOMAIN was : now[x].basis = was[x].basis /\ now[x].cost = was[x].cost /\ now[x].proceeds = was[x].proceeds
    BY <1>2, <1>4
  <2> QED
    BY <1>4, <2>1 DEF Basis, Gain
<1>7. Balanced(next, rows)
  BY <1>5, <1>6 DEF Balanced, was
<1> QED
  BY <1>2, <1>4, <1>5, <1>7 DEF was, next

LEMMA BookSellsPart ==
  ASSUME NEW account \in BookRecord, NEW rows \in Seq(DecisionRow), DOMAIN account.positions \subseteq 1..Len(rows),
         Balanced(account, rows), NEW c \in DOMAIN account.positions,
         NEW sold \in Nat \ {0}, sold < account.positions[c].qty, NEW proceeds \in Nat
  PROVE  LET next == Reduced(account, c, sold, proceeds)
         IN  /\ next \in BookRecord /\ Balanced(next, rows)
             /\ DOMAIN next.positions = DOMAIN account.positions
             /\ next.positions[c].since = Never /\ next.positions[c].price = account.positions[c].price
             /\ \A x \in DOMAIN account.positions : x # c => next.positions[x] = account.positions[x]
<1> DEFINE was == account.positions
           p == was[c]
           out == BasisOut(p, sold)
           paid == Paid(account, proceeds, out)
           new == Rest(p, sold, proceeds)
           now == [was EXCEPT ![c] = new]
           next == Reduced(account, c, sold, proceeds)
<1>1. was \in PositionMaps /\ Len(rows) \in Nat /\ account.balance \in Int /\ account.committed \in Int /\ account.realized \in Int
  BY DEF BookRecord
<1>2. p \in PositionRecord /\ p.qty \in Nat \ {0} /\ p.basis \in Nat /\ p.cost \in Int /\ p.proceeds \in Int
  BY <1>1, MapFacts
<1>3. out \in 0..p.basis
  <2>1. sold \in 1..p.qty
    BY <1>2
  <2> QED
    BY <1>2, <2>1, PartOfBasis
<1>4. /\ new \in PositionRecord /\ new.basis = p.basis - out /\ new.cost = p.cost /\ new.price = p.price
      /\ new.proceeds = p.proceeds + proceeds /\ new.since = Never
  <2> DEFINE q == p.qty - sold
             b == p.basis - out
             r == p.proceeds + proceeds
  <2>1. q \in Nat \ {0} /\ b \in Nat /\ r \in Int
    BY <1>2, <1>3
  <2>2. new = [p EXCEPT !.qty = q, !.basis = b, !.proceeds = r, !.since = Never]
    BY DEF Rest
  <2> HIDE DEF q, b, r, p, new
  <2>3. /\ new \in PositionRecord /\ new.basis = b /\ new.cost = p.cost /\ new.price = p.price
        /\ new.proceeds = r /\ new.since = Never
    <3>1. new = [qty |-> q, basis |-> b, cost |-> p.cost, price |-> p.price, since |-> Never, proceeds |-> r]
      BY <1>2, <2>2 DEF PositionRecord
    <3>2. p.cost \in Int /\ p.price \in Nat /\ Never \in Int
      BY <1>2 DEF PositionRecord, Never
    <3> QED
      BY <2>1, <3>1, <3>2 DEF PositionRecord
  <2> QED
    BY <2>3 DEF b, r
<1>5. /\ paid \in BookRecord /\ paid.positions = was
      /\ paid.balance = account.balance + proceeds /\ paid.realized = account.realized + proceeds - out
      /\ paid.committed = IF account.committed > out THEN account.committed - out ELSE 0
  <2>1. out \in Nat
    BY <1>2, <1>3
  <2> HIDE DEF out
  <2> QED
    BY <2>1, BookPaid
<1>0. next = [paid EXCEPT !.positions[c] = new]
  BY DEF Reduced
<1> HIDE DEF p, out, paid, new, next
<1>6. next = [paid EXCEPT !.positions = now]
  BY <1>5, <1>0 DEF BookRecord
<1>7. now \in PositionMaps /\ DOMAIN now = DOMAIN was /\ now[c] = new /\ \A x \in DOMAIN was : x # c => now[x] = was[x]
  <2>1. now \in [DOMAIN was -> PositionRecord] /\ DOMAIN was \in SUBSET Nat
    BY <1>1, <1>4, MapFacts
  <2> QED
    BY <2>1, MapIs
<1> HIDE DEF now
<1>8. next \in BookRecord /\ next.positions = now
      /\ next.balance = paid.balance /\ next.committed = paid.committed /\ next.realized = paid.realized
  BY <1>5, <1>6, <1>7 DEF BookRecord
<1>9. DOMAIN was \subseteq 1..Len(rows) /\ c \in DOMAIN was /\ p = was[c]
  BY DEF p
<1> HIDE DEF was
<1>10. /\ SumFunction(Basis(now)) = SumFunction(Basis(was)) - was[c].basis + now[c].basis
       /\ SumFunction(Gain(now)) = SumFunction(Gain(was)) - Gain(was)[c] + Gain(now)[c]
  BY <1>1, <1>7, <1>9, SumsMove
<1>11. /\ Gain(was)[c] = p.proceeds - (p.cost - p.basis) /\ Gain(now)[c] = new.proceeds - (new.cost - new.basis)
       /\ SumFunction(Basis(was)) \in Nat /\ SumFunction(Gain(was)) \in Int
       /\ SumFunction(Basis(now)) \in Nat /\ SumFunction(Gain(now)) \in Int
       /\ SumFunction(Pnl(rows)) \in Int /\ Start \in Nat
  <2>1. DOMAIN now \subseteq 1..Len(rows)
    BY <1>7, <1>9
  <2> QED
    BY <1>1, <1>7, <1>9, <2>1, BookSums, RowSums, ReplayAssumption
<1>12. /\ account.balance + SumFunction(Basis(was)) = Start + account.realized
       /\ account.committed = SumFunction(Basis(was))
       /\ account.realized = SumFunction(Pnl(rows)) + SumFunction(Gain(was))
  BY DEF Balanced, was
<1>13. Balanced(next, rows)
  <2>1. SumFunction(Basis(now)) = SumFunction(Basis(was)) - out
    BY <1>2, <1>3, <1>4, <1>7, <1>9, <1>10, <1>11
  <2>2. SumFunction(Gain(now)) = SumFunction(Gain(was)) + proceeds - out
    <3> DEFINE x == Gain(was)[c]
               y == Gain(now)[c]
    <3>1. out \in Int /\ x = p.proceeds - (p.cost - p.basis)
          /\ y = (p.proceeds + proceeds) - (p.cost - (p.basis - out))
      BY <1>2, <1>3, <1>4, <1>11
    <3>3. x \in Int /\ y = x + proceeds - out
      BY <1>2, <3>1
    <3>2. SumFunction(Gain(now)) = SumFunction(Gain(was)) - x + y
      BY <1>10
    <3> HIDE DEF x, y
    <3> QED
      BY <1>11, <3>1, <3>2, <3>3
  <2>3. next.committed = SumFunction(Basis(now))
    BY <1>1, <1>3, <1>5, <1>8, <1>11, <1>12, <2>1
  <2>4. next.balance + SumFunction(Basis(now)) = Start + next.realized
    <3> DEFINE x == SumFunction(Basis(was))
               bal == account.balance
               rea == account.realized
    <3>1. x \in Int /\ bal \in Int /\ rea \in Int /\ Start \in Int
      BY <1>1, <1>11
    <3>2. out \in Int
      BY <1>2, <1>3
    <3>3. bal + x = Start + rea
      BY <1>12
    <3>4. next.balance = bal + proceeds /\ next.realized = rea + proceeds - out
      BY <1>5, <1>8
    <3>5. SumFunction(Basis(now)) = x - out
      BY <2>1
    <3> HIDE DEF x, bal, rea
    <3>6. (bal + proceeds) + (x - out) = Start + (rea + proceeds - out)
      BY <3>1, <3>2, <3>3
    <3> QED
      BY <3>4, <3>5, <3>6
  <2>5. next.realized = SumFunction(Pnl(rows)) + SumFunction(Gain(now))
    BY <1>1, <1>2, <1>3, <1>5, <1>8, <1>11, <1>12, <2>2
  <2> QED
    BY <1>8, <2>3, <2>4, <2>5 DEF Balanced
<1> QED
  BY <1>4, <1>7, <1>8, <1>13 DEF was, p, next, paid, out, new

LEMMA BookCloses ==
  ASSUME NEW account \in BookRecord, NEW rows \in Seq(DecisionRow), DOMAIN account.positions \subseteq 1..Len(rows),
         Balanced(account, rows), NEW c \in DOMAIN account.positions, NEW proceeds \in Nat, NEW after \in Seq(DecisionRow),
         SumFunction(Pnl(after)) =
           SumFunction(Pnl(rows)) + (account.positions[c].proceeds + proceeds - account.positions[c].cost)
  PROVE  LET next == Closed(account, c, proceeds)
         IN  /\ next \in BookRecord /\ Balanced(next, after)
             /\ DOMAIN next.positions = DOMAIN account.positions \ {c}
             /\ \A x \in DOMAIN account.positions : x # c => next.positions[x] = account.positions[x]
<1> DEFINE was == account.positions
           p == was[c]
           out == p.basis
           paid == Paid(account, proceeds, out)
           now == Restrict(was, DOMAIN was \ {c})
           next == Closed(account, c, proceeds)
<1>1. was \in PositionMaps /\ Len(rows) \in Nat /\ account.balance \in Int /\ account.committed \in Int /\ account.realized \in Int
  BY DEF BookRecord
<1>2. p \in PositionRecord /\ p.basis \in Nat /\ p.cost \in Int /\ p.proceeds \in Int /\ out \in Nat
  BY <1>1, MapFacts
<1>3. /\ paid \in BookRecord /\ paid.positions = was
      /\ paid.balance = account.balance + proceeds /\ paid.realized = account.realized + proceeds - out
      /\ paid.committed = IF account.committed > out THEN account.committed - out ELSE 0
  <2> HIDE DEF out
  <2> QED
    BY <1>2, BookPaid
<1>0. next = [paid EXCEPT !.positions = Restrict(@, DOMAIN @ \ {c})]
  BY DEF Closed
<1> HIDE DEF paid, next
<1>4. next = [paid EXCEPT !.positions = now]
  BY <1>0, <1>3 DEF BookRecord
<1>5. now \in PositionMaps /\ DOMAIN now = DOMAIN was \ {c} /\ \A x \in DOMAIN was \ {c} : now[x] = was[x]
  <2>1. now \in [DOMAIN was \ {c} -> PositionRecord] /\ DOMAIN was \ {c} \in SUBSET Nat
    BY <1>1, MapFacts DEF Restrict
  <2>2. now \in PositionMaps
    BY <2>1, MapIs
  <2> QED
    BY <2>2 DEF Restrict
<1> HIDE DEF now
<1>6. next \in BookRecord /\ next.positions = now
      /\ next.balance = paid.balance /\ next.committed = paid.committed /\ next.realized = paid.realized
  BY <1>3, <1>4, <1>5 DEF BookRecord
<1>7. DOMAIN was \subseteq 1..Len(rows) /\ c \in DOMAIN was /\ p = was[c] /\ out = was[c].basis
  BY DEF p, out
<1> HIDE DEF was
<1>8. SumFunction(Basis(now)) = SumFunction(Basis(was)) - out
  <2> DEFINE f == Basis(was)
             g == Basis(now)
  <2>1. /\ IsFiniteSet(DOMAIN f) /\ DOMAIN f = DOMAIN was
        /\ \A x \in DOMAIN f : f[x] = was[x].basis /\ f[x] \in Int
    BY <1>1, <1>7, BookSums
  <2>2. DOMAIN g = DOMAIN f \ {c} /\ \A x \in DOMAIN g : g[x] = f[x]
    BY <1>5, <2>1 DEF Basis
  <2>3. c \in DOMAIN f /\ f[c] = out
    BY <1>7, <2>1
  <2> HIDE DEF f, g
  <2>4. SumFunction(g) = SumFunction(f) - f[c]
    BY <2>1, <2>2, <2>3, SumWithLess
  <2> QED
    BY <2>3, <2>4 DEF f, g
<1>9. SumFunction(Gain(now)) = SumFunction(Gain(was)) - (p.proceeds - (p.cost - out))
  <2> DEFINE f == Gain(was)
             g == Gain(now)
  <2>1. /\ IsFiniteSet(DOMAIN f) /\ DOMAIN f = DOMAIN was
        /\ \A x \in DOMAIN f : f[x] = was[x].proceeds - (was[x].cost - was[x].basis) /\ f[x] \in Int
    BY <1>1, <1>7, BookSums
  <2>2. DOMAIN g = DOMAIN f \ {c} /\ \A x \in DOMAIN g : g[x] = f[x]
    BY <1>5, <2>1 DEF Gain
  <2>3. c \in DOMAIN f /\ f[c] = p.proceeds - (p.cost - out)
    BY <1>7, <2>1
  <2> HIDE DEF f, g
  <2>4. SumFunction(g) = SumFunction(f) - f[c]
    BY <2>1, <2>2, <2>3, SumWithLess
  <2> QED
    BY <2>3, <2>4 DEF f, g
<1>10. SumFunction(Basis(was)) \in Nat /\ SumFunction(Gain(was)) \in Int /\ SumFunction(Pnl(rows)) \in Int /\ Start \in Int
       /\ SumFunction(Basis(now)) \in Nat
  <2>1. DOMAIN now \subseteq 1..Len(rows)
    BY <1>5, <1>7
  <2> QED
    BY <1>1, <1>5, <1>7, <2>1, BookSums, RowSums, ReplayAssumption
<1>11. /\ account.balance + SumFunction(Basis(was)) = Start + account.realized
       /\ account.committed = SumFunction(Basis(was))
       /\ account.realized = SumFunction(Pnl(rows)) + SumFunction(Gain(was))
       /\ SumFunction(Pnl(after)) = SumFunction(Pnl(rows)) + (p.proceeds + proceeds - p.cost)
  BY DEF Balanced, was, p
<1>12. Balanced(next, after)
  <2> DEFINE x == SumFunction(Basis(was))
             y == SumFunction(Gain(was))
             z == SumFunction(Pnl(rows))
             bal == account.balance
             rea == account.realized
             got == p.proceeds
             cost == p.cost
  <2>1. x \in Nat /\ y \in Int /\ z \in Int /\ bal \in Int /\ rea \in Int /\ got \in Int /\ cost \in Int /\ out \in Nat
        /\ Start \in Int /\ SumFunction(Basis(now)) \in Nat
    BY <1>1, <1>2, <1>10
  <2>2. /\ bal + x = Start + rea /\ account.committed = x /\ rea = z + y
        /\ SumFunction(Pnl(after)) = z + (got + proceeds - cost)
        /\ SumFunction(Basis(now)) = x - out /\ SumFunction(Gain(now)) = y - (got - (cost - out))
    BY <1>8, <1>9, <1>11
  <2>3. /\ next.balance = bal + proceeds /\ next.realized = rea + proceeds - out
        /\ next.committed = IF account.committed > out THEN account.committed - out ELSE 0
    BY <1>3, <1>6
  <2> HIDE DEF x, y, z, bal, rea, got, cost, out
  <2>4. next.committed = x - out
    BY <2>1, <2>2, <2>3
  <2>5. (bal + proceeds) + (x - out) = Start + (rea + proceeds - out)
    <3>1. x \in Int /\ bal \in Int /\ rea \in Int /\ out \in Int /\ Start \in Int
      BY <2>1
    <3>2. bal + x = Start + rea
      BY <2>2
    <3> QED
      BY <3>1, <3>2
  <2>6. rea + proceeds - out = (z + (got + proceeds - cost)) + (y - (got - (cost - out)))
    <3>1. (z + (got + proceeds - cost)) + (y - (got - (cost - out))) = (z + y) + proceeds - out
      BY <2>1
    <3> QED
      BY <2>2, <3>1
  <2> QED
    BY <1>6, <2>2, <2>3, <2>4, <2>5, <2>6 DEF Balanced
<1> QED
  BY <1>5, <1>6, <1>12 DEF was, p, next, paid, out

----------------------------------------------------------------------------
(* The steps of a run.                                                      *)

LEMMA ReplayFacts ==
  ASSUME ReplayInv, NEW s \in Streams
  PROVE  /\ books[s] \in BookRecord /\ books[s].positions \in PositionMaps
         /\ decisions[s] \in Seq(DecisionRow) /\ Len(decisions[s]) \in Nat /\ DOMAIN decisions[s] = 1..Len(decisions[s])
         /\ \A c \in 1..Len(decisions[s]) : decisions[s][c] \in DecisionRow
         /\ DOMAIN books[s].positions \subseteq 1..Len(decisions[s])
         /\ Balanced(books[s], decisions[s])
         /\ clock \in Nat /\ tick \in Nat /\ FillDelay \in Nat /\ WindowTo \in Nat /\ UnquotableAfter \in Nat \ {0}
<1>1. books[s] \in BookRecord /\ decisions[s] \in Seq(DecisionRow) /\ clock \in Nat /\ tick \in Nat
  BY DEF ReplayInv, ReplayShape
<1> QED
  BY <1>1, ReplayAssumption DEF ReplayInv, RowsFit, BookRecord

LEMMA ReplayStart == ReplayInit => ReplayInv
<1> SUFFICES ASSUME ReplayInit PROVE ReplayInv
  OBVIOUS
<1> DEFINE account == [balance |-> Start, realized |-> 0, committed |-> 0, positions |-> NoPositions]
<1>1. NoPositions \in PositionMaps /\ DOMAIN NoPositions = {}
  <2>1. NoPositions \in [{} -> PositionRecord] /\ {} \in SUBSET Nat
    BY DEF NoPositions
  <2> QED
    BY <2>1, MapIs
<1>2. account \in BookRecord
  BY <1>1, ReplayAssumption DEF BookRecord
<1>3. Balanced(account, <<>>)
  <2>1. SumFunction(Basis(NoPositions)) = 0 /\ SumFunction(Gain(NoPositions)) = 0
    BY <1>1, SumOfNone DEF SumFunction, Basis, Gain
  <2>2. SumFunction(Pnl(<<>>)) = 0
    <3>1. DOMAIN Pnl(<<>>) = {}
      BY DEF Pnl
    <3> QED
      BY <3>1, SumOfNone DEF SumFunction
  <2> QED
    BY <2>1, <2>2, ReplayAssumption DEF Balanced
<1> HIDE DEF account
<1>4. /\ run = "QUEUED" /\ stage = "off" /\ clock = 0 /\ tick = 0 /\ pending = {} /\ waiting = {}
      /\ books = [s \in Streams |-> account] /\ decisions = [s \in Streams |-> <<>>]
  BY DEF ReplayInit, account
<1>5. \A s \in Streams : books[s] = account /\ decisions[s] = <<>> /\ Len(decisions[s]) = 0 /\ books[s].positions = NoPositions
  BY <1>4 DEF account
<1>6. ReplayShape
  BY <1>2, <1>4 DEF ReplayShape, Stages
<1>7. StageFits
  BY <1>4, ReplayAssumption DEF StageFits
<1>8. RowsFit
  BY <1>1, <1>4, <1>5 DEF RowsFit
<1>9. FatesFit
  BY <1>1, <1>4, <1>5 DEF FatesFit, Returned
<1>10. FillsFit
  BY <1>1, <1>4, <1>5 DEF FillsFit
<1> QED
  BY <1>3, <1>5, <1>6, <1>7, <1>8, <1>9, <1>10 DEF ReplayInv

\* A step about one candidate of one stream: what it may do to the clock and to what is
\* queued, what it leaves of the books and the rows, and what becomes of the candidate.
QueueMoves(s, c) ==
  /\ stage \in {"drain", "manage", "lastDrain", "closeAll"} /\ UNCHANGED <<run, stage, tick>>
  /\ clock' \in Nat /\ clock <= clock' /\ clock' <= tick
  /\ pending' \subseteq pending /\ \A p \in pending' : clock' <= p.decidedAt
  /\ \A p \in pending : p \in pending' \/ (p.stream = s /\ p.candidate = c)
  /\ waiting' \subseteq waiting
  /\ stage \in {"manage", "closeAll"} =>
       clock' = clock /\ waiting' = waiting \ {[stream |-> s, candidate |-> c]}

OthersKept(s, c) ==
  /\ books' \in [Streams -> BookRecord] /\ decisions' \in [Streams -> Seq(DecisionRow)]
  /\ \A t \in Streams : t # s => books'[t] = books[t] /\ decisions'[t] = decisions[t]
  /\ Len(decisions'[s]) = Len(decisions[s])
  /\ \A x \in 1..Len(decisions[s]) : x # c => decisions'[s][x] = decisions[s][x]
  /\ \A x : x # c => (x \in DOMAIN books'[s].positions <=> x \in DOMAIN books[s].positions)
  /\ \A x \in DOMAIN books[s].positions : x # c => books'[s].positions[x] = books[s].positions[x]

RowEnds(s, c) ==
  /\ OneFate(\E p \in pending' : p.stream = s /\ p.candidate = c, decisions'[s][c].rejection # "",
             c \in DOMAIN books'[s].positions, decisions'[s][c].closedAt # Never)
  /\ TradeOrder(decisions'[s][c]) \/ decisions'[s][c].filledAt > WindowTo
  /\ decisions'[s][c].closedAt = Never => decisions'[s][c].pnl = 0

HoldingFits(s, c) ==
  c \in DOMAIN books'[s].positions =>
    /\ decisions'[s][c].filledAt <= clock' + FillDelay
    /\ books'[s].positions[c].since # Never =>
         /\ books'[s].positions[c].since <= clock'
         /\ decisions'[s][c].filledAt <= books'[s].positions[c].since + FillDelay
    /\ stage = "closeAll" => books'[s].positions[c].price = 0

LEMMA OneCandidate ==
  ASSUME ReplayInv, NEW s \in Streams, NEW c \in 1..Len(decisions[s]), QueueMoves(s, c), OthersKept(s, c),
         RowEnds(s, c), HoldingFits(s, c), Balanced(books'[s], decisions'[s])
  PROVE  ReplayInv'
<1>1. /\ ReplayShape /\ StageFits /\ RowsFit /\ FatesFit /\ FillsFit
      /\ \A t \in Streams : Balanced(books[t], decisions[t])
  BY DEF ReplayInv
<1>0. clock \in Int /\ clock' \in Int /\ FillDelay \in Int /\ clock <= clock'
  BY ReplayFacts DEF QueueMoves
<1>13. \A x, y, z, d \in Int : x <= y + d /\ y <= z => x <= z + d
  OBVIOUS
<1>2. ~Returned /\ ~Returned' /\ run # "QUEUED"
  BY <1>1 DEF StageFits, Returned, QueueMoves
<1>3. \A t \in Streams : /\ Len(decisions'[t]) = Len(decisions[t]) /\ Len(decisions[t]) \in Nat
                         /\ DOMAIN books[t].positions \subseteq 1..Len(decisions[t])
  BY ReplayFacts DEF OthersKept
<1>4. \A t \in Streams : \A x \in 1..Len(decisions[t]) :
        (t = s /\ x = c) \/ decisions'[t][x] = decisions[t][x]
  BY <1>3 DEF OthersKept
<1>5. \A t \in Streams : \A x :
        (t = s /\ x = c) \/ ((x \in DOMAIN books'[t].positions <=> x \in DOMAIN books[t].positions)
                              /\ (x \in DOMAIN books[t].positions => books'[t].positions[x] = books[t].positions[x]))
  BY DEF OthersKept
<1>6. ReplayShape'
  BY <1>1 DEF ReplayShape, QueueMoves, OthersKept
<1>7. StageFits'
  BY <1>0, <1>1, <1>2 DEF StageFits, QueueMoves
<1>8. RowsFit'
  <2>1. \A t, u \in Streams : Len(decisions'[t]) = Len(decisions'[u])
    BY <1>1, <1>3 DEF RowsFit
  <2>2. \A p \in pending' : p.candidate \in 1..Len(decisions'[p.stream])
    <3> SUFFICES ASSUME NEW p \in pending' PROVE p.candidate \in 1..Len(decisions'[p.stream])
      OBVIOUS
    <3>1. p \in pending /\ p.stream \in Streams
      BY <1>1 DEF ReplayShape, PendingEntry, QueueMoves
    <3> QED
      BY <1>1, <1>3, <3>1 DEF RowsFit
  <2>3. \A p, q \in pending' : p.stream = q.stream /\ p.candidate = q.candidate => p = q
    BY <1>1 DEF RowsFit, QueueMoves
  <2>4. \A t \in Streams : DOMAIN books'[t].positions \subseteq 1..Len(decisions'[t])
    BY <1>3, <1>5
  <2>5. ASSUME stage \in {"manage", "closeAll"}, NEW w \in waiting' PROVE w.candidate \in DOMAIN books'[w.stream].positions
    <3>1. /\ w \in waiting /\ w # [stream |-> s, candidate |-> c] /\ w.stream \in Streams
          /\ w = [stream |-> w.stream, candidate |-> w.candidate]
      BY <1>1, <2>5 DEF ReplayShape, QueueMoves
    <3>2. w.candidate \in DOMAIN books[w.stream].positions
      BY <1>1, <2>5, <3>1 DEF RowsFit
    <3>3. ~(w.stream = s /\ w.candidate = c)
      BY <3>1
    <3> QED
      BY <1>5, <3>1, <3>2, <3>3
  <2> QED
    BY <2>1, <2>2, <2>3, <2>4, <2>5 DEF RowsFit, QueueMoves
<1>9. FatesFit'
  <2>1. ASSUME NEW t \in Streams, NEW x \in 1..Len(decisions[t])
        PROVE  OneFate(\E p \in pending' : p.stream = t /\ p.candidate = x, decisions'[t][x].rejection # "",
                       x \in DOMAIN books'[t].positions, decisions'[t][x].closedAt # Never)
    <3>1. CASE t = s /\ x = c
      BY <3>1 DEF RowEnds
    <3>2. CASE ~(t = s /\ x = c)
      <4>1. (\E p \in pending' : p.stream = t /\ p.candidate = x) <=> (\E p \in pending : p.stream = t /\ p.candidate = x)
        BY <3>2 DEF QueueMoves
      <4>2. OneFate(\E p \in pending : p.stream = t /\ p.candidate = x, decisions[t][x].rejection # "",
                    x \in DOMAIN books[t].positions, decisions[t][x].closedAt # Never)
        BY <1>1 DEF FatesFit, IsPending, IsOpen
      <4>3. decisions'[t][x] = decisions[t][x] /\ (x \in DOMAIN books'[t].positions <=> x \in DOMAIN books[t].positions)
        BY <1>4, <1>5, <3>2
      <4> QED
        BY <4>1, <4>2, <4>3 DEF OneFate
    <3> QED
      BY <3>1, <3>2
  <2>2. \A t \in Streams : \A x \in 1..Len(decisions'[t]) :
          OneFate(\E p \in pending' : p.stream = t /\ p.candidate = x, decisions'[t][x].rejection # "",
                  x \in DOMAIN books'[t].positions, decisions'[t][x].closedAt # Never)
    BY <1>3, <2>1
  <2>3. stage = "closeAll" => pending' = {}
    BY <1>1 DEF FatesFit, QueueMoves
  <2>4. ASSUME stage = "closeAll", NEW t \in Streams, NEW x \in DOMAIN books'[t].positions
        PROVE  books'[t].positions[x].price = 0 \/ [stream |-> t, candidate |-> x] \in waiting'
    <3>1. CASE t = s /\ x = c
      BY <2>4, <3>1 DEF HoldingFits
    <3>2. CASE ~(t = s /\ x = c)
      <4>1. x \in DOMAIN books[t].positions /\ books'[t].positions[x] = books[t].positions[x]
        BY <1>5, <3>2
      <4>2. books[t].positions[x].price = 0 \/ [stream |-> t, candidate |-> x] \in waiting
        BY <1>1, <2>4, <4>1 DEF FatesFit
      <4>3. [stream |-> t, candidate |-> x] # [stream |-> s, candidate |-> c]
        BY <3>2
      <4> QED
        BY <2>4, <4>1, <4>2, <4>3 DEF QueueMoves
    <3> QED
      BY <3>1, <3>2
  <2> QED
    BY <1>2, <2>2, <2>3, <2>4 DEF FatesFit, IsPending, IsOpen, QueueMoves
<1>10. FillsFit'
  <2>1. ASSUME NEW t \in Streams, NEW x \in 1..Len(decisions'[t])
        PROVE  /\ TradeOrder(decisions'[t][x]) \/ decisions'[t][x].filledAt > WindowTo
               /\ decisions'[t][x].closedAt = Never => decisions'[t][x].pnl = 0
    <3>1. CASE t = s /\ x = c
      BY <3>1 DEF RowEnds
    <3>2. CASE ~(t = s /\ x = c)
      <4>1. x \in 1..Len(decisions[t])
        BY <1>3
      <4>2. decisions'[t][x] = decisions[t][x]
        BY <1>4, <3>2, <4>1
      <4>3. /\ TradeOrder(decisions[t][x]) \/ decisions[t][x].filledAt > WindowTo
            /\ decisions[t][x].closedAt = Never => decisions[t][x].pnl = 0
        BY <1>1, <4>1 DEF FillsFit
      <4> QED
        BY <4>2, <4>3 DEF TradeOrder
    <3> QED
      BY <3>1, <3>2
  <2>2. ASSUME NEW t \in Streams, NEW x \in DOMAIN books'[t].positions
        PROVE  /\ decisions'[t][x].filledAt <= clock' + FillDelay
               /\ books'[t].positions[x].since # Never =>
                    /\ books'[t].positions[x].since <= clock'
                    /\ decisions'[t][x].filledAt <= books'[t].positions[x].since + FillDelay
    <3>1. CASE t = s /\ x = c
      BY <3>1 DEF HoldingFits
    <3>2. CASE ~(t = s /\ x = c)
      <4>1. x \in DOMAIN books[t].positions /\ books'[t].positions[x] = books[t].positions[x]
        BY <1>5, <3>2
      <4>2. x \in 1..Len(decisions[t]) /\ decisions'[t][x] = decisions[t][x]
        BY <1>3, <1>4, <3>2, <4>1
      <4>3. /\ decisions[t][x].filledAt <= clock + FillDelay
            /\ books[t].positions[x].since # Never =>
                 /\ books[t].positions[x].since <= clock
                 /\ decisions[t][x].filledAt <= books[t].positions[x].since + FillDelay
        BY <1>1, <4>1 DEF FillsFit
      <4>4. /\ decisions[t][x].filledAt \in Int /\ books[t].positions[x].since \in Int /\ clock \in Nat
            /\ FillDelay \in Nat
        <5>1. decisions[t][x] \in DecisionRow /\ books[t].positions \in PositionMaps
          BY <4>2, ReplayFacts
        <5> QED
          BY <4>1, <5>1, MapFacts, ReplayFacts DEF DecisionRow
      <4> DEFINE f == decisions[t][x].filledAt
                 a == books[t].positions[x].since
      <4>5. /\ f \in Int /\ a \in Int /\ f <= clock + FillDelay
            /\ a # Never => a <= clock /\ f <= a + FillDelay
        BY <4>3, <4>4
      <4>6. decisions'[t][x].filledAt = f /\ books'[t].positions[x].since = a
        BY <4>1, <4>2
      <4> HIDE DEF f, a
      <4>8. f <= clock' + FillDelay
        BY <1>0, <1>13, <4>5
      <4>7. ASSUME a # Never PROVE a <= clock' /\ f <= a + FillDelay
        <5>1. a <= clock /\ f <= a + FillDelay /\ a \in Int
          BY <4>5, <4>7
        <5>2. a <= clock'
          BY <1>0, <5>1
        <5> QED
          BY <5>1, <5>2
      <4> QED
        BY <4>6, <4>7, <4>8
    <3> QED
      BY <3>1, <3>2
  <2> QED
    BY <2>1, <2>2 DEF FillsFit
<1>11. \A t \in Streams : Balanced(books'[t], decisions'[t])
  BY <1>1 DEF OthersKept
<1>12. \A t \in Streams : Balanced(books[t], decisions[t])'
  BY <1>11 DEF Balanced
<1> QED
  BY <1>6, <1>7, <1>8, <1>9, <1>10, <1>12 DEF ReplayInv

\* One row of a stream is written, and one of its positions.
LEMMA RowWritten ==
  ASSUME ReplayInv, NEW s \in Streams, NEW c \in 1..Len(decisions[s]),
         decisions' = [decisions EXCEPT ![s] = [decisions[s] EXCEPT ![c] = decisions'[s][c]]],
         decisions'[s][c] \in DecisionRow
  PROVE  /\ decisions' \in [Streams -> Seq(DecisionRow)] /\ Len(decisions'[s]) = Len(decisions[s])
         /\ \A t \in Streams : t # s => decisions'[t] = decisions[t]
         /\ \A x \in 1..Len(decisions[s]) : x # c => decisions'[s][x] = decisions[s][x]
<1> DEFINE rows == [decisions[s] EXCEPT ![c] = decisions'[s][c]]
<1>1. decisions \in [Streams -> Seq(DecisionRow)] /\ decisions[s] \in Seq(DecisionRow)
  BY DEF ReplayInv, ReplayShape
<1>2. rows \in Seq(DecisionRow) /\ Len(rows) = Len(decisions[s])
      /\ \A x \in 1..Len(decisions[s]) : x # c => rows[x] = decisions[s][x]
  BY <1>1
<1>3. decisions' = [decisions EXCEPT ![s] = rows]
  OBVIOUS
<1> HIDE DEF rows
<1> QED
  BY <1>1, <1>2, <1>3

LEMMA SameBalance ==
  ASSUME ReplayInv, NEW s \in Streams, NEW c \in 1..Len(decisions[s]),
         decisions' = [decisions EXCEPT ![s] = [decisions[s] EXCEPT ![c] = decisions'[s][c]]],
         decisions'[s][c] \in DecisionRow, decisions'[s][c].pnl = decisions[s][c].pnl,
         Balanced(books'[s], decisions[s])
  PROVE  Balanced(books'[s], decisions'[s])
<1>1. /\ decisions[s] \in Seq(DecisionRow) /\ decisions'[s] \in Seq(DecisionRow)
      /\ Len(decisions'[s]) = Len(decisions[s])
      /\ \A x \in 1..Len(decisions[s]) : decisions'[s][x].pnl = decisions[s][x].pnl
  BY RowWritten, ReplayFacts
<1>2. Pnl(decisions'[s]) = Pnl(decisions[s])
  BY <1>1, SameReport
<1> QED
  BY <1>2 DEF Balanced

LEMMA Written ==
  ASSUME ReplayInv, NEW s \in Streams, NEW c \in 1..Len(decisions[s]),
         decisions' = [decisions EXCEPT ![s] = [decisions[s] EXCEPT ![c] = decisions'[s][c]]],
         decisions'[s][c] \in DecisionRow,
         books' = [books EXCEPT ![s] = books'[s]], books'[s] \in BookRecord,
         \A x : x # c => (x \in DOMAIN books'[s].positions <=> x \in DOMAIN books[s].positions),
         \A x \in DOMAIN books[s].positions : x # c => books'[s].positions[x] = books[s].positions[x]
  PROVE  OthersKept(s, c)
<1>1. books \in [Streams -> BookRecord]
  BY DEF ReplayInv, ReplayShape
<1>2. books' \in [Streams -> BookRecord] /\ \A t \in Streams : t # s => books'[t] = books[t]
  BY <1>1
<1>3. /\ decisions' \in [Streams -> Seq(DecisionRow)] /\ Len(decisions'[s]) = Len(decisions[s])
      /\ \A t \in Streams : t # s => decisions'[t] = decisions[t]
      /\ \A x \in 1..Len(decisions[s]) : x # c => decisions'[s][x] = decisions[s][x]
  BY RowWritten
<1> QED
  BY <1>2, <1>3 DEF OthersKept

LEMMA ReplayExecutes == ASSUME ReplayInv, ExecuteEntry PROVE ReplayInv'
<1>1. PICK p \in Foremost :
        /\ p.decidedAt >= clock /\ clock' = p.decidedAt /\ pending' = pending \ {p}
        /\ \/ Reject(p.stream, p.candidate, "REFUSED") /\ UNCHANGED books
           \/ \E cost \in Affordable(books[p.stream]), qty \in Lots :
                /\ books' = [books EXCEPT ![p.stream] = Opened(@, p.candidate, cost, qty)]
                /\ decisions' = [decisions EXCEPT ![p.stream][p.candidate].filledAt = p.decidedAt + FillDelay]
  BY DEF ExecuteEntry
<1>2. stage \in {"drain", "lastDrain"} /\ UNCHANGED <<run, stage, tick, waiting>>
  BY DEF ExecuteEntry, Draining
<1> DEFINE s == p.stream
           c == p.candidate
<1>3. p \in pending /\ p \in PendingEntry /\ s \in Streams /\ c \in Nat /\ p.decidedAt \in Nat /\ p.decidedAt <= tick
  BY DEF Foremost, Due, ReplayInv, ReplayShape, PendingEntry
<1>4. c \in 1..Len(decisions[s]) /\ \A q \in pending : q.stream = s /\ q.candidate = c => q = p
  BY <1>3 DEF ReplayInv, RowsFit
<1>5. \A q \in pending' : clock' <= q.decidedAt
  <2> SUFFICES ASSUME NEW q \in pending' PROVE p.decidedAt <= q.decidedAt
    BY <1>1
  <2>1. q \in pending /\ q.decidedAt \in Nat /\ tick \in Nat
    BY <1>1 DEF ReplayInv, ReplayShape, PendingEntry
  <2>2. CASE q \in Due
    BY <1>3, <2>1, <2>2 DEF Foremost, Before
  <2>3. CASE q \notin Due
    BY <1>3, <2>1, <2>3 DEF Due
  <2> QED
    BY <2>2, <2>3
<1>6. QueueMoves(s, c)
  BY <1>1, <1>2, <1>3, <1>5 DEF QueueMoves
<1>7. /\ decisions[s][c].rejection = "" /\ c \notin DOMAIN books[s].positions /\ decisions[s][c].closedAt = Never
      /\ decisions[s][c].pnl = 0
  <2>1. IsPending(s, c)
    BY <1>3 DEF IsPending
  <2> QED
    BY <1>3, <1>4, <2>1 DEF ReplayInv, FatesFit, OneFate, IsOpen, FillsFit
<1>8. ~\E q \in pending' : q.stream = s /\ q.candidate = c
  BY <1>1, <1>4
<1>9. /\ decisions \in [Streams -> Seq(DecisionRow)] /\ books \in [Streams -> BookRecord]
      /\ decisions[s] \in Seq(DecisionRow) /\ decisions[s][c] \in DecisionRow /\ books[s] \in BookRecord
      /\ DOMAIN books[s].positions \subseteq 1..Len(decisions[s]) /\ Balanced(books[s], decisions[s])
  BY <1>3, <1>4, ReplayFacts DEF ReplayInv, ReplayShape
<1> HIDE DEF s, c
<1>10. CASE Reject(s, c, "REFUSED") /\ UNCHANGED books
  <2> DEFINE row == [decisions[s][c] EXCEPT !.rejection = "REFUSED"]
  <2>1. /\ row \in DecisionRow /\ row.rejection # "" /\ row.closedAt = Never /\ row.pnl = decisions[s][c].pnl
        /\ row.filledAt = decisions[s][c].filledAt
    BY <1>7, <1>9 DEF DecisionRow, Rejections
  <2>2. decisions' = [decisions EXCEPT ![s] = [decisions[s] EXCEPT ![c] = row]]
    BY <1>3, <1>4, <1>9, <1>10 DEF Reject, DecisionRow
  <2> HIDE DEF row
  <2>3. decisions'[s][c] = row
    BY <1>3, <1>4, <1>9, <2>2 DEF s
  <2>4. decisions' = [decisions EXCEPT ![s] = [decisions[s] EXCEPT ![c] = decisions'[s][c]]]
    BY <2>2, <2>3
  <2>5. books' = [books EXCEPT ![s] = books'[s]] /\ books'[s] = books[s]
    BY <1>9, <1>10
  <2>6. s \in Streams
    BY <1>3 DEF s
  <2>7. OthersKept(s, c)
    BY <1>4, <1>9, <2>1, <2>3, <2>4, <2>5, <2>6, Written
  <2>8. Balanced(books'[s], decisions'[s])
    BY <1>4, <1>9, <2>1, <2>3, <2>4, <2>5, <2>6, SameBalance
  <2>9. RowEnds(s, c)
    BY <1>7, <1>8, <2>1, <2>3, <2>5 DEF RowEnds, OneFate, TradeOrder
  <2>10. HoldingFits(s, c)
    BY <1>7, <2>5 DEF HoldingFits
  <2> QED
    BY <1>4, <1>6, <2>6, <2>7, <2>8, <2>9, <2>10, OneCandidate
<1>11. ASSUME NEW cost \in Affordable(books[s]), NEW qty \in Lots,
              books' = [books EXCEPT ![s] = Opened(@, c, cost, qty)],
              decisions' = [decisions EXCEPT ![s][c].filledAt = p.decidedAt + FillDelay]
       PROVE  ReplayInv'
  <2> DEFINE at == p.decidedAt + FillDelay
             row == [decisions[s][c] EXCEPT !.filledAt = at]
             next == Opened(books[s], c, cost, qty)
  <2>0. s \in Streams /\ at \in Int
    BY <1>3, ReplayAssumption DEF s
  <2>1. /\ row \in DecisionRow /\ row.rejection = "" /\ row.closedAt = Never /\ row.pnl = decisions[s][c].pnl
        /\ row.filledAt = at
    <3> HIDE DEF at
    <3> QED
      BY <1>7, <1>9, <2>0 DEF DecisionRow
  <2>2. decisions' = [decisions EXCEPT ![s] = [decisions[s] EXCEPT ![c] = row]]
    BY <1>4, <1>9, <1>11, <2>0 DEF DecisionRow
  <2>3. books' = [books EXCEPT ![s] = next]
    BY <1>9, <1>11, <2>0
  <2>4. cost \in Nat \ {0} /\ qty \in Nat \ {0}
    BY ReplayAssumption DEF Affordable
  <2>5. /\ next \in BookRecord /\ Balanced(next, decisions[s])
        /\ DOMAIN next.positions = DOMAIN books[s].positions \cup {c} /\ next.positions[c].since = Never
        /\ \A x \in DOMAIN books[s].positions : next.positions[x] = books[s].positions[x]
    <3> DEFINE account == books[s]
               rows == decisions[s]
    <3>1. /\ account \in BookRecord /\ rows \in Seq(DecisionRow) /\ DOMAIN account.positions \subseteq 1..Len(rows)
          /\ Balanced(account, rows) /\ c \in 1..Len(rows) /\ c \notin DOMAIN account.positions
      BY <1>4, <1>7, <1>9
    <3> HIDE DEF account, rows
    <3>2. LET new == Opened(account, c, cost, qty)
          IN  /\ new \in BookRecord /\ Balanced(new, rows)
              /\ DOMAIN new.positions = DOMAIN account.positions \cup {c} /\ new.positions[c].since = Never
              /\ \A x \in DOMAIN account.positions : new.positions[x] = account.positions[x]
      BY <2>4, <3>1, BookOpens
    <3> QED
      BY <3>2 DEF account, rows
  <2> HIDE DEF row, next
  <2>6. decisions'[s][c] = row /\ books'[s] = next
    BY <1>4, <1>9, <2>0, <2>2, <2>3
  <2>7. /\ decisions' = [decisions EXCEPT ![s] = [decisions[s] EXCEPT ![c] = decisions'[s][c]]]
        /\ books' = [books EXCEPT ![s] = books'[s]]
    BY <2>2, <2>3, <2>6
  <2>8. OthersKept(s, c)
    BY <1>4, <2>0, <2>1, <2>5, <2>6, <2>7, Written
  <2>9. Balanced(books'[s], decisions'[s])
    BY <1>4, <2>0, <2>1, <2>5, <2>6, <2>7, SameBalance
  <2>10. RowEnds(s, c)
    BY <1>7, <1>8, <2>1, <2>5, <2>6 DEF RowEnds, OneFate, TradeOrder
  <2>11. HoldingFits(s, c)
    <3>1. at <= clock' + FillDelay
      BY <1>1, <2>0
    <3> QED
      BY <1>2, <2>1, <2>5, <2>6, <3>1 DEF HoldingFits
  <2> QED
    BY <1>4, <1>6, <2>0, <2>8, <2>9, <2>10, <2>11, OneCandidate
<1> QED
  BY <1>1, <1>10, <1>11 DEF s, c

\* What is known of a position that is managed.
LEMMA ManagedFacts ==
  ASSUME ReplayInv, NEW w \in waiting, Managing(w), KeepManaging(w)
  PROVE  /\ w.stream \in Streams /\ w.candidate \in 1..Len(decisions[w.stream])
         /\ w.candidate \in DOMAIN books[w.stream].positions
         /\ Held(w) = books[w.stream].positions[w.candidate] /\ Held(w) \in PositionRecord
         /\ QueueMoves(w.stream, w.candidate)
         /\ ~\E p \in pending' : p.stream = w.stream /\ p.candidate = w.candidate
         /\ decisions[w.stream][w.candidate].rejection = ""
         /\ decisions[w.stream][w.candidate].closedAt = Never
         /\ decisions[w.stream][w.candidate].pnl = 0
         /\ decisions[w.stream][w.candidate].filledAt \in Int
         /\ decisions[w.stream][w.candidate].filledAt <= clock + FillDelay
         /\ Held(w).since # Never =>
              Held(w).since <= clock /\ decisions[w.stream][w.candidate].filledAt <= Held(w).since + FillDelay
         /\ TradeOrder(decisions[w.stream][w.candidate]) \/ decisions[w.stream][w.candidate].filledAt > WindowTo
<1>1. /\ stage \in {"manage", "closeAll"} /\ waiting' = waiting \ {w}
      /\ UNCHANGED <<run, stage, clock, tick, pending>>
  BY DEF Managing, KeepManaging
<1>2. w \in [stream : Streams, candidate : Nat] /\ w.stream \in Streams
      /\ w = [stream |-> w.stream, candidate |-> w.candidate]
  BY DEF ReplayInv, ReplayShape
<1>3. w.candidate \in DOMAIN books[w.stream].positions
  BY <1>1 DEF ReplayInv, RowsFit
<1>4. w.candidate \in 1..Len(decisions[w.stream]) /\ decisions[w.stream][w.candidate] \in DecisionRow
      /\ books[w.stream].positions \in PositionMaps
  BY <1>2, <1>3, ReplayFacts
<1>5. Held(w) = books[w.stream].positions[w.candidate] /\ Held(w) \in PositionRecord
  BY <1>3, <1>4, MapFacts DEF Held
<1>6. clock = tick /\ clock \in Nat /\ \A p \in pending : clock <= p.decidedAt
  BY <1>1 DEF ReplayInv, StageFits, ReplayShape
<1>7. QueueMoves(w.stream, w.candidate)
  BY <1>1, <1>2, <1>6 DEF QueueMoves
<1>8. OneFate(IsPending(w.stream, w.candidate), decisions[w.stream][w.candidate].rejection # "",
              IsOpen(w.stream, w.candidate), decisions[w.stream][w.candidate].closedAt # Never)
  BY <1>2, <1>4 DEF ReplayInv, FatesFit
<1>9. /\ decisions[w.stream][w.candidate].rejection = "" /\ decisions[w.stream][w.candidate].closedAt = Never
      /\ ~\E p \in pending' : p.stream = w.stream /\ p.candidate = w.candidate
  BY <1>1, <1>3, <1>8 DEF OneFate, IsPending, IsOpen
<1>10. /\ decisions[w.stream][w.candidate].pnl = 0
       /\ TradeOrder(decisions[w.stream][w.candidate]) \/ decisions[w.stream][w.candidate].filledAt > WindowTo
       /\ decisions[w.stream][w.candidate].filledAt <= clock + FillDelay
       /\ Held(w).since # Never =>
            Held(w).since <= clock /\ decisions[w.stream][w.candidate].filledAt <= Held(w).since + FillDelay
  BY <1>2, <1>3, <1>4, <1>5, <1>9 DEF ReplayInv, FillsFit
<1>11. decisions[w.stream][w.candidate].filledAt \in Int
  BY <1>4 DEF DecisionRow
<1> QED
  BY <1>2, <1>3, <1>4, <1>5, <1>7, <1>9, <1>10, <1>11

LEMMA ReplayMarks ==
  ASSUME ReplayInv, NEW w \in waiting, Managing(w), KeepManaging(w), Forced => ~Priced(w),
         NEW t \in Int, Since(w, t),
         t # Never => t <= clock /\ decisions[w.stream][w.candidate].filledAt <= t + FillDelay
  PROVE  ReplayInv'
<1> DEFINE s == w.stream
           c == w.candidate
           account == books[s]
           rows == decisions[s]
           next == Marked(account, c, t)
<1>1. s \in Streams /\ c \in 1..Len(rows) /\ c \in DOMAIN account.positions /\ QueueMoves(s, c)
  BY ManagedFacts
<1>2. /\ account \in BookRecord /\ rows \in Seq(DecisionRow) /\ DOMAIN account.positions \subseteq 1..Len(rows)
      /\ Balanced(account, rows) /\ rows[c] \in DecisionRow
      /\ books \in [Streams -> BookRecord] /\ decisions \in [Streams -> Seq(DecisionRow)]
  BY <1>1, ReplayFacts DEF ReplayInv, ReplayShape
<1>3. /\ next \in BookRecord /\ Balanced(next, rows) /\ DOMAIN next.positions = DOMAIN account.positions
      /\ next.positions[c].since = t /\ next.positions[c].price = account.positions[c].price
      /\ \A x \in DOMAIN account.positions : x # c => next.positions[x] = account.positions[x]
  <2>1. c \in 1..Len(rows) /\ c \in DOMAIN account.positions
    BY <1>1
  <2>2. /\ account \in BookRecord /\ rows \in Seq(DecisionRow) /\ DOMAIN account.positions \subseteq 1..Len(rows)
        /\ Balanced(account, rows)
    BY <1>2
  <2> HIDE DEF account, rows, c
  <2>3. LET new == Marked(account, c, t)
        IN  /\ new \in BookRecord /\ Balanced(new, rows) /\ DOMAIN new.positions = DOMAIN account.positions
            /\ new.positions[c].since = t /\ new.positions[c].price = account.positions[c].price
            /\ \A x \in DOMAIN account.positions : x # c => new.positions[x] = account.positions[x]
    BY <2>1, <2>2, BookMarks
  <2> QED
    BY <2>3
<1>4. decisions' = decisions /\ books' = [books EXCEPT ![s] = next]
  BY <1>1, <1>2 DEF Since, Marked
<1> HIDE DEF next
<1>5. books'[s] = next /\ decisions'[s][c] = rows[c]
  BY <1>1, <1>2, <1>4
<1>6. /\ decisions' = [decisions EXCEPT ![s] = [decisions[s] EXCEPT ![c] = decisions'[s][c]]]
      /\ books' = [books EXCEPT ![s] = books'[s]]
  <2> HIDE DEF s, c
  <2>1. decisions'[s][c] = decisions[s][c] /\ decisions' = decisions
    BY <1>4, <1>5
  <2>2. decisions[s] = [decisions[s] EXCEPT ![c] = decisions[s][c]]
    BY <1>1, <1>2
  <2>3. decisions = [decisions EXCEPT ![s] = decisions[s]]
    BY <1>2
  <2> QED
    BY <1>4, <1>5, <2>1, <2>2, <2>3
<1>7. OthersKept(s, c)
  <2> HIDE DEF s, c
  <2> QED
    BY <1>1, <1>2, <1>3, <1>5, <1>6, Written
<1>8. Balanced(books'[s], decisions'[s])
  BY <1>3, <1>4, <1>5
<1>9. RowEnds(s, c)
  BY <1>3, <1>4, <1>5, ManagedFacts DEF RowEnds, OneFate
<1>10. HoldingFits(s, c)
  <2>1. clock' = clock /\ (stage = "closeAll" => account.positions[c].price = 0)
    <3>1. Held(w).price \in Nat
      BY ManagedFacts DEF PositionRecord
    <3> QED
      BY <3>1 DEF KeepManaging, Priced, Forced, Held
  <2> QED
    BY <1>3, <1>4, <1>5, <2>1, ManagedFacts DEF HoldingFits
<1> HIDE DEF s, c
<1> QED
  BY <1>1, <1>7, <1>8, <1>9, <1>10, OneCandidate

LEMMA ReplaySellsPart ==
  ASSUME ReplayInv, NEW w \in waiting, Managing(w), KeepManaging(w), ~Forced,
         NEW sold \in Nat \ {0}, NEW proceeds \in Nat, sold < Held(w).qty, UNCHANGED decisions,
         books' = [books EXCEPT ![w.stream] = Reduced(books[w.stream], w.candidate, sold, proceeds)]
  PROVE  ReplayInv'
<1> DEFINE s == w.stream
           c == w.candidate
           account == books[s]
           rows == decisions[s]
           next == Reduced(account, c, sold, proceeds)
<1>1. s \in Streams /\ c \in 1..Len(rows) /\ c \in DOMAIN account.positions /\ QueueMoves(s, c)
  BY ManagedFacts
<1>2. /\ account \in BookRecord /\ rows \in Seq(DecisionRow) /\ DOMAIN account.positions \subseteq 1..Len(rows)
      /\ Balanced(account, rows) /\ rows[c] \in DecisionRow
      /\ books \in [Streams -> BookRecord] /\ decisions \in [Streams -> Seq(DecisionRow)]
  BY <1>1, ReplayFacts DEF ReplayInv, ReplayShape
<1>3. /\ next \in BookRecord /\ Balanced(next, rows) /\ DOMAIN next.positions = DOMAIN account.positions
      /\ next.positions[c].since = Never
      /\ \A x \in DOMAIN account.positions : x # c => next.positions[x] = account.positions[x]
  <2>1. c \in DOMAIN account.positions /\ sold < account.positions[c].qty
    BY <1>1 DEF Held
  <2>2. /\ account \in BookRecord /\ rows \in Seq(DecisionRow) /\ DOMAIN account.positions \subseteq 1..Len(rows)
        /\ Balanced(account, rows)
    BY <1>2
  <2> HIDE DEF account, rows, c
  <2>3. LET new == Reduced(account, c, sold, proceeds)
        IN  /\ new \in BookRecord /\ Balanced(new, rows) /\ DOMAIN new.positions = DOMAIN account.positions
            /\ new.positions[c].since = Never
            /\ \A x \in DOMAIN account.positions : x # c => new.positions[x] = account.positions[x]
    BY <2>1, <2>2, BookSellsPart
  <2> QED
    BY <2>3
<1>4. decisions' = decisions /\ books' = [books EXCEPT ![s] = next]
  OBVIOUS
<1> HIDE DEF next
<1>5. books'[s] = next /\ decisions'[s][c] = rows[c]
  BY <1>1, <1>2, <1>4
<1>6. /\ decisions' = [decisions EXCEPT ![s] = [decisions[s] EXCEPT ![c] = decisions'[s][c]]]
      /\ books' = [books EXCEPT ![s] = books'[s]]
  <2> HIDE DEF s, c
  <2>1. decisions'[s][c] = decisions[s][c] /\ decisions' = decisions
    BY <1>4, <1>5
  <2>2. decisions[s] = [decisions[s] EXCEPT ![c] = decisions[s][c]]
    BY <1>1, <1>2
  <2>3. decisions = [decisions EXCEPT ![s] = decisions[s]]
    BY <1>2
  <2> QED
    BY <1>4, <1>5, <2>1, <2>2, <2>3
<1>7. OthersKept(s, c)
  <2> HIDE DEF s, c
  <2> QED
    BY <1>1, <1>2, <1>3, <1>5, <1>6, Written
<1>8. Balanced(books'[s], decisions'[s])
  BY <1>3, <1>4, <1>5
<1>9. RowEnds(s, c)
  BY <1>3, <1>4, <1>5, ManagedFacts DEF RowEnds, OneFate
<1>10. HoldingFits(s, c)
  BY <1>3, <1>4, <1>5, ManagedFacts DEF HoldingFits, KeepManaging, Forced
<1> HIDE DEF s, c
<1> QED
  BY <1>1, <1>7, <1>8, <1>9, <1>10, OneCandidate

LEMMA ReplayCloses ==
  ASSUME ReplayInv, NEW w \in waiting, Managing(w), KeepManaging(w),
         NEW proceeds \in Nat, NEW reason \in Reasons, NEW at \in Nat,
         decisions[w.stream][w.candidate].filledAt <= at \/ decisions[w.stream][w.candidate].filledAt > WindowTo,
         books' = [books EXCEPT ![w.stream] = Closed(books[w.stream], w.candidate, proceeds)],
         decisions' = [decisions EXCEPT ![w.stream][w.candidate] =
           [@ EXCEPT !.closedAt = at, !.reason = reason, !.pnl = Held(w).proceeds + proceeds - Held(w).cost]]
  PROVE  ReplayInv'
<1> DEFINE s == w.stream
           c == w.candidate
           account == books[s]
           rows == decisions[s]
           pnl == account.positions[c].proceeds + proceeds - account.positions[c].cost
           row == [rows[c] EXCEPT !.closedAt = at, !.reason = reason, !.pnl = pnl]
           next == Closed(account, c, proceeds)
<1>1. s \in Streams /\ c \in 1..Len(rows) /\ c \in DOMAIN account.positions /\ QueueMoves(s, c)
  BY ManagedFacts
<1>2. /\ account \in BookRecord /\ rows \in Seq(DecisionRow) /\ DOMAIN account.positions \subseteq 1..Len(rows)
      /\ Balanced(account, rows) /\ rows[c] \in DecisionRow /\ rows[c].pnl = 0
      /\ books \in [Streams -> BookRecord] /\ decisions \in [Streams -> Seq(DecisionRow)]
  BY <1>1, ReplayFacts, ManagedFacts DEF ReplayInv, ReplayShape
<1>3. pnl \in Int
  <2>1. account.positions[c].proceeds \in Int /\ account.positions[c].cost \in Int
    BY ManagedFacts DEF PositionRecord
  <2> QED
    BY <2>1
<1>4. /\ row \in DecisionRow /\ row.rejection = rows[c].rejection /\ row.filledAt = rows[c].filledAt
      /\ row.closedAt = at /\ row.pnl = pnl
  <2>1. rows[c] \in DecisionRow
    BY <1>2
  <2> DEFINE old == rows[c]
  <2> HIDE DEF pnl, old
  <2>2. row = [old EXCEPT !.closedAt = at, !.reason = reason, !.pnl = pnl] /\ old \in DecisionRow
    BY <2>1 DEF old
  <2> HIDE DEF row
  <2>3. row = [rejection |-> old.rejection, filledAt |-> old.filledAt, closedAt |-> at, reason |-> reason, pnl |-> pnl]
    BY <2>2 DEF DecisionRow
  <2>4. old.rejection \in Rejections /\ old.filledAt \in Int
    BY <2>2 DEF DecisionRow
  <2>5. row \in DecisionRow /\ row.closedAt = at /\ row.pnl = pnl
    BY <1>3, <2>3, <2>4 DEF DecisionRow
  <2>6. row.rejection = old.rejection /\ row.filledAt = old.filledAt
    BY <2>3
  <2> QED
    BY <2>5, <2>6 DEF old
<1>5. /\ decisions' = [decisions EXCEPT ![s] = [decisions[s] EXCEPT ![c] = row]]
      /\ books' = [books EXCEPT ![s] = next]
  BY <1>1, <1>2 DEF Held
<1> HIDE DEF row, next, pnl
<1>6. books'[s] = next /\ decisions'[s][c] = row
  <2>1. decisions[s] \in Seq(DecisionRow) /\ c \in 1..Len(decisions[s]) /\ s \in Streams
        /\ books \in [Streams -> BookRecord] /\ decisions \in [Streams -> Seq(DecisionRow)]
    BY <1>1, <1>2
  <2> HIDE DEF s, c
  <2>2. books'[s] = next /\ decisions'[s] = [decisions[s] EXCEPT ![c] = row]
    BY <1>5, <2>1
  <2> QED
    BY <2>1, <2>2
<1>7. /\ decisions' = [decisions EXCEPT ![s] = [decisions[s] EXCEPT ![c] = decisions'[s][c]]]
      /\ books' = [books EXCEPT ![s] = books'[s]]
  BY <1>5, <1>6
<1>8. /\ decisions'[s] \in Seq(DecisionRow) /\ Len(decisions'[s]) = Len(rows)
      /\ \A x \in 1..Len(rows) : x # c => decisions'[s][x] = rows[x]
  <2>1. /\ s \in Streams /\ c \in 1..Len(decisions[s]) /\ decisions[s] \in Seq(DecisionRow)
        /\ decisions \in [Streams -> Seq(DecisionRow)]
    BY <1>1, <1>2
  <2> HIDE DEF s, c
  <2>2. decisions'[s] = [decisions[s] EXCEPT ![c] = row]
    BY <1>5, <2>1
  <2> DEFINE old == decisions[s]
  <2> HIDE DEF old
  <2>3. /\ [old EXCEPT ![c] = row] \in Seq(DecisionRow) /\ Len([old EXCEPT ![c] = row]) = Len(old)
        /\ \A x \in 1..Len(old) : x # c => [old EXCEPT ![c] = row][x] = old[x]
    <3>1. c \in 1..Len(old) /\ old \in Seq(DecisionRow)
      BY <2>1 DEF old
    <3> QED
      BY <1>4, <3>1
  <2> QED
    BY <2>2, <2>3 DEF old
<1>9. SumFunction(Pnl(decisions'[s])) = SumFunction(Pnl(rows)) + pnl
  <2>1. rows \in Seq(DecisionRow) /\ c \in 1..Len(rows) /\ rows[c].pnl = 0
    BY <1>1, <1>2
  <2> DEFINE after == decisions'[s]
  <2>2. /\ after \in Seq(DecisionRow) /\ Len(after) = Len(rows) /\ after[c].pnl = pnl
        /\ \A x \in 1..Len(rows) : x # c => after[x] = rows[x]
    BY <1>4, <1>6, <1>8
  <2> HIDE DEF rows, after, c
  <2>3. SumFunction(Pnl(after)) = SumFunction(Pnl(rows)) + after[c].pnl
    BY <2>1, <2>2, ReportAt
  <2> QED
    BY <2>2, <2>3 DEF after
<1>10. /\ next \in BookRecord /\ Balanced(next, decisions'[s]) /\ DOMAIN next.positions = DOMAIN account.positions \ {c}
       /\ \A x \in DOMAIN account.positions : x # c => next.positions[x] = account.positions[x]
  <2> DEFINE after == decisions'[s]
  <2>1. /\ c \in DOMAIN account.positions /\ after \in Seq(DecisionRow)
        /\ account \in BookRecord /\ rows \in Seq(DecisionRow) /\ DOMAIN account.positions \subseteq 1..Len(rows)
        /\ Balanced(account, rows)
    BY <1>1, <1>2, <1>8
  <2>2. SumFunction(Pnl(after)) =
          SumFunction(Pnl(rows)) + (account.positions[c].proceeds + proceeds - account.positions[c].cost)
    BY <1>9 DEF pnl
  <2> HIDE DEF account, rows, c, after
  <2>3. LET new == Closed(account, c, proceeds)
        IN  /\ new \in BookRecord /\ Balanced(new, after) /\ DOMAIN new.positions = DOMAIN account.positions \ {c}
            /\ \A x \in DOMAIN account.positions : x # c => new.positions[x] = account.positions[x]
    BY <2>1, <2>2, BookCloses
  <2> QED
    BY <2>3 DEF after, next
<1>11. OthersKept(s, c)
  <2> HIDE DEF s, c
  <2> QED
    BY <1>1, <1>2, <1>4, <1>6, <1>7, <1>10, Written
<1>12. Balanced(books'[s], decisions'[s])
  BY <1>6, <1>10
<1>13. RowEnds(s, c)
  <2>1. at # Never /\ (rows[c].filledAt <= at \/ rows[c].filledAt > WindowTo)
    BY DEF Never
  <2> QED
    BY <1>4, <1>6, <1>10, <2>1, ManagedFacts DEF RowEnds, OneFate, TradeOrder
<1>14. HoldingFits(s, c)
  BY <1>6, <1>10 DEF HoldingFits
<1> HIDE DEF s, c
<1> QED
  BY <1>1, <1>11, <1>12, <1>13, <1>14, OneCandidate

LEMMA ReplayFinishes ==
  ASSUME ReplayInv, NEW w \in waiting, Managing(w), KeepManaging(w),
         NEW sold \in Nat \ {0}, NEW proceeds \in Nat, NEW reason \in Reasons, NEW at \in Nat,
         decisions[w.stream][w.candidate].filledAt <= at \/ decisions[w.stream][w.candidate].filledAt > WindowTo,
         Forced => sold = Held(w).qty, FinishClose(w, sold, proceeds, reason, at)
  PROVE  ReplayInv'
<1> DEFINE s == w.stream
           c == w.candidate
           account == Paid(books[s], proceeds, BasisOut(Held(w), sold))
<1>1. /\ s \in Streams /\ c \in DOMAIN books[s].positions /\ Held(w) = books[s].positions[c]
      /\ books \in [Streams -> BookRecord] /\ Held(w).qty \in Nat \ {0}
  BY ManagedFacts DEF ReplayInv, ReplayShape, PositionRecord
<1>2. CASE /\ sold < Held(w).qty
           /\ books' = [books EXCEPT ![s] = [account EXCEPT !.positions[c] = Rest(Held(w), sold, proceeds)]]
           /\ UNCHANGED decisions
  <2>1. books' = [books EXCEPT ![s] = Reduced(books[s], c, sold, proceeds)]
    BY <1>1, <1>2 DEF Reduced
  <2>2. ~Forced
    BY <1>1, <1>2
  <2> QED
    BY <1>2, <2>1, <2>2, ReplaySellsPart
<1>3. CASE /\ sold = Held(w).qty
           /\ books' = [books EXCEPT ![s] = [account EXCEPT !.positions = Restrict(@, DOMAIN @ \ {c})]]
           /\ decisions' = [decisions EXCEPT ![s][c] =
                [@ EXCEPT !.closedAt = at, !.reason = reason, !.pnl = Held(w).proceeds + proceeds - Held(w).cost]]
  <2>1. books' = [books EXCEPT ![s] = Closed(books[s], c, proceeds)]
    BY <1>1, <1>3 DEF Closed, BasisOut
  <2> QED
    BY <1>3, <2>1, ReplayCloses
<1> QED
  BY <1>2, <1>3 DEF FinishClose

\* A position waits for a quote for no shorter than an order takes to fill.
FillsSoon == FillDelay <= UnquotableAfter

LEMMA ReplayUnquotable ==
  ASSUME FillsSoon, ReplayInv, NEW w \in waiting, ManageUnquotable(w)
  PROVE  ReplayInv'
<1>1. Managing(w) /\ KeepManaging(w)
  BY DEF ManageUnquotable
<1> DEFINE filled == decisions[w.stream][w.candidate].filledAt
<1>2. /\ Held(w).since \in Int /\ Held(w).qty \in Nat \ {0} /\ filled \in Int /\ filled <= clock + FillDelay
      /\ Held(w).since # Never => Held(w).since <= clock /\ filled <= Held(w).since + FillDelay
  BY <1>1, ManagedFacts DEF PositionRecord
<1>3. clock \in Nat /\ FillDelay \in Nat /\ UnquotableAfter \in Nat \ {0} /\ WindowTo \in Nat
  BY ReplayAssumption DEF ReplayInv, ReplayShape
<1>4. PICK t \in Int : t = IF Held(w).since = Never THEN clock ELSE Held(w).since
  BY <1>2, <1>3
<1>5. t <= clock /\ filled <= t + FillDelay
  BY <1>2, <1>3, <1>4
<1>6. IF Forced \/ clock - t >= UnquotableAfter
      THEN FinishClose(w, Held(w).qty, 0, "UNQUOTABLE", clock)
      ELSE Since(w, t)
  BY <1>4 DEF ManageUnquotable
<1>7. CASE Forced \/ clock - t >= UnquotableAfter
  <2>1. filled <= clock \/ filled > WindowTo
    <3>1. CASE Forced
      <4>1. clock = WindowTo
        BY <1>1, <3>1 DEF Forced, ReplayInv, StageFits
      <4> QED
        BY <1>2, <1>3, <4>1
    <3>2. CASE clock - t >= UnquotableAfter
      <4>1. filled \in Int /\ t \in Int /\ filled <= t + FillDelay
        BY <1>2, <1>5
      <4> HIDE DEF filled
      <4> QED
        BY <1>3, <3>2, <4>1 DEF FillsSoon
    <3> QED
      BY <1>7, <3>1, <3>2
  <2>2. PICK q \in Nat \ {0} : q = Held(w).qty
    BY <1>2
  <2>3. PICK at \in Nat : at = clock
    BY <1>3
  <2>4. FinishClose(w, q, 0, "UNQUOTABLE", at)
    BY <1>6, <1>7, <2>2, <2>3
  <2>5. "UNQUOTABLE" \in Reasons /\ (filled <= at \/ filled > WindowTo)
    BY <2>1, <2>3 DEF Reasons
  <2> QED
    BY <1>1, <2>2, <2>4, <2>5, ReplayFinishes
<1>8. CASE ~(Forced \/ clock - t >= UnquotableAfter)
  BY <1>1, <1>5, <1>6, <1>8, ReplayMarks
<1> QED
  BY <1>7, <1>8

LEMMA ReplaySells ==
  ASSUME ReplayInv, NEW w \in waiting, ManageHold(w) \/ ManageSell(w) \/ CloseUnfilled(w)
  PROVE  ReplayInv'
<1>1. Managing(w) /\ KeepManaging(w)
  BY DEF ManageHold, ManageSell, CloseUnfilled
<1> DEFINE filled == decisions[w.stream][w.candidate].filledAt
<1>2. Held(w).qty \in Nat \ {0} /\ filled \in Int /\ filled <= clock + FillDelay
  BY <1>1, ManagedFacts DEF PositionRecord
<1>3. clock \in Nat /\ FillDelay \in Nat /\ WindowTo \in Nat /\ Prices \subseteq Nat \ {0}
  BY ReplayAssumption DEF ReplayInv, ReplayShape
<1>4. CASE ManageHold(w)
  <2>1. Since(w, Never) /\ Never \in Int /\ (Forced => ~Priced(w))
    BY <1>4 DEF ManageHold, Never
  <2>2. PICK t \in Int : t = Never
    BY <2>1
  <2> QED
    BY <1>1, <2>1, <2>2, ReplayMarks
<1>5. CASE ManageSell(w)
  <2>1. PICK sold \in {Held(w).qty} \cup (IF Forced THEN {} ELSE {Held(w).qty \div 2}), price \in Prices :
          /\ sold > 0
          /\ FinishClose(w, sold, sold * price, IF Forced THEN "WINDOW_END" ELSE "EXIT", clock + FillDelay)
    BY <1>5 DEF ManageSell
  <2>2. sold \in Nat \ {0} /\ (Forced => sold = Held(w).qty)
    BY <1>2, <2>1
  <2>3. PICK at \in Nat : at = clock + FillDelay
    BY <1>3
  <2>4. PICK proceeds \in Nat : proceeds = sold * price
    BY <1>3, <2>2
  <2>5. PICK reason \in Reasons : reason = IF Forced THEN "WINDOW_END" ELSE "EXIT"
    BY DEF Reasons
  <2>6. FinishClose(w, sold, proceeds, reason, at)
    BY <2>1, <2>3, <2>4, <2>5
  <2>7. filled <= at
    BY <1>2, <2>3
  <2> QED
    BY <1>1, <2>2, <2>6, <2>7, ReplayFinishes
<1>6. CASE CloseUnfilled(w)
  <2>1. PICK price \in Prices : FinishClose(w, Held(w).qty, Held(w).qty * price, "WINDOW_END_UNFILLED", clock)
    BY <1>6 DEF CloseUnfilled
  <2>2. PICK q \in Nat \ {0} : q = Held(w).qty
    BY <1>2
  <2>3. PICK at \in Nat : at = clock
    BY <1>3
  <2>4. PICK proceeds \in Nat : proceeds = q * price
    BY <1>3
  <2>5. FinishClose(w, q, proceeds, "WINDOW_END_UNFILLED", at)
    BY <2>1, <2>2, <2>3, <2>4
  <2>6. clock = WindowTo
    BY <1>6 DEF CloseUnfilled, Forced, ReplayInv, StageFits
  <2>7. "WINDOW_END_UNFILLED" \in Reasons /\ (filled <= at \/ filled > WindowTo)
    BY <1>2, <1>3, <2>3, <2>6 DEF Reasons
  <2> QED
    BY <1>1, <2>2, <2>5, <2>7, ReplayFinishes
<1> QED
  BY <1>4, <1>5, <1>6

\* A step that moves the run from one stage to another and leaves the books, the rows and
\* what is queued.
LEMMA StageMoves ==
  ASSUME ReplayInv, UNCHANGED <<clock, pending, waiting, books, decisions>>, tick' \in Nat,
         run' \in {"QUEUED", "RUNNING", "COMPLETED", "FAILED"}, stage' \in Stages, StageFits',
         stage' \in {"manage", "closeAll"} => stage' = stage,
         Returned' => pending = {} /\ \A s \in Streams : \A c \in DOMAIN books[s].positions :
                                         books[s].positions[c].price = 0
  PROVE  ReplayInv'
<1>1. ReplayShape' /\ RowsFit'
  BY DEF ReplayInv, ReplayShape, RowsFit
<1>2. FatesFit'
  <2>1. FatesFit
    BY DEF ReplayInv
  <2>2. \A s \in Streams : \A c \in 1..Len(decisions'[s]) :
          OneFate(\E p \in pending' : p.stream = s /\ p.candidate = c, decisions'[s][c].rejection # "",
                  c \in DOMAIN books'[s].positions, decisions'[s][c].closedAt # Never)
    <3>1. \A s \in Streams : \A c \in 1..Len(decisions[s]) :
            OneFate(\E p \in pending : p.stream = s /\ p.candidate = c, decisions[s][c].rejection # "",
                    c \in DOMAIN books[s].positions, decisions[s][c].closedAt # Never)
      BY <2>1 DEF FatesFit, IsPending, IsOpen
    <3>2. pending' = pending /\ books' = books /\ decisions' = decisions
      OBVIOUS
    <3> SUFFICES ASSUME NEW s \in Streams, NEW c \in 1..Len(decisions'[s])
                 PROVE  OneFate(\E p \in pending' : p.stream = s /\ p.candidate = c, decisions'[s][c].rejection # "",
                                c \in DOMAIN books'[s].positions, decisions'[s][c].closedAt # Never)
      OBVIOUS
    <3>3. (\E p \in pending' : p.stream = s /\ p.candidate = c) <=> (\E p \in pending : p.stream = s /\ p.candidate = c)
      BY <3>2
    <3>4. /\ decisions'[s][c].rejection = decisions[s][c].rejection
          /\ decisions'[s][c].closedAt = decisions[s][c].closedAt
          /\ books'[s].positions = books[s].positions /\ c \in 1..Len(decisions[s])
      BY <3>2
    <3> QED
      BY <3>1, <3>3, <3>4
  <2>3. stage' = "closeAll" => pending' = {} /\ \A s \in Streams : \A c \in DOMAIN books'[s].positions :
          books'[s].positions[c].price = 0 \/ [stream |-> s, candidate |-> c] \in waiting'
    BY <2>1 DEF FatesFit
  <2>4. Returned' => pending' = {} /\ \A s \in Streams : \A c \in DOMAIN books'[s].positions :
          books'[s].positions[c].price = 0
    OBVIOUS
  <2> QED
    BY <2>2, <2>3, <2>4 DEF FatesFit, IsPending, IsOpen
<1>3. FillsFit' /\ \A s \in Streams : Balanced(books[s], decisions[s])'
  BY DEF ReplayInv, FillsFit, TradeOrder, Balanced
<1> QED
  BY <1>1, <1>2, <1>3 DEF ReplayInv

LEMMA ReplayStages ==
  ASSUME ReplayInv,
         \/ ClaimRun \/ NothingDetected \/ EngineReturns \/ StoreDecisions \/ StoreTrades \/ CompleteRun
         \/ RunThrows \/ RunnerDies \/ UNCHANGED replayVars
  PROVE  ReplayInv'
<1>1. /\ run \in {"QUEUED", "RUNNING", "COMPLETED", "FAILED"} /\ stage \in Stages /\ clock \in Nat /\ tick \in Nat
      /\ Tick \in Nat \ {0} /\ WindowTo \in Nat
  BY ReplayAssumption DEF ReplayInv, ReplayShape
<1>2. StageFits /\ FatesFit
  BY DEF ReplayInv
<1>3. CASE ClaimRun
  <2>1. /\ run = "QUEUED" /\ run' = "RUNNING" /\ stage' = "drain"
        /\ UNCHANGED <<clock, tick, pending, waiting, books, decisions>>
    BY <1>3 DEF ClaimRun
  <2>2. StageFits' /\ ~Returned'
    BY <1>2, <2>1 DEF StageFits, Returned
  <2> QED
    BY <1>1, <2>1, <2>2, StageMoves DEF Stages
<1>4. CASE NothingDetected
  <2>1. /\ stage = "manage" /\ UNCHANGED <<run, clock, pending, waiting, books, decisions>>
        /\ \/ tick + Tick <= WindowTo /\ tick' = tick + Tick /\ stage' = "drain"
           \/ tick' = WindowTo /\ stage' = "lastDrain"
    BY <1>4 DEF NothingDetected, NextTick
  <2>2. tick' \in Nat /\ clock <= tick' /\ tick' <= WindowTo
    BY <1>1, <1>2, <2>1 DEF StageFits
  <2>3. StageFits' /\ ~Returned'
    BY <1>2, <2>1, <2>2 DEF StageFits, Returned
  <2> QED
    BY <1>1, <2>1, <2>2, <2>3, StageMoves DEF Stages
<1>5. CASE EngineReturns
  <2>1. /\ stage = "closeAll" /\ waiting = {} /\ stage' = "decisions"
        /\ UNCHANGED <<run, clock, tick, pending, waiting, books, decisions>>
    BY <1>5 DEF EngineReturns, KeepReplay
  <2>2. StageFits' /\ pending = {}
        /\ \A s \in Streams : \A c \in DOMAIN books[s].positions : books[s].positions[c].price = 0
    BY <1>2, <2>1 DEF StageFits, FatesFit
  <2> QED
    BY <1>1, <2>1, <2>2, StageMoves DEF Stages
<1>6. CASE StoreDecisions \/ StoreTrades
  <2>1. /\ stage \in {"decisions", "trades"} /\ stage' \in {"trades", "complete"}
        /\ UNCHANGED <<run, clock, tick, pending, waiting, books, decisions>>
    BY <1>6 DEF StoreDecisions, StoreTrades, KeepReplay
  <2>2. StageFits' /\ Returned
    BY <1>2, <2>1 DEF StageFits, Returned
  <2>3. pending = {} /\ \A s \in Streams : \A c \in DOMAIN books[s].positions : books[s].positions[c].price = 0
    BY <1>2, <2>2 DEF FatesFit
  <2> QED
    BY <1>1, <2>1, <2>2, <2>3, StageMoves DEF Stages
<1>7. CASE CompleteRun
  <2>1. /\ stage = "complete" /\ run' = "COMPLETED" /\ stage' = "off"
        /\ UNCHANGED <<clock, tick, pending, waiting, books, decisions>>
    BY <1>7 DEF CompleteRun, KeepReplay
  <2>2. StageFits' /\ Returned
    BY <1>2, <2>1 DEF StageFits, Returned
  <2>3. pending = {} /\ \A s \in Streams : \A c \in DOMAIN books[s].positions : books[s].positions[c].price = 0
    BY <1>2, <2>2 DEF FatesFit
  <2> QED
    BY <1>1, <2>1, <2>2, <2>3, StageMoves DEF Stages
<1>8. CASE RunThrows \/ RunnerDies
  <2>1. /\ stage # "off" /\ run' \in {run, "FAILED"} /\ stage' = "off"
        /\ UNCHANGED <<clock, tick, pending, waiting, books, decisions>>
    BY <1>8 DEF RunThrows, RunnerDies, KeepReplay
  <2>2. StageFits' /\ ~Returned' /\ run = "RUNNING"
    BY <1>2, <2>1 DEF StageFits, Returned
  <2> QED
    BY <1>1, <2>1, <2>2, StageMoves DEF Stages
<1>9. CASE UNCHANGED replayVars
  <2>1. UNCHANGED <<run, stage, clock, tick, pending, waiting, books, decisions>>
    BY <1>9 DEF replayVars
  <2>2. StageFits'
    BY <1>2, <2>1 DEF StageFits
  <2>3. Returned' => pending = {} /\ \A s \in Streams : \A c \in DOMAIN books[s].positions :
                                        books[s].positions[c].price = 0
    BY <1>2, <2>1 DEF FatesFit, Returned
  <2> QED
    BY <1>1, <2>1, <2>2, <2>3, StageMoves
<1> QED
  BY <1>3, <1>4, <1>5, <1>6, <1>7, <1>8, <1>9

LEMMA ReplayDrained == ASSUME ReplayInv, EndDrain PROVE ReplayInv'
<1>1. /\ stage \in {"drain", "lastDrain"} /\ \A p \in pending : ~(p.decidedAt <= tick)
      /\ clock' = tick /\ waiting' = AllPositions /\ UNCHANGED <<run, tick, books>>
  BY DEF EndDrain, DrainsTick, DrainsRest, Draining, Due
<1>2. /\ ReplayShape /\ StageFits /\ RowsFit /\ FatesFit /\ FillsFit
      /\ \A s \in Streams : Balanced(books[s], decisions[s])
  BY DEF ReplayInv
<1>3. /\ clock \in Nat /\ tick \in Nat /\ clock <= tick /\ FillDelay \in Nat /\ run = "RUNNING"
      /\ stage = "lastDrain" => tick = WindowTo
  BY <1>1, <1>2, ReplayAssumption DEF ReplayShape, StageFits
<1>4. \/ stage' = "manage" /\ pending' = pending /\ decisions' = decisions
      \/ /\ stage = "lastDrain" /\ stage' = "closeAll" /\ pending' = {}
         /\ decisions' = [s \in Streams |-> [c \in DOMAIN decisions[s] |->
              IF IsPending(s, c) THEN [decisions[s][c] EXCEPT !.rejection = "WINDOW_END"]
              ELSE decisions[s][c]]]
  BY DEF EndDrain, DrainsTick, DrainsRest
<1>5. \A w \in AllPositions : /\ w \in [stream : Streams, candidate : Nat]
                              /\ w.candidate \in DOMAIN books[w.stream].positions
  <2> SUFFICES ASSUME NEW s \in Streams, NEW w \in [stream : {s}, candidate : DOMAIN books[s].positions]
               PROVE  w \in [stream : Streams, candidate : Nat] /\ w.candidate \in DOMAIN books[w.stream].positions
    BY DEF AllPositions
  <2>1. DOMAIN books[s].positions \subseteq Nat
    BY ReplayFacts
  <2> QED
    BY <2>1
<1>6. \A s \in Streams : \A c \in DOMAIN books[s].positions : [stream |-> s, candidate |-> c] \in AllPositions
  BY DEF AllPositions
<1>7. ASSUME NEW s \in Streams
      PROVE  /\ decisions'[s] \in Seq(DecisionRow) /\ Len(decisions'[s]) = Len(decisions[s])
             /\ \A c \in 1..Len(decisions[s]) :
                  /\ decisions'[s][c].filledAt = decisions[s][c].filledAt
                  /\ decisions'[s][c].closedAt = decisions[s][c].closedAt
                  /\ decisions'[s][c].pnl = decisions[s][c].pnl
                  /\ stage' = "closeAll" => decisions'[s][c].rejection =
                       IF IsPending(s, c) THEN "WINDOW_END" ELSE decisions[s][c].rejection
  <2> DEFINE rows == decisions[s]
             next == [c \in DOMAIN rows |->
                        IF IsPending(s, c) THEN [rows[c] EXCEPT !.rejection = "WINDOW_END"] ELSE rows[c]]
  <2>1. rows \in Seq(DecisionRow) /\ Len(rows) \in Nat /\ DOMAIN rows = 1..Len(rows)
        /\ \A c \in 1..Len(rows) : rows[c] \in DecisionRow
    BY ReplayFacts
  <2>2. CASE stage' = "manage" /\ decisions' = decisions
    BY <2>1, <2>2
  <2>3. CASE stage' = "closeAll" /\ decisions'[s] = next
    <3> HIDE DEF rows
    <3>1. \A c \in 1..Len(rows) :
            /\ next[c] \in DecisionRow /\ next[c].filledAt = rows[c].filledAt
            /\ next[c].closedAt = rows[c].closedAt /\ next[c].pnl = rows[c].pnl
            /\ next[c].rejection = IF IsPending(s, c) THEN "WINDOW_END" ELSE rows[c].rejection
      <4> SUFFICES ASSUME NEW c \in 1..Len(rows)
                   PROVE  /\ next[c] \in DecisionRow /\ next[c].filledAt = rows[c].filledAt
                          /\ next[c].closedAt = rows[c].closedAt /\ next[c].pnl = rows[c].pnl
                          /\ next[c].rejection = IF IsPending(s, c) THEN "WINDOW_END" ELSE rows[c].rejection
        OBVIOUS
      <4>1. rows[c] \in DecisionRow
        BY <2>1
      <4>2. CASE IsPending(s, c)
        <5>1. next[c] = [rows[c] EXCEPT !.rejection = "WINDOW_END"]
          BY <2>1, <4>2
        <5> HIDE DEF next
        <5> QED
          BY <4>1, <4>2, <5>1 DEF DecisionRow, Rejections
      <4>3. CASE ~IsPending(s, c)
        BY <2>1, <4>1, <4>3
      <4> QED
        BY <4>2, <4>3
    <3>2. DOMAIN next = 1..Len(rows)
      BY <2>1
    <3> HIDE DEF next
    <3>3. next \in [1..Len(rows) -> DecisionRow]
      <4>1. next = [c \in 1..Len(rows) |-> next[c]]
        BY <2>1, <3>2 DEF next
      <4> QED
        BY <3>1, <4>1
    <3>4. next \in Seq(DecisionRow) /\ Len(next) = Len(rows)
      BY <2>1, <3>3
    <3> QED
      BY <2>3, <3>1, <3>4 DEF rows
  <2>4. stage' = "closeAll" \/ stage' = "manage"
    BY <1>4
  <2> QED
    BY <1>4, <2>2, <2>3
<1>8. ReplayShape'
  <2>1. decisions' \in [Streams -> Seq(DecisionRow)]
    <3>1. decisions' = [s \in Streams |-> decisions'[s]]
      BY <1>2, <1>4 DEF ReplayShape
    <3> QED
      BY <1>7, <3>1
  <2>2. stage' \in Stages /\ pending' \subseteq pending
    BY <1>4 DEF Stages
  <2> QED
    BY <1>1, <1>2, <1>3, <1>5, <2>1, <2>2 DEF ReplayShape
<1>9. StageFits'
  <2>1. \A p \in pending' : clock' <= p.decidedAt
    <3> SUFFICES ASSUME NEW p \in pending' PROVE tick <= p.decidedAt
      BY <1>1
    <3>1. p \in pending /\ p.decidedAt \in Nat
      BY <1>2, <1>4 DEF ReplayShape, PendingEntry
    <3> QED
      BY <1>1, <1>3, <3>1
  <2> QED
    BY <1>1, <1>2, <1>3, <1>4, <2>1 DEF StageFits
<1>10. RowsFit'
  <2>1. \A p \in pending' : p \in pending /\ p.stream \in Streams
    BY <1>2, <1>4 DEF ReplayShape, PendingEntry
  <2> QED
    BY <1>1, <1>2, <1>5, <1>7, <2>1 DEF RowsFit
<1>11. FatesFit'
  <2>1. ~Returned'
    BY <1>1, <1>3, <1>4 DEF Returned
  <2>2. ASSUME NEW s \in Streams, NEW c \in 1..Len(decisions[s])
        PROVE  OneFate(\E p \in pending' : p.stream = s /\ p.candidate = c, decisions'[s][c].rejection # "",
                       c \in DOMAIN books'[s].positions, decisions'[s][c].closedAt # Never)
    <3>1. OneFate(IsPending(s, c), decisions[s][c].rejection # "", c \in DOMAIN books[s].positions,
                  decisions[s][c].closedAt # Never)
      BY <1>2 DEF FatesFit, IsOpen
    <3>2. CASE pending' = pending /\ decisions' = decisions
      BY <1>1, <3>1, <3>2 DEF IsPending
    <3>3. CASE stage' = "closeAll" /\ pending' = {}
      <4>1. /\ decisions'[s][c].rejection = IF IsPending(s, c) THEN "WINDOW_END" ELSE decisions[s][c].rejection
            /\ decisions'[s][c].closedAt = decisions[s][c].closedAt
        BY <1>7, <3>3
      <4> QED
        BY <1>1, <3>1, <3>3, <4>1 DEF OneFate
    <3> QED
      BY <1>4, <3>2, <3>3
  <2>3. stage' = "closeAll" => pending' = {}
    BY <1>4
  <2> QED
    BY <1>1, <1>6, <1>7, <2>1, <2>2, <2>3 DEF FatesFit, IsPending, IsOpen
<1>12. FillsFit'
  <2>1. ASSUME NEW s \in Streams, NEW c \in 1..Len(decisions[s])
        PROVE  /\ TradeOrder(decisions'[s][c]) \/ decisions'[s][c].filledAt > WindowTo
               /\ decisions'[s][c].closedAt = Never => decisions'[s][c].pnl = 0
    BY <1>2, <1>7 DEF FillsFit, TradeOrder
  <2>2. ASSUME NEW s \in Streams, NEW c \in DOMAIN books[s].positions
        PROVE  /\ decisions'[s][c].filledAt <= tick + FillDelay
               /\ books[s].positions[c].since # Never =>
                    /\ books[s].positions[c].since <= tick
                    /\ decisions'[s][c].filledAt <= books[s].positions[c].since + FillDelay
    <3> DEFINE f == decisions[s][c].filledAt
               a == books[s].positions[c].since
    <3>1. c \in 1..Len(decisions[s]) /\ decisions[s][c] \in DecisionRow /\ books[s].positions \in PositionMaps
      BY ReplayFacts
    <3>2. f \in Int /\ a \in Int /\ decisions'[s][c].filledAt = f
      BY <1>7, <3>1, MapFacts DEF DecisionRow
    <3>3. f <= clock + FillDelay /\ (a # Never => a <= clock /\ f <= a + FillDelay)
      BY <1>2, <3>1 DEF FillsFit
    <3> HIDE DEF f, a
    <3>4. f <= tick + FillDelay /\ (a # Never => a <= tick /\ f <= a + FillDelay)
      BY <1>3, <3>2, <3>3
    <3> QED
      BY <3>2, <3>4 DEF a
  <2> QED
    BY <1>1, <1>7, <2>1, <2>2 DEF FillsFit
<1>13. \A s \in Streams : Balanced(books[s], decisions[s])'
  <2> SUFFICES ASSUME NEW s \in Streams PROVE Balanced(books[s], decisions'[s])
    BY <1>1 DEF Balanced
  <2>1. Pnl(decisions'[s]) = Pnl(decisions[s])
    <3>1. decisions[s] \in Seq(DecisionRow)
      BY ReplayFacts
    <3> QED
      BY <1>7, <3>1, SameReport
  <2> QED
    BY <1>2, <2>1 DEF Balanced
<1> QED
  BY <1>8, <1>9, <1>10, <1>11, <1>12, <1>13 DEF ReplayInv

LEMMA ReplayDetects == ASSUME ReplayInv, DetectCandidate PROVE ReplayInv'
<1> DEFINE n == Discovered
<1>1. /\ stage = "manage" /\ waiting = {} /\ UNCHANGED <<run, clock, waiting, books>>
      /\ \/ tick + Tick <= WindowTo /\ tick' = tick + Tick /\ stage' = "drain"
         \/ tick' = WindowTo /\ stage' = "lastDrain"
  BY DEF DetectCandidate, NextTick
<1>0. PICK entering \in SUBSET Streams : \E latency \in [entering -> 0..MaxLatency] :
        /\ decisions' = [s \in Streams |-> Append(decisions[s],
             IF s \in entering THEN Unmade ELSE [Unmade EXCEPT !.rejection = "NO_ENTRY"])]
        /\ pending' = pending \cup {[stream |-> s, candidate |-> Discovered + 1,
                                    decidedAt |-> tick + latency[s]] : s \in entering}
  BY DEF DetectCandidate
<1>2. PICK latency \in [entering -> 0..MaxLatency] :
        /\ decisions' = [s \in Streams |-> Append(decisions[s],
             IF s \in entering THEN Unmade ELSE [Unmade EXCEPT !.rejection = "NO_ENTRY"])]
        /\ pending' = pending \cup {[stream |-> s, candidate |-> Discovered + 1,
                                    decidedAt |-> tick + latency[s]] : s \in entering}
  BY <1>0
<1>3. /\ ReplayShape /\ StageFits /\ RowsFit /\ FatesFit /\ FillsFit
      /\ \A s \in Streams : Balanced(books[s], decisions[s])
  BY DEF ReplayInv
<1>4. /\ clock \in Nat /\ tick \in Nat /\ clock <= tick /\ Tick \in Nat \ {0} /\ WindowTo \in Nat /\ MaxLatency \in Nat
      /\ tick <= WindowTo /\ run = "RUNNING"
  BY <1>1, <1>3, ReplayAssumption DEF ReplayShape, StageFits
<1>5. ASSUME NEW s \in Streams PROVE Len(decisions[s]) = n /\ n \in Nat
  <2>1. (CHOOSE t \in Streams : TRUE) \in Streams
    OBVIOUS
  <2>2. Len(decisions[s]) = n
    BY <1>3, <2>1 DEF RowsFit, Discovered
  <2> QED
    BY <2>2, ReplayFacts
<1>6. Unmade \in DecisionRow /\ Unmade.rejection = "" /\ Unmade.closedAt = Never /\ Unmade.pnl = 0
  BY DEF Unmade, DecisionRow, Rejections, Reasons, Never
<1> DEFINE row(s) == IF s \in entering THEN Unmade ELSE [Unmade EXCEPT !.rejection = "NO_ENTRY"]
<1>7. \A s : /\ row(s) \in DecisionRow /\ (row(s).rejection # "" <=> s \notin entering)
            /\ row(s).closedAt = Never /\ row(s).pnl = 0
  <2> DEFINE none == [Unmade EXCEPT !.rejection = "NO_ENTRY"]
  <2>1. none \in DecisionRow /\ none.rejection = "NO_ENTRY" /\ none.closedAt = Never /\ none.pnl = 0
    BY <1>6 DEF DecisionRow, Rejections
  <2> QED
    BY <1>6, <2>1
<1>8. decisions' = [s \in Streams |-> Append(decisions[s], row(s))]
  BY <1>2
<1> HIDE DEF row
<1>9. ASSUME NEW s \in Streams
      PROVE  /\ decisions'[s] = Append(decisions[s], row(s))
             /\ decisions'[s] \in Seq(DecisionRow) /\ Len(decisions'[s]) = n + 1
             /\ decisions'[s][n + 1] = row(s)
             /\ \A c \in 1..n : decisions'[s][c] = decisions[s][c]
  <2>1. decisions[s] \in Seq(DecisionRow) /\ Len(decisions[s]) = n /\ n \in Nat
    BY <1>5, ReplayFacts
  <2>2. decisions'[s] = Append(decisions[s], row(s)) /\ row(s) \in DecisionRow
    BY <1>7, <1>8
  <2> DEFINE r == row(s)
             rows == decisions[s]
  <2> HIDE DEF r, rows, n
  <2>3. /\ Append(rows, r) \in Seq(DecisionRow) /\ Len(Append(rows, r)) = n + 1 /\ Append(rows, r)[n + 1] = r
        /\ \A c \in 1..n : Append(rows, r)[c] = rows[c]
    BY <2>1, <2>2 DEF r, rows
  <2> QED
    BY <2>2, <2>3 DEF r, rows
<1>10. \A p \in pending' :
         \/ p \in pending /\ p.stream \in Streams /\ p.candidate \in 1..n
         \/ /\ p.stream \in entering /\ p.candidate = n + 1 /\ n \in Nat
            /\ p = [stream |-> p.stream, candidate |-> n + 1, decidedAt |-> tick + latency[p.stream]]
  <2> SUFFICES ASSUME NEW p \in pending'
               PROVE  \/ p \in pending /\ p.stream \in Streams /\ p.candidate \in 1..n
                      \/ /\ p.stream \in entering /\ p.candidate = n + 1 /\ n \in Nat
                         /\ p = [stream |-> p.stream, candidate |-> n + 1, decidedAt |-> tick + latency[p.stream]]
    OBVIOUS
  <2>1. CASE p \in pending
    <3>1. p.stream \in Streams
      BY <1>3, <2>1 DEF ReplayShape, PendingEntry
    <3> QED
      BY <1>3, <1>5, <2>1, <3>1 DEF RowsFit
  <2>2. CASE p \notin pending
    <3>1. PICK s \in entering : p = [stream |-> s, candidate |-> n + 1, decidedAt |-> tick + latency[s]]
      BY <1>2, <2>2
    <3> QED
      BY <1>5, <3>1
  <2> QED
    BY <2>1, <2>2
<1>11. pending \subseteq pending'
       /\ \A s \in entering : [stream |-> s, candidate |-> n + 1, decidedAt |-> tick + latency[s]] \in pending'
  BY <1>2
<1> HIDE DEF n
<1>12. \A s \in entering : latency[s] \in Nat /\ tick + latency[s] \in Nat /\ tick <= tick + latency[s]
  BY <1>4
<1>13. ReplayShape'
  <2>1. pending' \subseteq PendingEntry
    BY <1>3, <1>10, <1>12 DEF ReplayShape, PendingEntry
  <2>2. decisions' \in [Streams -> Seq(DecisionRow)]
    BY <1>8, <1>9
  <2>3. tick' \in Nat /\ stage' \in Stages
    BY <1>1, <1>4 DEF Stages
  <2> QED
    BY <1>1, <1>3, <2>1, <2>2, <2>3 DEF ReplayShape
<1>14. StageFits'
  <2>1. clock <= tick' /\ tick' <= WindowTo
    BY <1>1, <1>4
  <2>2. \A p \in pending' : clock <= p.decidedAt
    <3> SUFFICES ASSUME NEW p \in pending' PROVE clock <= p.decidedAt
      OBVIOUS
    <3>1. CASE p \in pending
      BY <1>3, <3>1 DEF StageFits
    <3>2. CASE p \notin pending
      <4>1. p.stream \in entering /\ p.decidedAt = tick + latency[p.stream]
        BY <1>10, <3>2
      <4> QED
        BY <1>4, <1>12, <4>1
    <3> QED
      BY <3>1, <3>2
  <2> QED
    BY <1>1, <1>4, <2>1, <2>2 DEF StageFits
<1>15. RowsFit'
  <2>1. \A s, t \in Streams : Len(decisions'[s]) = Len(decisions'[t])
    BY <1>9
  <2>2. \A p \in pending' : p.candidate \in 1..Len(decisions'[p.stream])
    BY <1>5, <1>9, <1>10
  <2>3. \A p, q \in pending' : p.stream = q.stream /\ p.candidate = q.candidate => p = q
    <3> SUFFICES ASSUME NEW p \in pending', NEW q \in pending', p.stream = q.stream, p.candidate = q.candidate
                 PROVE  p = q
      OBVIOUS
    <3>1. CASE p \in pending /\ q \in pending
      BY <1>3, <3>1 DEF RowsFit
    <3>2. CASE p \notin pending /\ q \notin pending
      BY <1>10, <3>2
    <3>3. CASE ~(p \in pending <=> q \in pending)
      BY <1>10, <3>3
    <3> QED
      BY <3>1, <3>2, <3>3
  <2>4. \A s \in Streams : DOMAIN books'[s].positions \subseteq 1..Len(decisions'[s])
    <3> SUFFICES ASSUME NEW s \in Streams PROVE DOMAIN books[s].positions \subseteq 1..Len(decisions'[s])
      BY <1>1
    <3>1. DOMAIN books[s].positions \subseteq 1..n /\ n \in Nat
      BY <1>3, <1>5 DEF RowsFit
    <3> QED
      BY <1>9, <3>1
  <2> QED
    BY <1>1, <2>1, <2>2, <2>3, <2>4 DEF RowsFit
<1>16. FatesFit'
  <2>1. ~Returned' /\ stage' # "closeAll"
    BY <1>1, <1>4 DEF Returned
  <2>2. ASSUME NEW s \in Streams, NEW c \in 1..(n + 1)
        PROVE  OneFate(\E p \in pending' : p.stream = s /\ p.candidate = c, decisions'[s][c].rejection # "",
                       c \in DOMAIN books'[s].positions, decisions'[s][c].closedAt # Never)
    <3>1. CASE c \in 1..n
      <4>1. OneFate(\E p \in pending : p.stream = s /\ p.candidate = c, decisions[s][c].rejection # "",
                    c \in DOMAIN books[s].positions, decisions[s][c].closedAt # Never)
        BY <1>3, <1>5, <3>1 DEF FatesFit, IsPending, IsOpen
      <4>2. (\E p \in pending' : p.stream = s /\ p.candidate = c) <=> (\E p \in pending : p.stream = s /\ p.candidate = c)
        BY <1>5, <1>10, <1>11, <3>1
      <4>3. decisions'[s][c] = decisions[s][c] /\ books'[s] = books[s]
        BY <1>1, <1>9, <3>1
      <4> QED
        BY <4>1, <4>2, <4>3
    <3>2. CASE c = n + 1
      <4>1. (\E p \in pending' : p.stream = s /\ p.candidate = c) <=> s \in entering
        <5>1. ASSUME s \in entering PROVE \E p \in pending' : p.stream = s /\ p.candidate = c
          BY <1>11, <3>2, <5>1
        <5>2. ASSUME NEW p \in pending', p.stream = s, p.candidate = c PROVE s \in entering
          BY <1>5, <1>10, <3>2, <5>2
        <5> QED
          BY <5>1, <5>2
      <4>2. /\ decisions'[s][c].rejection # "" <=> s \notin entering
            /\ decisions'[s][c].closedAt = Never
        BY <1>7, <1>9, <3>2
      <4>3. c \notin DOMAIN books'[s].positions
        BY <1>1, <1>3, <1>5, <3>2 DEF RowsFit
      <4> QED
        BY <4>1, <4>2, <4>3 DEF OneFate
    <3>3. c \in 1..n \/ c = n + 1
      BY <1>5
    <3> QED
      BY <3>1, <3>2, <3>3
  <2> QED
    BY <1>9, <2>1, <2>2 DEF FatesFit, IsPending, IsOpen
<1>17. FillsFit'
  <2>1. ASSUME NEW s \in Streams, NEW c \in 1..(n + 1)
        PROVE  /\ TradeOrder(decisions'[s][c]) \/ decisions'[s][c].filledAt > WindowTo
               /\ decisions'[s][c].closedAt = Never => decisions'[s][c].pnl = 0
    <3>1. CASE c \in 1..n
      BY <1>3, <1>5, <1>9, <3>1 DEF FillsFit
    <3>2. CASE c = n + 1
      BY <1>7, <1>9, <3>2 DEF TradeOrder
    <3> QED
      BY <1>5, <3>1, <3>2
  <2>2. ASSUME NEW s \in Streams, NEW c \in DOMAIN books[s].positions
        PROVE  /\ decisions'[s][c].filledAt <= clock + FillDelay
               /\ books[s].positions[c].since # Never =>
                    /\ books[s].positions[c].since <= clock
                    /\ decisions'[s][c].filledAt <= books[s].positions[c].since + FillDelay
    <3>1. decisions'[s][c] = decisions[s][c]
      BY <1>3, <1>5, <1>9 DEF RowsFit
    <3> QED
      BY <1>3, <3>1 DEF FillsFit
  <2> QED
    BY <1>1, <1>9, <2>1, <2>2 DEF FillsFit
<1>18. \A s \in Streams : Balanced(books[s], decisions[s])'
  <2> SUFFICES ASSUME NEW s \in Streams PROVE Balanced(books[s], decisions'[s])
    BY <1>1 DEF Balanced
  <2>1. SumFunction(Pnl(decisions'[s])) = SumFunction(Pnl(decisions[s]))
    <3>1. decisions[s] \in Seq(DecisionRow) /\ row(s) \in DecisionRow /\ row(s).pnl = 0
      BY <1>7, ReplayFacts
    <3> DEFINE r == row(s)
    <3> HIDE DEF r
    <3>2. SumFunction(Pnl(Append(decisions[s], r))) = SumFunction(Pnl(decisions[s]))
      BY <3>1, LongerReport DEF r
    <3> QED
      BY <1>9, <3>2 DEF r
  <2> QED
    BY <1>3, <2>1 DEF Balanced
<1> QED
  BY <1>13, <1>14, <1>15, <1>16, <1>17, <1>18 DEF ReplayInv

LEMMA ReplayStep == FillsSoon /\ ReplayInv /\ [ReplayNext]_replayVars => ReplayInv'
<1> SUFFICES ASSUME FillsSoon, ReplayInv, [ReplayNext]_replayVars PROVE ReplayInv'
  OBVIOUS
<1>1. CASE ExecuteEntry
  BY <1>1, ReplayExecutes
<1>2. CASE EndDrain
  BY <1>2, ReplayDrained
<1>3. CASE \E w \in waiting : ManageUnquotable(w) \/ ManageHold(w) \/ ManageSell(w) \/ CloseUnfilled(w)
  BY <1>3, ReplayUnquotable, ReplaySells
<1>4. CASE DetectCandidate
  BY <1>4, ReplayDetects
<1>5. CASE \/ ClaimRun \/ NothingDetected \/ EngineReturns \/ StoreDecisions \/ StoreTrades \/ CompleteRun
           \/ RunThrows \/ RunnerDies \/ UNCHANGED replayVars
  BY <1>5, ReplayStages
<1> QED
  BY <1>1, <1>2, <1>3, <1>4, <1>5 DEF ReplayNext

\* The invariant holds in every run that waits for a quote as long as an order takes to fill.
THEOREM ReplayInvariant == FillsSoon => (ReplaySpec => []ReplayInv)
<1> SUFFICES ASSUME FillsSoon PROVE ReplaySpec => []ReplayInv
  OBVIOUS
<1>1. ReplayInv /\ [ReplayNext]_replayVars => ReplayInv'
  BY ReplayStep
<1> QED
  BY <1>1, ReplayStart, PTL DEF ReplaySpec

LEMMA ReplayInvStands == ReplayInv => ReplayStands
<1> SUFFICES ASSUME ReplayInv PROVE ReplayStands
  OBVIOUS
<1>1. \A p \in Foremost : clock <= p.decidedAt
  BY DEF ReplayInv, StageFits, Foremost, Due
<1>2. BooksBalance
  BY DEF BooksBalance, ReplayInv, Balanced
<1>3. ASSUME NEW s \in Streams, NEW c \in DOMAIN decisions[s]
      PROVE  /\ OnlyOne(<<IsPending(s, c), decisions[s][c].rejection # "", IsOpen(s, c),
                          decisions[s][c].closedAt # Never>>)
             /\ stage \in {"decisions", "trades", "complete"} \/ run = "COMPLETED" =>
                  decisions[s][c].rejection # "" \/ decisions[s][c].closedAt # Never \/ IsPassedOver(s, c)
  <2>1. c \in 1..Len(decisions[s])
    BY ReplayFacts
  <2> DEFINE a == IsPending(s, c)
             b == decisions[s][c].rejection # ""
             o == IsOpen(s, c)
             d == decisions[s][c].closedAt # Never
  <2>2. OneFate(a, b, o, d)
    BY <2>1 DEF ReplayInv, FatesFit
  <2>3. OnlyOne(<<a, b, o, d>>)
    <3>1. a \in BOOLEAN /\ b \in BOOLEAN /\ o \in BOOLEAN /\ d \in BOOLEAN
      BY DEF IsPending, IsOpen
    <3> HIDE DEF a, b, o, d
    <3>2. PICK f \in 1..4 : <<a, b, o, d>>[f] /\ \A g \in 1..4 \ {f} : ~<<a, b, o, d>>[g]
      <4>1. CASE a
        BY <2>2, <4>1 DEF OneFate
      <4>2. CASE b
        BY <2>2, <4>2 DEF OneFate
      <4>3. CASE o
        BY <2>2, <4>3 DEF OneFate
      <4>4. CASE d
        BY <2>2, <4>4 DEF OneFate
      <4> QED
        BY <2>2, <4>1, <4>2, <4>3, <4>4 DEF OneFate
    <3> QED
      BY <3>2 DEF OnlyOne
  <2>4. Returned => b \/ d \/ IsPassedOver(s, c)
    <3>1. Returned => ~a /\ (o => books[s].positions[c].price = 0)
      BY DEF ReplayInv, FatesFit, IsPending, IsOpen
    <3> QED
      BY <2>2, <3>1 DEF OneFate, IsPassedOver
  <2> QED
    BY <2>3, <2>4 DEF Returned
<1>4. OneEnding
  BY <1>3 DEF OneEnding
<1>5. ClosesInOrder
  BY ReplayFacts DEF ClosesInOrder, ReplayInv, FillsFit
<1> QED
  BY <1>1, <1>2, <1>4, <1>5 DEF ReplayStands

\* Whatever the ticks, the candidates and the prices, the clock of a replay never goes back,
\* every book balances to the unit, every decision ends in one way, and a trade closes after
\* it was filled, or was filled beyond the window.
THEOREM ReplayIsSound == FillsSoon => (ReplaySpec => []ReplayStands)
<1> SUFFICES ASSUME FillsSoon PROVE ReplaySpec => []ReplayStands
  OBVIOUS
<1>1. ReplaySpec => []ReplayInv
  BY ReplayInvariant
<1> QED
  BY <1>1, ReplayInvStands, PTL

----------------------------------------------------------------------------
(* The types of the agent cycle: its cutoffs, its rounds and what was lost. *)

Counted(c) == c.cutoff \in 1..MaxCutoffs /\ c.round \in 0..MaxRevisionRounds

CycleCounted ==
  /\ Counted(cycle) /\ dropped \subseteq Numbers
  /\ review \in {"REVIEWED", "PROTECTION_ONLY", "BUDGET_PAUSED"}

\* A new cycle has its first cutoff and no round, and the fields an event sets are others.
LEMMA CountsBegin ==
  /\ Counted(Rejection) /\ Counted(NoCycle)
  /\ \A n, target : Counted(NewCycle(n, target))
  /\ \A n : Counted([NoCycle EXCEPT !.n = n])
BY CycleAssumption DEF Counted, Rejection, NoCycle, NewCycle, MaxRevisionRounds

LEMMA CountsStay ==
  ASSUME NEW c \in CycleShape, Counted(c), NEW d \in CycleShape, d.cutoff = c.cutoff, d.round = c.round
  PROVE  Counted(d)
BY DEF Counted

LEMMA EndsCounted ==
  ASSUME NEW c \in CycleShape, Counted(c), NEW state, NEW k, NEW why
  PROVE  /\ Counted(Ends(c, state)) /\ Counted(Unresolved(c, why))
         /\ Counted([Ends(c, state) EXCEPT !.cleared = k])
         /\ Counted([Ends(c, state) EXCEPT !.verdict = "none", !.cleared = k])
<1>1. Counted(Ends(c, state))
  BY DEF Counted, Ends, CycleShape
<1>2. Counted(Unresolved(c, why))
  BY DEF Counted, Ends, Unresolved, CycleShape
<1>3. Counted([Ends(c, state) EXCEPT !.cleared = k])
  BY DEF Counted, Ends, CycleShape
<1>4. Counted([Ends(c, state) EXCEPT !.verdict = "none", !.cleared = k])
  BY DEF Counted, Ends, CycleShape
<1> QED
  BY <1>1, <1>2, <1>3, <1>4

LEMMA ProposedCounted ==
  ASSUME NEW c \in CycleShape, Counted(c), NEW action \in Actions, NEW version
  PROVE  Counted(Proposed(c, action, version))
<1> DEFINE base == [c EXCEPT !.action = action]
<1>1. base \in CycleShape /\ Counted(base)
  BY DEF Counted, CycleShape
<1> HIDE DEF base
<1>2. Counted([base EXCEPT !.state = "PROPOSED"])
  BY <1>1 DEF Counted, CycleShape
<1>3. Counted([Ends(base, "CLEARED") EXCEPT !.verdict = "none", !.cleared = c.cutoff])
  BY <1>1, EndsCounted
<1> QED
  BY <1>2, <1>3, CountsBegin DEF Proposed, base

LEMMA ReviewedCounted ==
  ASSUME NEW c \in CycleShape, Counted(c), NEW judgement \in {"CONFIRM", "REJECT", "CHALLENGE"}, NEW version
  PROVE  Counted(Reviewed(c, judgement, version))
<1> DEFINE judged == [c EXCEPT !.verdict = judgement]
<1>1. judged \in CycleShape /\ Counted(judged) /\ judged.round = c.round
  BY DEF Counted, CycleShape
<1> HIDE DEF judged
<1>2. /\ Counted([Ends(judged, "CLEARED") EXCEPT !.cleared = c.cutoff]) /\ Counted(Ends(judged, "REJECTED"))
      /\ Counted(Unresolved(judged, "REVISION_EXHAUSTED"))
  BY <1>1, EndsCounted
<1>3. c.round < MaxRevisionRounds => Counted([judged EXCEPT !.state = "REVISION_REQUESTED", !.round = @ + 1])
  BY <1>1 DEF Counted, CycleShape, MaxRevisionRounds
<1>4. c.round \in Nat
  BY DEF CycleShape
<1> QED
  BY <1>2, <1>3, <1>4, CountsBegin DEF Reviewed, judged, MaxRevisionRounds

LEMMA FailingCounted ==
  ASSUME NEW c \in CycleShape, Counted(c), NEW why \in Failures \cup {"EXPIRED"}
  PROVE  Counted(Transition(c, [type |-> why]))
<1>1. \/ Transition(c, [type |-> why]) = Rejection
      \/ Transition(c, [type |-> why]) = Ends(c, "EXPIRED")
      \/ Transition(c, [type |-> why]) = Unresolved(c, why)
  BY DEF Transition, Failures
<1> QED
  BY <1>1, CountsBegin, EndsCounted

LEMMA GateCounted ==
  ASSUME AgentInv, Counted(cycle), GateAndBuild
  PROVE  Counted(cycle')
<1>1. cycle \in CycleShape /\ cycle.state = "TRIGGERED"
  BY DEF GateAndBuild, AgentInv, AgentShape, CycleFits
<1> DEFINE given == [cycle EXCEPT !.packet = cycle.cutoff]
           built == Transition(given, [type |-> "CONTEXT_BUILT"])
<1>2. given \in CycleShape /\ given.state = "TRIGGERED" /\ Counted(given)
  BY <1>1 DEF CycleShape, Counted
<1>3. built \in CycleShape /\ Counted(built)
  <2> HIDE DEF given
  <2>1. "CONTEXT_BUILT" \in CycleStates /\ built = Ends(given, "CONTEXT_BUILT")
    BY <1>2, StateNames, ContextIsBuilt
  <2>2. Ends(given, "CONTEXT_BUILT") \in CycleShape
    BY <1>2, <2>1, CycleChanged
  <2>3. Counted(Ends(given, "CONTEXT_BUILT"))
    BY <1>2, EndsCounted
  <2> QED
    BY <2>1, <2>2, <2>3
<1>4. \/ \E why \in {"BUDGET", "ADVERSARY_UNAVAILABLE", "EXPIRED"} : cycle' = Transition(cycle, [type |-> why])
      \/ cycle' = built \/ cycle' = Transition(built, [type |-> "ADVERSARY_UNAVAILABLE"])
  BY DEF GateAndBuild, Fail, StepTo
<1> HIDE DEF built
<1> QED
  BY <1>1, <1>3, <1>4, FailingCounted, FailNames

LEMMA ReviseCounted ==
  ASSUME AgentInv, Counted(cycle), Revise
  PROVE  Counted(cycle')
<1>1. cycle \in CycleShape /\ cycle.state = "REVISION_REQUESTED"
  BY DEF Revise, AgentInv, AgentShape, CycleFits
<1>2. CASE cycle.cutoff < MaxCutoffs /\ StepTo(cycle, [type |-> "EVIDENCE_REFRESHED"], "rebuild")
  <2>1. cycle' = [cycle EXCEPT !.cutoff = @ + 1]
    BY <1>1, <1>2, EvidenceIsRefreshed DEF StepTo
  <2> QED
    BY <1>1, <1>2, <2>1, CycleAssumption DEF Counted, CycleShape
<1>3. CASE UNCHANGED cycle
  BY <1>3
<1> QED
  BY <1>2, <1>3 DEF Revise

LEMMA RebuildCounted ==
  ASSUME AgentInv, Counted(cycle), Rebuild
  PROVE  Counted(cycle')
<1>1. cycle \in CycleShape
  BY DEF AgentInv, AgentShape
<1>2. CASE cycle' = [cycle EXCEPT !.packet = cycle.cutoff]
  BY <1>1, <1>2 DEF Counted, CycleShape
<1>3. CASE cycle' = Transition(cycle, [type |-> "ADVERSARY_UNAVAILABLE"])
  BY <1>1, <1>3, FailingCounted, FailNames
<1> QED
  BY <1>2, <1>3 DEF Rebuild, Fail, StepTo

LEMMA ProposeCounted ==
  ASSUME AgentInv, Counted(cycle), ProposeAction
  PROVE  Counted(cycle')
<1>1. cycle \in CycleShape /\ cycle.state \in {"CONTEXT_BUILT", "REVISION_REQUESTED"}
  BY DEF ProposeAction, AgentInv, AgentShape, CycleFits
<1> DEFINE c == [cycle EXCEPT !.seen.proposer = cycle.packet]
<1>2. c \in CycleShape /\ c.state = cycle.state /\ Counted(c)
  BY <1>1 DEF Counted, CycleShape
<1>3. PICK action \in AllowedActions(cycle.target) :
        cycle' = Transition(c, [type |-> "PROPOSED", action |-> action, version |-> cycle.cutoff])
  BY DEF ProposeAction, StepTo
<1>4. action \in Actions
  BY DEF AllowedActions, Actions, ExposureActions
<1> HIDE DEF c
<1>5. cycle' = Proposed(c, action, cycle.cutoff)
  BY <1>1, <1>2, <1>3 DEF Transition, Terminal, Failures
<1> QED
  BY <1>2, <1>4, <1>5, ProposedCounted

LEMMA ReviewCounted ==
  ASSUME AgentInv, Counted(cycle), ReviewAction
  PROVE  Counted(cycle')
<1>1. cycle \in CycleShape /\ cycle.state = "PROPOSED"
  BY DEF ReviewAction, AgentInv, AgentShape, CycleFits
<1> DEFINE c == [cycle EXCEPT !.seen.adversary = cycle.packet]
<1>2. c \in CycleShape /\ c.state = "PROPOSED" /\ Counted(c)
  BY <1>1 DEF Counted, CycleShape
<1>3. PICK judgement \in {"CONFIRM", "REJECT", "CHALLENGE"} :
        cycle' = Transition(c, [type |-> "ADVERSARY_REVIEWED", verdict |-> judgement, version |-> cycle.cutoff])
  BY DEF ReviewAction, StepTo
<1> HIDE DEF c
<1>4. cycle' = Reviewed(c, judgement, cycle.cutoff)
  BY <1>1, <1>2, <1>3 DEF Transition, Terminal, Failures
<1> QED
  BY <1>2, <1>4, ReviewedCounted

LEMMA CallFailsCounted ==
  ASSUME AgentInv, Counted(cycle), CallFails
  PROVE  Counted(cycle')
<1>1. cycle \in CycleShape
  BY DEF AgentInv, AgentShape
<1>2. PICK why \in Failures \cup {"EXPIRED"} : cycle' = Transition(cycle, [type |-> why])
  BY FailNames DEF CallFails, Fail, StepTo
<1> QED
  BY <1>1, <1>2, FailingCounted

LEMMA CountedStarts == AgentInit => CycleCounted
BY CountsBegin DEF AgentInit, CycleCounted

LEMMA CountedSteps == AgentInv /\ CycleCounted /\ [AgentNext]_agentVars => CycleCounted'
<1> SUFFICES ASSUME AgentInv, CycleCounted, [AgentNext]_agentVars PROVE CycleCounted'
  OBVIOUS
<1>1. ASSUME GateAndBuild \/ Revise \/ Rebuild \/ CallFails \/ ProposeAction \/ ReviewAction PROVE CycleCounted'
  <2>1. UNCHANGED <<dropped, review>>
    BY <1>1 DEF GateAndBuild, Revise, Rebuild, CallFails, ProposeAction, ReviewAction, InRunner
  <2>2. Counted(cycle')
    BY <1>1, GateCounted, ReviseCounted, RebuildCounted, CallFailsCounted, ProposeCounted, ReviewCounted DEF CycleCounted
  <2> QED
    BY <2>1, <2>2 DEF CycleCounted
<1>2. ASSUME NEW target, StartCycle(target) PROVE CycleCounted'
  <2>1. UNCHANGED <<dropped, review>> /\ Counted(cycle')
    BY <1>2, CountsBegin DEF StartCycle, InRunner
  <2> QED
    BY <2>1 DEF CycleCounted
<1>3. CASE StoreOutcome
  <2>1. Counted(cycle') /\ dropped' = dropped
    BY <1>3, CountsBegin DEF StoreOutcome, Forget
  <2>2. review' = ReviewAfter(cycle) \/ review' = review
    BY <1>3 DEF StoreOutcome
  <2> QED
    BY <2>1, <2>2 DEF CycleCounted, ReviewAfter
<1>4. CASE StoreFails
  <2>1. Counted(cycle') /\ dropped' = dropped \cup {cycle.n} /\ review' = review
    BY <1>4, CountsBegin DEF StoreFails, Forget
  <2>2. cycle.n \in Numbers
    BY <1>4 DEF StoreFails, AgentInv, AgentShape
  <2> QED
    BY <2>1, <2>2 DEF CycleCounted
<1>5. ASSUME UNCHANGED <<cycle, dropped>>, review' = review \/ review' = "REVIEWED" PROVE CycleCounted'
  BY <1>5 DEF CycleCounted, Counted
<1>6. ASSUME NEW h \in Handlers,
             DeliverAction(h) \/ CheckAction(h) \/ EvaluateAction(h) \/ FillAction(h) \/ FinishAction(h) \/ ActionThrows(h)
      PROVE  CycleCounted'
  BY <1>5, <1>6 DEF DeliverAction, CheckAction, EvaluateAction, FillAction, FinishAction, ActionThrows, InHandler
<1>7. CASE MandatoryExit \/ UNCHANGED agentVars
  BY <1>5, <1>7 DEF MandatoryExit, agentVars
<1> QED
  BY <1>1, <1>2, <1>3, <1>4, <1>6, <1>7 DEF AgentNext, RunnerStep

LEMMA AgentTyped == AgentInv /\ CycleCounted => AgentTypeOK
<1> SUFFICES ASSUME AgentInv, CycleCounted PROVE AgentTypeOK
  OBVIOUS
<1>1. executed \in [Numbers -> 0..2]
  BY DEF AgentInv, AgentShape, FillsOnce
<1> QED
  BY <1>1 DEF AgentInv, AgentShape, CycleShape, CycleCounted, Counted, AgentTypeOK

----------------------------------------------------------------------------
(* The types of the journal's import.                                       *)

ImportCounted == Len(lines) <= MaxLines /\ emergencies \subseteq Orders /\ reviewGate \in BOOLEAN

LEMMA ImportCountedStarts == ImportInit => ImportCounted
<1> SUFFICES ASSUME ImportInit PROVE ImportCounted
  OBVIOUS
<1>1. lines = <<>> /\ emergencies = {} /\ reviewGate = FALSE /\ MaxLines \in Nat
  BY ImportAssumption DEF ImportInit
<1>2. Len(lines) <= MaxLines
  BY <1>1
<1>3. emergencies \subseteq Orders /\ reviewGate \in BOOLEAN
  BY <1>1
<1> QED
  BY <1>2, <1>3 DEF ImportCounted

LEMMA ImportCountedSteps == ImportInv /\ ImportCounted /\ [ImportNext]_importVars => ImportCounted'
<1> SUFFICES ASSUME ImportInv, ImportCounted, [ImportNext]_importVars PROVE ImportCounted'
  OBVIOUS
<1>1. lines \in Seq(Lines) /\ Len(lines) \in Nat /\ MaxLines \in Nat
  BY ImportAssumption DEF ImportInv, ImportShape
<1>2. ASSUME NEW l \in Lines, ExecutorWrites(l) PROVE ImportCounted'
  <2>1. Len(lines) < MaxLines /\ lines' = Append(lines, l) /\ UNCHANGED <<emergencies, reviewGate>>
    BY <1>2 DEF ExecutorWrites
  <2>2. Len(lines') = Len(lines) + 1
    BY <1>1, <2>1
  <2> QED
    BY <1>1, <2>1, <2>2 DEF ImportCounted
<1>3. CASE ImportEntry
  <2> DEFINE i == Min(importer.todo)
  <2>1. importer.todo \subseteq 1..Len(lines) /\ importer.todo # {} /\ importer.todo \subseteq Nat
    BY <1>1, <1>3 DEF ImportEntry, ImportInv, ImportShape
  <2>2. i \in 1..Len(lines)
    BY <2>1, LeastOf
  <2>3. emergencies' = IF lines[i].kind = "PREPARED_EMERGENCY" THEN emergencies \cup {lines[i].order} ELSE emergencies
    BY <1>3 DEF ImportEntry
  <2>4. UNCHANGED <<lines, reviewGate>>
    BY <1>3 DEF ImportEntry
  <2> HIDE DEF i
  <2>5. lines[i] \in Lines
    BY <1>1, <2>2
  <2>6. lines[i].kind = "PREPARED_EMERGENCY" => lines[i].order \in Orders
    BY <2>5 DEF Lines, LineKinds
  <2> QED
    BY <2>3, <2>4, <2>6 DEF ImportCounted
<1>4. CASE SetReviewGate
  <2>1. importer.closes \in BOOLEAN
    BY DEF ImportInv, ImportShape, Importing
  <2> QED
    BY <1>4, <2>1 DEF SetReviewGate, ImportCounted
<1>5. CASE Pull \/ ImportThrows \/ UNCHANGED importVars
  BY <1>5 DEF Pull, ImportThrows, importVars, ImportCounted
<1> QED
  BY <1>2, <1>3, <1>4, <1>5 DEF ImportNext

LEMMA ImportTyped == ImportInv /\ ImportCounted => ImportTypeOK
BY DEF ImportInv, ImportShape, Importing, ImportCounted, ImportTypeOK

----------------------------------------------------------------------------
(* The types of the position shadow. The book has changed often enough for  *)
(* the number of every entry: once more than for one that is still open.    *)

Changed(s) == IF s.book = book THEN changes + 1 ELSE changes

Dated(s) ==
  /\ s.sequence \in Nat \ {0} /\ s.book \in Books /\ s = [sequence |-> s.sequence, book |-> s.book]
  /\ s.sequence <= Changed(s)

EntriesDated ==
  /\ \A i \in DOMAIN shadows : Dated(shadows[i])
  /\ \A s \in pushes : Dated(s)
  /\ held = NoShadow \/ Dated(held)
  /\ shadowRole.shadow = NoShadow \/ Dated(shadowRole.shadow)
  /\ shadowRole.at \in {"append", "push", "await"} => Dated(shadowRole.shadow)

ShadowCounted ==
  /\ changes \in 0..MaxChanges /\ faults \in 0..MaxFaults
  /\ tail \in {"clean", "torn", "unterminated"} /\ entryPause \in {"none", "set", "cleared"}
  /\ {dbUp, refused, alert, lost} \subseteq BOOLEAN

LEMMA DatedIsEntry ==
  ASSUME ShadowCounted, NEW s, Dated(s)
  PROVE  s \in Shadows
<1>1. changes \in 0..MaxChanges /\ MaxChanges \in Nat /\ MaxFaults \in Nat
  BY ShadowAssumption DEF ShadowCounted
<1>2. s.sequence \in 1..(MaxChanges + MaxFaults + 1)
  BY <1>1 DEF Dated, Changed
<1> QED
  BY <1>2 DEF Dated, Shadows

LEMMA ShadowTyped == ShadowInv /\ EntriesDated /\ ShadowCounted => ShadowTypeOK
<1> SUFFICES ASSUME ShadowInv, EntriesDated, ShadowCounted PROVE ShadowTypeOK
  OBVIOUS
<1>1. /\ \A i \in DOMAIN shadows : shadows[i] \in Shadows
      /\ pushes \subseteq Shadows /\ held \in Shadows \cup {NoShadow} /\ shadowRole.shadow \in Shadows \cup {NoShadow}
  BY DatedIsEntry DEF EntriesDated
<1>2. shadowRole \in Shadowing /\ book \in Books
  BY DEF ShadowInv
<1>3. shadowRole \in [at : {"idle", "append", "push", "await", "alarm", "raise"},
                      shadow : Shadows \cup {NoShadow}, failures : 0..2]
  BY <1>1, <1>2 DEF Shadowing
<1> QED
  BY <1>1, <1>2, <1>3 DEF ShadowTypeOK, ShadowCounted

LEMMA ShadowCountedStarts == ShadowInit => EntriesDated /\ ShadowCounted
<1> SUFFICES ASSUME ShadowInit PROVE EntriesDated /\ ShadowCounted
  OBVIOUS
<1>1. /\ dbUp = TRUE /\ shadows = <<>> /\ tail = "clean" /\ shadowRole = RoleAtRest /\ pushes = {} /\ held = NoShadow
      /\ refused = FALSE /\ entryPause = "none" /\ alert = FALSE /\ lost = FALSE /\ changes = 0 /\ faults = 0
  BY DEF ShadowInit
<1>2. EntriesDated
  BY <1>1 DEF EntriesDated, RoleAtRest
<1>3. {dbUp, refused, alert, lost} \subseteq BOOLEAN
  BY <1>1
<1> QED
  BY <1>1, <1>2, <1>3, ShadowAssumption DEF ShadowCounted

LEMMA ShadowCountedSteps == ShadowInv /\ ShadowCounted /\ [ShadowNext]_shadowVars => ShadowCounted'
<1> SUFFICES ASSUME ShadowInv, ShadowCounted, [ShadowNext]_shadowVars PROVE ShadowCounted'
  OBVIOUS
<1>0. changes \in 0..MaxChanges /\ faults \in 0..MaxFaults /\ MaxChanges \in Nat /\ MaxFaults \in Nat
  BY ShadowAssumption DEF ShadowCounted
<1>1. CASE ReadBook \/ ReadFails \/ AppendShadow \/ Push \/ DatabaseReturns \/ OperatorResumes
  <2>1. UNCHANGED <<changes, faults, alert>> /\ tail' \in {tail, "clean"} /\ entryPause' \in {entryPause, "cleared"}
    BY <1>1 DEF ReadBook, ReadFails, AppendShadow, Push, DatabaseReturns, OperatorResumes, fileVars, alarmVars
  <2>2. dbUp' \in {dbUp, TRUE} /\ refused' \in {refused} \cup BOOLEAN /\ lost' \in {lost} \cup BOOLEAN
    BY <1>1 DEF ReadBook, ReadFails, AppendShadow, Push, DatabaseReturns, OperatorResumes, fileVars
  <2> QED
    BY <2>1, <2>2 DEF ShadowCounted
<1>2. CASE SetAlarm \/ Raise \/ AlarmThrows \/ PushFails \/ \E s \in pushes : SyncShadow(s)
  <2>1. UNCHANGED <<dbUp, tail, refused, lost, changes, faults>> /\ alert' \in {alert, TRUE} /\ entryPause' \in {entryPause, "set"}
    BY <1>2 DEF SetAlarm, Raise, AlarmThrows, PushFails, SyncShadow, fileVars, alarmVars
  <2> QED
    BY <2>1 DEF ShadowCounted
<1>3. CASE DatabaseFails \/ WorkerDies \/ WorkerDiskLost \/ ExecutorDiskLost \/ OperatorCloses \/ FileUnread \/ DiesInAppend
  <2>1. UNCHANGED <<refused, entryPause, changes>> /\ Fault
    BY <1>3 DEF DatabaseFails, WorkerDies, WorkerDiskLost, ExecutorDiskLost, OperatorCloses, FileUnread, DiesInAppend,
       alarmVars
  <2>2. /\ tail' \in {tail, "clean", "torn", "unterminated"} /\ dbUp' \in {dbUp, FALSE}
        /\ alert' \in {alert, FALSE} /\ lost' \in {lost} \cup BOOLEAN
    BY <1>3 DEF DatabaseFails, WorkerDies, WorkerDiskLost, ExecutorDiskLost, OperatorCloses, FileUnread, DiesInAppend,
       fileVars, alarmVars
  <2>3. faults' \in 0..MaxFaults
    BY <1>0, <2>1 DEF Fault
  <2> QED
    BY <2>1, <2>2, <2>3 DEF ShadowCounted
<1>4. CASE BookChanges
  <2>1. UNCHANGED <<dbUp, tail, refused, entryPause, alert, lost, faults>> /\ changes < MaxChanges /\ changes' = changes + 1
    BY <1>4 DEF BookChanges, fileVars, alarmVars
  <2> QED
    BY <1>0, <2>1 DEF ShadowCounted
<1>5. CASE UNCHANGED shadowVars
  BY <1>5 DEF shadowVars, ShadowCounted
<1> QED
  BY <1>1, <1>2, <1>3, <1>4, <1>5 DEF ShadowNext, ShadowStep

\* The book that changes goes past every entry, and an entry that is not of the open book
\* had its change before.
LEMMA EntriesStay ==
  ASSUME ShadowInv, ShadowCounted, [ShadowNext]_shadowVars
  PROVE  \A s : Dated(s) => Dated(s)'
<1>0. changes \in 0..MaxChanges /\ MaxChanges \in Nat
  BY ShadowAssumption DEF ShadowCounted
<1>1. CASE UNCHANGED <<book, changes>>
  BY <1>1 DEF Dated, Changed
<1>2. CASE BookChanges
  <2>1. changes' = changes + 1
    BY <1>2 DEF BookChanges
  <2> QED
    BY <1>0, <2>1 DEF Dated, Changed
<1> QED
  BY <1>1, <1>2 DEF ShadowNext, ShadowStep, shadowVars, DatabaseFails, DatabaseReturns, WorkerDies, WorkerDiskLost,
     ExecutorDiskLost, OperatorResumes, OperatorCloses, FileUnread, DiesInAppend, PushFails, ReadBook, ReadFails,
     AppendShadow, Push, SetAlarm, Raise, AlarmThrows, SyncShadow

LEMMA LatestDated ==
  ASSUME ShadowInv, EntriesDated
  PROVE  /\ Latest = NoShadow \/ Dated(Latest)
         /\ Latest.book = book => Dated(Latest)
<1>1. shadows \in Seq(EntryOf) /\ book \in Books /\ "none" \notin Books
  BY ShadowAssumption DEF ShadowInv
<1>2. CASE shadows = <<>>
  BY <1>1, <1>2 DEF Latest, NoShadow
<1>3. CASE shadows # <<>>
  <2>1. Latest = shadows[Len(shadows)] /\ Len(shadows) \in DOMAIN shadows
    BY <1>1, <1>3 DEF Latest, Last
  <2> QED
    BY <2>1 DEF EntriesDated
<1> QED
  BY <1>2, <1>3

\* The numbers a role gives to the open book.
LEMMA NewDated ==
  ASSUME ShadowInv, EntriesDated, ShadowCounted
  PROVE  /\ Latest.book # book => Dated([sequence |-> Latest.sequence + 1, book |-> book])
         /\ Dated([sequence |-> 1, book |-> book])
<1>1. book \in Books /\ changes \in Nat
  BY ShadowAssumption DEF ShadowInv, ShadowCounted
<1>2. ASSUME Latest.book # book PROVE Latest.sequence \in Nat /\ Latest.sequence <= changes
  BY <1>1, <1>2, LatestDated DEF Dated, Changed, NoShadow
<1> DEFINE k == Latest.sequence
<1>3. ASSUME Latest.book # book PROVE Dated([sequence |-> k + 1, book |-> book])
  <2>1. k \in Nat /\ k <= changes
    BY <1>2, <1>3
  <2> HIDE DEF k
  <2>2. k + 1 \in Nat \ {0} /\ k + 1 <= changes + 1
    BY <1>1, <2>1
  <2> QED
    BY <1>1, <2>2 DEF Dated, Changed
<1>4. Dated([sequence |-> 1, book |-> book])
  BY <1>1 DEF Dated, Changed
<1> QED
  BY <1>3, <1>4

\* What the file holds after a write that was cut off was there before.
LEMMA KeptDated ==
  ASSUME ShadowInv, EntriesDated
  PROVE  \A i \in DOMAIN Kept : Dated(Kept[i])
<1>1. shadows \in Seq(EntryOf) /\ Len(shadows) \in Nat
  BY DEF ShadowInv
<1>2. CASE Kept = shadows
  BY <1>2 DEF EntriesDated
<1>3. CASE Kept = Front(shadows)
  <2>1. Len(shadows) - 1 \in Int /\ \A i \in 1..Len(shadows) - 1 : shadows[i] \in EntryOf
    BY <1>1
  <2>2. /\ Len(Front(shadows)) = IF 1 <= Len(shadows) - 1 THEN Len(shadows) - 1 ELSE 0
        /\ \A i \in 1..Len(Front(shadows)) : Front(shadows)[i] = shadows[i]
    <3>1. /\ Front(shadows) \in Seq(EntryOf)
          /\ Len(Front(shadows)) = IF 1 <= Len(shadows) - 1 THEN Len(shadows) - 1 - 1 + 1 ELSE 0
          /\ \A i \in 1..Len(shadows) - 1 - 1 + 1 : Front(shadows)[i] = shadows[1 + i - 1]
      BY <2>1, SubSeqProperties DEF Front
    <3> QED
      BY <1>1, <3>1
  <2>3. DOMAIN Kept \subseteq DOMAIN shadows /\ \A i \in DOMAIN Kept : Kept[i] = shadows[i]
    BY <1>1, <1>3, <2>2, KeptFits
  <2> QED
    BY <2>3 DEF EntriesDated
<1> QED
  BY <1>2, <1>3 DEF Kept

\* An entry of the role behind the last line.
LEMMA AppendedDated ==
  ASSUME ShadowInv, EntriesDated, shadowRole.at = "append", NEW f, f = Append(shadows, shadowRole.shadow)
  PROVE  \A i \in DOMAIN f : Dated(f[i])
<1>1. shadows \in Seq(EntryOf) /\ Len(shadows) \in Nat /\ shadowRole.shadow \in EntryOf /\ Dated(shadowRole.shadow)
  BY DEF ShadowInv, Shadowing, EntriesDated
<1>2. /\ DOMAIN f = 1..Len(shadows) + 1 /\ f[Len(shadows) + 1] = shadowRole.shadow
      /\ \A i \in 1..Len(shadows) : f[i] = shadows[i]
  BY <1>1
<1>3. DOMAIN shadows = 1..Len(shadows)
  BY <1>1
<1> QED
  BY <1>1, <1>2, <1>3 DEF EntriesDated

\* The step leaves entries that were there, or are dated anew.
LEMMA DatedAgain ==
  ASSUME ShadowInv, ShadowCounted, EntriesDated, [ShadowNext]_shadowVars,
         \A i \in DOMAIN shadows' : Dated(shadows'[i]), \A s \in pushes' : Dated(s),
         held' = NoShadow \/ Dated(held'),
         shadowRole'.shadow = NoShadow \/ Dated(shadowRole'.shadow),
         shadowRole'.at \in {"append", "push", "await"} => Dated(shadowRole'.shadow)
  PROVE  EntriesDated'
<1>1. \A s : Dated(s) => Dated(s)'
  BY EntriesStay
<1>2. (\A i \in DOMAIN shadows : Dated(shadows[i]))'
  <2> SUFFICES ASSUME NEW i \in DOMAIN shadows' PROVE Dated(shadows[i])'
    OBVIOUS
  <2>1. PICK s : s = shadows'[i]
    OBVIOUS
  <2>2. Dated(s)'
    BY <1>1, <2>1
  <2> QED
    BY <2>1, <2>2 DEF Dated, Changed
<1>3. (\A s \in pushes : Dated(s))'
  BY <1>1
<1>4. Dated(held') => Dated(held)'
  <2>1. PICK s : s = held'
    OBVIOUS
  <2>2. Dated(s) => Dated(s)'
    BY <1>1
  <2> QED
    BY <2>1, <2>2 DEF Dated, Changed
<1>5. Dated(shadowRole'.shadow) => Dated(shadowRole.shadow)'
  <2>1. PICK s : s = shadowRole'.shadow
    OBVIOUS
  <2>2. Dated(s) => Dated(s)'
    BY <1>1
  <2> QED
    BY <2>1, <2>2 DEF Dated, Changed
<1>6. NoShadow' = NoShadow
  BY DEF NoShadow
<1> QED
  BY <1>2, <1>3, <1>4, <1>5, <1>6 DEF EntriesDated

LEMMA DatedSteps ==
  ShadowInv /\ ShadowCounted /\ EntriesDated /\ [ShadowNext]_shadowVars => EntriesDated'
<1> SUFFICES ASSUME ShadowInv, ShadowCounted, EntriesDated, [ShadowNext]_shadowVars PROVE EntriesDated'
  OBVIOUS
<1>0. /\ \A i \in DOMAIN shadows : Dated(shadows[i])
      /\ \A s \in pushes : Dated(s)
      /\ held = NoShadow \/ Dated(held)
      /\ shadowRole.shadow = NoShadow \/ Dated(shadowRole.shadow)
      /\ shadowRole.at \in {"append", "push", "await"} => Dated(shadowRole.shadow)
      /\ shadowRole \in Shadowing
  BY DEF EntriesDated, ShadowInv
<1>1. RoleAtRest.shadow = NoShadow /\ RoleAtRest.at = "idle"
  BY DEF RoleAtRest
<1>2. \A k \in 0..2 : [RoleAtRest EXCEPT !.failures = k].shadow = NoShadow /\ [RoleAtRest EXCEPT !.failures = k].at = "idle"
  BY DEF RoleAtRest
<1>3. \A at : [shadowRole EXCEPT !.at = at].shadow = shadowRole.shadow /\ [shadowRole EXCEPT !.at = at].at = at
  BY <1>0 DEF Shadowing
<1>4. CASE UNCHANGED <<shadows, shadowRole, pushes, held>>
  BY <1>0, <1>4, DatedAgain
<1>5. CASE WorkerDies \/ WorkerDiskLost \/ ExecutorDiskLost
  <2>1. shadows' \in {shadows, <<>>} /\ pushes' = pushes /\ held' \in {held, NoShadow} /\ shadowRole' \in {shadowRole, RoleAtRest}
    BY <1>5 DEF WorkerDies, WorkerDiskLost, ExecutorDiskLost, fileVars
  <2>2. \A i \in DOMAIN shadows' : Dated(shadows'[i])
    BY <1>0, <2>1
  <2> QED
    BY <1>0, <1>1, <2>1, <2>2, DatedAgain
<1>6. CASE ReadBook \/ FileUnread
  <2> DEFINE next == [sequence |-> Latest.sequence + 1, book |-> book]
             first == [sequence |-> 1, book |-> book]
  <2>1. /\ UNCHANGED <<shadows, pushes, held>>
        /\ \/ Latest.book = book /\ shadowRole' = [at |-> "push", shadow |-> Latest, failures |-> 0]
           \/ Latest.book # book /\ shadowRole' = [at |-> "append", failures |-> 0, shadow |-> next]
           \/ shadowRole' = [at |-> "append", failures |-> 0, shadow |-> first]
    BY <1>6 DEF ReadBook, FileUnread, fileVars
  <2>2. (Latest.book = book => Dated(Latest)) /\ (Latest.book # book => Dated(next)) /\ Dated(first)
    BY LatestDated, NewDated
  <2> HIDE DEF next, first
  <2>3. Dated(shadowRole'.shadow)
    BY <2>1, <2>2
  <2> QED
    BY <1>0, <2>1, <2>3, DatedAgain
<1>7. CASE ReadFails \/ PushFails \/ Raise \/ AlarmThrows \/ SetAlarm
  <2>1. /\ UNCHANGED <<shadows, held>> /\ pushes' \subseteq pushes
        /\ \/ shadowRole' = [RoleAtRest EXCEPT !.failures = shadowRole.failures]
           \/ shadowRole' = [RoleAtRest EXCEPT !.failures = IF shadowRole.failures < 2 THEN @ + 1 ELSE 2]
           \/ shadowRole' = [shadowRole EXCEPT !.at = "raise"]
    BY <1>7 DEF ReadFails, PushFails, Raise, AlarmThrows, SetAlarm, AtRest, RoleTo, fileVars
  <2>2. shadowRole.failures \in 0..2 /\ RoleAtRest.failures + 1 \in 0..2
    BY <1>0 DEF Shadowing, RoleAtRest
  <2>3. (\E k \in 0..2 : shadowRole' = [RoleAtRest EXCEPT !.failures = k]) \/ shadowRole' = [shadowRole EXCEPT !.at = "raise"]
    <3>1. (IF shadowRole.failures < 2 THEN RoleAtRest.failures + 1 ELSE 2) \in 0..2
      BY <2>2
    <3> QED
      BY <2>1, <2>2, <3>1
  <2>4. \/ shadowRole'.shadow = NoShadow /\ shadowRole'.at = "idle"
        \/ shadowRole'.shadow = shadowRole.shadow /\ shadowRole'.at = "raise"
    BY <1>2, <1>3, <2>3
  <2> QED
    BY <1>0, <2>1, <2>4, DatedAgain
<1>8. CASE AppendShadow \/ DiesInAppend
  <2>1. /\ shadowRole.at = "append" /\ UNCHANGED <<pushes, held>>
        /\ shadows' = Kept \/ shadows' = Append(shadows, shadowRole.shadow)
        /\ shadowRole' = RoleAtRest \/ shadowRole' = [shadowRole EXCEPT !.at = "push"]
    BY <1>8 DEF AppendShadow, DiesInAppend, RoleTo
  <2>2. \A i \in DOMAIN shadows' : Dated(shadows'[i])
    BY <2>1, KeptDated, AppendedDated
  <2> QED
    BY <1>0, <1>1, <1>3, <2>1, <2>2, DatedAgain
<1>9. CASE Push
  <2>1. /\ shadowRole.at = "push" /\ UNCHANGED <<shadows, held>> /\ pushes' = pushes \cup {shadowRole.shadow}
        /\ shadowRole' = [shadowRole EXCEPT !.at = "await"]
    BY <1>9 DEF Push, RoleTo, fileVars
  <2> QED
    BY <1>0, <1>3, <2>1, DatedAgain
<1>10. ASSUME NEW s \in pushes, SyncShadow(s) PROVE EntriesDated'
  <2>1. /\ shadows' = shadows /\ pushes' \subseteq pushes /\ held' \in {held, s}
        /\ \/ shadowRole' = shadowRole
           \/ shadowRole' = [shadowRole EXCEPT !.at = "alarm"]
           \/ shadowRole' = [RoleAtRest EXCEPT !.failures = shadowRole.failures]
    BY <1>10 DEF SyncShadow, RoleTo, AtRest, fileVars
  <2>2. shadowRole.failures \in 0..2
    BY <1>0 DEF Shadowing
  <2> QED
    BY <1>0, <1>2, <1>3, <2>1, <2>2, DatedAgain
<1>11. BookChanges \/ DatabaseFails \/ DatabaseReturns \/ OperatorResumes \/ OperatorCloses \/ UNCHANGED shadowVars
         => UNCHANGED <<shadows, shadowRole, pushes, held>>
  BY DEF BookChanges, DatabaseFails, DatabaseReturns, OperatorResumes, OperatorCloses, shadowVars, fileVars
<1> QED
  BY <1>4, <1>5, <1>6, <1>7, <1>8, <1>9, <1>10, <1>11 DEF ShadowNext, ShadowStep

----------------------------------------------------------------------------
(* The types of custody reconciliation: what a cycle has in hand is about   *)
(* transactions that are on the chain.                                      *)

Baseline(n) == {NoBaseline} \cup 0..n

About(p, n) ==
  p.base \in Baseline(n) /\ p.read <= n /\ p.next.base \in Baseline(n) /\ p.unknown \subseteq 1..n

ReconCounted ==
  /\ Len(chain) <= MaxTxs /\ failures \in 0..MaxFailures /\ unknownRows \subseteq 1..Len(chain)
  /\ cursor.base \in Baseline(Len(chain)) /\ lastReport \in Statuses /\ custodyPause \in BOOLEAN
  /\ \A r \in Runners : About(passes[r], Len(chain))

LEMMA RestingAbout ==
  ASSUME NEW n \in Nat
  PROVE  /\ About(NoPass, n) /\ About(Unavailable, n) /\ NoCursor.base = NoBaseline
         /\ \A a : About([NoPass EXCEPT !.at = a], n)
BY DEF About, NoPass, NoCursor, Baseline, Unavailable

LEMMA AboutMore ==
  ASSUME NEW p \in Passing, NEW n \in Nat, NEW m \in Nat, About(p, n), n <= m
  PROVE  About(p, m)
BY DEF About, Baseline, NoBaseline, Passing

LEMMA ReconTyped == ReconInv /\ ReconCounted => ReconTypeOK
<1> SUFFICES ASSUME ReconInv, ReconCounted PROVE ReconTypeOK
  OBVIOUS
<1>1. cursor.last \in 0..Len(chain) /\ agree \in BOOLEAN
  BY DEF ReconInv
<1> QED
  BY <1>1 DEF ReconCounted, ReconTypeOK, Seen, Baseline

LEMMA ReconCountedStarts == ReconInit => ReconCounted
<1> SUFFICES ASSUME ReconInit PROVE ReconCounted
  OBVIOUS
<1>1. chain = <<>> /\ cursor = NoCursor /\ passes = [r \in Runners |-> NoPass] /\ unknownRows = {}
      /\ lastReport = "none" /\ custodyPause = FALSE /\ failures = 0
  BY DEF ReconInit
<1>2. Len(chain) = 0
  BY <1>1
<1>3. About(NoPass, 0) /\ NoCursor.base \in Baseline(0)
  BY RestingAbout DEF Baseline
<1>4. \A r \in Runners : About(passes[r], Len(chain))
  BY <1>1, <1>2, <1>3
<1>5. Len(chain) <= MaxTxs /\ failures \in 0..MaxFailures
  BY <1>1, <1>2, ReconciliationAssumption
<1>6. cursor.base \in Baseline(Len(chain)) /\ lastReport \in Statuses /\ custodyPause \in BOOLEAN
  BY <1>1, <1>2, <1>3 DEF Statuses
<1>7. unknownRows \subseteq 1..Len(chain)
  BY <1>1
<1> QED
  BY <1>4, <1>5, <1>6, <1>7 DEF ReconCounted

\* The cycle of r goes on as p.
LEMMA CountsGoOn ==
  ASSUME ReconInv, ReconCounted, NEW r \in Runners, NEW p, About(p, Len(chain)), PassTo(r, p), UNCHANGED failures \/ Fails
  PROVE  ReconCounted'
<1>1. passes \in [Runners -> Passing] /\ MaxFailures \in Nat
  BY ReconciliationAssumption DEF ReconInv
<1>2. UNCHANGED <<chain, agree, cursor, unknownRows, lastReport, custodyPause>> /\ passes' = [passes EXCEPT ![r] = p]
  BY DEF PassTo
<1>3. \A s \in Runners : passes'[s] = IF s = r THEN p ELSE passes[s]
  BY <1>1, <1>2
<1>4. failures' \in 0..MaxFailures
  BY <1>1 DEF Fails, ReconCounted
<1> QED
  BY <1>2, <1>3, <1>4 DEF ReconCounted, About

LEMMA ReconciledAbout ==
  ASSUME ReconInv, NEW p \in Passing, PassFits(p), About(p, Len(chain)),
         NEW parsed \in SUBSET New(p), NEW unparsed, NEW unrecorded
  PROVE  About(Reconciled(p, parsed, unparsed, unrecorded), Len(chain))
<1> DEFINE q == Reconciled(p, parsed, unparsed, unrecorded)
           next == NextCursor(p, unparsed)
           unknown == {i \in parsed : chain[i] = "foreign" \/ i \in unrecorded}
           n == Len(chain)
<1>1. n \in Nat /\ p.from \in Nat /\ p.to \in Nat /\ p.to <= n /\ p.read \in Nat /\ p.read <= n /\ p.base \in Baseline(n)
  BY DEF ReconInv, Passing, PassFits, About
<1> HIDE DEF n
<1>2. unknown \subseteq 1..n
  BY <1>1 DEF New
<1>3. next.base \in {p.base, p.read}
  BY DEF NextCursor
<1>4. next.base \in Baseline(n)
  BY <1>1, <1>3 DEF Baseline
<1>5. \E outcome \in {"CLEAN", "MISMATCH"} :
        q = [NoPass EXCEPT !.at = "store", !.status = outcome, !.next = next, !.unknown = unknown]
  BY DEF Reconciled
<1> HIDE DEF q, next, unknown
<1>6. q.base = NoBaseline /\ q.read = 0 /\ q.next = next /\ q.unknown = unknown
  BY <1>5 DEF NoPass
<1> QED
  BY <1>1, <1>2, <1>4, <1>6 DEF About, Baseline, q, n

LEMMA ReconCountedSteps == ReconInv /\ ReconCounted /\ [ReconNext]_reconVars => ReconCounted'
<1> SUFFICES ASSUME ReconInv, ReconCounted, [ReconNext]_reconVars PROVE ReconCounted'
  OBVIOUS
<1>0. /\ chain \in Seq(TxKinds) /\ Len(chain) \in Nat /\ passes \in [Runners -> Passing]
      /\ \A r \in Runners : passes[r] \in Passing /\ PassFits(passes[r]) /\ About(passes[r], Len(chain))
      /\ MaxFailures \in Nat /\ MaxTxs \in Nat
  BY ReconciliationAssumption DEF ReconInv, ReconCounted
<1>1. ASSUME NEW k \in TxKinds, Lands(k) PROVE ReconCounted'
  <2>1. /\ chain' = Append(chain, k) /\ Len(chain) < MaxTxs
        /\ UNCHANGED <<cursor, passes, unknownRows, lastReport, custodyPause, failures>>
    BY <1>1 DEF Lands
  <2>2. Len(chain') = Len(chain) + 1
    BY <1>0, <2>1
  <2>3. PICK m \in Nat : m = Len(chain')
    BY <1>0, <2>2
  <2>4. \A r \in Runners : About(passes[r], m)
    BY <1>0, <2>2, <2>3, AboutMore
  <2>5. cursor.base \in Baseline(m) /\ unknownRows \subseteq 1..m /\ m <= MaxTxs
    BY <1>0, <2>1, <2>2, <2>3 DEF ReconCounted, Baseline
  <2>6. \A r \in Runners : About(passes'[r], m)
    BY <2>1, <2>4
  <2> QED
    BY <2>1, <2>3, <2>5, <2>6 DEF ReconCounted, About, Baseline
<1>2. CASE TokensAgree \/ UNCHANGED reconVars
  BY <1>2 DEF TokensAgree, reconVars, ReconCounted, About
<1>3. CASE WorkerRestarts
  <2>1. /\ UNCHANGED <<chain, cursor, unknownRows, lastReport, custodyPause>> /\ Fails
        /\ passes' = [r \in Runners |-> NoPass]
    BY <1>3 DEF WorkerRestarts
  <2>2. failures' \in 0..MaxFailures
    BY <1>0, <2>1 DEF Fails, ReconCounted
  <2>3. About(NoPass, Len(chain))
    BY <1>0, RestingAbout
  <2> QED
    BY <2>1, <2>2, <2>3 DEF ReconCounted, About
<1>4. ASSUME NEW r \in Runners, BeginPass(r) PROVE ReconCounted'
  <2> DEFINE p == [NoPass EXCEPT !.at = "balance", !.from = cursor.last, !.base = cursor.base]
  <2>1. PassTo(r, p) /\ UNCHANGED failures
    BY <1>4 DEF BeginPass
  <2>2. p.base = cursor.base /\ p.read = 0 /\ p.next = NoCursor /\ p.unknown = {}
    BY DEF NoPass
  <2> HIDE DEF p
  <2>3. About(p, Len(chain))
    BY <1>0, <2>2, RestingAbout DEF About, ReconCounted, Baseline
  <2> QED
    BY <2>1, <2>3, CountsGoOn
<1>5. ASSUME NEW r \in Runners, ObserveBalances(r) PROVE ReconCounted'
  <2> DEFINE p == [passes[r] EXCEPT !.at = "signatures", !.read = Len(chain), !.drifted = ~agree]
  <2>1. (PassTo(r, p) /\ UNCHANGED failures) \/ (Fails /\ PassTo(r, Unavailable))
    BY <1>5 DEF ObserveBalances
  <2>2. /\ p.base = passes[r].base /\ p.read = Len(chain) /\ p.next = passes[r].next
        /\ p.unknown = passes[r].unknown
    BY <1>0 DEF Passing
  <2> HIDE DEF p
  <2>3. About(p, Len(chain)) /\ About(Unavailable, Len(chain))
    BY <1>0, <2>2, RestingAbout DEF About
  <2> QED
    BY <2>1, <2>3, CountsGoOn
<1>6. ASSUME NEW r \in Runners, SignaturesSince(r) PROVE ReconCounted'
  <2> DEFINE p == [passes[r] EXCEPT !.at = "parse", !.to = Len(chain)]
  <2>1. (PassTo(r, p) /\ UNCHANGED failures) \/ (Fails /\ PassTo(r, Unavailable))
    BY <1>6 DEF SignaturesSince
  <2>2. /\ p.base = passes[r].base /\ p.read = passes[r].read /\ p.next = passes[r].next
        /\ p.unknown = passes[r].unknown
    BY <1>0 DEF Passing
  <2> HIDE DEF p
  <2>3. About(p, Len(chain)) /\ About(Unavailable, Len(chain))
    BY <1>0, <2>2, RestingAbout DEF About
  <2> QED
    BY <2>1, <2>3, CountsGoOn
<1>7. ASSUME NEW r \in Runners, Parse(r) PROVE ReconCounted'
  <2> DEFINE p == passes[r]
  <2>1. PICK parsed \in SUBSET New(p) : \E unparsed \in SUBSET New(p), unrecorded \in SUBSET New(p) :
          PassTo(r, Reconciled(p, parsed, unparsed, unrecorded)) /\ (UNCHANGED failures \/ Fails)
    <3>1. PICK unrecorded \in SUBSET New(p) :
            \/ PassTo(r, Reconciled(p, New(p), {}, unrecorded)) /\ UNCHANGED failures
            \/ Fails /\ \E missed \in SUBSET New(p) \ {{}} : PassTo(r, Reconciled(p, New(p) \ missed, missed, unrecorded))
            \/ Fails /\ New(p) # {} /\ \E done \in SUBSET New(p) : PassTo(r, Reconciled(p, done, New(p), unrecorded))
      BY <1>7, Zenon DEF Parse
    <3> HIDE DEF p
    <3>2. \A missed \in SUBSET New(p) : New(p) \ missed \in SUBSET New(p) /\ missed \in SUBSET New(p)
      OBVIOUS
    <3>3. New(p) \in SUBSET New(p) /\ {} \in SUBSET New(p)
      OBVIOUS
    <3> QED
      BY <3>1, <3>2, <3>3, Zenon
  <2>2. PICK unparsed, unrecorded : PassTo(r, Reconciled(p, parsed, unparsed, unrecorded)) /\ (UNCHANGED failures \/ Fails)
    BY <2>1
  <2>3. About(Reconciled(p, parsed, unparsed, unrecorded), Len(chain))
    BY <1>0, <2>1, ReconciledAbout
  <2> QED
    BY <2>2, <2>3, CountsGoOn
<1>8. ASSUME NEW r \in Runners, RecordReconciliation(r) PROVE ReconCounted'
  <2> DEFINE p == passes[r]
             rest == [NoPass EXCEPT !.at = IF r = "loop" THEN "idle" ELSE "over"]
  <2>1. passes' = [passes EXCEPT ![r] = rest] /\ chain' = chain
    BY <1>8 DEF RecordReconciliation
  <2>2. About(rest, Len(chain))
    BY <1>0, RestingAbout
  <2> HIDE DEF rest
  <2>3. \A s \in Runners : About(passes'[s], Len(chain))
    BY <1>0, <2>1, <2>2
  <2>4. \/ /\ cursor' \in {cursor, p.next} /\ unknownRows' = unknownRows \cup p.unknown /\ lastReport' = p.status
           /\ custodyPause' = (custodyPause \/ p.status = "MISMATCH") /\ UNCHANGED failures
        \/ Fails /\ UNCHANGED <<cursor, unknownRows, lastReport, custodyPause>>
    BY <1>8 DEF RecordReconciliation
  <2>5. p.next.base \in Baseline(Len(chain)) /\ p.unknown \subseteq 1..Len(chain) /\ p.status \in Statuses
    BY <1>0 DEF About, Passing
  <2>6. failures' \in 0..MaxFailures
    BY <1>0, <2>4 DEF Fails, ReconCounted
  <2> HIDE DEF p
  <2>7. /\ (cursor.base)' \in Baseline(Len(chain)) /\ unknownRows' \subseteq 1..Len(chain)
        /\ lastReport' \in Statuses /\ custodyPause' \in BOOLEAN
    BY <2>4, <2>5 DEF ReconCounted
  <2> QED
    BY <2>1, <2>3, <2>6, <2>7 DEF ReconCounted, About, Baseline
<1> QED
  BY <1>1, <1>2, <1>3, <1>4, <1>5, <1>6, <1>7, <1>8 DEF ReconNext, PassStep

----------------------------------------------------------------------------
(* The types of the closes in an outage.                                    *)

Underway ==
  [at : {"received"}, sales : Seq(1..MaxTx)] \cup
  {k \in [at : {"ordering", "rerouting", "sent"}, sales : Seq(1..MaxTx)] : k.sales # <<>>}

\* The parts of the state, as a step leaves them.
PatrolOK == patrol \in [failures : 0..DownAfter, hits : SUBSET Positions, call : Commands \cup {NoCall}]
CommandsOK == commands \in [Commands -> {NoCommand} \cup Underway]
ClaimsOK == claims \subseteq (Commands \cup {NoCall}) \X Positions
WalletOK == wallet \in [Positions -> Nat] /\ \A p \in Positions : wallet[p] <= Custody[p]
MarketOK ==
  /\ dbDown \in BOOLEAN /\ quotes \in [Positions -> {"above", "below", "none"}]
  /\ expired \subseteq Positions /\ moves \in 0..MaxMoves

OutageInv == PatrolOK /\ CommandsOK /\ ClaimsOK /\ WalletOK /\ MarketOK /\ mishaps \in 0..MaxMishaps

LEMMA NotUnderway == NoCommand.at = "free" /\ NoCommand.sales = <<>> /\ <<>> \in Seq(1..MaxTx)
BY DEF NoCommand

LEMMA OutageConstants ==
  /\ Positions \subseteq Nat \ {0} /\ \A c \in Commands : c[1] \in Positions
  /\ LastConfirmed \in [Positions -> Nat \ {0}] /\ Custody \in [Positions -> Nat \ {0}]
  /\ Aside \in [Positions -> Nat] /\ MaxTx \in Nat \ {0} /\ MaxMoves \in Nat /\ MaxMishaps \in Nat
BY OutageAssumption

\* A command sells something of a holding, and no more than the guardrails let it.
LEMMA AllowedFits ==
  ASSUME NEW p \in Positions, NEW holding \in Nat \ {0}
  PROVE  Allowed(p, holding) \in 1..MaxTx
<1> DEFINE S == {holding, LastConfirmed[p], MaxTx}
<1>1. S \subseteq Nat \ {0} /\ S # {} /\ MaxTx \in S
  BY OutageConstants
<1>2. \E m \in S : \A n \in S : m <= n
  BY <1>1, Least
<1>3. Smallest(S) \in S /\ \A n \in S : Smallest(S) <= n
  BY <1>2 DEF Smallest
<1> HIDE DEF S
<1>4. Smallest(S) \in Nat \ {0} /\ Smallest(S) <= MaxTx
  BY <1>1, <1>3
<1> QED
  BY <1>4, OutageConstants DEF Allowed, S

LEMMA SalesFit ==
  ASSUME OutageInv, NEW p \in Positions
  PROVE  Sales(p) \in Seq(1..MaxTx)
<1> DEFINE first == IF Aside[p] > 0 THEN <<Allowed(p, Aside[p])>> ELSE <<>>
           second == IF wallet[p] > 0 THEN <<Allowed(p, wallet[p])>> ELSE <<>>
<1>1. Aside[p] \in Nat /\ wallet[p] \in Nat
  BY OutageConstants DEF OutageInv, WalletOK
<1>2. (Aside[p] > 0 => Allowed(p, Aside[p]) \in 1..MaxTx) /\ (wallet[p] > 0 => Allowed(p, wallet[p]) \in 1..MaxTx)
  BY <1>1, AllowedFits
<1> DEFINE S == 1..MaxTx
<1>a. \A x \in S : <<x>> \in Seq(S)
  OBVIOUS
<1>b. <<>> \in Seq(S)
  OBVIOUS
<1> HIDE DEF S
<1>3. first \in Seq(S) /\ second \in Seq(S)
  <2>1. Aside[p] > 0 => <<Allowed(p, Aside[p])>> \in Seq(S)
    BY <1>2, <1>a DEF S
  <2>2. wallet[p] > 0 => <<Allowed(p, wallet[p])>> \in Seq(S)
    BY <1>2, <1>a DEF S
  <2> QED
    BY <1>b, <2>1, <2>2
<1> HIDE DEF first, second
<1>4. first \o second \in Seq(S)
  BY <1>3, ConcatProperties
<1> QED
  BY <1>4 DEF Sales, first, second, S

LEMMA OutageStarts == OutageInit => OutageInv
<1> SUFFICES ASSUME OutageInit PROVE OutageInv
  OBVIOUS
<1>1. /\ dbDown = FALSE /\ expired = {} /\ moves = 0 /\ mishaps = 0 /\ claims = {} /\ wallet = Custody
      /\ quotes = [p \in Positions |-> "above"] /\ patrol = OffDuty /\ commands = [c \in Commands |-> NoCommand]
  BY DEF OutageInit
<1>2. CommandsOK /\ ClaimsOK
  BY <1>1 DEF CommandsOK, ClaimsOK
<1>3. WalletOK
  BY <1>1, OutageConstants DEF WalletOK
<1>4. PatrolOK
  BY <1>1 DEF PatrolOK, OffDuty, DownAfter
<1>a. moves \in 0..MaxMoves /\ mishaps \in 0..MaxMishaps
  BY <1>1, OutageConstants
<1>b. quotes \in [Positions -> {"above", "below", "none"}]
  BY <1>1
<1>c. dbDown \in BOOLEAN /\ expired \subseteq Positions
  BY <1>1
<1>5. MarketOK
  BY <1>a, <1>b, <1>c DEF MarketOK
<1> QED
  BY <1>2, <1>3, <1>4, <1>5, <1>a DEF OutageInv

LEMMA OutageTyped == OutageInv => OutageTypeOK
<1> SUFFICES ASSUME OutageInv PROVE OutageTypeOK
  OBVIOUS
<1>1. \A c \in Commands : \/ commands[c] = NoCommand
                          \/ /\ commands[c].at \in {"received", "ordering", "rerouting", "sent"}
                             /\ commands[c].sales \in Seq(1..MaxTx)
  BY DEF OutageInv, CommandsOK, Underway
<1>2. \A p \in Positions : wallet[p] \in 0..Custody[p]
  BY OutageConstants DEF OutageInv, WalletOK
<1> QED
  BY <1>1, <1>2 DEF OutageInv, OutageTypeOK, PatrolOK, CommandsOK, ClaimsOK, MarketOK

LEMMA MishapFits ==
  ASSUME mishaps \in 0..MaxMishaps, NEW p, Mishap(p)
  PROVE  mishaps' \in 0..MaxMishaps
BY OutageConstants DEF Mishap

LEMMA OnwardFits ==
  ASSUME PatrolOK, NEW answered, Onward(answered)
  PROVE  PatrolOK'
BY DEF PatrolOK, Onward

LEMMA CommandGoes ==
  ASSUME CommandsOK, NEW c \in Commands, NEW k \in {NoCommand} \cup Underway, commands' = [commands EXCEPT ![c] = k]
  PROVE  CommandsOK'
BY DEF CommandsOK

LEMMA OverFits ==
  ASSUME PatrolOK, CommandsOK, NEW c \in Commands, NEW answered, Over(c, answered)
  PROVE  PatrolOK' /\ CommandsOK'
<1>1. CommandsOK'
  BY CommandGoes DEF Over
<1>2. PatrolOK'
  BY OnwardFits DEF Over, PatrolOK
<1> QED
  BY <1>1, <1>2

LEMMA GoOnFits ==
  ASSUME PatrolOK, CommandsOK, ClaimsOK, NEW c \in Commands, NEW sales \in Seq(1..MaxTx), GoOnWith(c, sales)
  PROVE  PatrolOK' /\ CommandsOK' /\ ClaimsOK'
<1>1. CASE Over(c, TRUE) /\ claims' = Forgotten(c)
  BY <1>1, OverFits DEF ClaimsOK, Forgotten
<1>2. CASE sales # <<>> /\ commands' = [commands EXCEPT ![c] = [at |-> "ordering", sales |-> sales]]
           /\ claims' = claims \cup {ActionKey(c)} /\ UNCHANGED patrol
  <2>1. [at |-> "ordering", sales |-> sales] \in Underway
    BY <1>2 DEF Underway
  <2>2. CommandsOK' /\ PatrolOK'
    BY <1>2, <2>1, CommandGoes DEF PatrolOK
  <2>3. ActionKey(c) \in (Commands \cup {NoCall}) \X Positions
    BY OutageConstants DEF ActionKey
  <2> QED
    BY <1>2, <2>2, <2>3 DEF ClaimsOK
<1> QED
  BY <1>1, <1>2 DEF GoOnWith

LEMMA OnItsWay ==
  ASSUME CommandsOK, NEW c \in Commands, commands[c].at \in {"ordering", "rerouting", "sent"}
  PROVE  /\ commands[c] \in Underway /\ commands[c].sales \in Seq(1..MaxTx) /\ commands[c].sales # <<>>
         /\ Tail(commands[c].sales) \in Seq(1..MaxTx) /\ Head(commands[c].sales) \in 1..MaxTx
<1>1. commands[c] \in Underway /\ commands[c].sales \in Seq(1..MaxTx) /\ commands[c].sales # <<>>
  BY NotUnderway DEF CommandsOK, Underway
<1> DEFINE s == commands[c].sales
           S == 1..MaxTx
<1>2. s \in Seq(S) /\ s # <<>>
  BY <1>1
<1> HIDE DEF s, S
<1>3. Tail(s) \in Seq(S) /\ Head(s) \in S
  BY <1>2, HeadTailProperties
<1> QED
  BY <1>1, <1>3 DEF s, S

LEMMA HandlerFits ==
  ASSUME OutageInv, NEW c \in Commands, HandlerStep(c)
  PROVE  OutageInv'
<1>0. PatrolOK /\ CommandsOK /\ ClaimsOK /\ WalletOK /\ MarketOK /\ mishaps \in 0..MaxMishaps /\ c[1] \in Positions
  BY OutageConstants DEF OutageInv
<1>1. MarketOK'
  BY <1>0 DEF HandlerStep, PlanFromCustody, CustodyUnread, PrimaryUnavailable, CloseRefused, CloseThrows, SendClose, Included,
     NeverIncluded, marketVars, MarketOK
<1>2. mishaps' \in 0..MaxMishaps
  BY <1>0, MishapFits DEF HandlerStep, PlanFromCustody, CustodyUnread, PrimaryUnavailable, CloseRefused, CloseThrows, SendClose,
     Included, NeverIncluded
<1>3. WalletOK'
  <2>1. CASE UNCHANGED wallet
    BY <1>0, <2>1 DEF WalletOK
  <2>2. CASE Included(c)
    <3> DEFINE amount == Head(commands[c].sales)
               p == c[1]
    <3>1. amount \in 1..MaxTx
      BY <1>0, <2>2, OnItsWay DEF Included
    <3>2. wallet' = [wallet EXCEPT ![p] = IF @ >= amount THEN @ - amount ELSE @]
      BY <2>2 DEF Included
    <3>3. wallet[p] \in Nat /\ wallet[p] <= Custody[p]
      BY <1>0 DEF WalletOK
    <3> HIDE DEF amount, p
    <3>4. amount \in Nat
      BY <3>1, OutageConstants
    <3>5. PICK left \in Nat : left = (IF wallet[p] >= amount THEN wallet[p] - amount ELSE wallet[p]) /\ left <= wallet[p]
      BY <3>3, <3>4
    <3>6. wallet' = [wallet EXCEPT ![p] = left]
      BY <3>2, <3>5
    <3>7. \A q \in Positions : Custody[q] \in Nat
      BY OutageConstants
    <3>8. left <= Custody[p]
      BY <1>0, <3>3, <3>5, <3>7 DEF p
    <3>9. wallet' \in [Positions -> Nat]
      BY <1>0, <3>6 DEF WalletOK
    <3>10. ASSUME NEW q \in Positions PROVE wallet'[q] <= Custody[q]
      BY <1>0, <3>6, <3>8 DEF WalletOK
    <3> QED
      BY <3>9, <3>10 DEF WalletOK
  <2> QED
    BY <2>1, <2>2 DEF HandlerStep, PlanFromCustody, CustodyUnread, PrimaryUnavailable, CloseRefused, CloseThrows, SendClose,
       NeverIncluded
<1>4. PatrolOK' /\ CommandsOK' /\ ClaimsOK'
  <2>1. CASE PlanFromCustody(c)
    BY <1>0, <2>1, GoOnFits, SalesFit DEF PlanFromCustody
  <2>2. CASE CustodyUnread(c)
    <3>1. Over(c, FALSE) /\ claims' = claims
      BY <2>2 DEF CustodyUnread
    <3> QED
      BY <1>0, <3>1, OverFits DEF ClaimsOK
  <2>3. CASE PrimaryUnavailable(c) \/ SendClose(c)
    <3>1. /\ commands[c].at \in {"ordering", "rerouting"} /\ UNCHANGED <<patrol, claims>>
          /\ \E at \in {"rerouting", "sent"} : commands' = [commands EXCEPT ![c].at = at]
      BY <2>3 DEF PrimaryUnavailable, SendClose, CommandTo
    <3>2. PICK at \in {"rerouting", "sent"} : commands' = [commands EXCEPT ![c].at = at]
      BY <3>1
    <3>3. commands[c] \in Underway /\ commands[c].sales \in Seq(1..MaxTx) /\ commands[c].sales # <<>>
      BY <1>0, <3>1, OnItsWay
    <3> DEFINE k == [commands[c] EXCEPT !.at = at]
    <3>4. k = [at |-> at, sales |-> commands[c].sales]
      BY <3>3 DEF Underway
    <3>5. k \in Underway
      BY <3>3, <3>4 DEF Underway
    <3>6. commands' = [commands EXCEPT ![c] = k]
      BY <1>0, <3>2 DEF CommandsOK
    <3> HIDE DEF k
    <3> QED
      BY <1>0, <3>1, <3>5, <3>6, CommandGoes DEF PatrolOK, ClaimsOK
  <2>4. CASE CloseRefused(c) \/ Included(c) \/ NeverIncluded(c)
    <3>1. commands[c].at \in {"ordering", "rerouting", "sent"} /\ GoOnWith(c, Tail(commands[c].sales))
      BY <2>4 DEF CloseRefused, Included, NeverIncluded, SaleEnds
    <3> QED
      BY <1>0, <3>1, OnItsWay, GoOnFits
  <2>5. CASE CloseThrows(c)
    <3>1. Over(c, FALSE) /\ claims' = Forgotten(c)
      BY <2>5 DEF CloseThrows
    <3> QED
      BY <1>0, <3>1, OverFits DEF ClaimsOK, Forgotten
  <2> QED
    BY <2>1, <2>2, <2>3, <2>4, <2>5 DEF HandlerStep
<1> QED
  BY <1>1, <1>2, <1>3, <1>4 DEF OutageInv

LEMMA PatrolFits ==
  ASSUME OutageInv, PatrolStep
  PROVE  OutageInv'
<1>0. PatrolOK /\ CommandsOK /\ ClaimsOK /\ WalletOK /\ MarketOK /\ mishaps \in 0..MaxMishaps
  BY DEF OutageInv
<1>1. MarketOK' /\ ClaimsOK' /\ WalletOK'
  BY <1>0 DEF PatrolStep, CycleReads, CycleFindsNoDatabase, CloseUnreachable, CloseTimesOut, IssueClose, marketVars,
     MarketOK, ClaimsOK, WalletOK
<1>2. mishaps' \in 0..MaxMishaps
  BY <1>0, MishapFits DEF PatrolStep, CycleReads, CycleFindsNoDatabase, CloseUnreachable, CloseTimesOut, IssueClose
<1>3. OffDuty \in [failures : 0..DownAfter, hits : SUBSET Positions, call : Commands \cup {NoCall}]
  BY DEF OffDuty, DownAfter
<1>4. PatrolOK'
  <2>1. CASE CycleReads
    BY <1>3, <2>1 DEF CycleReads, PatrolOK
  <2>2. CASE CycleFindsNoDatabase
    <3> DEFINE failed == IF patrol.failures < DownAfter THEN patrol.failures + 1 ELSE DownAfter
               hits == IF failed < DownAfter THEN {} ELSE {p \in Positions : StopHit(p)}
    <3>1. patrol' = [OffDuty EXCEPT !.failures = failed, !.hits = hits]
      BY <2>2 DEF CycleFindsNoDatabase
    <3>2. failed \in 0..DownAfter /\ hits \in SUBSET Positions
      BY <1>0 DEF PatrolOK, DownAfter
    <3> HIDE DEF failed, hits
    <3> QED
      BY <1>3, <3>1, <3>2 DEF PatrolOK
  <2>3. CASE CloseUnreachable \/ CloseTimesOut
    BY <1>0, <2>3, OnwardFits DEF CloseUnreachable, CloseTimesOut
  <2>4. ASSUME NEW c \in Commands, IssueClose(c) PROVE PatrolOK'
    BY <1>0, <2>4 DEF IssueClose, PatrolOK
  <2> QED
    BY <2>1, <2>2, <2>3, <2>4 DEF PatrolStep
<1>5. CommandsOK'
  <2>1. ASSUME NEW c \in Commands, IssueClose(c) PROVE CommandsOK'
    <3> DEFINE k == [at |-> "received", sales |-> <<>>]
    <3>1. commands[c] = NoCommand /\ commands' = [commands EXCEPT ![c].at = "received"]
      BY <2>1 DEF IssueClose
    <3>2. [commands[c] EXCEPT !.at = "received"] = k
      BY <3>1 DEF NoCommand
    <3>3. commands' = [commands EXCEPT ![c] = k]
      BY <1>0, <3>1, <3>2 DEF CommandsOK
    <3>4. k \in Underway
      BY NotUnderway DEF Underway
    <3> HIDE DEF k
    <3> QED
      BY <1>0, <3>3, <3>4, CommandGoes
  <2>2. CASE UNCHANGED commands
    BY <1>0, <2>2 DEF CommandsOK
  <2> QED
    BY <2>1, <2>2 DEF PatrolStep, CycleReads, CycleFindsNoDatabase, CloseUnreachable, CloseTimesOut
<1> QED
  BY <1>1, <1>2, <1>4, <1>5 DEF OutageInv

LEMMA CloserDiesFits ==
  ASSUME OutageInv, CloserDies
  PROVE  OutageInv'
<1>0. PatrolOK /\ CommandsOK /\ ClaimsOK /\ WalletOK /\ MarketOK /\ mishaps \in 0..MaxMishaps
  BY DEF OutageInv
<1>1. MarketOK' /\ ClaimsOK' /\ WalletOK' /\ mishaps' \in 0..MaxMishaps
  BY <1>0, OutageConstants DEF CloserDies, marketVars, MarketOK, ClaimsOK, WalletOK
<1>2. PatrolOK'
  BY <1>0, OnwardFits DEF CloserDies, PatrolOK
<1> DEFINE cut(c) == IF commands[c].at = "sent" THEN [commands[c] EXCEPT !.sales = <<Head(@)>>] ELSE NoCommand
<1>3. ASSUME NEW c \in Commands PROVE cut(c) \in {NoCommand} \cup Underway
  <2>1. CASE commands[c].at = "sent"
    <3> DEFINE x == Head(commands[c].sales)
               S == 1..MaxTx
    <3>1. commands[c] \in Underway /\ x \in S
      BY <1>0, <2>1, OnItsWay
    <3>2. cut(c) = [at |-> "sent", sales |-> <<x>>]
      BY <2>1, <3>1 DEF Underway
    <3> HIDE DEF x, S
    <3>3. <<x>> \in Seq(S) /\ <<x>> # <<>>
      BY <3>1
    <3> QED
      BY <3>2, <3>3 DEF Underway, S
  <2> QED
    BY <2>1
<1>4. commands' = [c \in Commands |-> cut(c)]
  BY DEF CloserDies
<1> HIDE DEF cut
<1>5. CommandsOK'
  BY <1>3, <1>4 DEF CommandsOK
<1> QED
  BY <1>1, <1>2, <1>5 DEF OutageInv

LEMMA OutageSteps == OutageInv /\ [OutageNext]_outageVars => OutageInv'
<1> SUFFICES ASSUME OutageInv, [OutageNext]_outageVars PROVE OutageInv'
  OBVIOUS
<1>0. PatrolOK /\ CommandsOK /\ ClaimsOK /\ WalletOK /\ MarketOK /\ mishaps \in 0..MaxMishaps
  BY DEF OutageInv
<1>1. CASE MarkMoves \/ TimeStopPasses \/ OutageBeginsOrEnds
  <2>1. UNCHANGED <<patrol, commands, claims, wallet, mishaps>>
    BY <1>1 DEF MarkMoves, TimeStopPasses, OutageBeginsOrEnds
  <2>2. MarketOK'
    <3>0. moves \in 0..MaxMoves /\ MaxMoves \in Nat
      BY <1>0, OutageConstants DEF MarketOK
    <3>1. moves' \in 0..MaxMoves
      BY <1>1, <3>0 DEF MarkMoves, TimeStopPasses, OutageBeginsOrEnds, Move
    <3>2. dbDown' \in BOOLEAN
      BY <1>0, <1>1 DEF MarkMoves, TimeStopPasses, OutageBeginsOrEnds, MarketOK
    <3>3. quotes' \in [Positions -> {"above", "below", "none"}]
      BY <1>0, <1>1 DEF MarkMoves, TimeStopPasses, OutageBeginsOrEnds, MarketOK
    <3>4. expired' \subseteq Positions
      BY <1>0, <1>1 DEF MarkMoves, TimeStopPasses, OutageBeginsOrEnds, MarketOK
    <3> QED
      BY <3>1, <3>2, <3>3, <3>4 DEF MarketOK
  <2> QED
    BY <1>0, <2>1, <2>2 DEF OutageInv, PatrolOK, CommandsOK, ClaimsOK, WalletOK
<1>2. CASE PatrolDies
  <2>1. UNCHANGED <<marketVars, commands, claims, wallet>> /\ patrol' = OffDuty /\ mishaps' \in 0..MaxMishaps
    BY <1>0, <1>2, OutageConstants DEF PatrolDies
  <2>2. PatrolOK'
    BY <2>1 DEF PatrolOK, OffDuty, DownAfter
  <2> QED
    BY <1>0, <2>1, <2>2 DEF OutageInv, CommandsOK, ClaimsOK, WalletOK, MarketOK, marketVars
<1>3. CASE UNCHANGED outageVars
  BY <1>0, <1>3 DEF OutageInv, outageVars, PatrolOK, CommandsOK, ClaimsOK, WalletOK, MarketOK
<1> QED
  BY <1>1, <1>2, <1>3, PatrolFits, HandlerFits, CloserDiesFits DEF OutageNext

----------------------------------------------------------------------------
(* The types of a replay: no stream finds more than the bound, no balance goes below zero. *)

CandidatesBounded == \A s \in Streams : Len(decisions[s]) <= MaxCandidates
Solvent == \A s \in Streams : books[s].balance >= 0
ManagedFit == waiting \subseteq [stream : Streams, candidate : 1..MaxCandidates]
ReplayCounted == tables \subseteq {"decisions", "trades"} /\ CandidatesBounded /\ Solvent /\ ManagedFit

LEMMA ReplayCountedStarts == ReplayInit => ReplayCounted
<1> SUFFICES ASSUME ReplayInit PROVE ReplayCounted
  OBVIOUS
<1>1. \A s \in Streams : Len(decisions[s]) = 0 /\ books[s].balance = Start
  BY DEF ReplayInit
<1> QED
  BY <1>1, ReplayAssumption DEF ReplayInit, ReplayCounted, CandidatesBounded, Solvent, ManagedFit

LEMMA RowsOnly ==
  ASSUME ReplayInv, ReplayInv', CandidatesBounded, \A s \in Streams : DOMAIN decisions'[s] = DOMAIN decisions[s]
  PROVE  CandidatesBounded'
<1> SUFFICES ASSUME NEW s \in Streams PROVE Len(decisions'[s]) <= MaxCandidates
  BY DEF CandidatesBounded
<1>1. decisions[s] \in Seq(DecisionRow) /\ decisions'[s] \in Seq(DecisionRow)
  BY DEF ReplayInv, ReplayShape
<1>2. DOMAIN decisions'[s] = DOMAIN decisions[s] /\ Len(decisions[s]) <= MaxCandidates
  BY DEF CandidatesBounded
<1> QED
  BY <1>1, <1>2, ReplayAssumption

\* What is still to be managed is held, and what is held has a row.
LEMMA ManagedKept ==
  ASSUME ReplayInv', CandidatesBounded', stage' \in {"manage", "closeAll"}
  PROVE  ManagedFit'
<1> SUFFICES ASSUME NEW w \in waiting' PROVE w \in [stream : Streams, candidate : 1..MaxCandidates]
  BY DEF ManagedFit
<1>1. w \in [stream : Streams, candidate : Nat] /\ w.stream \in Streams
  BY DEF ReplayInv, ReplayShape
<1>2. w.candidate \in DOMAIN books'[w.stream].positions
  BY DEF ReplayInv, RowsFit
<1>3. DOMAIN books'[w.stream].positions \subseteq 1..Len(decisions'[w.stream])
  BY <1>1 DEF ReplayInv, RowsFit
<1>4. Len(decisions'[w.stream]) \in Nat /\ Len(decisions'[w.stream]) <= MaxCandidates
  BY <1>1 DEF ReplayInv, ReplayShape, CandidatesBounded
<1>5. w.candidate \in 1..MaxCandidates
  BY <1>2, <1>3, <1>4, ReplayAssumption
<1> QED
  BY <1>1, <1>5

LEMMA BalanceStays ==
  ASSUME ReplayInv, Solvent, NEW s \in Streams, NEW account, books' = [books EXCEPT ![s] = account], account.balance >= 0
  PROVE  Solvent'
<1>1. books \in [Streams -> BookRecord]
  BY DEF ReplayInv, ReplayShape
<1> QED
  BY <1>1 DEF Solvent

LEMMA CountedExecutes ==
  ASSUME ReplayInv, ReplayInv', ReplayCounted, ExecuteEntry
  PROVE  ReplayCounted'
<1>1. PICK p \in Foremost :
        \/ Reject(p.stream, p.candidate, "REFUSED") /\ UNCHANGED books
        \/ \E cost \in Affordable(books[p.stream]), qty \in Lots :
             /\ books' = [books EXCEPT ![p.stream] = Opened(@, p.candidate, cost, qty)]
             /\ decisions' = [decisions EXCEPT ![p.stream][p.candidate].filledAt = p.decidedAt + FillDelay]
  BY DEF ExecuteEntry
<1> DEFINE s == p.stream
           c == p.candidate
<1>2. p \in pending /\ s \in Streams
  BY DEF Foremost, Due, ReplayInv, ReplayShape, PendingEntry
<1>3. decisions \in [Streams -> Seq(DecisionRow)] /\ books \in [Streams -> BookRecord]
  BY DEF ReplayInv, ReplayShape
<1>4. \A t \in Streams : DOMAIN decisions'[t] = DOMAIN decisions[t]
  <2>1. CASE decisions' = [decisions EXCEPT ![s][c].rejection = "REFUSED"]
    BY <1>2, <1>3, <2>1
  <2>2. CASE decisions' = [decisions EXCEPT ![s][c].filledAt = p.decidedAt + FillDelay]
    BY <1>2, <1>3, <2>2
  <2> QED
    BY <1>1, <2>1, <2>2 DEF Reject
<1>5. CandidatesBounded'
  BY <1>4, RowsOnly DEF ReplayCounted
<1>6. Solvent'
  <2>1. CASE UNCHANGED books
    BY <2>1 DEF ReplayCounted, Solvent
  <2>2. ASSUME NEW cost \in Affordable(books[s]), NEW qty \in Lots,
               books' = [books EXCEPT ![s] = Opened(@, c, cost, qty)]
        PROVE  Solvent'
    <3> DEFINE account == Opened(books[s], c, cost, qty)
    <3>1. books[s] \in BookRecord /\ cost \in Nat /\ cost <= books[s].balance /\ books[s].balance \in Int
      BY <1>2, <1>3, ReplayAssumption DEF Affordable, BookRecord
    <3>2. account.balance = books[s].balance - cost
      BY <3>1 DEF Opened, BookRecord
    <3>3. books' = [books EXCEPT ![s] = account]
      BY <1>2, <1>3, <2>2
    <3>4. account.balance >= 0
      BY <3>1, <3>2
    <3> HIDE DEF account
    <3> QED
      BY <1>2, <3>3, <3>4, BalanceStays DEF ReplayCounted
  <2> QED
    BY <1>1, <2>1, <2>2
<1>7. tables' = tables /\ waiting' = waiting
  BY DEF ExecuteEntry
<1> QED
  BY <1>5, <1>6, <1>7 DEF ReplayCounted, ManagedFit

LEMMA CountedFinishes ==
  ASSUME ReplayInv, ReplayInv', ReplayCounted, NEW w \in waiting, Managing(w), KeepManaging(w),
         NEW sold \in Nat, NEW proceeds \in Nat, NEW reason, NEW at, FinishClose(w, sold, proceeds, reason, at)
  PROVE  CandidatesBounded' /\ Solvent'
<1> DEFINE s == w.stream
           c == w.candidate
           out == BasisOut(Held(w), sold)
           account == Paid(books[s], proceeds, out)
<1>1. s \in Streams
  BY ManagedFacts
<1>2. decisions \in [Streams -> Seq(DecisionRow)] /\ books \in [Streams -> BookRecord]
  BY DEF ReplayInv, ReplayShape
<1>3. \E next : /\ books' = [books EXCEPT ![s] = next]
                /\ \/ next = [account EXCEPT !.positions[c] = Rest(Held(w), sold, proceeds)]
                   \/ next = [account EXCEPT !.positions = Restrict(@, DOMAIN @ \ {c})]
  BY DEF FinishClose
<1>4. PICK next : /\ books' = [books EXCEPT ![s] = next]
                  /\ \/ next = [account EXCEPT !.positions[c] = Rest(Held(w), sold, proceeds)]
                     \/ next = [account EXCEPT !.positions = Restrict(@, DOMAIN @ \ {c})]
  BY <1>3
<1>5. books[s].balance \in Int /\ books[s].balance >= 0 /\ books[s] \in BookRecord
  BY <1>1, <1>2 DEF ReplayCounted, Solvent, BookRecord
<1>6. account.balance = books[s].balance + proceeds
  <2> HIDE DEF out
  <2> QED
    BY <1>5 DEF Paid, BookRecord
<1>7. next.balance = account.balance
  <2>1. DOMAIN account = DOMAIN books[s]
    <3> HIDE DEF out
    <3> QED
      BY DEF Paid
  <2>2. "balance" \in DOMAIN account
    <3> HIDE DEF account
    <3> QED
      BY <1>5, <2>1 DEF BookRecord
  <2> HIDE DEF account
  <2> QED
    BY <1>4, <2>2
<1>8. Solvent'
  <2>1. next.balance >= 0
    BY <1>5, <1>6, <1>7
  <2> QED
    BY <1>1, <1>4, <2>1, BalanceStays DEF ReplayCounted
<1>9. \A t \in Streams : DOMAIN decisions'[t] = DOMAIN decisions[t]
  <2>1. \/ decisions' = decisions
        \/ \E r : decisions' = [decisions EXCEPT ![s][c] = r]
    BY DEF FinishClose
  <2>2. ASSUME NEW r, decisions' = [decisions EXCEPT ![s][c] = r]
        PROVE  \A t \in Streams : DOMAIN decisions'[t] = DOMAIN decisions[t]
    BY <1>1, <1>2, <2>2
  <2> QED
    BY <2>1, <2>2
<1> QED
  BY <1>8, <1>9, RowsOnly DEF ReplayCounted

LEMMA CountedSince ==
  ASSUME ReplayInv, ReplayCounted, NEW w \in waiting, Managing(w), KeepManaging(w), NEW t, Since(w, t)
  PROVE  CandidatesBounded' /\ Solvent'
<1>1. w.stream \in Streams /\ books \in [Streams -> BookRecord]
  BY ManagedFacts DEF ReplayInv, ReplayShape
<1> DEFINE next == [books[w.stream] EXCEPT !.positions[w.candidate].since = t]
<1>2. books' = [books EXCEPT ![w.stream] = next]
  BY <1>1 DEF Since
<1>3. books[w.stream] \in BookRecord /\ books[w.stream].balance >= 0
  BY <1>1 DEF ReplayCounted, Solvent
<1>4. next.balance >= 0
  BY <1>3 DEF BookRecord
<1> HIDE DEF next
<1> QED
  BY <1>1, <1>2, <1>4, BalanceStays DEF Since, ReplayCounted, CandidatesBounded

LEMMA CountedManages ==
  ASSUME ReplayInv, ReplayInv', ReplayCounted, NEW w \in waiting,
         ManageUnquotable(w) \/ ManageHold(w) \/ ManageSell(w) \/ CloseUnfilled(w)
  PROVE  ReplayCounted'
<1>1. Managing(w) /\ KeepManaging(w)
  BY DEF ManageUnquotable, ManageHold, ManageSell, CloseUnfilled
<1>2. Held(w).qty \in Nat
  BY <1>1, ManagedFacts DEF PositionRecord
<1>3. \/ \E t : Since(w, t)
      \/ \E sold \in Nat, proceeds \in Nat : \E reason, at : FinishClose(w, sold, proceeds, reason, at)
  <2>1. CASE ManageUnquotable(w)
    BY <1>2, <2>1 DEF ManageUnquotable
  <2>2. CASE ManageHold(w)
    BY <2>2 DEF ManageHold
  <2>3. CASE ManageSell(w)
    <3>1. PICK sold \in {Held(w).qty, Held(w).qty \div 2}, price \in Prices :
            FinishClose(w, sold, sold * price, IF Forced THEN "WINDOW_END" ELSE "EXIT", clock + FillDelay)
      BY <2>3 DEF ManageSell
    <3>2. sold \in Nat /\ price \in Nat
      BY <1>2, <3>1, ReplayAssumption
    <3>3. sold * price \in Nat
      BY <3>2
    <3> QED
      BY <3>1, <3>2, <3>3
  <2>4. CASE CloseUnfilled(w)
    <3>1. PICK price \in Prices : FinishClose(w, Held(w).qty, Held(w).qty * price, "WINDOW_END_UNFILLED", clock)
      BY <2>4 DEF CloseUnfilled
    <3>2. price \in Nat
      BY ReplayAssumption
    <3>3. Held(w).qty * price \in Nat
      BY <1>2, <3>2
    <3> QED
      BY <1>2, <3>1, <3>3
  <2> QED
    BY <2>1, <2>2, <2>3, <2>4
<1>4. CandidatesBounded' /\ Solvent'
  BY <1>1, <1>3, CountedFinishes, CountedSince
<1>5. tables' = tables /\ waiting' \subseteq waiting
  BY <1>1 DEF KeepManaging
<1> QED
  BY <1>4, <1>5 DEF ReplayCounted, ManagedFit

LEMMA CountedDrains ==
  ASSUME ReplayInv, ReplayInv', ReplayCounted, EndDrain
  PROVE  ReplayCounted'
<1>1. UNCHANGED <<books, tables>> /\ stage' \in {"manage", "closeAll"}
  BY DEF EndDrain, DrainsTick, DrainsRest
<1>2. \A s \in Streams : DOMAIN decisions'[s] = DOMAIN decisions[s]
  BY DEF EndDrain, DrainsTick, DrainsRest
<1>3. CandidatesBounded'
  BY <1>2, RowsOnly DEF ReplayCounted
<1>4. ManagedFit'
  BY <1>1, <1>3, ManagedKept
<1> QED
  BY <1>1, <1>3, <1>4 DEF ReplayCounted, Solvent

LEMMA CountedDetects ==
  ASSUME ReplayInv, ReplayCounted, DetectCandidate
  PROVE  ReplayCounted'
<1>1. UNCHANGED <<waiting, books, tables>> /\ Discovered < MaxCandidates
  BY DEF DetectCandidate, NextTick
<1>2. ASSUME NEW s \in Streams PROVE Len(decisions'[s]) <= MaxCandidates
  <2>1. \E row : decisions'[s] = Append(decisions[s], row)
    BY DEF DetectCandidate
  <2>2. (CHOOSE t \in Streams : TRUE) \in Streams
    OBVIOUS
  <2>3. Len(decisions[s]) = Discovered
    BY <2>2 DEF ReplayInv, RowsFit, Discovered
  <2>4. decisions[s] \in Seq(DecisionRow)
    BY DEF ReplayInv, ReplayShape
  <2>5. Len(decisions'[s]) = Len(decisions[s]) + 1
    BY <2>1, <2>4
  <2> QED
    BY <1>1, <2>3, <2>4, <2>5, ReplayAssumption
<1> QED
  BY <1>1, <1>2 DEF ReplayCounted, CandidatesBounded, Solvent, ManagedFit

LEMMA ReplayCountedSteps ==
  ReplayInv /\ ReplayInv' /\ ReplayCounted /\ [ReplayNext]_replayVars => ReplayCounted'
<1> SUFFICES ASSUME ReplayInv, ReplayInv', ReplayCounted, [ReplayNext]_replayVars PROVE ReplayCounted'
  OBVIOUS
<1>1. CASE \/ ClaimRun \/ NothingDetected \/ EngineReturns \/ StoreDecisions \/ StoreTrades \/ CompleteRun
           \/ RunThrows \/ RunnerDies \/ UNCHANGED replayVars
  <2>1. UNCHANGED <<books, decisions, waiting>> /\ tables' \subseteq tables \cup {"decisions", "trades"}
    BY <1>1 DEF ClaimRun, NothingDetected, NextTick, EngineReturns, StoreDecisions, StoreTrades, CompleteRun,
       RunThrows, RunnerDies, replayVars, KeepReplay
  <2> QED
    BY <2>1 DEF ReplayCounted, CandidatesBounded, Solvent, ManagedFit
<1> QED
  BY <1>1, CountedExecutes, CountedDrains, CountedManages, CountedDetects DEF ReplayNext

LEMMA ReplayTyped == ReplayInv /\ ReplayCounted => ReplayTypeOK
<1> SUFFICES ASSUME ReplayInv, ReplayCounted PROVE ReplayTypeOK
  OBVIOUS
<1>1. /\ run \in {"QUEUED", "RUNNING", "COMPLETED", "FAILED"} /\ stage \in Stages
      /\ clock \in 0..WindowTo /\ tick \in 0..WindowTo /\ tables \subseteq {"decisions", "trades"} /\ ManagedFit
  BY ReplayAssumption DEF ReplayInv, ReplayShape, StageFits, ReplayCounted
<1>2. pending \subseteq [stream : Streams, candidate : 1..MaxCandidates, decidedAt : Nat]
  <2> SUFFICES ASSUME NEW p \in pending PROVE p \in [stream : Streams, candidate : 1..MaxCandidates, decidedAt : Nat]
    OBVIOUS
  <2>1. p \in PendingEntry /\ p.stream \in Streams
    BY DEF ReplayInv, ReplayShape, PendingEntry
  <2>2. p.candidate \in 1..Len(decisions[p.stream]) /\ Len(decisions[p.stream]) \in Nat
        /\ Len(decisions[p.stream]) <= MaxCandidates
    BY <2>1, ReplayFacts DEF ReplayInv, RowsFit, ReplayCounted, CandidatesBounded
  <2>3. p.candidate \in 1..MaxCandidates
    BY <2>2, ReplayAssumption
  <2> QED
    BY <2>1, <2>3 DEF PendingEntry
<1>3. ASSUME NEW s \in Streams
      PROVE  /\ {books[s].balance, books[s].committed} \subseteq Nat /\ books[s].realized \in Int
             /\ \A d \in Range(decisions[s]) : d.rejection \in Rejections /\ d.reason \in Reasons
  <2>1. /\ books[s] \in BookRecord /\ books[s].positions \in PositionMaps /\ decisions[s] \in Seq(DecisionRow)
        /\ Len(decisions[s]) \in Nat /\ DOMAIN books[s].positions \subseteq 1..Len(decisions[s])
        /\ Balanced(books[s], decisions[s])
    BY ReplayFacts
  <2>2. books[s].balance \in Int /\ books[s].balance >= 0 /\ books[s].realized \in Int
    BY <2>1 DEF BookRecord, ReplayCounted, Solvent
  <2>3. SumFunction(Basis(books[s].positions)) \in Nat
    BY <2>1, BookSums
  <2>4. books[s].committed \in Nat
    BY <2>1, <2>3 DEF Balanced
  <2>5. \A d \in Range(decisions[s]) : d \in DecisionRow
    BY <2>1 DEF Range
  <2> QED
    BY <2>2, <2>4, <2>5 DEF DecisionRow
<1> QED
  BY <1>1, <1>2, <1>3 DEF ReplayTypeOK, Stages, ManagedFit

----------------------------------------------------------------------------
(* The seven together.                                                      *)

LEMMA RecordsMoves ==
  ASSUME [RecordsNext]_recordVars
  PROVE  /\ [AgentNext]_agentVars /\ [ImportNext]_importVars /\ [ShadowNext]_shadowVars /\ [ReconNext]_reconVars
         /\ [ReplayNext]_replayVars /\ [OutageNext]_outageVars /\ [Next]_vars
BY DEF RecordsNext, recordVars, InAgent, InImport, InShadow, InCustody, InReplay, InOutage, InViews

RecordsInv ==
  /\ AgentInv /\ CycleCounted /\ ImportInv /\ ImportCounted /\ ShadowInv /\ EntriesDated /\ ShadowCounted
  /\ ReconInv /\ ReconCounted /\ ReplayInv /\ ReplayCounted /\ OutageInv /\ ViewsInv

\* The rows, quantities and cursors of the agent cycle, the import, the shadow, custody, the replay, the closes of an
\* outage and the death proof stay within their types, in every run that waits for a quote as long as an order takes
\* to fill.
THEOREM RecordsTyped == FillsSoon => (RecordsSpec => []RecordsTypeOK)
<1> SUFFICES ASSUME FillsSoon PROVE RecordsSpec => []RecordsTypeOK
  OBVIOUS
<1>1. RecordsInit => RecordsInv
  BY AgentStart, CountedStarts, ImportStart, ImportCountedStarts, ShadowStart, ShadowCountedStarts, ReconStart,
     ReconCountedStarts, ReplayStart, ReplayCountedStarts, OutageStarts, ViewsStart DEF RecordsInit, RecordsInv
<1>2. RecordsInv /\ [RecordsNext]_recordVars => RecordsInv'
  <2> SUFFICES ASSUME RecordsInv, [RecordsNext]_recordVars PROVE RecordsInv'
    OBVIOUS
  <2>1. AgentInv' /\ CycleCounted' /\ ImportInv' /\ ImportCounted'
    BY RecordsMoves, AgentStep, CountedSteps, ImportStep, ImportCountedSteps DEF RecordsInv
  <2>2. ShadowInv' /\ EntriesDated' /\ ShadowCounted' /\ ReconInv' /\ ReconCounted'
    BY RecordsMoves, ShadowStepKeeps, ShadowCountedSteps, DatedSteps, ReconStep, ReconCountedSteps DEF RecordsInv
  <2>3. ReplayInv' /\ ReplayCounted'
    BY RecordsMoves, ReplayStep, ReplayCountedSteps DEF RecordsInv
  <2>4. OutageInv' /\ ViewsInv'
    BY RecordsMoves, OutageSteps, ViewsStep DEF RecordsInv
  <2> QED
    BY <2>1, <2>2, <2>3, <2>4 DEF RecordsInv
<1>3. RecordsInv => RecordsTypeOK
  BY AgentTyped, ImportTyped, ShadowTyped, ReconTyped, ReplayTyped, OutageTyped DEF RecordsInv, ViewsInv, RecordsTypeOK
<1> QED
  BY <1>1, <1>2, <1>3, PTL DEF RecordsSpec

====
