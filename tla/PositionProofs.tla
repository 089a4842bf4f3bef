---------------------------- MODULE PositionProofs ----------------------------
(* Proofs about what the worker keeps of its positions: the books of the     *)
(* paper account agree with its fills, stops never loosen, the safety        *)
(* evaluations of a held position remember what it was entered at, and the   *)
(* models are not asked again about it before its backoff has passed.        *)
EXTENDS MCRedelivery, ExecutorProofs, AuthorityProofs, SumTheorems, SequenceTheorems

(* The paper account.                                                       *)

Ends == {"PREPARED", "FINALIZED", "NOT_LANDED"}
Done == {"filled", "opened"}
\* Steps at which an intent has a row, and those at which it may still get one.
Rowed == {"created", "executing", "filled", "unfilled", "opened"} \cup Ends
Begun == Rowed \cup {"decided"}

EntryWork == [at : Begun \cup {"evaluated"}, intent : Cycles, size : 0..PositionCap]
SaleWork == [at : Begun \cup {"cleared"}, intent : ExitIntents, position : Cycles, size : 1..PositionCap,
             closes : BOOLEAN]
StopWork == [at : {"tighten"}, position : Cycles, level : 1..MaxStop]

\* The types, also of what each loop has in hand; recovery runs before the loops do.
LoopShape ==
  /\ loop \in [PaperRoles -> {Idle} \cup EntryWork \cup SaleWork \cup StopWork]
  /\ loop[Entry] \in {Idle} \cup EntryWork
  /\ \A r \in Sellers : loop[r] \in {Idle} \cup SaleWork \cup StopWork
  /\ startup # "running" => \A r \in PaperRoles : loop[r].at = "idle"

PaperShape ==
  /\ PaperTypeOK /\ LoopShape
  /\ sale \in [ExitIntents -> [of : Cycles \cup {NoSale.of}, quantity : 0..PositionCap]]
  /\ decisions \in [Sellers -> 0..MaxDecisions]

\* The rows of an intent agree: a fill comes with the last state of its attempt.
IntentFits(i) ==
  /\ lifecycle[i] \in {"none", "AUTHORIZED"} => attempt[i] = "none"
  /\ filled[i] > 0 <=> attempt[i] = "FINALIZED"
  /\ lifecycle[i] = "COMPLETED" => attempt[i] = "FINALIZED"
  /\ lifecycle[i] \in Unfilled => attempt[i] # "FINALIZED"

\* What has not been decided has no row, and only a filled entry has a position.
NotYet ==
  /\ \A c \in Cycles : entered[c] = Unevaluated => lifecycle[c] = "none"
  /\ \A c \in Cycles : position[c].status # "none" => filled[c] > 0
  /\ \A r \in Sellers, k \in 1..MaxDecisions : k > decisions[r] => lifecycle[<<r, k>>] = "none"

\* A loop works on an intent of its own, whose rows are what its step left.
WorkFits(r) ==
  LET work == loop[r]
      i == work.intent
  IN /\ work.at \in {"cleared", "decided"} => lifecycle[i] = "none"
     /\ work.at = "created" => lifecycle[i] = "AUTHORIZED"
     /\ work.at \in Rowed \ {"created"} => lifecycle[i] = "EXECUTING"
     /\ work.at \in {"executing", "PREPARED"} => attempt[i] = "none"
     /\ work.at \in {"FINALIZED", "NOT_LANDED"} => attempt[i] = "SIGNED_NOT_SUBMITTED"
     /\ work.at = "unfilled" => attempt[i] \in {"PREPARED", "NOT_LANDED"}
     /\ work.at \in Done => filled[i] = work.size /\ work.size > 0

EntryFits ==
  /\ loop[Entry].at \in Begun => loop[Entry].size = entered[loop[Entry].intent] /\ loop[Entry].size > 0
  /\ loop[Entry].at = "filled" => position[loop[Entry].intent].status = "none"

\* A seller that saw all of a lot has no less in hand than is left of it.
SaleFits(r) ==
  LET work == loop[r]
  IN /\ work.at \in Begun \cup {"cleared"} =>
          /\ work.intent \in {r} \X (1..decisions[r])
          /\ position[work.position].status # "none"
          /\ work.closes => position[work.position].quantity <= work.size
     /\ work.at \in Begun => sale[work.intent] = [of |-> work.position, quantity |-> work.size]

\* A lot is what was bought less what was sold of it and applied, or settled by recovery.
SoldDone(c) == SumFunctionOnSet(filled, {x \in ExitIntents : sale[x].of = c /\ lifecycle[x] = "COMPLETED"})

LotsFit ==
  \A c \in Cycles :
    /\ position[c].status # "none" => filled[c] - position[c].quantity <= SoldDone(c)
    /\ position[c].status # "OPEN" => position[c].quantity = 0

\* What is committed, with what an entry under way is about to commit, is covered.
CashFits ==
  /\ SumFunction(Committed) <= Capital + Sold
  /\ loop[Entry].at \in {"evaluated", "decided"} => SumFunction(Committed) + loop[Entry].size <= Capital + Sold

PaperInv ==
  /\ PaperShape /\ NotYet /\ EntryFits /\ LotsFit /\ CashFits
  /\ \A i \in Intents : IntentFits(i)
  /\ \A r \in PaperRoles : WorkFits(r)
  /\ \A r \in Sellers : SaleFits(r)

LEMMA PaperGround ==
  /\ Entry \in PaperRoles /\ Entry \notin Sellers /\ Sellers \subseteq PaperRoles
  /\ \A r \in PaperRoles : r # Entry => r \in Sellers
  /\ Cycles \subseteq Intents /\ ExitIntents \subseteq Intents /\ Cycles \cap ExitIntents = {}
  /\ \A i \in Intents : i \in Cycles \/ i \in ExitIntents
  /\ \A r \in Sellers, k \in 1..MaxDecisions : <<r, k>> \in ExitIntents
  /\ IsFiniteSet(Cycles) /\ IsFiniteSet(ExitIntents)
  /\ Capital \in Nat /\ PositionCap \in Nat \ {0} /\ MaxStop \in Nat /\ MaxDecisions \in Nat
  /\ Tighteners \subseteq Sellers /\ Unevaluated = -1
<1>1. IsFiniteSet(Cycles) /\ IsFiniteSet(Sellers) /\ MaxDecisions \in Nat
  BY PaperAssumption
<1>2. IsFiniteSet(1..MaxDecisions)
  BY <1>1, FS_Interval
<1>3. IsFiniteSet(ExitIntents)
  BY <1>1, <1>2, FS_Product DEF ExitIntents
<1> QED
  BY <1>1, <1>3, PaperAssumption, PaperNames DEF PaperRoles, Intents, ExitIntents, Unevaluated

\* What a loop has in hand at a step.
LEMMA EntryHand ==
  ASSUME LoopShape, loop[Entry].at # "idle"
  PROVE  loop[Entry] \in EntryWork
BY DEF LoopShape, Idle

LEMMA SaleHand ==
  ASSUME LoopShape, NEW r \in Sellers, loop[r].at \in Begun \cup {"cleared"}
  PROVE  loop[r] \in SaleWork
BY DEF LoopShape, Idle, StopWork, Begun, Rowed, Ends

LEMMA StopHand ==
  ASSUME LoopShape, NEW r \in Sellers, loop[r].at = "tighten"
  PROVE  loop[r] \in StopWork
BY DEF LoopShape, Idle, SaleWork, Begun, Rowed, Ends

LEMMA WorkIn ==
  ASSUME LoopShape, NEW r \in PaperRoles, loop[r].at \in Begun \cup {"cleared", "evaluated"}
  PROVE  /\ loop[r].intent \in Intents /\ loop[r].size \in 0..PositionCap
         /\ r = Entry => loop[r].intent \in Cycles
         /\ r # Entry => loop[r].intent \in ExitIntents
<1>1. CASE r = Entry
  <2>1. loop[Entry].at # "idle"
    BY <1>1 DEF Begun, Rowed, Ends
  <2> QED
    BY <1>1, <2>1, EntryHand, PaperGround DEF EntryWork
<1>2. CASE r # Entry
  <2>1. r \in Sellers /\ loop[r].at # "evaluated"
    <3>1. r \in Sellers
      BY <1>2, PaperGround
    <3>2. loop[r] \in {Idle} \cup SaleWork \cup StopWork
      BY <3>1 DEF LoopShape
    <3> QED
      BY <3>1, <3>2 DEF Idle, SaleWork, StopWork, Begun, Rowed, Ends
  <2>2. loop[r] \in SaleWork
    BY <2>1, SaleHand
  <2>3. loop[r].size \in 1..PositionCap /\ loop[r].intent \in ExitIntents
    BY <2>2 DEF SaleWork
  <2> QED
    BY <1>2, <2>3, PaperGround
<1> QED
  BY <1>1, <1>2

\* A loop whose step moves on, or ends.
LEMMA GoOn ==
  ASSUME LoopShape, NEW r \in PaperRoles, loop[r].at \in Begun \cup {"cleared", "evaluated"},
         NEW at \in Begun, Go(r, at), startup = "running", startup' = startup
  PROVE  /\ LoopShape'
         /\ loop'[r].at = at /\ loop'[r].intent = loop[r].intent /\ loop'[r].size = loop[r].size
         /\ r \in Sellers => loop'[r].position = loop[r].position /\ loop'[r].closes = loop[r].closes
         /\ \A q \in PaperRoles : q # r => loop'[q] = loop[q]
<1>0. loop' = [loop EXCEPT ![r] = [loop[r] EXCEPT !.at = at]]
  BY DEF Go
<1>1. CASE r = Entry
  <2>1. loop[Entry] \in EntryWork
    BY <1>1, EntryHand DEF Begun, Rowed, Ends
  <2> DEFINE w == [loop[Entry] EXCEPT !.at = at]
  <2>2. w \in EntryWork /\ w.at = at /\ w.intent = loop[Entry].intent /\ w.size = loop[Entry].size
    BY <2>1 DEF EntryWork
  <2>3. loop' = [loop EXCEPT ![Entry] = w]
    BY <1>0, <1>1
  <2> HIDE DEF w
  <2> QED
    BY <1>1, <2>2, <2>3, PaperGround DEF LoopShape
<1>2. CASE r # Entry
  <2>0. r \in Sellers
    BY <1>2, PaperGround
  <2>1. loop[r] \in SaleWork
    <3>1. loop[r] \in {Idle} \cup SaleWork \cup StopWork
      BY <2>0 DEF LoopShape
    <3> QED
      BY <3>1 DEF Idle, StopWork, Begun, Rowed, Ends
  <2> DEFINE w == [loop[r] EXCEPT !.at = at]
  <2>2. /\ w \in SaleWork /\ w.at = at /\ w.intent = loop[r].intent /\ w.size = loop[r].size
        /\ w.position = loop[r].position /\ w.closes = loop[r].closes
    BY <2>1 DEF SaleWork
  <2>3. loop' = [loop EXCEPT ![r] = w]
    BY <1>0
  <2> HIDE DEF w
  <2> QED
    BY <1>2, <2>0, <2>2, <2>3, PaperGround DEF LoopShape
<1> QED
  BY <1>1, <1>2

LEMMA LeaveOff ==
  ASSUME LoopShape, NEW r \in PaperRoles, Leave(r), startup' = startup
  PROVE  /\ LoopShape' /\ loop'[r].at = "idle"
         /\ \A q \in PaperRoles : q # r => loop'[q] = loop[q]
<1>1. Idle.at = "idle"
  BY DEF Idle
<1>2. /\ loop' \in [PaperRoles -> {Idle} \cup EntryWork \cup SaleWork \cup StopWork]
      /\ loop'[r] = Idle /\ \A q \in PaperRoles : q # r => loop'[q] = loop[q]
  BY DEF LoopShape, Leave
<1> QED
  BY <1>1, <1>2, PaperGround DEF LoopShape

\* No two loops work on one intent.
LEMMA IntentsApart ==
  ASSUME PaperInv, NEW r \in PaperRoles, NEW q \in PaperRoles, q # r,
         loop[r].at \in Begun \cup {"cleared", "evaluated"},
         loop[q].at \in Begun \cup {"cleared", "evaluated"}
  PROVE  loop[r].intent # loop[q].intent
<1>1. LoopShape
  BY DEF PaperInv, PaperShape
<1>2. CASE r = Entry \/ q = Entry
  BY <1>1, <1>2, WorkIn, PaperGround
<1>3. CASE r # Entry /\ q # Entry
  <2>1. \A s \in {r, q} : s \in Sellers /\ loop[s].at \in Begun \cup {"cleared"}
    <3>1. SUFFICES ASSUME NEW s \in {r, q} PROVE s \in Sellers /\ loop[s].at \in Begun \cup {"cleared"}
      OBVIOUS
    <3>2. s \in Sellers
      BY <1>3, PaperGround
    <3>3. loop[s] \in {Idle} \cup SaleWork \cup StopWork
      BY <1>1, <3>2 DEF LoopShape
    <3>4. loop[s].at # "evaluated"
      BY <3>3 DEF Idle, SaleWork, StopWork, Begun, Rowed, Ends
    <3> QED
      BY <3>2, <3>4
  <2>2. loop[r].intent \in {r} \X (1..decisions[r]) /\ loop[q].intent \in {q} \X (1..decisions[q])
    BY <2>1 DEF PaperInv, SaleFits
  <2>3. \A a, b : a \in {r} \X (1..decisions[r]) /\ b \in {q} \X (1..decisions[q]) => a[1] # b[1]
    OBVIOUS
  <2> QED
    BY <2>2, <2>3
<1> QED
  BY <1>2, <1>3

-----------------------------------------------------------------------------
(* What a step of one loop leaves to the others.                            *)

Keeps(i) == lifecycle'[i] = lifecycle[i] /\ attempt'[i] = attempt[i] /\ filled'[i] = filled[i]
HandOf(r, i) == loop[r].at \in Begun \cup {"cleared", "evaluated"} /\ loop[r].intent = i

\* Positions stay and do not grow.
LotsShrink ==
  \A c \in Cycles : position[c].status # "none" =>
    /\ position'[c].status # "none"
    /\ position'[c].quantity \in Nat /\ position'[c].quantity <= position[c].quantity

LEMMA PaperParts ==
  ASSUME PaperInv
  PROVE  /\ LoopShape /\ PaperShape /\ NotYet /\ EntryFits /\ LotsFit /\ CashFits
         /\ entered \in [Cycles -> Unevaluated..PositionCap]
         /\ lifecycle \in [Intents -> Lifecycles] /\ attempt \in [Intents -> PaperAttempts]
         /\ filled \in [Intents -> 0..PositionCap] /\ filled \in [Intents -> Nat]
         /\ position \in [Cycles -> [status : {"none", "OPEN", "CLOSED"}, quantity : 0..PositionCap, stop : 0..MaxStop]]
         /\ sale \in [ExitIntents -> [of : Cycles \cup {NoSale.of}, quantity : 0..PositionCap]]
         /\ decisions \in [Sellers -> 0..MaxDecisions]
         /\ \A i \in Intents : IntentFits(i)
         /\ \A r \in PaperRoles : WorkFits(r)
         /\ \A r \in Sellers : SaleFits(r)
<1>1. 0..PositionCap \subseteq Nat
  OBVIOUS
<1> QED
  BY <1>1 DEF PaperInv, PaperShape, PaperTypeOK

LEMMA OthersFit ==
  ASSUME PaperInv, NEW r \in PaperRoles,
         \A q \in PaperRoles : q # r => loop'[q] = loop[q],
         \A j \in Intents : Keeps(j) \/ HandOf(r, j),
         \A x \in ExitIntents : sale'[x] = sale[x] \/ HandOf(r, x),
         \A q \in Sellers : q # r => decisions'[q] = decisions[q],
         LotsShrink
  PROVE  /\ \A q \in PaperRoles : q # r => WorkFits(q)'
         /\ \A q \in Sellers : q # r => SaleFits(q)'
<1>1. ASSUME NEW q \in PaperRoles, q # r, loop[q].at \in Begun \cup {"cleared"}
      PROVE  /\ loop[q].intent \in Intents /\ Keeps(loop[q].intent)
             /\ q \in Sellers => loop[q].intent \in ExitIntents /\ sale'[loop[q].intent] = sale[loop[q].intent]
  <2>1. loop[q].intent \in Intents /\ (q \in Sellers => loop[q].intent \in ExitIntents)
    BY <1>1, WorkIn, PaperParts, PaperGround
  <2>2. ~ HandOf(r, loop[q].intent)
    BY <1>1, IntentsApart DEF HandOf
  <2> QED
    BY <2>1, <2>2
<1>2. ASSUME NEW q \in PaperRoles, q # r PROVE WorkFits(q)'
  <2>1. WorkFits(q) /\ loop'[q] = loop[q]
    BY <1>2, PaperParts
  <2>2. CASE loop[q].at \in Begun \cup {"cleared"}
    BY <1>1, <1>2, <2>1, <2>2 DEF WorkFits, Keeps
  <2>3. CASE loop[q].at \notin Begun \cup {"cleared"}
    BY <2>1, <2>3 DEF WorkFits, Begun, Rowed, Done, Ends
  <2> QED
    BY <2>2, <2>3
<1>3. ASSUME NEW q \in Sellers, q # r PROVE SaleFits(q)'
  <2>1. SaleFits(q) /\ loop'[q] = loop[q] /\ decisions'[q] = decisions[q] /\ q \in PaperRoles
    BY <1>3, PaperParts, PaperGround
  <2>2. CASE loop[q].at \in Begun \cup {"cleared"}
    <3>1. loop[q] \in SaleWork
      BY <2>2, SaleHand, PaperParts
    <3>2. loop[q].position \in Cycles /\ loop[q].size \in Nat /\ loop[q].closes \in BOOLEAN
      BY <3>1 DEF SaleWork
    <3>3. sale'[loop[q].intent] = sale[loop[q].intent]
      BY <1>1, <1>3, <2>1, <2>2
    <3>4. position[loop[q].position].status # "none"
      BY <2>1, <2>2 DEF SaleFits
    <3>5. position'[loop[q].position].status # "none"
          /\ position'[loop[q].position].quantity \in Nat
          /\ position'[loop[q].position].quantity <= position[loop[q].position].quantity
      BY <3>2, <3>4 DEF LotsShrink
    <3>6. position[loop[q].position].quantity \in Nat
      BY <3>2, PaperParts
    <3>7. loop'[q].closes => position'[loop'[q].position].quantity <= loop'[q].size
      <4>1. loop[q].closes => position[loop[q].position].quantity <= loop[q].size
        BY <2>1, <2>2 DEF SaleFits
      <4> QED
        BY <2>1, <3>2, <3>5, <3>6, <4>1
    <3> QED
      BY <2>1, <2>2, <3>3, <3>5, <3>7 DEF SaleFits
  <2>3. CASE loop[q].at \notin Begun \cup {"cleared"}
    BY <2>1, <2>3 DEF SaleFits
  <2> QED
    BY <2>2, <2>3
<1> QED
  BY <1>2, <1>3

\* What was sold and applied stays sold.
LEMMA SoldStays ==
  ASSUME PaperInv, filled' \in [Intents -> Nat], NEW c,
         \A x \in ExitIntents : lifecycle[x] = "COMPLETED" =>
           lifecycle'[x] = "COMPLETED" /\ filled'[x] = filled[x] /\ sale'[x] = sale[x]
  PROVE  SoldDone(c) \in Nat /\ SoldDone(c)' \in Nat /\ SoldDone(c) <= SoldDone(c)'
<1> DEFINE S == {x \in ExitIntents : sale[x].of = c /\ lifecycle[x] = "COMPLETED"}
           T == {x \in ExitIntents : sale'[x].of = c /\ lifecycle'[x] = "COMPLETED"}
<1>1. S \subseteq T /\ T \subseteq ExitIntents /\ ExitIntents \subseteq Intents
  BY PaperGround
<1>2. IsFiniteSet(S) /\ IsFiniteSet(T)
  BY <1>1, PaperGround, FS_Subset
<1>3. \A x \in T : filled[x] \in Nat /\ filled'[x] \in Nat
  BY <1>1, PaperParts
<1>4. \A x \in S : filled[x] <= filled'[x]
  BY <1>1, <1>3
<1>5. SumFunctionOnSet(filled, S) <= SumFunctionOnSet(filled', T)
  BY <1>1, <1>2, <1>3, <1>4, SumGrows
<1>6. SumFunctionOnSet(filled, S) \in Nat /\ SumFunctionOnSet(filled', T) \in Nat
  BY <1>1, <1>2, <1>3, SumType
<1>7. SoldDone(c) = SumFunctionOnSet(filled, S) /\ SoldDone(c)' = SumFunctionOnSet(filled', T)
  BY DEF SoldDone
<1> QED
  BY <1>5, <1>6, <1>7

LEMMA CommittedSums ==
  /\ SumFunction(Committed) = SumFunctionOnSet(Committed, Cycles)
  /\ SumFunction(Committed)' = SumFunctionOnSet(Committed', Cycles)
BY DEF SumFunction, Committed

LEMMA CommittedTypes ==
  ASSUME PaperInv
  PROVE  \A c \in Cycles : Committed[c] \in Nat
<1> SUFFICES ASSUME NEW c \in Cycles PROVE Committed[c] \in Nat
  OBVIOUS
<1>1. filled[c] \in Nat /\ entered[c] \in Unevaluated..PositionCap
  BY PaperParts, PaperGround
<1>2. lifecycle[c] \in Pending => entered[c] # Unevaluated
  BY PaperParts DEF NotYet, Pending
<1>3. lifecycle[c] \in Pending => entered[c] \in Nat
  BY <1>1, <1>2, PaperGround
<1> QED
  BY <1>1, <1>3 DEF Committed

LEMMA SumTypes ==
  ASSUME PaperInv
  PROVE  Sold \in Nat /\ SumFunction(Committed) \in Nat
<1>1. \A x \in ExitIntents : filled[x] \in Nat
  BY PaperParts, PaperGround
<1>2. Sold \in Nat
  BY <1>1, PaperGround, SumType DEF Sold
<1> QED
  BY <1>2, CommittedTypes, CommittedSums, PaperGround, SumType

\* A step that commits no more, while the entry under way asks for what it asked for.
LEMMA CashStays ==
  ASSUME PaperInv, filled' \in [Intents -> Nat],
         \A c \in Cycles : Committed'[c] \in Nat /\ Committed'[c] <= Committed[c],
         \A x \in ExitIntents : filled[x] <= filled'[x],
         loop'[Entry].at \in {"evaluated", "decided"} =>
           loop[Entry].at \in {"evaluated", "decided"} /\ loop'[Entry].size = loop[Entry].size
  PROVE  CashFits'
<1>1. \A x \in ExitIntents : filled[x] \in Nat /\ filled'[x] \in Nat
  BY PaperParts, PaperGround
<1>2. Sold <= Sold'
  BY <1>1, PaperGround, SumGrows DEF Sold
<1>3. SumFunction(Committed)' <= SumFunction(Committed)
  BY CommittedTypes, CommittedSums, PaperGround, SumGrows
<1>4. Sold' \in Nat
  BY <1>1, PaperGround, SumType DEF Sold
<1>5. SumFunction(Committed)' \in Nat
  BY CommittedSums, PaperGround, SumType
<1>6. Capital \in Nat /\ Capital' = Capital
  BY PaperGround
<1>7. SumFunction(Committed)' <= Capital + Sold'
  <2>1. SumFunction(Committed) <= Capital + Sold
    BY PaperParts DEF CashFits
  <2> QED
    BY <1>2, <1>3, <1>4, <1>5, <1>6, <2>1, SumTypes
<1>8. ASSUME loop'[Entry].at \in {"evaluated", "decided"}
      PROVE  SumFunction(Committed)' + loop'[Entry].size <= Capital + Sold'
  <2>1. SumFunction(Committed) + loop[Entry].size <= Capital + Sold /\ loop'[Entry].size = loop[Entry].size
    BY <1>8, PaperParts DEF CashFits
  <2>2. loop[Entry].size \in Nat
    <3>1. loop[Entry].at \in Begun \cup {"cleared", "evaluated"}
      BY <1>8 DEF Begun
    <3>2. loop[Entry].size \in 0..PositionCap
      BY <3>1, WorkIn, PaperParts, PaperGround
    <3> QED
      BY <3>2
  <2> QED
    BY <1>2, <1>3, <1>4, <1>5, <1>6, <2>1, <2>2, SumTypes
<1> QED
  BY <1>7, <1>8 DEF CashFits

\* What a loop at work stands on.
LEMMA AtWork ==
  ASSUME PaperInv, NEW r \in PaperRoles, loop[r].at \in Begun
  PROVE  /\ loop[r].intent \in Intents /\ loop[r].size \in 1..PositionCap
         /\ r = Entry => /\ loop[r].intent \in Cycles
                         /\ loop[r].size = entered[loop[r].intent]
         /\ r # Entry => loop[r].intent \in ExitIntents /\ loop[r].intent \notin Cycles
         /\ lifecycle[loop[r].intent] \in {"none", "AUTHORIZED", "EXECUTING"}
         /\ IntentFits(loop[r].intent) /\ WorkFits(r) /\ filled[loop[r].intent] \in Nat
<1>1. /\ loop[r].intent \in Intents /\ loop[r].size \in 0..PositionCap
      /\ r = Entry => loop[r].intent \in Cycles
      /\ r # Entry => loop[r].intent \in ExitIntents /\ loop[r].intent \notin Cycles
  BY PaperParts, WorkIn, PaperGround
<1>2. loop[r].size > 0
  <2>1. CASE r = Entry
    BY <2>1, PaperParts DEF EntryFits
  <2>2. CASE r # Entry
    <3>1. loop[r] \in SaleWork
      BY <2>2, PaperParts, SaleHand, PaperGround
    <3> QED
      BY <3>1 DEF SaleWork
  <2> QED
    BY <2>1, <2>2
<1>3. r = Entry => loop[r].size = entered[loop[r].intent]
  BY PaperParts DEF EntryFits
<1>4. lifecycle[loop[r].intent] \in {"none", "AUTHORIZED", "EXECUTING"}
  BY PaperParts DEF WorkFits, Begun
<1> QED
  BY <1>1, <1>2, <1>3, <1>4, PaperParts

\* Steps that write the rows of the intent in hand.
LEMMA RowMoves ==
  ASSUME PaperInv, NEW r \in PaperRoles, loop[r].at \in Begun, NEW i, i = loop[r].intent,
         UNCHANGED <<entered, sale, position, startup, decisions, roles, restarts>>,
         \A j \in Intents : j # i => Keeps(j),
         lifecycle' \in [Intents -> Lifecycles], attempt' \in [Intents -> PaperAttempts],
         filled' \in [Intents -> 0..PositionCap],
         filled'[i] = filled[i] \/ filled[i] = 0,
         LoopShape', \A q \in PaperRoles : q # r => loop'[q] = loop[q],
         IntentFits(i)', WorkFits(r)', CashFits',
         loop'[r].at \in Rowed \cup {"idle"},
         loop'[r].at # "idle" =>
           /\ loop'[r].intent = i /\ loop'[r].size = loop[r].size
           /\ r \in Sellers => loop'[r].position = loop[r].position /\ loop'[r].closes = loop[r].closes,
         loop'[r].at = "filled" => filled[i] = 0
  PROVE  PaperInv'
<1>1. /\ i \in Intents /\ loop[r].size \in 1..PositionCap
      /\ r = Entry => i \in Cycles /\ loop[r].size = entered[i]
      /\ r # Entry => i \in ExitIntents /\ i \notin Cycles
      /\ lifecycle[i] \in {"none", "AUTHORIZED", "EXECUTING"}
  BY AtWork
<1>2. filled' \in [Intents -> Nat]
  BY PaperGround
<1>3. PaperShape'
  BY PaperParts DEF PaperInv, PaperShape, PaperTypeOK
<1>4. LotsShrink
  BY PaperParts DEF LotsShrink
<1>5. /\ \A q \in PaperRoles : q # r => WorkFits(q)'
      /\ \A q \in Sellers : q # r => SaleFits(q)'
  BY <1>4, OthersFit DEF HandOf
<1>6. \A j \in Intents : IntentFits(j)'
  BY PaperParts DEF IntentFits, Keeps
<1>7. NotYet'
  <2>1. \A c \in Cycles : entered[c] = Unevaluated => c # i
    BY <1>1, PaperGround
  <2>2. \A q \in Sellers, k \in 1..MaxDecisions : k > decisions[q] => <<q, k>> # i
    <3> SUFFICES ASSUME NEW q \in Sellers, NEW k \in 1..MaxDecisions, k > decisions[q], <<q, k>> = i PROVE FALSE
      OBVIOUS
    <3>1. r # Entry /\ r \in Sellers
      BY <1>1, PaperGround
    <3>2. i \in {r} \X (1..decisions[r])
      BY <3>1, PaperParts DEF SaleFits
    <3>3. q = r /\ k \in 1..decisions[r]
      BY <3>2
    <3>4. decisions[r] \in Nat
      BY <3>1, PaperParts
    <3> QED
      BY <3>3, <3>4
  <2>3. \A c \in Cycles : position[c].status # "none" => filled'[c] > 0
    <3> SUFFICES ASSUME NEW c \in Cycles, position[c].status # "none" PROVE filled'[c] > 0
      OBVIOUS
    <3>1. filled[c] > 0 /\ filled[c] \in Nat
      BY PaperParts, PaperGround DEF NotYet
    <3> QED
      BY <3>1, PaperGround DEF Keeps
  <2> QED
    BY <2>1, <2>2, <2>3, PaperParts, PaperGround DEF NotYet, Keeps
<1>8. EntryFits'
  <2>1. CASE r # Entry
    BY <2>1, PaperParts, PaperGround DEF EntryFits
  <2>2. CASE r = Entry
    <3>1. loop'[Entry].at = "filled" => position[i].status = "none"
      BY <1>1, <2>2, PaperParts DEF NotYet
    <3> QED
      BY <1>1, <2>2, <3>1 DEF EntryFits, Begun, Rowed, Ends
  <2> QED
    BY <2>1, <2>2
<1>9. LotsFit'
  <2> SUFFICES ASSUME NEW c \in Cycles
               PROVE  /\ position[c].status # "none" => filled'[c] - position[c].quantity <= SoldDone(c)'
                      /\ position[c].status # "OPEN" => position[c].quantity = 0
    BY DEF LotsFit
  <2>1. \A x \in ExitIntents : lifecycle[x] = "COMPLETED" =>
          lifecycle'[x] = "COMPLETED" /\ filled'[x] = filled[x] /\ sale'[x] = sale[x]
    BY <1>1, PaperGround DEF Keeps
  <2>2. SoldDone(c) \in Nat /\ SoldDone(c)' \in Nat /\ SoldDone(c) <= SoldDone(c)'
    BY <1>2, <2>1, SoldStays
  <2>3. ASSUME position[c].status # "none" PROVE filled'[c] = filled[c]
    <3>1. filled[c] > 0 /\ filled[c] \in Nat
      BY <2>3, PaperParts, PaperGround DEF NotYet
    <3> QED
      BY <3>1, PaperGround DEF Keeps
  <2>4. filled[c] \in Nat /\ position[c].quantity \in Nat
    BY PaperParts, PaperGround
  <2> QED
    BY <2>2, <2>3, <2>4, PaperParts DEF LotsFit
<1>10. ASSUME r \in Sellers PROVE SaleFits(r)'
  <2>1. SaleFits(r)
    BY <1>10, PaperParts
  <2>2. loop'[r].at # "cleared"
    BY DEF Rowed, Ends
  <2> QED
    BY <1>10, <2>1, <2>2 DEF SaleFits, Begun, Rowed, Ends
<1> QED
  BY <1>3, <1>5, <1>6, <1>7, <1>8, <1>9, <1>10 DEF PaperInv

\* What it means for the cash, when the entry in hand commits no more.
LEMMA RowCash ==
  ASSUME PaperInv, NEW r \in PaperRoles, loop[r].at \in Begun, NEW i, i = loop[r].intent,
         entered' = entered, \A j \in Intents : j # i => Keeps(j),
         filled' \in [Intents -> 0..PositionCap],
         filled'[i] = filled[i] \/ filled[i] = 0,
         \A q \in PaperRoles : q # r => loop'[q] = loop[q],
         loop'[r].at \in Rowed \cup {"idle"},
         i \in Cycles => Committed'[i] \in Nat /\ Committed'[i] <= Committed[i]
  PROVE  CashFits'
<1>1. filled' \in [Intents -> Nat]
  BY PaperGround
<1>2. \A c \in Cycles : Committed'[c] \in Nat /\ Committed'[c] <= Committed[c]
  <2> SUFFICES ASSUME NEW c \in Cycles, c # i PROVE Committed'[c] \in Nat /\ Committed'[c] <= Committed[c]
    OBVIOUS
  <2>1. Committed'[c] = Committed[c]
    BY PaperGround DEF Keeps, Committed
  <2> QED
    BY <2>1, CommittedTypes
<1>3. \A x \in ExitIntents : filled[x] <= filled'[x]
  <2> SUFFICES ASSUME NEW x \in ExitIntents PROVE filled[x] <= filled'[x]
    OBVIOUS
  <2>1. filled[x] \in Nat /\ filled'[x] \in Nat
    BY <1>1, PaperParts, PaperGround
  <2> QED
    BY <2>1, PaperGround DEF Keeps
<1>4. loop'[Entry].at \in {"evaluated", "decided"} => loop'[Entry] = loop[Entry]
  BY PaperGround DEF Rowed, Ends
<1> QED
  BY <1>1, <1>2, <1>3, <1>4, CashStays

-----------------------------------------------------------------------------
(* The steps that write the rows of an intent.                              *)

LEMMA CreateIntentKeeps ==
  ASSUME PaperInv, NEW r \in PaperRoles, CreateIntent(r)
  PROVE  PaperInv'
<1>i. PICK i : i = loop[r].intent
  OBVIOUS
<1>0. loop[r].at = "decided" /\ loop[r].at \in Begun /\ startup = "running"
  BY DEF CreateIntent, Ready, Begun
<1>1. /\ UNCHANGED <<entered, attempt, filled, sale, position, startup, decisions, roles, restarts>>
      /\ lifecycle' = [lifecycle EXCEPT ![i] = "AUTHORIZED"] /\ Go(r, "created")
  BY <1>i DEF CreateIntent
<1>2. /\ i \in Intents /\ lifecycle[i] = "none" /\ attempt[i] = "none" /\ filled[i] = 0
      /\ loop[r].size \in 1..PositionCap
      /\ r = Entry => i \in Cycles /\ loop[r].size = entered[i]
      /\ r # Entry => i \notin Cycles
  BY <1>i, <1>0, AtWork DEF WorkFits, IntentFits
<1>3. /\ LoopShape' /\ loop'[r].at = "created" /\ loop'[r].intent = i /\ loop'[r].size = loop[r].size
      /\ r \in Sellers => loop'[r].position = loop[r].position /\ loop'[r].closes = loop[r].closes
      /\ \A q \in PaperRoles : q # r => loop'[q] = loop[q]
  <2>1. "created" \in Begun
    BY DEF Begun, Rowed
  <2> QED
    BY <1>i, <1>0, <1>1, <2>1, PaperParts, GoOn
<1>4. /\ lifecycle' \in [Intents -> Lifecycles] /\ lifecycle'[i] = "AUTHORIZED"
      /\ \A j \in Intents : j # i => Keeps(j)
  BY <1>1, <1>2, PaperParts DEF Keeps, Lifecycles, Pending
<1>5. IntentFits(i)' /\ WorkFits(r)'
  BY <1>1, <1>2, <1>3, <1>4 DEF IntentFits, WorkFits, Unfilled, Rowed, Done, Ends
<1>6. CASE r # Entry
  <2>1. CashFits'
    BY <1>i, <1>0, <1>1, <1>2, <1>3, <1>4, <1>6, PaperParts, RowCash DEF Rowed
  <2> QED
    BY <1>i, <1>0, <1>1, <1>2, <1>3, <1>4, <1>5, <2>1, PaperParts, RowMoves DEF Rowed
<1>7. CASE r = Entry
  <2>1. SumFunction(Committed) + entered[i] <= Capital + Sold
    BY <1>0, <1>2, <1>7, PaperParts DEF CashFits
  <2>2. i \in Cycles /\ entered[i] \in Nat /\ entered[i] = loop[r].size
    BY <1>2, <1>7
  <2>3. Committed[i] = 0 /\ Committed'[i] = entered[i]
    BY <1>1, <1>2, <1>4, <2>2 DEF Committed, Pending
  <2>4. \A c \in Cycles : c # i => Committed'[c] = Committed[c]
    BY <1>1, <1>4, PaperGround DEF Keeps, Committed
  <2>5. \A c \in Cycles : Committed[c] \in Nat /\ Committed'[c] \in Nat
    BY <2>2, <2>3, <2>4, CommittedTypes
  <2>6. SumFunction(Committed) = SumFunctionOnSet(Committed, Cycles \ {i})
    <3>1. SumFunctionOnSet(Committed, Cycles) = Committed[i] + SumFunctionOnSet(Committed, Cycles \ {i})
      BY <2>2, <2>5, PaperGround, SumSplits
    <3>2. SumFunctionOnSet(Committed, Cycles \ {i}) \in Nat
      <4>1. IsFiniteSet(Cycles \ {i})
        BY PaperGround, FS_Subset
      <4> QED
        BY <2>5, <4>1, SumType
    <3> QED
      BY <2>3, <3>1, <3>2, CommittedSums
  <2>7. SumFunction(Committed)' = entered[i] + SumFunctionOnSet(Committed', Cycles \ {i})
    <3>1. SumFunctionOnSet(Committed', Cycles) = Committed'[i] + SumFunctionOnSet(Committed', Cycles \ {i})
      BY <2>2, <2>5, PaperGround, SumSplits
    <3> QED
      BY <2>3, <3>1, CommittedSums
  <2>8. SumFunctionOnSet(Committed', Cycles \ {i}) = SumFunctionOnSet(Committed, Cycles \ {i})
    <3>1. IsFiniteSet(Cycles \ {i})
      BY PaperGround, FS_Subset
    <3> QED
      BY <2>4, <3>1, SumRespects
  <2>9. Sold' = Sold
    BY <1>1 DEF Sold
  <2>10. SumFunction(Committed)' <= Capital + Sold'
    BY <2>1, <2>2, <2>6, <2>7, <2>8, <2>9, PaperGround, SumTypes
  <2>11. CashFits'
    BY <1>3, <1>7, <2>10 DEF CashFits
  <2> QED
    BY <1>i, <1>0, <1>1, <1>2, <1>3, <1>4, <1>5, <2>11, PaperParts, RowMoves DEF Rowed
<1> QED
  BY <1>6, <1>7

LEMMA StartExecutingKeeps ==
  ASSUME PaperInv, NEW r \in PaperRoles, StartExecuting(r)
  PROVE  PaperInv'
<1>i. PICK i : i = loop[r].intent
  OBVIOUS
<1>0. loop[r].at = "created" /\ loop[r].at \in Begun /\ startup = "running"
  BY DEF StartExecuting, Ready, Begun, Rowed
<1>1. /\ UNCHANGED <<entered, attempt, filled, sale, position, startup, decisions, roles, restarts>>
      /\ lifecycle' = [lifecycle EXCEPT ![i] = "EXECUTING"] /\ Go(r, "executing")
  BY <1>i DEF StartExecuting
<1>2. i \in Intents /\ lifecycle[i] = "AUTHORIZED" /\ attempt[i] = "none" /\ filled[i] = 0
  BY <1>i, <1>0, AtWork DEF WorkFits, IntentFits
<1>3. /\ LoopShape' /\ loop'[r].at = "executing" /\ loop'[r].intent = i /\ loop'[r].size = loop[r].size
      /\ r \in Sellers => loop'[r].position = loop[r].position /\ loop'[r].closes = loop[r].closes
      /\ \A q \in PaperRoles : q # r => loop'[q] = loop[q]
  <2>1. "executing" \in Begun
    BY DEF Begun, Rowed
  <2> QED
    BY <1>i, <1>0, <1>1, <2>1, PaperParts, GoOn
<1>4. /\ lifecycle' \in [Intents -> Lifecycles] /\ lifecycle'[i] = "EXECUTING"
      /\ \A j \in Intents : j # i => Keeps(j)
  BY <1>1, <1>2, PaperParts DEF Keeps, Lifecycles, Pending
<1>5. IntentFits(i)' /\ WorkFits(r)'
  BY <1>1, <1>2, <1>3, <1>4 DEF IntentFits, WorkFits, Unfilled, Rowed, Done, Ends
<1>6. i \in Cycles => Committed'[i] = Committed[i] /\ Committed[i] \in Nat
  BY <1>1, <1>2, <1>4, CommittedTypes DEF Committed, Pending
<1>7. CashFits'
  BY <1>i, <1>0, <1>1, <1>2, <1>3, <1>4, <1>6, PaperParts, RowCash DEF Rowed
<1> QED
  BY <1>i, <1>0, <1>1, <1>2, <1>3, <1>4, <1>5, <1>7, PaperParts, RowMoves DEF Rowed

LEMMA RejectBeforeSubmitKeeps ==
  ASSUME PaperInv, NEW r \in PaperRoles, RejectBeforeSubmit(r)
  PROVE  PaperInv'
<1>i. PICK i : i = loop[r].intent
  OBVIOUS
<1>0. loop[r].at = "executing" /\ loop[r].at \in Begun /\ startup = "running"
  BY DEF RejectBeforeSubmit, Ready, Begun, Rowed
<1>1. /\ UNCHANGED <<entered, lifecycle, attempt, filled, sale, position, startup, decisions, roles, restarts>>
      /\ Go(r, "PREPARED")
  BY <1>i DEF RejectBeforeSubmit
<1>2. i \in Intents /\ lifecycle[i] = "EXECUTING" /\ attempt[i] = "none"
  BY <1>i, <1>0, AtWork DEF WorkFits, Rowed
<1>3. /\ LoopShape' /\ loop'[r].at = "PREPARED" /\ loop'[r].intent = i /\ loop'[r].size = loop[r].size
      /\ r \in Sellers => loop'[r].position = loop[r].position /\ loop'[r].closes = loop[r].closes
      /\ \A q \in PaperRoles : q # r => loop'[q] = loop[q]
  <2>1. "PREPARED" \in Begun
    BY DEF Begun, Rowed, Ends
  <2> QED
    BY <1>i, <1>0, <1>1, <2>1, PaperParts, GoOn
<1>4. \A j \in Intents : j # i => Keeps(j)
  BY <1>1 DEF Keeps
<1>5. IntentFits(i)' /\ WorkFits(r)'
  BY <1>1, <1>2, <1>3, PaperParts DEF IntentFits, WorkFits, Done
<1>6. i \in Cycles => Committed'[i] = Committed[i] /\ Committed[i] \in Nat
  BY <1>1, CommittedTypes DEF Committed
<1>7. CashFits'
  BY <1>i, <1>0, <1>1, <1>3, <1>4, <1>6, PaperParts, RowCash DEF Rowed, Ends
<1> QED
  BY <1>i, <1>0, <1>1, <1>2, <1>3, <1>4, <1>5, <1>7, PaperParts, RowMoves DEF Rowed, Ends

LEMMA JournalAttemptKeeps ==
  ASSUME PaperInv, NEW r \in PaperRoles, JournalAttempt(r)
  PROVE  PaperInv'
<1>i. PICK i : i = loop[r].intent
  OBVIOUS
<1>0. loop[r].at = "executing" /\ loop[r].at \in Begun /\ startup = "running"
  BY DEF JournalAttempt, Ready, Begun, Rowed
<1>1. /\ UNCHANGED <<entered, lifecycle, filled, sale, position, startup, decisions, roles, restarts>>
      /\ attempt' = [attempt EXCEPT ![i] = "SIGNED_NOT_SUBMITTED"]
  BY <1>i DEF JournalAttempt
<1>e. PICK end \in {"FINALIZED", "NOT_LANDED"} : Go(r, end)
  BY <1>i DEF JournalAttempt
<1>2. i \in Intents /\ lifecycle[i] = "EXECUTING" /\ attempt[i] = "none" /\ filled[i] = 0
  BY <1>i, <1>0, AtWork DEF WorkFits, IntentFits, Rowed
<1>3. /\ LoopShape' /\ loop'[r].at = end /\ loop'[r].intent = i /\ loop'[r].size = loop[r].size
      /\ r \in Sellers => loop'[r].position = loop[r].position /\ loop'[r].closes = loop[r].closes
      /\ \A q \in PaperRoles : q # r => loop'[q] = loop[q]
  <2>1. end \in Begun
    BY DEF Begun, Rowed, Ends
  <2> QED
    BY <1>i, <1>0, <1>1, <1>e, <2>1, PaperParts, GoOn
<1>4. /\ attempt' \in [Intents -> PaperAttempts] /\ attempt'[i] = "SIGNED_NOT_SUBMITTED"
      /\ \A j \in Intents : j # i => Keeps(j)
  BY <1>1, <1>2, PaperParts DEF Keeps, PaperAttempts
<1>5. IntentFits(i)' /\ WorkFits(r)'
  BY <1>1, <1>2, <1>3, <1>4 DEF IntentFits, WorkFits, Unfilled, Done
<1>6. i \in Cycles => Committed'[i] = Committed[i] /\ Committed[i] \in Nat
  BY <1>1, CommittedTypes DEF Committed
<1>7. CashFits'
  BY <1>i, <1>0, <1>1, <1>3, <1>4, <1>6, PaperParts, RowCash DEF Rowed, Ends
<1> QED
  BY <1>i, <1>0, <1>1, <1>2, <1>3, <1>4, <1>5, <1>7, PaperParts, RowMoves DEF Rowed, Ends

LEMMA FinishAttemptKeeps ==
  ASSUME PaperInv, NEW r \in PaperRoles, FinishAttempt(r)
  PROVE  PaperInv'
<1>i. PICK i : i = loop[r].intent
  OBVIOUS
<1>1. PICK end \in {"PREPARED", "FINALIZED", "NOT_LANDED"} :
        /\ Ready(r, end)
        /\ attempt' = [attempt EXCEPT ![i] = end]
        /\ filled' = IF end = "FINALIZED" THEN [filled EXCEPT ![i] = loop[r].size] ELSE filled
        /\ Go(r, IF end = "FINALIZED" THEN "filled" ELSE "unfilled")
  BY <1>i DEF FinishAttempt
<1>0. loop[r].at = end /\ loop[r].at \in Begun /\ startup = "running"
  BY <1>1 DEF Ready, Begun, Rowed, Ends
<1>e. UNCHANGED <<entered, lifecycle, sale, position, startup, decisions, roles, restarts>>
  BY <1>i DEF FinishAttempt
<1>2. /\ i \in Intents /\ lifecycle[i] = "EXECUTING" /\ attempt[i] # "FINALIZED" /\ filled[i] = 0
      /\ loop[r].size \in 1..PositionCap /\ (r = Entry => loop[r].size = entered[i])
      /\ r # Entry => i \notin Cycles
  BY <1>i, <1>0, AtWork DEF WorkFits, IntentFits, Rowed, Ends
<1> DEFINE at == IF end = "FINALIZED" THEN "filled" ELSE "unfilled"
<1>3. /\ LoopShape' /\ loop'[r].at = at /\ loop'[r].intent = i /\ loop'[r].size = loop[r].size
      /\ r \in Sellers => loop'[r].position = loop[r].position /\ loop'[r].closes = loop[r].closes
      /\ \A q \in PaperRoles : q # r => loop'[q] = loop[q]
  <2>1. at \in Begun
    BY DEF Begun, Rowed
  <2> QED
    BY <1>i, <1>0, <1>1, <1>e, <2>1, PaperParts, GoOn
<1>4. /\ attempt' \in [Intents -> PaperAttempts] /\ attempt'[i] = end
      /\ filled' \in [Intents -> 0..PositionCap]
      /\ filled'[i] = IF end = "FINALIZED" THEN loop[r].size ELSE 0
      /\ \A j \in Intents : j # i => Keeps(j)
  BY <1>1, <1>e, <1>2, PaperParts DEF Keeps, PaperAttempts
<1>5. IntentFits(i)' /\ WorkFits(r)'
  BY <1>e, <1>2, <1>3, <1>4 DEF IntentFits, WorkFits, Unfilled, Done, Rowed, Ends
<1>6. i \in Cycles => Committed'[i] = Committed[i] /\ Committed[i] \in Nat
  <2>1. ASSUME i \in Cycles PROVE Committed'[i] = Committed[i]
    BY <1>e, <1>2, <1>4, <2>1 DEF Committed, Pending
  <2> QED
    BY <2>1, CommittedTypes
<1>7. CashFits'
  BY <1>i, <1>0, <1>e, <1>2, <1>3, <1>4, <1>6, RowCash DEF Rowed
<1> QED
  BY <1>i, <1>0, <1>e, <1>2, <1>3, <1>4, <1>5, <1>7, PaperParts, RowMoves DEF Rowed

LEMMA CloseUnfilledKeeps ==
  ASSUME PaperInv, NEW r \in PaperRoles, CloseUnfilled(r)
  PROVE  PaperInv'
<1>i. PICK i : i = loop[r].intent
  OBVIOUS
<1>0. loop[r].at = "unfilled" /\ loop[r].at \in Begun
  BY DEF CloseUnfilled, Ready, Begun, Rowed
<1>1. /\ UNCHANGED <<entered, attempt, filled, sale, position, startup, decisions, roles, restarts>> /\ Leave(r)
  BY <1>i DEF CloseUnfilled
<1>e. PICK end \in Unfilled : lifecycle' = [lifecycle EXCEPT ![i] = end]
  BY <1>i DEF CloseUnfilled, Unfilled
<1>2. /\ i \in Intents /\ lifecycle[i] = "EXECUTING" /\ attempt[i] \notin {"FINALIZED", "none"} /\ filled[i] = 0
  BY <1>i, <1>0, AtWork DEF WorkFits, IntentFits, Rowed
<1>3. /\ LoopShape' /\ loop'[r].at = "idle"
      /\ \A q \in PaperRoles : q # r => loop'[q] = loop[q]
  BY <1>1, PaperParts, LeaveOff
<1>4. /\ lifecycle' \in [Intents -> Lifecycles] /\ lifecycle'[i] = end
      /\ \A j \in Intents : j # i => Keeps(j)
  BY <1>1, <1>e, <1>2, PaperParts DEF Keeps, Lifecycles
<1>5. IntentFits(i)' /\ WorkFits(r)'
  BY <1>1, <1>2, <1>3, <1>4 DEF IntentFits, WorkFits, Unfilled, Rowed, Done, Ends
<1>6. i \in Cycles => Committed'[i] \in Nat /\ Committed'[i] <= Committed[i]
  <2>1. ASSUME i \in Cycles PROVE Committed'[i] = 0
    BY <1>1, <1>2, <1>4, <2>1 DEF Committed, Pending, Unfilled
  <2> QED
    BY <2>1, CommittedTypes
<1>7. CashFits'
  BY <1>i, <1>0, <1>1, <1>3, <1>4, <1>6, PaperParts, RowCash
<1> QED
  BY <1>i, <1>0, <1>1, <1>2, <1>3, <1>4, <1>5, <1>7, PaperParts, RowMoves

LEMMA CompleteEntryKeeps ==
  ASSUME PaperInv, CompleteEntry
  PROVE  PaperInv'
<1>i. PICK i : i = loop[Entry].intent
  OBVIOUS
<1>0. loop[Entry].at = "opened" /\ loop[Entry].at \in Begun /\ Entry \in PaperRoles
  BY PaperGround DEF CompleteEntry, Ready, Begun, Rowed
<1>1. /\ UNCHANGED <<entered, attempt, filled, sale, position, startup, decisions, roles, restarts>> /\ Leave(Entry)
      /\ lifecycle' = [lifecycle EXCEPT ![i] = "COMPLETED"]
  BY <1>i DEF CompleteEntry
<1>2. i \in Intents /\ lifecycle[i] = "EXECUTING" /\ filled[i] > 0 /\ attempt[i] = "FINALIZED"
  <2>1. filled[i] = loop[Entry].size /\ loop[Entry].size \in 1..PositionCap
    BY <1>i, <1>0, AtWork DEF WorkFits, Done
  <2> QED
    BY <1>i, <1>0, <2>1, AtWork DEF WorkFits, IntentFits, Rowed
<1>3. /\ LoopShape' /\ loop'[Entry].at = "idle"
      /\ \A q \in PaperRoles : q # Entry => loop'[q] = loop[q]
  BY <1>0, <1>1, PaperParts, LeaveOff
<1>4. /\ lifecycle' \in [Intents -> Lifecycles] /\ lifecycle'[i] = "COMPLETED"
      /\ \A j \in Intents : j # i => Keeps(j)
  BY <1>1, <1>2, PaperParts DEF Keeps, Lifecycles
<1>5. IntentFits(i)' /\ WorkFits(Entry)'
  BY <1>1, <1>2, <1>3, <1>4 DEF IntentFits, WorkFits, Unfilled, Rowed, Done, Ends
<1>6. i \in Cycles => Committed'[i] = Committed[i] /\ Committed[i] \in Nat
  BY <1>1, <1>2, CommittedTypes DEF Committed
<1>7. CashFits'
  BY <1>i, <1>0, <1>1, <1>3, <1>4, <1>6, PaperParts, RowCash
<1> QED
  BY <1>i, <1>0, <1>1, <1>2, <1>3, <1>4, <1>5, <1>7, PaperParts, RowMoves

-----------------------------------------------------------------------------
(* The steps that decide: no row of an intent changes.                      *)

LEMMA PlanMoves ==
  ASSUME PaperInv, NEW r \in PaperRoles, UNCHANGED <<lifecycle, attempt, filled>>, PaperShape',
         \A q \in PaperRoles : q # r => loop'[q] = loop[q],
         \A x \in ExitIntents : sale'[x] = sale[x] \/ (loop[r].at = "cleared" /\ loop[r].intent = x),
         \A c \in Cycles : entered'[c] = entered[c] \/ (entered[c] = Unevaluated /\ entered'[c] # Unevaluated),
         \A c \in Cycles : position'[c].status = position[c].status /\ position'[c].quantity = position[c].quantity,
         \A q \in Sellers : q # r => decisions'[q] = decisions[q],
         \A q \in Sellers : decisions[q] <= decisions'[q],
         WorkFits(r)', r \in Sellers => SaleFits(r)', EntryFits',
         loop'[Entry].at \in {"evaluated", "decided"} => SumFunction(Committed) + loop'[Entry].size <= Capital + Sold
  PROVE  PaperInv'
<1>1. LotsShrink
  BY PaperParts DEF LotsShrink
<1>2. /\ \A q \in PaperRoles : q # r => WorkFits(q)'
      /\ \A q \in Sellers : q # r => SaleFits(q)'
  BY <1>1, OthersFit DEF HandOf, Keeps
<1>3. \A i \in Intents : IntentFits(i)'
  BY PaperParts DEF IntentFits
<1>4. NotYet'
  <2>1. \A q \in Sellers, k \in 1..MaxDecisions : k > decisions'[q] => k > decisions[q]
    <3>1. \A q \in Sellers : decisions[q] \in Nat /\ decisions'[q] \in Nat
      BY PaperGround DEF PaperInv, PaperShape
    <3> QED
      BY <3>1
  <2> QED
    BY <2>1, PaperParts DEF NotYet
<1>5. \A c \in Cycles : Committed'[c] = Committed[c]
  BY PaperParts DEF NotYet, Committed, Pending
<1>6. SumFunction(Committed)' = SumFunction(Committed) /\ Sold' = Sold
  <2>1. SumFunctionOnSet(Committed', Cycles) = SumFunctionOnSet(Committed, Cycles)
    BY <1>5, PaperGround, SumRespects
  <2> QED
    BY <2>1, CommittedSums DEF Sold
<1>7. CashFits'
  BY <1>6, PaperParts DEF CashFits
<1>8. LotsFit'
  <2> SUFFICES ASSUME NEW c \in Cycles
               PROVE  /\ position[c].status # "none" => filled[c] - position[c].quantity <= SoldDone(c)'
                      /\ position[c].status # "OPEN" => position[c].quantity = 0
    BY DEF LotsFit
  <2>1. \A x \in ExitIntents : lifecycle[x] = "COMPLETED" => sale'[x] = sale[x]
    BY PaperParts DEF WorkFits
  <2>2. SoldDone(c) \in Nat /\ SoldDone(c)' \in Nat /\ SoldDone(c) <= SoldDone(c)'
    BY <2>1, PaperParts, SoldStays
  <2>3. filled[c] \in Nat /\ position[c].quantity \in Nat
    BY PaperParts, PaperGround
  <2> QED
    BY <2>2, <2>3, PaperParts DEF LotsFit
<1> QED
  BY <1>2, <1>3, <1>4, <1>7, <1>8 DEF PaperInv

\* With no entry executing, what is committed is what was paid and what is authorized.
LEMMA FreeCash ==
  ASSUME PaperInv, InFlightIncreasing = {}
  PROVE  /\ SumFunction(Committed) = SumFunctionOnSet(filled, Cycles) + PendingExposure
         /\ SumFunctionOnSet(filled, Cycles) \in Nat /\ PendingExposure \in Nat
<1> DEFINE open == {c \in Cycles : lifecycle[c] \in Pending}
           pend == [c \in Cycles |-> IF lifecycle[c] \in Pending THEN entered[c] ELSE 0]
<1>1. PendingExposure = SumFunctionOnSet(pend, Cycles)
  BY DEF PendingExposure, SumFunction
<1>2. \A c \in Cycles : filled[c] \in Nat /\ Committed[c] \in Nat
  BY PaperParts, PaperGround, CommittedTypes
<1>3. \A c \in open : filled[c] = 0 /\ Committed[c] = pend[c]
  <2> SUFFICES ASSUME NEW c \in open PROVE filled[c] = 0 /\ Committed[c] = pend[c]
    OBVIOUS
  <2>1. lifecycle[c] = "AUTHORIZED"
    BY DEF InFlightIncreasing, Pending
  <2>2. filled[c] = 0
    BY <1>2, <2>1, PaperParts, PaperGround DEF IntentFits
  <2> QED
    BY <2>2 DEF Committed
<1>4. \A c \in Cycles \ open : pend[c] = 0 /\ Committed[c] = filled[c]
  BY <1>2 DEF Committed
<1>5. \A c \in Cycles : pend[c] \in Nat
  BY <1>2, <1>3, <1>4
<1>6. IsFiniteSet(Cycles) /\ open \subseteq Cycles /\ IsFiniteSet(open) /\ IsFiniteSet(Cycles \ open)
  BY PaperGround, FS_Subset
<1> HIDE DEF open, pend
<1>7. SumFunctionOnSet(Committed, Cycles) = SumFunctionOnSet(Committed, Cycles \ open) + SumFunctionOnSet(Committed, open)
  BY <1>2, <1>6, SumOfParts
<1>8. SumFunctionOnSet(filled, Cycles) = SumFunctionOnSet(filled, Cycles \ open) + SumFunctionOnSet(filled, open)
  BY <1>2, <1>6, SumOfParts
<1>9. SumFunctionOnSet(pend, Cycles) = SumFunctionOnSet(pend, Cycles \ open) + SumFunctionOnSet(pend, open)
  BY <1>5, <1>6, SumOfParts
<1>10. SumFunctionOnSet(filled, open) = 0
  BY <1>3, <1>6, SumOfZeros
<1>11. SumFunctionOnSet(pend, Cycles \ open) = 0
  BY <1>4, <1>6, SumOfZeros
<1>12. SumFunctionOnSet(Committed, open) = SumFunctionOnSet(pend, open)
  BY <1>3, <1>6, SumRespects
<1>13. SumFunctionOnSet(Committed, Cycles \ open) = SumFunctionOnSet(filled, Cycles \ open)
  BY <1>4, <1>6, SumRespects
<1>14. /\ SumFunctionOnSet(filled, Cycles \ open) \in Nat /\ SumFunctionOnSet(pend, open) \in Nat
       /\ SumFunctionOnSet(filled, Cycles) \in Nat /\ SumFunctionOnSet(pend, Cycles) \in Nat
  <2>1. (\A c \in Cycles \ open : filled[c] \in Nat) /\ (\A c \in open : pend[c] \in Nat)
    BY <1>2, <1>5, <1>6
  <2> QED
    BY <1>2, <1>5, <1>6, <2>1, SumType
<1> QED
  BY <1>1, <1>7, <1>8, <1>9, <1>10, <1>11, <1>12, <1>13, <1>14, CommittedSums

LEMMA EntryIsCovered ==
  ASSUME PaperInv, InFlightIncreasing = {}, EntrySize > 0
  PROVE  EntrySize \in 1..PositionCap /\ SumFunction(Committed) + EntrySize <= Capital + Sold
<1>1. Cash = Capital - SumFunctionOnSet(filled, Cycles) + Sold
  BY DEF Cash
<1>2. Cash - PendingExposure = Capital + Sold - SumFunction(Committed)
  BY <1>1, FreeCash, SumTypes, PaperGround
<1>3. Cash - PendingExposure \in Int
  BY <1>2, SumTypes, PaperGround
<1>4. EntrySize = IF Cash - PendingExposure < PositionCap THEN Cash - PendingExposure ELSE PositionCap
  BY DEF EntrySize
<1> QED
  BY <1>2, <1>3, <1>4, SumTypes, PaperGround

LEMMA EvaluateCycleKeeps ==
  ASSUME PaperInv, NEW c \in Cycles, EvaluateCycle(c)
  PROVE  PaperInv'
<1>1. PICK healthy \in BOOLEAN :
        LET allowed == healthy /\ EntrySize > 0 /\ InFlightIncreasing = {}
        IN  loop' = [loop EXCEPT ![Entry] =
              [at |-> "evaluated", intent |-> c, size |-> IF allowed THEN EntrySize ELSE 0]]
  BY DEF EvaluateCycle
<1>2. /\ UNCHANGED <<entered, lifecycle, attempt, filled, sale, position, startup, decisions, roles, restarts>>
      /\ startup = "running"
  BY DEF EvaluateCycle, Ready
<1> DEFINE size == IF healthy /\ EntrySize > 0 /\ InFlightIncreasing = {} THEN EntrySize ELSE 0
           w == [at |-> "evaluated", intent |-> c, size |-> size]
<1>3. size \in 0..PositionCap /\ SumFunction(Committed) + size <= Capital + Sold
  BY EntryIsCovered, SumTypes, PaperGround, PaperParts DEF CashFits
<1>4. loop' = [loop EXCEPT ![Entry] = w]
  BY <1>1
<1> HIDE DEF size
<1>5. w \in EntryWork /\ w.at = "evaluated" /\ w.size = size
  BY <1>3 DEF EntryWork
<1> HIDE DEF w
<1>6. /\ LoopShape' /\ loop'[Entry] = w
      /\ \A q \in PaperRoles : q # Entry => loop'[q] = loop[q]
  BY <1>2, <1>4, <1>5, PaperParts, PaperGround DEF LoopShape
<1>7. PaperShape'
  BY <1>2, <1>6, PaperParts DEF PaperShape, PaperTypeOK
<1>8. WorkFits(Entry)' /\ EntryFits'
  BY <1>5, <1>6 DEF WorkFits, EntryFits, Begun, Rowed, Ends, Done
<1>9. \A q \in Sellers : decisions[q] <= decisions'[q]
  BY <1>2, PaperParts
<1>10. loop'[Entry].at \in {"evaluated", "decided"} => SumFunction(Committed) + loop'[Entry].size <= Capital + Sold
  BY <1>3, <1>5, <1>6
<1>11. Entry \in PaperRoles /\ Entry \notin Sellers
  BY PaperGround
<1> QED
  BY <1>2, <1>6, <1>7, <1>8, <1>9, <1>10, <1>11, PlanMoves

LEMMA RecordEvaluationKeeps ==
  ASSUME PaperInv, RecordEvaluation
  PROVE  PaperInv'
<1>1. PICK c : c = loop[Entry].intent
  OBVIOUS
<1>2. PICK size : size = loop[Entry].size
  OBVIOUS
<1>3. /\ startup = "running" /\ loop[Entry].at = "evaluated"
      /\ entered[c] = Unevaluated /\ entered' = [entered EXCEPT ![c] = size]
      /\ IF size = 0 THEN Leave(Entry) ELSE Go(Entry, "decided")
      /\ UNCHANGED <<lifecycle, attempt, filled, sale, position, startup, decisions, roles, restarts>>
  BY <1>1, <1>2 DEF RecordEvaluation, Ready
<1>4. Entry \in PaperRoles /\ Entry \notin Sellers
  BY PaperGround
<1>5. c \in Cycles /\ size \in 0..PositionCap
  BY <1>1, <1>2, <1>3, <1>4, WorkIn, PaperParts
<1>6. /\ LoopShape' /\ \A q \in PaperRoles : q # Entry => loop'[q] = loop[q]
      /\ loop'[Entry].at \in {"idle", "decided"}
      /\ loop'[Entry].at # "idle" => loop'[Entry].intent = c /\ loop'[Entry].size = size /\ size > 0
  <2>1. CASE size = 0
    BY <1>3, <1>4, <2>1, LeaveOff, PaperParts
  <2>2. CASE size # 0
    <3>1. "decided" \in Begun
      BY DEF Begun
    <3> QED
      BY <1>1, <1>2, <1>3, <1>4, <1>5, <2>2, <3>1, GoOn, PaperParts
  <2> QED
    BY <2>1, <2>2
<1>7. entered' \in [Cycles -> Unevaluated..PositionCap] /\ entered'[c] = size /\ size # Unevaluated
      /\ \A d \in Cycles : d # c => entered'[d] = entered[d]
  BY <1>3, <1>5, PaperParts, PaperGround
<1>8. PaperShape'
  BY <1>3, <1>6, <1>7, PaperParts DEF PaperShape, PaperTypeOK
<1>9. lifecycle[c] = "none" /\ lifecycle' = lifecycle
  BY <1>3, <1>5, PaperParts DEF NotYet
<1>10. WorkFits(Entry)' /\ EntryFits'
  BY <1>6, <1>7, <1>9 DEF WorkFits, EntryFits, Begun, Rowed, Ends, Done
<1>11. loop'[Entry].at \in {"evaluated", "decided"} => SumFunction(Committed) + loop'[Entry].size <= Capital + Sold
  BY <1>2, <1>3, <1>6, PaperParts DEF CashFits
<1>12. \A q \in Sellers : decisions[q] <= decisions'[q]
  BY <1>3, PaperParts
<1> QED
  BY <1>3, <1>4, <1>6, <1>7, <1>8, <1>10, <1>11, <1>12, PlanMoves

\* Sellers decide: an intent of its own number, that of no other decision.
LEMMA DecideExitKeeps ==
  ASSUME PaperInv, NEW r \in Sellers, NEW c \in Cycles, DecideExit(r, c)
  PROVE  PaperInv'
<1>1. PICK q \in 1..position[c].quantity :
        loop' = [loop EXCEPT ![r] =
          [at |-> "cleared", intent |-> <<r, decisions'[r]>>, position |-> c, size |-> q,
           closes |-> q = position[c].quantity]]
  BY DEF DecideExit
<1>2. /\ UNCHANGED <<entered, lifecycle, attempt, filled, sale, position, startup, roles, restarts>>
      /\ startup = "running" /\ loop[r].at = "idle" /\ position[c].status = "OPEN"
      /\ decisions[r] < MaxDecisions /\ decisions' = [decisions EXCEPT ![r] = @ + 1]
  BY DEF DecideExit, Ready, OpenPositions, Decide
<1>3. /\ r \in PaperRoles /\ r # Entry /\ position[c].quantity \in 0..PositionCap
      /\ decisions[r] \in Nat /\ MaxDecisions \in Nat
  BY PaperGround, PaperParts
<1>4. /\ decisions' \in [Sellers -> 0..MaxDecisions] /\ decisions'[r] = decisions[r] + 1
      /\ decisions'[r] \in 1..MaxDecisions
      /\ \A s \in Sellers : s # r => decisions'[s] = decisions[s]
      /\ \A s \in Sellers : decisions[s] <= decisions'[s]
  <2>1. decisions[r] + 1 \in 1..MaxDecisions
    BY <1>2, <1>3
  <2> QED
    BY <1>2, <2>1, PaperParts
<1> DEFINE w == [at |-> "cleared", intent |-> <<r, decisions'[r]>>, position |-> c, size |-> q,
                 closes |-> q = position[c].quantity]
<1>5. /\ w \in SaleWork /\ w.at = "cleared" /\ w.intent = <<r, decisions'[r]>> /\ w.position = c
      /\ w.closes => position[c].quantity <= w.size
  <2>1. <<r, decisions'[r]>> \in ExitIntents /\ q \in 1..PositionCap
    BY <1>3, <1>4, PaperGround
  <2>2. w \in SaleWork
    BY <1>3, <2>1 DEF SaleWork
  <2>3. /\ w.at = "cleared" /\ w.intent = <<r, decisions'[r]>> /\ w.position = c /\ w.size = q
        /\ w.closes = (q = position[c].quantity)
    OBVIOUS
  <2> HIDE DEF w
  <2>4. ASSUME w.closes PROVE position[c].quantity <= w.size
    <3>1. q = position[c].quantity
      BY <2>3, <2>4
    <3> QED
      BY <1>3, <2>3, <3>1
  <2> QED
    BY <2>2, <2>3, <2>4
<1>6. loop' = [loop EXCEPT ![r] = w]
  BY <1>1
<1> HIDE DEF w
<1>7. /\ LoopShape' /\ loop'[r] = w
      /\ \A s \in PaperRoles : s # r => loop'[s] = loop[s]
  BY <1>2, <1>3, <1>5, <1>6, PaperParts, PaperGround DEF LoopShape
<1>8. PaperShape'
  BY <1>2, <1>4, <1>7, PaperParts DEF PaperShape, PaperTypeOK
<1>9. lifecycle[<<r, decisions'[r]>>] = "none"
  BY <1>3, <1>4, PaperParts DEF NotYet
<1>10. WorkFits(r)' /\ SaleFits(r)'
  <2>1. WorkFits(r)'
    BY <1>2, <1>5, <1>7, <1>9 DEF WorkFits, Rowed, Ends, Done
  <2>2. <<r, decisions'[r]>> \in {r} \X (1..decisions'[r])
    BY <1>4
  <2> QED
    BY <1>2, <1>5, <1>7, <2>1, <2>2 DEF SaleFits, Begun, Rowed, Ends
<1>11. loop'[Entry] = loop[Entry]
  BY <1>3, <1>7, PaperGround
<1>12. EntryFits'
  BY <1>2, <1>11, PaperParts DEF EntryFits
<1>13. loop'[Entry].at \in {"evaluated", "decided"} => SumFunction(Committed) + loop'[Entry].size <= Capital + Sold
  BY <1>11, PaperParts DEF CashFits
<1> QED
  BY <1>2, <1>3, <1>4, <1>7, <1>8, <1>10, <1>12, <1>13, PlanMoves

LEMMA RecordExitDecisionKeeps ==
  ASSUME PaperInv, NEW r \in Sellers, RecordExitDecision(r)
  PROVE  PaperInv'
<1>i. PICK i : i = loop[r].intent
  OBVIOUS
<1>1. /\ startup = "running" /\ loop[r].at = "cleared" /\ Go(r, "decided")
      /\ sale' = [sale EXCEPT ![i] = [of |-> loop[r].position, quantity |-> loop[r].size]]
      /\ UNCHANGED <<entered, lifecycle, attempt, filled, position, startup, decisions, roles, restarts>>
  BY <1>i DEF RecordExitDecision, Ready
<1>2. r \in PaperRoles /\ r # Entry
  BY PaperGround
<1>3. loop[r] \in SaleWork
  BY <1>1, PaperParts, SaleHand
<1>4. /\ i \in ExitIntents /\ loop[r].position \in Cycles /\ loop[r].size \in 0..PositionCap
      /\ lifecycle[i] = "none" /\ SaleFits(r)
  BY <1>i, <1>1, <1>2, <1>3, PaperParts, PaperGround DEF SaleWork, WorkFits
<1>5. /\ LoopShape' /\ loop'[r].at = "decided" /\ loop'[r].intent = i /\ loop'[r].size = loop[r].size
      /\ loop'[r].position = loop[r].position /\ loop'[r].closes = loop[r].closes
      /\ \A q \in PaperRoles : q # r => loop'[q] = loop[q]
  <2>1. "decided" \in Begun
    BY DEF Begun
  <2> QED
    BY <1>i, <1>1, <1>2, <2>1, PaperParts, GoOn
<1>6. /\ sale' \in [ExitIntents -> [of : Cycles \cup {NoSale.of}, quantity : 0..PositionCap]]
      /\ sale'[i] = [of |-> loop[r].position, quantity |-> loop[r].size]
      /\ \A x \in ExitIntents : x # i => sale'[x] = sale[x]
  <2>1. [of |-> loop[r].position, quantity |-> loop[r].size] \in [of : Cycles \cup {NoSale.of}, quantity : 0..PositionCap]
    BY <1>4
  <2> QED
    BY <1>1, <1>4, <2>1, PaperParts
<1>7. PaperShape'
  BY <1>1, <1>5, <1>6, PaperParts DEF PaperShape, PaperTypeOK
<1>8. WorkFits(r)'
  BY <1>1, <1>4, <1>5 DEF WorkFits, Rowed, Ends, Done
<1>9. SaleFits(r)'
  BY <1>i, <1>1, <1>4, <1>5, <1>6 DEF SaleFits
<1>11. loop'[Entry] = loop[Entry]
  BY <1>2, <1>5, PaperGround
<1>12. EntryFits'
  BY <1>1, <1>11, PaperParts DEF EntryFits
<1>13. loop'[Entry].at \in {"evaluated", "decided"} => SumFunction(Committed) + loop'[Entry].size <= Capital + Sold
  BY <1>11, PaperParts DEF CashFits
<1>14. \A q \in Sellers : decisions[q] <= decisions'[q]
  BY <1>1, PaperParts
<1> QED
  BY <1>i, <1>1, <1>2, <1>5, <1>6, <1>7, <1>8, <1>9, <1>12, <1>13, <1>14, PlanMoves

LEMMA DecideStopKeeps ==
  ASSUME PaperInv, NEW r \in Sellers, NEW c \in Cycles, DecideStop(r, c)
  PROVE  PaperInv'
<1>1. PICK level \in 1..MaxStop :
        loop' = [loop EXCEPT ![r] = [at |-> "tighten", position |-> c, level |-> level]]
  BY DEF DecideStop
<1>2. /\ UNCHANGED <<entered, lifecycle, attempt, filled, sale, position, startup, roles, restarts>>
      /\ startup = "running"
      /\ decisions[r] < MaxDecisions /\ decisions' = [decisions EXCEPT ![r] = @ + 1]
  BY DEF DecideStop, Ready, Decide
<1>3. r \in PaperRoles /\ r # Entry /\ decisions[r] \in Nat /\ MaxDecisions \in Nat
  BY PaperGround, PaperParts
<1>4. /\ decisions' \in [Sellers -> 0..MaxDecisions]
      /\ \A s \in Sellers : s # r => decisions'[s] = decisions[s]
      /\ \A s \in Sellers : decisions[s] <= decisions'[s]
  <2>1. decisions[r] + 1 \in 1..MaxDecisions
    BY <1>2, <1>3
  <2> QED
    BY <1>2, <2>1, PaperParts
<1> DEFINE w == [at |-> "tighten", position |-> c, level |-> level]
<1>5. w \in StopWork /\ w.at = "tighten" /\ loop' = [loop EXCEPT ![r] = w]
  BY <1>1 DEF StopWork
<1> HIDE DEF w
<1>7. /\ LoopShape' /\ loop'[r] = w
      /\ \A s \in PaperRoles : s # r => loop'[s] = loop[s]
  BY <1>2, <1>3, <1>5, PaperParts, PaperGround DEF LoopShape
<1>8. PaperShape'
  BY <1>2, <1>4, <1>7, PaperParts DEF PaperShape, PaperTypeOK
<1>10. WorkFits(r)' /\ SaleFits(r)'
  BY <1>5, <1>7 DEF WorkFits, SaleFits, Begun, Rowed, Ends, Done
<1>11. loop'[Entry] = loop[Entry]
  BY <1>3, <1>7, PaperGround
<1>12. EntryFits'
  BY <1>2, <1>11, PaperParts DEF EntryFits
<1>13. loop'[Entry].at \in {"evaluated", "decided"} => SumFunction(Committed) + loop'[Entry].size <= Capital + Sold
  BY <1>11, PaperParts DEF CashFits
<1> QED
  BY <1>2, <1>3, <1>4, <1>7, <1>8, <1>10, <1>12, <1>13, PlanMoves

\* A step that ends without a row of an intent.
LEMMA EndKeeps ==
  ASSUME PaperInv, NEW r \in PaperRoles, Leave(r),
         UNCHANGED <<entered, lifecycle, attempt, filled, sale, startup, decisions, roles, restarts>>,
         position' \in [Cycles -> [status : {"none", "OPEN", "CLOSED"}, quantity : 0..PositionCap, stop : 0..MaxStop]],
         \A c \in Cycles : position'[c].status = position[c].status /\ position'[c].quantity = position[c].quantity
  PROVE  PaperInv'
<1>1. /\ LoopShape' /\ loop'[r].at = "idle"
      /\ \A q \in PaperRoles : q # r => loop'[q] = loop[q]
  BY LeaveOff, PaperParts
<1>2. PaperShape'
  BY <1>1, PaperParts DEF PaperShape, PaperTypeOK
<1>3. WorkFits(r)' /\ SaleFits(r)'
  BY <1>1 DEF WorkFits, SaleFits, Begun, Rowed, Ends, Done
<1>4. loop'[Entry].at = "idle" \/ loop'[Entry] = loop[Entry]
  BY <1>1, PaperGround
<1>5. EntryFits'
  <2>1. ASSUME loop[Entry].at = "filled" PROVE loop[Entry].intent \in Cycles
    BY <2>1, PaperParts, WorkIn, PaperGround DEF Begun, Rowed
  <2> QED
    BY <1>4, <2>1, PaperParts DEF EntryFits, Begun, Rowed, Ends
<1>6. loop'[Entry].at \in {"evaluated", "decided"} => SumFunction(Committed) + loop'[Entry].size <= Capital + Sold
  BY <1>4, PaperParts DEF CashFits
<1>7. \A q \in Sellers : decisions[q] <= decisions'[q]
  BY PaperParts
<1> QED
  BY <1>1, <1>2, <1>3, <1>5, <1>6, <1>7, PlanMoves

LEMMA TightenStopKeeps ==
  ASSUME PaperInv, NEW r \in Sellers, TightenStop(r)
  PROVE  /\ PaperInv'
         /\ \A c \in Cycles : position[c].stop <= position'[c].stop
<1>1. PICK c : c = loop[r].position
  OBVIOUS
<1>2. /\ loop[r].at = "tighten" /\ Leave(r)
      /\ UNCHANGED <<entered, lifecycle, attempt, filled, sale, startup, decisions, roles, restarts>>
      /\ position' = IF position[c].status # "CLOSED" /\ position[c].stop < loop[r].level
                     THEN [position EXCEPT ![c].stop = loop[r].level] ELSE position
  BY <1>1 DEF TightenStop, Ready
<1>3. c \in Cycles /\ loop[r].level \in 0..MaxStop
  <2>1. loop[r] \in StopWork
    BY <1>2, StopHand, PaperParts
  <2> QED
    BY <1>1, <2>1 DEF StopWork
<1>4. \A d \in Cycles : position[d].stop \in Nat
  BY PaperParts
<1>5. position' \in [Cycles -> [status : {"none", "OPEN", "CLOSED"}, quantity : 0..PositionCap, stop : 0..MaxStop]]
      /\ \A d \in Cycles : /\ position'[d].status = position[d].status
                           /\ position'[d].quantity = position[d].quantity
                           /\ position[d].stop <= position'[d].stop
  <2>1. CASE position' = position
    BY <1>4, <2>1, PaperParts
  <2>2. CASE position' = [position EXCEPT ![c].stop = loop[r].level] /\ position[c].stop < loop[r].level
    <3> DEFINE row == [position[c] EXCEPT !.stop = loop[r].level]
    <3>1. /\ row \in [status : {"none", "OPEN", "CLOSED"}, quantity : 0..PositionCap, stop : 0..MaxStop]
          /\ row.status = position[c].status /\ row.quantity = position[c].quantity /\ row.stop = loop[r].level
      BY <1>3, PaperParts
    <3>2. position' = [position EXCEPT ![c] = row]
      BY <2>2
    <3> HIDE DEF row
    <3>3. position[c].stop <= row.stop
      BY <1>3, <1>4, <2>2, <3>1
    <3> QED
      BY <1>3, <1>4, <3>1, <3>2, <3>3, PaperParts
  <2> QED
    BY <1>2, <2>1, <2>2
<1>6. PaperInv'
  BY <1>2, <1>5, EndKeeps, PaperGround
<1> QED
  BY <1>5, <1>6

LEMMA StepThrowsKeeps ==
  ASSUME PaperInv, NEW r \in PaperRoles, StepThrows(r)
  PROVE  PaperInv'
BY EndKeeps, PaperParts DEF StepThrows

-----------------------------------------------------------------------------
(* The steps that write a position.                                         *)

LEMMA OpenPositionKeeps ==
  ASSUME PaperInv, OpenPosition
  PROVE  /\ PaperInv'
         /\ \A c \in Cycles : position[c].status # "none" => position'[c] = position[c]
<1>i. PICK i : i = loop[Entry].intent
  OBVIOUS
<1>s. PICK size : size = loop[Entry].size
  OBVIOUS
<1>0. /\ loop[Entry].at = "filled" /\ loop[Entry].at \in Begun /\ startup = "running"
      /\ Entry \in PaperRoles /\ Entry \notin Sellers
  BY PaperGround DEF OpenPosition, Ready, Begun, Rowed
<1>1. /\ UNCHANGED <<entered, lifecycle, attempt, filled, sale, startup, decisions, roles, restarts>>
      /\ Go(Entry, "opened")
      /\ position' = [position EXCEPT ![i] = [status |-> "OPEN", quantity |-> size, stop |-> 0]]
  BY <1>i, <1>s DEF OpenPosition
<1>2. /\ i \in Cycles /\ size \in 1..PositionCap /\ size = entered[i] /\ filled[i] = size
      /\ lifecycle[i] = "EXECUTING" /\ position[i].status = "none"
  BY <1>i, <1>s, <1>0, AtWork, PaperParts DEF WorkFits, EntryFits, Rowed, Done
<1>3. /\ LoopShape' /\ loop'[Entry].at = "opened" /\ loop'[Entry].intent = i /\ loop'[Entry].size = size
      /\ \A q \in PaperRoles : q # Entry => loop'[q] = loop[q]
  <2>1. "opened" \in Begun
    BY DEF Begun, Rowed
  <2> QED
    BY <1>i, <1>s, <1>0, <1>1, <2>1, PaperParts, GoOn
<1>4. /\ position' \in [Cycles -> [status : {"none", "OPEN", "CLOSED"}, quantity : 0..PositionCap, stop : 0..MaxStop]]
      /\ position'[i].status = "OPEN" /\ position'[i].quantity = size
      /\ \A c \in Cycles : c # i => position'[c] = position[c]
  <2> DEFINE row == [status |-> "OPEN", quantity |-> size, stop |-> 0]
  <2>1. row.status = "OPEN" /\ row.quantity = size
        /\ row \in [status : {"none", "OPEN", "CLOSED"}, quantity : 0..PositionCap, stop : 0..MaxStop]
    BY <1>2, PaperGround
  <2>2. position' = [position EXCEPT ![i] = row]
    BY <1>1
  <2> HIDE DEF row
  <2> QED
    BY <1>2, <2>1, <2>2, PaperParts
<1>5. \A c \in Cycles : position[c].status # "none" => position'[c] = position[c]
  BY <1>2, <1>4
<1>6. PaperShape'
  BY <1>1, <1>3, <1>4, PaperParts DEF PaperShape, PaperTypeOK
<1>7. LotsShrink
  BY <1>5, PaperParts DEF LotsShrink
<1>8. /\ \A q \in PaperRoles : q # Entry => WorkFits(q)'
      /\ \A q \in Sellers : SaleFits(q)'
  BY <1>0, <1>1, <1>3, <1>7, OthersFit DEF Keeps
<1>9. WorkFits(Entry)' /\ EntryFits'
  BY <1>1, <1>2, <1>3 DEF WorkFits, EntryFits, Rowed, Done, Ends
<1>10. \A j \in Intents : IntentFits(j)'
  BY <1>1, PaperParts DEF IntentFits
<1>11. NotYet'
  BY <1>1, <1>2, <1>4, PaperParts DEF NotYet
<1>12. LotsFit'
  <2> SUFFICES ASSUME NEW c \in Cycles
               PROVE  /\ position'[c].status # "none" => filled[c] - position'[c].quantity <= SoldDone(c)
                      /\ position'[c].status # "OPEN" => position'[c].quantity = 0
    BY <1>1 DEF LotsFit, SoldDone
  <2>1. CASE c # i
    BY <1>4, <2>1, PaperParts DEF LotsFit
  <2>2. CASE c = i
    <3>1. SoldDone(c) \in Nat
      BY <1>1, PaperParts, SoldStays
    <3>2. filled[c] - position'[c].quantity = 0
      BY <1>2, <1>4, <2>2
    <3> QED
      BY <1>4, <2>2, <3>1, <3>2
  <2> QED
    BY <2>1, <2>2
<1>13. CashFits'
  <2>1. Committed' = Committed /\ Sold' = Sold
    BY <1>1 DEF Committed, Sold
  <2> QED
    BY <1>3, <2>1, PaperParts, CommittedSums DEF CashFits
<1>14. PaperInv'
  BY <1>6, <1>8, <1>9, <1>10, <1>11, <1>12, <1>13 DEF PaperInv
<1> QED
  BY <1>5, <1>14

\* The exit in hand is applied: what it sold counts as sold of its position.
LEMMA SoldMore ==
  ASSUME PaperInv, filled' = filled, sale' = sale, NEW i \in ExitIntents, NEW c, sale[i].of = c,
         lifecycle[i] # "COMPLETED", lifecycle'[i] = "COMPLETED",
         \A x \in ExitIntents : x # i => lifecycle'[x] = lifecycle[x]
  PROVE  SoldDone(c) \in Nat /\ SoldDone(c)' = filled[i] + SoldDone(c)
<1> DEFINE S == {x \in ExitIntents : sale[x].of = c /\ lifecycle[x] = "COMPLETED"}
           T == {x \in ExitIntents : sale'[x].of = c /\ lifecycle'[x] = "COMPLETED"}
<1>1. i \in T /\ S = T \ {i} /\ T \subseteq ExitIntents
  OBVIOUS
<1>2. IsFiniteSet(S) /\ IsFiniteSet(T)
  BY <1>1, PaperGround, FS_Subset
<1>3. \A x \in T : filled[x] \in Nat
  BY <1>1, PaperParts, PaperGround
<1>4. SumFunctionOnSet(filled, T) = filled[i] + SumFunctionOnSet(filled, T \ {i})
  BY <1>1, <1>2, <1>3, SumSplits
<1>5. SumFunctionOnSet(filled, S) \in Nat
  BY <1>1, <1>2, <1>3, SumType
<1>6. SoldDone(c) = SumFunctionOnSet(filled, S) /\ SoldDone(c)' = SumFunctionOnSet(filled, T)
  BY DEF SoldDone
<1> QED
  BY <1>1, <1>4, <1>5, <1>6

LEMMA ApplyExitKeeps ==
  ASSUME PaperInv, NEW r \in Sellers, ApplyExit(r)
  PROVE  /\ PaperInv'
         /\ \A c \in Cycles : position'[c].stop = position[c].stop
<1>i. PICK i : i = loop[r].intent
  OBVIOUS
<1>c. PICK c : c = loop[r].position
  OBVIOUS
<1>s. PICK size : size = loop[r].size
  OBVIOUS
<1>0. /\ loop[r].at = "filled" /\ loop[r].at \in Begun /\ startup = "running"
      /\ r \in PaperRoles /\ r # Entry
  BY PaperGround DEF ApplyExit, Ready, Begun, Rowed
<1>1. UNCHANGED <<entered, attempt, filled, sale, startup, decisions, roles, restarts>> /\ Leave(r)
  BY DEF ApplyExit
<1>2. CASE UNCHANGED <<position, lifecycle>>
  <2>1. PaperInv'
    BY <1>0, <1>1, <1>2, EndKeeps, PaperParts
  <2> QED
    BY <1>2, <2>1
<1>3. CASE /\ position[c].status # "CLOSED" /\ position[c].quantity >= size
           /\ position' = [position EXCEPT ![c].quantity = @ - size,
                                           ![c].status = IF loop[r].closes THEN "CLOSED" ELSE "OPEN"]
           /\ lifecycle' = [lifecycle EXCEPT ![i] = "COMPLETED"]
  <2>1. /\ i \in ExitIntents /\ i \in Intents /\ i \notin Cycles /\ size \in 1..PositionCap
        /\ lifecycle[i] = "EXECUTING" /\ filled[i] = size /\ filled[i] \in Nat /\ IntentFits(i)
    BY <1>i, <1>s, <1>0, AtWork DEF WorkFits, Rowed, Done
  <2>2. /\ c \in Cycles /\ loop[r].closes \in BOOLEAN
        /\ sale[i] = [of |-> c, quantity |-> size]
        /\ position[c].status # "none"
    <3>1. loop[r] \in SaleWork
      BY <1>0, SaleHand, PaperParts
    <3>2. SaleFits(r)
      BY PaperParts
    <3> QED
      BY <1>i, <1>c, <1>s, <1>0, <3>1, <3>2 DEF SaleFits, SaleWork
  <2>3. loop[r].closes => position[c].quantity <= size
    BY <1>c, <1>s, <1>0, PaperParts DEF SaleFits
  <2>4. position[c].quantity \in 0..PositionCap /\ position[c].status = "OPEN"
    BY <1>3, <2>2, PaperParts
  <2> DEFINE row == [position[c] EXCEPT !.quantity = @ - size,
                                        !.status = IF loop[r].closes THEN "CLOSED" ELSE "OPEN"]
  <2>5. /\ row \in [status : {"none", "OPEN", "CLOSED"}, quantity : 0..PositionCap, stop : 0..MaxStop]
        /\ row.quantity = position[c].quantity - size /\ row.stop = position[c].stop
        /\ row.status = IF loop[r].closes THEN "CLOSED" ELSE "OPEN"
    <3>1. position[c] \in [status : {"none", "OPEN", "CLOSED"}, quantity : 0..PositionCap, stop : 0..MaxStop]
      BY <2>2, PaperParts
    <3>2. position[c].quantity - size \in 0..PositionCap
      BY <1>3, <2>1, <2>4, PaperGround
    <3> QED
      BY <3>1, <3>2
  <2>6. position' = [position EXCEPT ![c] = row]
    BY <1>3
  <2> HIDE DEF row
  <2>7. row.status # "OPEN" => row.quantity = 0
    <3>1. ASSUME loop[r].closes PROVE row.quantity = 0
      BY <1>3, <2>1, <2>3, <2>4, <2>5, <3>1
    <3> QED
      BY <2>5, <3>1
  <2>8. /\ position' \in [Cycles -> [status : {"none", "OPEN", "CLOSED"}, quantity : 0..PositionCap, stop : 0..MaxStop]]
        /\ position'[c] = row /\ \A d \in Cycles : d # c => position'[d] = position[d]
    BY <2>2, <2>5, <2>6, PaperParts
  <2>9. \A d \in Cycles : position'[d].stop = position[d].stop
    BY <2>5, <2>8
  <2>10. /\ lifecycle' \in [Intents -> Lifecycles] /\ lifecycle'[i] = "COMPLETED"
         /\ \A j \in Intents : j # i => Keeps(j)
    BY <1>1, <1>3, <2>1, PaperParts DEF Keeps, Lifecycles
  <2>11. /\ LoopShape' /\ loop'[r].at = "idle"
         /\ \A q \in PaperRoles : q # r => loop'[q] = loop[q]
    BY <1>0, <1>1, PaperParts, LeaveOff
  <2>12. PaperShape'
    BY <1>1, <2>8, <2>10, <2>11, PaperParts DEF PaperShape, PaperTypeOK
  <2>13. row.quantity \in Nat /\ row.quantity <= position[c].quantity /\ row.status # "none"
    BY <1>3, <2>1, <2>4, <2>5
  <2>14. LotsShrink
    BY <2>8, <2>13, PaperParts DEF LotsShrink
  <2>15. /\ \A q \in PaperRoles : q # r => WorkFits(q)'
         /\ \A q \in Sellers : q # r => SaleFits(q)'
    BY <1>i, <1>0, <1>1, <2>10, <2>11, <2>14, OthersFit DEF HandOf
  <2>16. WorkFits(r)' /\ SaleFits(r)'
    BY <2>11 DEF WorkFits, SaleFits, Begun, Rowed, Ends, Done
  <2>17. loop'[Entry] = loop[Entry]
    BY <1>0, <2>11, PaperGround
  <2>18. EntryFits'
    <3>1. ASSUME loop[Entry].at = "filled"
          PROVE  loop[Entry].intent \in Cycles /\ position[loop[Entry].intent].status = "none"
      BY <3>1, PaperParts, WorkIn, PaperGround DEF EntryFits, Begun, Rowed
    <3> QED
      BY <1>1, <2>4, <2>8, <2>17, <3>1, PaperParts DEF EntryFits
  <2>19. \A j \in Intents : IntentFits(j)'
    <3>1. attempt[i] = "FINALIZED"
      BY <2>1 DEF IntentFits
    <3>2. IntentFits(i)'
      BY <1>1, <2>1, <2>10, <3>1 DEF IntentFits, Unfilled
    <3> QED
      BY <2>10, <3>2, PaperParts DEF IntentFits, Keeps
  <2>20. NotYet'
    <3>1. \A d \in Cycles : lifecycle'[d] = lifecycle[d]
      BY <2>1, <2>10, PaperGround DEF Keeps
    <3>2. \A q \in Sellers, k \in 1..MaxDecisions : lifecycle[<<q, k>>] = "none" => lifecycle'[<<q, k>>] = "none"
      BY <2>1, <2>10, PaperGround DEF Keeps
    <3>3. \A d \in Cycles : position'[d].status # "none" => position[d].status # "none"
      BY <2>2, <2>8
    <3> QED
      BY <1>1, <3>1, <3>2, <3>3, PaperParts DEF NotYet
  <2>21. \A d : SoldDone(d) \in Nat /\ SoldDone(d)' \in Nat /\ SoldDone(d) <= SoldDone(d)'
    <3>1. \A x \in ExitIntents : lifecycle[x] = "COMPLETED" =>
            lifecycle'[x] = "COMPLETED" /\ filled'[x] = filled[x] /\ sale'[x] = sale[x]
      BY <1>1, <2>10, PaperGround DEF Keeps
    <3>2. filled' \in [Intents -> Nat]
      BY <1>1, PaperParts
    <3> QED
      BY <3>1, <3>2, SoldStays
  <2>22. SoldDone(c)' = size + SoldDone(c)
    <3>1. sale[i].of = c
      BY <2>2
    <3>2. \A x \in ExitIntents : x # i => lifecycle'[x] = lifecycle[x]
      BY <2>10, PaperGround DEF Keeps
    <3> QED
      BY <1>1, <2>1, <2>10, <3>1, <3>2, SoldMore
  <2>23. LotsFit'
    <3> SUFFICES ASSUME NEW d \in Cycles
                 PROVE  /\ position'[d].status # "none" => filled[d] - position'[d].quantity <= SoldDone(d)'
                        /\ position'[d].status # "OPEN" => position'[d].quantity = 0
      BY <1>1 DEF LotsFit
    <3>1. filled[d] \in Nat /\ position[d].quantity \in Nat
      BY PaperParts, PaperGround
    <3>2. CASE d # c
      <4>1. position'[d] = position[d]
        BY <2>8, <3>2
      <4>2. position[d].status # "none" => filled[d] - position[d].quantity <= SoldDone(d)
        BY PaperParts DEF LotsFit
      <4>3. position[d].status # "OPEN" => position[d].quantity = 0
        BY PaperParts DEF LotsFit
      <4> QED
        BY <2>21, <3>1, <4>1, <4>2, <4>3
    <3>3. CASE d = c
      <4>1. filled[c] - position[c].quantity <= SoldDone(c)
        BY <2>2, PaperParts DEF LotsFit
      <4>2. filled[c] - row.quantity <= SoldDone(c)'
        BY <2>1, <2>4, <2>5, <2>21, <2>22, <3>1, <3>3, <4>1
      <4> QED
        BY <2>7, <2>8, <3>3, <4>2
    <3> QED
      BY <3>2, <3>3
  <2>24. CashFits'
    <3>1. \A d \in Cycles : Committed'[d] = Committed[d]
      BY <1>1, <2>1, <2>10, PaperGround DEF Committed, Keeps
    <3>2. SumFunctionOnSet(Committed', Cycles) = SumFunctionOnSet(Committed, Cycles)
      BY <3>1, PaperGround, SumRespects
    <3>3. SumFunction(Committed)' = SumFunction(Committed) /\ Sold' = Sold
      BY <1>1, <3>2, CommittedSums DEF Sold
    <3> QED
      BY <2>17, <3>3, PaperParts DEF CashFits
  <2>25. PaperInv'
    BY <2>12, <2>15, <2>16, <2>18, <2>19, <2>20, <2>23, <2>24 DEF PaperInv
  <2> QED
    BY <2>9, <2>25
<1> QED
  BY <1>i, <1>c, <1>s, <1>2, <1>3 DEF ApplyExit

-----------------------------------------------------------------------------
(* The crash, and the recovery that runs before the loops.                  *)

\* Recovery ends intents that were open, as their attempts say.
LEMMA RecoveryMoves ==
  ASSUME PaperInv, UNCHANGED <<entered, attempt, filled, sale, position, decisions>>,
         LoopShape', \A r \in PaperRoles : loop'[r].at = "idle",
         lifecycle' \in [Intents -> Lifecycles],
         \A i \in Intents : lifecycle'[i] = lifecycle[i]
                            \/ (lifecycle[i] \in Pending /\ lifecycle'[i] \in Unfilled \cup {"COMPLETED"}),
         \A i \in Intents : IntentFits(i)',
         roles' \subseteq PaperRoles, restarts' \in 0..MaxRestarts
  PROVE  PaperInv'
<1>1. PaperShape'
  BY PaperParts DEF PaperShape, PaperTypeOK
<1>2. (\A r \in PaperRoles : WorkFits(r)') /\ (\A r \in Sellers : SaleFits(r)') /\ EntryFits'
  BY PaperGround DEF WorkFits, SaleFits, EntryFits, Begun, Rowed, Ends, Done
<1>3. NotYet'
  <2>1. \A i \in Intents : lifecycle[i] = "none" => lifecycle'[i] = "none"
    BY DEF Pending
  <2>2. \A q \in Sellers, k \in 1..MaxDecisions : <<q, k>> \in Intents
    BY PaperGround
  <2> QED
    BY <2>1, <2>2, PaperParts, PaperGround DEF NotYet
<1>4. \A x \in ExitIntents : lifecycle[x] = "COMPLETED" => lifecycle'[x] = "COMPLETED"
  BY PaperGround DEF Pending
<1>5. LotsFit'
  <2> SUFFICES ASSUME NEW c \in Cycles
               PROVE  /\ position[c].status # "none" => filled[c] - position[c].quantity <= SoldDone(c)'
                      /\ position[c].status # "OPEN" => position[c].quantity = 0
    BY DEF LotsFit
  <2>1. SoldDone(c) \in Nat /\ SoldDone(c)' \in Nat /\ SoldDone(c) <= SoldDone(c)'
    BY <1>4, PaperParts, SoldStays
  <2>2. filled[c] \in Nat /\ position[c].quantity \in Nat
    BY PaperParts, PaperGround
  <2> QED
    BY <2>1, <2>2, PaperParts DEF LotsFit
<1>6. \A c \in Cycles : Committed'[c] \in Nat /\ Committed'[c] <= Committed[c]
  <2> SUFFICES ASSUME NEW c \in Cycles PROVE Committed'[c] \in Nat /\ Committed'[c] <= Committed[c]
    OBVIOUS
  <2>1. CASE filled[c] > 0 \/ lifecycle'[c] = lifecycle[c]
    <3>1. Committed'[c] = Committed[c]
      BY <2>1 DEF Committed
    <3> QED
      BY <3>1, CommittedTypes
  <2>2. CASE ~ (filled[c] > 0) /\ lifecycle'[c] # lifecycle[c]
    <3>1. Committed'[c] = 0
      BY <2>2, PaperGround DEF Committed, Pending, Unfilled
    <3> QED
      BY <3>1, CommittedTypes
  <2> QED
    BY <2>1, <2>2
<1>7. CashFits'
  <2>1. \A x \in ExitIntents : filled[x] <= filled'[x]
    BY PaperParts, PaperGround
  <2>2. loop'[Entry].at \notin {"evaluated", "decided"}
    BY PaperGround
  <2>3. filled' \in [Intents -> Nat]
    BY PaperParts
  <2> QED
    BY <1>6, <2>1, <2>2, <2>3, CashStays
<1> QED
  BY <1>1, <1>2, <1>3, <1>5, <1>7 DEF PaperInv

LEMMA CrashWorkerKeeps ==
  ASSUME PaperInv, CrashWorker
  PROVE  PaperInv'
<1>1. /\ UNCHANGED <<entered, lifecycle, attempt, filled, sale, position, decisions, roles>>
      /\ restarts < MaxRestarts /\ restarts' = restarts + 1
      /\ loop' = [r \in PaperRoles |-> Idle] /\ Idle.at = "idle"
  BY DEF CrashWorker, Idle
<1>2. roles' \subseteq PaperRoles /\ restarts' \in 0..MaxRestarts
  BY <1>1, PaperParts, PaperAssumption DEF PaperShape, PaperTypeOK
<1>3. LoopShape' /\ \A r \in PaperRoles : loop'[r].at = "idle"
  BY <1>1, PaperGround DEF LoopShape
<1>4. lifecycle' \in [Intents -> Lifecycles] /\ \A i \in Intents : IntentFits(i)'
  BY <1>1, PaperParts DEF IntentFits
<1> QED
  BY <1>1, <1>2, <1>3, <1>4, RecoveryMoves

\* The recovery statements find every loop idle and leave it so.
LEMMA LoopsIdle ==
  ASSUME PaperInv, startup # "running", loop' = loop
  PROVE  LoopShape' /\ \A r \in PaperRoles : loop'[r].at = "idle"
BY PaperParts DEF LoopShape

LEMMA SettleFromAttemptsKeeps ==
  ASSUME PaperInv, SettleFromAttempts
  PROVE  PaperInv'
<1>1. /\ UNCHANGED <<entered, attempt, filled, sale, position, loop, decisions, roles, restarts>>
      /\ startup = "settle"
      /\ lifecycle' = [i \in Intents |->
           CASE lifecycle[i] = "EXECUTING" /\ attempt[i] = "FINALIZED" -> "COMPLETED"
             [] lifecycle[i] = "EXECUTING" /\ attempt[i] = "NOT_LANDED" -> "FAILED"
             [] OTHER -> lifecycle[i]]
  BY DEF SettleFromAttempts
<1>2. \A i \in Intents :
        \/ lifecycle'[i] = lifecycle[i]
        \/ lifecycle[i] = "EXECUTING" /\ attempt[i] = "FINALIZED" /\ lifecycle'[i] = "COMPLETED"
        \/ lifecycle[i] = "EXECUTING" /\ attempt[i] = "NOT_LANDED" /\ lifecycle'[i] = "FAILED"
  BY <1>1
<1>3. \A i \in Intents :
        \/ lifecycle'[i] = lifecycle[i]
        \/ lifecycle[i] \in Pending /\ lifecycle'[i] \in Unfilled \cup {"COMPLETED"}
  BY <1>2 DEF Pending, Unfilled
<1>4. lifecycle' \in [Intents -> Lifecycles]
  <2>1. \A i \in Intents : lifecycle'[i] \in Lifecycles
    BY <1>3, PaperParts DEF Lifecycles
  <2> QED
    BY <1>1, <2>1
<1>5. \A i \in Intents : IntentFits(i)'
  BY <1>1, <1>2, PaperParts DEF IntentFits, Unfilled
<1>6. LoopShape' /\ \A r \in PaperRoles : loop'[r].at = "idle"
  BY <1>1, LoopsIdle
<1>7. roles' \subseteq PaperRoles /\ restarts' \in 0..MaxRestarts
  BY <1>1, PaperParts DEF PaperShape, PaperTypeOK
<1> QED
  BY <1>1, <1>3, <1>4, <1>5, <1>6, <1>7, RecoveryMoves

LEMMA ExpireStaleKeeps ==
  ASSUME PaperInv, ExpireStale
  PROVE  PaperInv'
<1>1. /\ UNCHANGED <<entered, attempt, filled, sale, position, loop, decisions, roles, restarts>>
      /\ startup = "expire"
  BY DEF ExpireStale
<1>2. PICK stale \in SUBSET {i \in Intents : lifecycle[i] = "AUTHORIZED"} :
        lifecycle' = [i \in Intents |-> IF i \in stale THEN "EXPIRED" ELSE lifecycle[i]]
  BY DEF ExpireStale
<1>3. \A i \in Intents : lifecycle'[i] = lifecycle[i] \/ (lifecycle[i] = "AUTHORIZED" /\ lifecycle'[i] = "EXPIRED")
  BY <1>2
<1>4. lifecycle' \in [Intents -> Lifecycles]
  <2>1. \A i \in Intents : lifecycle'[i] \in Lifecycles
    BY <1>3, PaperParts DEF Lifecycles, Unfilled
  <2> QED
    BY <1>2, <2>1
<1>5. \A i \in Intents : IntentFits(i)'
  BY <1>1, <1>3, PaperParts DEF IntentFits, Unfilled
<1>6. LoopShape' /\ \A r \in PaperRoles : loop'[r].at = "idle"
  BY <1>1, LoopsIdle
<1>7. roles' \subseteq PaperRoles /\ restarts' \in 0..MaxRestarts
  BY <1>1, PaperParts DEF PaperShape, PaperTypeOK
<1> QED
  BY <1>1, <1>3, <1>4, <1>5, <1>6, <1>7, RecoveryMoves DEF Pending, Unfilled

LEMMA FailOrphanedKeeps ==
  ASSUME PaperInv, FailOrphaned
  PROVE  PaperInv'
<1>1. /\ UNCHANGED <<entered, attempt, filled, sale, position, loop, decisions, roles, restarts>>
      /\ startup = "orphans"
  BY DEF FailOrphaned
<1>2. PICK stale \in SUBSET {i \in Intents : lifecycle[i] = "EXECUTING" /\ attempt[i] = "none"} :
        lifecycle' = [i \in Intents |-> IF i \in stale THEN "FAILED" ELSE lifecycle[i]]
  BY DEF FailOrphaned
<1>3. \A i \in Intents :
        \/ lifecycle'[i] = lifecycle[i]
        \/ lifecycle[i] = "EXECUTING" /\ attempt[i] = "none" /\ lifecycle'[i] = "FAILED"
  BY <1>2
<1>4. lifecycle' \in [Intents -> Lifecycles]
  <2>1. \A i \in Intents : lifecycle'[i] \in Lifecycles
    BY <1>3, PaperParts DEF Lifecycles, Unfilled
  <2> QED
    BY <1>2, <2>1
<1>5. \A i \in Intents : IntentFits(i)'
  BY <1>1, <1>3, PaperParts DEF IntentFits, Unfilled
<1>6. LoopShape' /\ \A r \in PaperRoles : loop'[r].at = "idle"
  BY <1>1, LoopsIdle
<1>7. roles' \subseteq PaperRoles /\ restarts' \in 0..MaxRestarts
  BY <1>1, PaperParts DEF PaperShape, PaperTypeOK
<1> QED
  BY <1>1, <1>3, <1>4, <1>5, <1>6, <1>7, RecoveryMoves DEF Pending, Unfilled

LEMMA StartRolesKeeps ==
  ASSUME PaperInv, StartRoles
  PROVE  PaperInv'
<1>1. /\ UNCHANGED <<entered, lifecycle, attempt, filled, sale, position, loop, decisions, restarts>>
      /\ startup = "resume"
  BY DEF StartRoles
<1>2. roles' \subseteq PaperRoles
  BY PaperAssumption DEF StartRoles, PaperRoles
<1>3. LoopShape' /\ \A r \in PaperRoles : loop'[r].at = "idle"
  BY <1>1, LoopsIdle
<1>4. /\ lifecycle' \in [Intents -> Lifecycles] /\ \A i \in Intents : IntentFits(i)'
      /\ restarts' \in 0..MaxRestarts
  BY <1>1, PaperParts DEF IntentFits, PaperShape, PaperTypeOK
<1> QED
  BY <1>1, <1>2, <1>3, <1>4, RecoveryMoves

-----------------------------------------------------------------------------
(* The invariant, and what follows from it.                                 *)

LEMMA InitPaperInv ==
  ASSUME PaperInit
  PROVE  PaperInv
<1>1. /\ entered = [c \in Cycles |-> Unevaluated] /\ lifecycle = [i \in Intents |-> "none"]
      /\ attempt = [i \in Intents |-> "none"] /\ filled = [i \in Intents |-> 0]
      /\ sale = [x \in ExitIntents |-> NoSale] /\ position = [c \in Cycles |-> NoPosition]
      /\ loop = [r \in PaperRoles |-> Idle] /\ decisions = [r \in Sellers |-> 0]
      /\ startup = "running" /\ roles = PaperRoles /\ restarts = 0 /\ Idle.at = "idle"
  BY DEF PaperInit, Idle
<1>2. /\ NoPosition \in [status : {"none", "OPEN", "CLOSED"}, quantity : 0..PositionCap, stop : 0..MaxStop]
      /\ NoPosition.status = "none" /\ NoPosition.quantity = 0
      /\ NoSale \in [of : Cycles \cup {NoSale.of}, quantity : 0..PositionCap]
  BY PaperGround DEF NoPosition, NoSale
<1>3. PaperTypeOK
  BY <1>1, <1>2, PaperGround, PaperAssumption DEF PaperTypeOK, Lifecycles, PaperAttempts
<1>4. LoopShape
  BY <1>1, PaperGround DEF LoopShape
<1>5. PaperShape
  BY <1>1, <1>2, <1>3, <1>4, PaperGround DEF PaperShape
<1>6. NotYet
  BY <1>1, <1>2, PaperGround DEF NotYet
<1>7. EntryFits /\ (\A r \in PaperRoles : WorkFits(r)) /\ (\A r \in Sellers : SaleFits(r))
  BY <1>1, PaperGround DEF EntryFits, WorkFits, SaleFits, Begun, Rowed, Ends, Done
<1>8. \A i \in Intents : IntentFits(i)
  BY <1>1 DEF IntentFits, Unfilled
<1>9. LotsFit
  BY <1>1, <1>2 DEF LotsFit
<1>10. CashFits
  <2>1. \A x \in ExitIntents : filled[x] = 0
    BY <1>1, PaperGround
  <2>2. \A c \in Cycles : Committed[c] = 0
    BY <1>1, PaperGround DEF Committed, Pending
  <2>3. Sold = 0 /\ SumFunction(Committed) = 0
    BY <2>1, <2>2, PaperGround, CommittedSums, SumOfZeros DEF Sold
  <2> QED
    BY <1>1, <2>3, PaperGround DEF CashFits
<1> QED
  BY <1>5, <1>6, <1>7, <1>8, <1>9, <1>10 DEF PaperInv

\* A step in which nothing changes.
LEMMA PaperStutters ==
  ASSUME PaperInv, UNCHANGED paperVars
  PROVE  PaperInv'
<1>1. UNCHANGED <<entered, lifecycle, attempt, filled, sale, position, loop, startup, decisions, roles, restarts>>
  BY DEF paperVars
<1>2. PaperShape' /\ NotYet' /\ EntryFits'
  BY <1>1, PaperParts DEF PaperShape, PaperTypeOK, LoopShape, NotYet, EntryFits
<1>3. LotsFit'
  BY <1>1, PaperParts DEF LotsFit, SoldDone
<1>4. CashFits'
  <2>1. Committed' = Committed /\ Sold' = Sold
    BY <1>1 DEF Committed, Sold
  <2> QED
    BY <1>1, <2>1, PaperParts, CommittedSums DEF CashFits
<1>5. /\ \A i \in Intents : IntentFits(i)'
      /\ \A r \in PaperRoles : WorkFits(r)'
      /\ \A r \in Sellers : SaleFits(r)'
  BY <1>1, PaperParts DEF IntentFits, WorkFits, SaleFits
<1> QED
  BY <1>2, <1>3, <1>4, <1>5 DEF PaperInv

\* What every step does to the invariant, and to the stops of the positions there are.
LEMMA PaperStep ==
  ASSUME PaperInv, [PaperNext]_paperVars
  PROVE  /\ PaperInv'
         /\ \A c \in Cycles : position[c].status # "none" => position[c].stop <= position'[c].stop
<1> DEFINE StopsStay == \A c \in Cycles : position[c].status # "none" => position[c].stop <= position'[c].stop
<1> SUFFICES PaperInv' /\ StopsStay
  OBVIOUS
<1>0. ASSUME \A c \in Cycles : position'[c].stop = position[c].stop PROVE StopsStay
  BY <1>0, PaperParts
<1>1. CASE UNCHANGED paperVars
  BY <1>0, <1>1, PaperStutters DEF paperVars
<1>2. CASE \E c \in Cycles : EvaluateCycle(c)
  BY <1>0, <1>2, EvaluateCycleKeeps DEF EvaluateCycle
<1>3. CASE RecordEvaluation
  BY <1>0, <1>3, RecordEvaluationKeeps DEF RecordEvaluation
<1>4. CASE OpenPosition
  <2>1. PaperInv' /\ \A c \in Cycles : position[c].status # "none" => position'[c] = position[c]
    BY <1>4, OpenPositionKeeps
  <2>2. \A c \in Cycles : position[c].stop \in Nat
    BY PaperParts
  <2> QED
    BY <2>1, <2>2
<1>5. CASE CompleteEntry
  BY <1>0, <1>5, CompleteEntryKeeps DEF CompleteEntry
<1>6. CASE \E r \in Sellers, c \in Cycles : DecideExit(r, c)
  BY <1>0, <1>6, DecideExitKeeps DEF DecideExit
<1>7. CASE \E r \in Sellers, c \in Cycles : DecideStop(r, c)
  BY <1>0, <1>7, DecideStopKeeps DEF DecideStop
<1>8. CASE \E r \in Sellers : RecordExitDecision(r)
  BY <1>0, <1>8, RecordExitDecisionKeeps DEF RecordExitDecision
<1>9. CASE \E r \in Sellers : TightenStop(r)
  BY <1>9, TightenStopKeeps
<1>10. CASE \E r \in Sellers : ApplyExit(r)
  BY <1>0, <1>10, ApplyExitKeeps
<1>11. CASE \E r \in PaperRoles : CreateIntent(r)
  BY <1>0, <1>11, CreateIntentKeeps DEF CreateIntent
<1>12. CASE \E r \in PaperRoles : StartExecuting(r)
  BY <1>0, <1>12, StartExecutingKeeps DEF StartExecuting
<1>13. CASE \E r \in PaperRoles : RejectBeforeSubmit(r)
  BY <1>0, <1>13, RejectBeforeSubmitKeeps DEF RejectBeforeSubmit
<1>14. CASE \E r \in PaperRoles : JournalAttempt(r)
  BY <1>0, <1>14, JournalAttemptKeeps DEF JournalAttempt
<1>15. CASE \E r \in PaperRoles : FinishAttempt(r)
  BY <1>0, <1>15, FinishAttemptKeeps DEF FinishAttempt
<1>16. CASE \E r \in PaperRoles : CloseUnfilled(r)
  BY <1>0, <1>16, CloseUnfilledKeeps DEF CloseUnfilled
<1>17. CASE \E r \in PaperRoles : StepThrows(r)
  BY <1>0, <1>17, StepThrowsKeeps DEF StepThrows
<1>18. CASE CrashWorker
  BY <1>0, <1>18, CrashWorkerKeeps DEF CrashWorker
<1>19. CASE SettleFromAttempts
  BY <1>0, <1>19, SettleFromAttemptsKeeps DEF SettleFromAttempts
<1>20. CASE ExpireStale
  BY <1>0, <1>20, ExpireStaleKeeps DEF ExpireStale
<1>21. CASE FailOrphaned
  BY <1>0, <1>21, FailOrphanedKeeps DEF FailOrphaned
<1>22. CASE StartRoles
  BY <1>0, <1>22, StartRolesKeeps DEF StartRoles
<1> QED
  BY <1>1, <1>2, <1>3, <1>4, <1>5, <1>6, <1>7, <1>8, <1>9, <1>10, <1>11, <1>12, <1>13, <1>14, <1>15,
     <1>16, <1>17, <1>18, <1>19, <1>20, <1>21, <1>22 DEF PaperNext, RecoverWorker

(* The books of the paper account at every step of every role, and across   *)
(* every crash (paper-executor.ts, positions-repo.ts, recovery.ts): the     *)
(* rows of an intent agree, a loop works on rows no other loop works on,    *)
(* a lot is what was bought less what was sold of it and applied, and what  *)
(* the entries commit is covered by the cash.                               *)
THEOREM PaperInvariant == PaperSpec => []PaperInv
<1>1. PaperInit => PaperInv
  BY InitPaperInv
<1>2. PaperInv /\ [PaperNext]_paperVars => PaperInv'
  BY PaperStep
<1> QED
  BY <1>1, <1>2, PTL DEF PaperSpec

\* The books agree with the fills in every state of the invariant.
LEMMA BooksFollow ==
  ASSUME PaperInv
  PROVE  BooksMatchFills
<1>1. ASSUME NEW c \in Cycles, position[c].status # "none"
      PROVE  /\ filled[c] - position[c].quantity <= SoldOf(c)
             /\ position[c].status = "CLOSED" => position[c].quantity = 0
  <2> DEFINE S == {x \in ExitIntents : sale[x].of = c /\ lifecycle[x] = "COMPLETED"}
             T == {x \in ExitIntents : sale[x].of = c}
  <2>1. S \subseteq T /\ T \subseteq ExitIntents
    OBVIOUS
  <2>2. IsFiniteSet(S) /\ IsFiniteSet(T)
    BY <2>1, PaperGround, FS_Subset
  <2>3. \A x \in T : filled[x] \in Nat
    BY <2>1, PaperParts, PaperGround
  <2>4. \A x \in S : filled[x] <= filled[x]
    BY <2>1, <2>3
  <2>5. SumFunctionOnSet(filled, S) <= SumFunctionOnSet(filled, T)
    BY <2>1, <2>2, <2>3, <2>4, SumGrows
  <2>6. SumFunctionOnSet(filled, S) \in Nat /\ SumFunctionOnSet(filled, T) \in Nat
    BY <2>1, <2>2, <2>3, SumType
  <2>7. SoldDone(c) = SumFunctionOnSet(filled, S) /\ SoldOf(c) = SumFunctionOnSet(filled, T)
    BY DEF SoldDone, SoldOf
  <2>8. filled[c] - position[c].quantity <= SoldDone(c)
    BY <1>1, PaperParts DEF LotsFit
  <2>9. filled[c] \in Nat /\ position[c].quantity \in Nat
    BY PaperParts, PaperGround
  <2>10. filled[c] - position[c].quantity <= SoldOf(c)
    BY <2>5, <2>6, <2>7, <2>8, <2>9
  <2>11. position[c].status # "OPEN" => position[c].quantity = 0
    BY PaperParts DEF LotsFit
  <2> QED
    BY <2>10, <2>11
<1>2. ASSUME NEW i \in Intents
      PROVE  /\ lifecycle[i] \in Unfilled => filled[i] = 0
             /\ lifecycle[i] = "COMPLETED" => filled[i] > 0
  <2>1. filled[i] \in Nat /\ IntentFits(i)
    BY PaperParts
  <2> QED
    BY <2>1 DEF IntentFits
<1> QED
  BY <1>1, <1>2, PaperParts DEF BooksMatchFills, CashFits

(* The account's books agree with its fills (INV-22, the largest position   *)
(* of the policy), for any number of cycles, selling loops, decisions and   *)
(* crashes.                                                                 *)
THEOREM BooksAgree == PaperSpec => []BooksMatchFills
<1>1. PaperInv => BooksMatchFills
  BY BooksFollow
<1> QED
  BY <1>1, PaperInvariant, PTL

(* D39: no interleaving of the loops that decide a stop, of exits and of    *)
(* crashes lowers the stop of an open position.                             *)
THEOREM StopsNeverLoosen == PaperSpec => StopNeverLoosens
<1>1. PaperInv /\ [PaperNext]_paperVars
        => [\A c \in Cycles : position[c].status = "OPEN" => position'[c].stop >= position[c].stop]_paperVars
  <2> SUFFICES ASSUME PaperInv, [PaperNext]_paperVars, NEW c \in Cycles, position[c].status = "OPEN"
               PROVE  position'[c].stop >= position[c].stop
    OBVIOUS
  <2>1. PaperInv' /\ position[c].stop <= position'[c].stop
    BY PaperStep
  <2>2. position[c].stop \in Nat /\ position'[c].stop \in Nat
    BY <2>1, PaperParts DEF PaperInv, PaperShape, PaperTypeOK
  <2> QED
    BY <2>1, <2>2
<1> QED
  BY <1>1, PaperInvariant, PTL DEF PaperSpec, StopNeverLoosens

-----------------------------------------------------------------------------
(* The safety of a held position.                                           *)

Readings == {Full, Half, Rug, Unread}
Baselines == [added : BOOLEAN, liquidity : Readings]
Sights == [mint : Mints, route : Routes, emergency : BOOLEAN, liquidity : Readings]
Causes == Critical \cup Recommended \cup Outage
HeldRows == [mint : Mints, liquidity : Readings, reasons : SUBSET Causes,
         canReduceNow : BOOLEAN, state : States, baseline : Baselines]

HeldShape ==
  /\ HeldTypeOK
  /\ asset \in [mint : Mints, liquidity : {Full, Half, Rug}]
  /\ eligible \in Baselines /\ evaluations \in Seq(HeldRows)
  /\ look \in {Away} \cup [at : {"read"}, mint : Mints] \cup [at : {"measured"}, seen : Sights]

\* A position is evaluated once it is held, always against what it was entered at.
OneBaseline ==
  /\ held = "none" => evaluations = <<>>
  /\ \A i \in DOMAIN evaluations : evaluations[i].baseline = evaluations[1].baseline

HeldInv == HeldShape /\ OneBaseline /\ SafetyRemembers

\* Which of the reasons decide a grade, and when each is given.
LEMMA ReasonsAre ==
  ASSUME NEW seen \in Sights, NEW base \in Baselines, NEW before \in Nat
  PROVE  LET reasons == Reasons(seen, base, before)
         IN /\ reasons \subseteq Causes
            /\ "AUTHORITY_ADDED" \in reasons <=> seen.mint = "authority" /\ ~base.added
            /\ "PRIMARY_ROUTE_UNKNOWN" \in reasons <=> seen.route = "unmeasured"
            /\ "EXIT_PATH_UNVERIFIED" \in reasons <=>
                 ~CanReduce(seen) /\ seen.route = "unmeasured" /\ before + 1 >= MaxUnknown
            /\ "LIQUIDITY_COLLAPSE" \in reasons <=> Collapsed(base.liquidity, seen.liquidity)
<1> DEFINE unknown == seen.route = "unmeasured"
           holds ==
             [MINT_PAUSED |-> seen.mint = "paused",
              AUTHORITY_ADDED |-> seen.mint = "authority" /\ ~base.added,
              PRIMARY_ROUTE_UNKNOWN |-> unknown,
              EXIT_PATH_UNVERIFIED |-> ~CanReduce(seen) /\ unknown /\ before + 1 >= MaxUnknown,
              NO_EXIT_PATH |-> ~CanReduce(seen) /\ ~unknown,
              NO_PRIMARY_EXIT_ROUTE |-> CanReduce(seen) /\ ~PrimaryAvailable(seen) /\ ~unknown,
              LIQUIDITY_COLLAPSE |-> Collapsed(base.liquidity, seen.liquidity),
              LIQUIDITY_DROP |-> Dropped(base.liquidity, seen.liquidity) /\ ~Collapsed(base.liquidity, seen.liquidity),
              MARKET_DATA_UNAVAILABLE |-> seen.liquidity = Unread]
<1>1. Reasons(seen, base, before) = {r \in DOMAIN holds : holds[r]}
  BY DEF Reasons
<1>2. DOMAIN holds = {"MINT_PAUSED", "AUTHORITY_ADDED", "PRIMARY_ROUTE_UNKNOWN", "EXIT_PATH_UNVERIFIED",
                      "NO_EXIT_PATH", "NO_PRIMARY_EXIT_ROUTE", "LIQUIDITY_COLLAPSE", "LIQUIDITY_DROP",
                      "MARKET_DATA_UNAVAILABLE"}
  OBVIOUS
<1>3. /\ holds["AUTHORITY_ADDED"] <=> seen.mint = "authority" /\ ~base.added
      /\ holds["PRIMARY_ROUTE_UNKNOWN"] <=> unknown
      /\ holds["EXIT_PATH_UNVERIFIED"] <=> ~CanReduce(seen) /\ unknown /\ before + 1 >= MaxUnknown
      /\ holds["LIQUIDITY_COLLAPSE"] <=> Collapsed(base.liquidity, seen.liquidity)
  OBVIOUS
<1>4. PICK reasons : reasons = Reasons(seen, base, before)
  OBVIOUS
<1> HIDE DEF holds
<1>5. reasons = {r \in DOMAIN holds : holds[r]}
  BY <1>1, <1>4
<1>6. reasons \subseteq Causes
  BY <1>2, <1>5 DEF Causes, Critical, Recommended, Outage
<1>7. "AUTHORITY_ADDED" \in reasons <=> seen.mint = "authority" /\ ~base.added
  BY <1>2, <1>3, <1>5
<1>8. "PRIMARY_ROUTE_UNKNOWN" \in reasons <=> unknown
  BY <1>2, <1>3, <1>5
<1>9. "EXIT_PATH_UNVERIFIED" \in reasons <=> ~CanReduce(seen) /\ unknown /\ before + 1 >= MaxUnknown
  BY <1>2, <1>3, <1>5
<1>10. "LIQUIDITY_COLLAPSE" \in reasons <=> Collapsed(base.liquidity, seen.liquidity)
  BY <1>2, <1>3, <1>5
<1> QED
  BY <1>4, <1>6, <1>7, <1>8, <1>9, <1>10

\* The number of evaluations at the end with an unknown route.
LEMMA UnknownEnd ==
  ASSUME HeldShape
  PROVE  /\ UnknownCycles \in Nat
         /\ UnknownCycles + 1 >= MaxUnknown <=>
              \A j \in (Len(evaluations) - MaxUnknown + 2)..Len(evaluations) : Unknown(j)
<1>l. PICK len \in Nat : len = Len(evaluations) /\ DOMAIN evaluations = 1..len
  BY DEF HeldShape
<1> DEFINE ends == {n \in 0..len : \A i \in (len - n + 1)..len : "PRIMARY_ROUTE_UNKNOWN" \in evaluations[i].reasons}
           left == {len - n : n \in ends}
<1>0. UnknownCycles = Max(ends) /\ Max(ends) = CHOOSE x \in ends : \A y \in ends : x >= y
  BY <1>l DEF UnknownCycles, Max
<1>1. 0 \in ends /\ ends \subseteq Nat /\ \A n \in ends : n <= len
  OBVIOUS
<1>2. left \subseteq Nat /\ left # {}
  BY <1>1
<1>3. PICK m \in left : \A k \in left : m <= k
  BY <1>2, Least
<1>4. PICK n \in ends : m = len - n
  OBVIOUS
<1>5. \A k \in ends : n >= k
  <2> SUFFICES ASSUME NEW k \in ends PROVE n >= k
    OBVIOUS
  <2>1. len - k \in left
    OBVIOUS
  <2>2. len - n <= len - k
    BY <1>3, <1>4, <2>1
  <2>3. n \in Nat /\ k \in Nat
    BY <1>1
  <2> HIDE DEF ends, left
  <2> QED
    BY <2>2, <2>3
<1>6. UnknownCycles \in ends /\ \A k \in ends : UnknownCycles >= k
  <2> HIDE DEF ends
  <2> QED
    BY <1>0, <1>5
<1>7. MaxUnknown \in Nat \ {0}
  BY HeldAssumption
<1>8. ASSUME UnknownCycles + 1 >= MaxUnknown, NEW j \in (len - MaxUnknown + 2)..len
      PROVE  Unknown(j)
  <2>1. UnknownCycles \in 0..len
    BY <1>6
  <2>2. j \in (len - UnknownCycles + 1)..len
    <3> HIDE DEF ends
    <3> QED
      BY <1>7, <1>8, <2>1
  <2>3. j \in 1..len
    <3> HIDE DEF ends
    <3> QED
      BY <2>1, <2>2
  <2> QED
    BY <1>6, <1>l, <2>2, <2>3 DEF Unknown
<1>9. ASSUME \A j \in (len - MaxUnknown + 2)..len : Unknown(j)
      PROVE  UnknownCycles + 1 >= MaxUnknown
  <2>1. MaxUnknown - 1 \in 0..len
    <3>1. CASE MaxUnknown = 1
      BY <3>1
    <3>2. CASE MaxUnknown > 1
      <4>1. len - MaxUnknown + 2 \in (len - MaxUnknown + 2)..len
        BY <1>7, <3>2
      <4>2. Unknown(len - MaxUnknown + 2)
        BY <1>9, <4>1
      <4>3. len - MaxUnknown + 2 \in 1..len
        BY <1>l, <4>2 DEF Unknown
      <4> QED
        BY <1>7, <4>3
    <3> QED
      BY <1>7, <3>1, <3>2
  <2>2. \A i \in (len - (MaxUnknown - 1) + 1)..len : "PRIMARY_ROUTE_UNKNOWN" \in evaluations[i].reasons
    <3> SUFFICES ASSUME NEW i \in (len - (MaxUnknown - 1) + 1)..len
                 PROVE  "PRIMARY_ROUTE_UNKNOWN" \in evaluations[i].reasons
      OBVIOUS
    <3>1. i \in (len - MaxUnknown + 2)..len
      BY <1>7
    <3> QED
      BY <1>9, <3>1 DEF Unknown
  <2>3. MaxUnknown - 1 \in ends
    BY <2>1, <2>2
  <2>4. UnknownCycles >= MaxUnknown - 1 /\ UnknownCycles \in Nat
    BY <1>1, <1>6, <2>3
  <2> HIDE DEF ends
  <2> QED
    BY <1>7, <2>4
<1> QED
  BY <1>1, <1>6, <1>8, <1>9, <1>l

\* What the grade says of an evaluation.
LEMMA GradeSays ==
  ASSUME NEW reasons
  PROVE  /\ Grade(reasons) \in States
         /\ "AUTHORITY_ADDED" \in reasons => Grade(reasons) = "CRITICAL_EXIT"
         /\ "LIQUIDITY_COLLAPSE" \in reasons => Grade(reasons) \in {"EXIT_RECOMMENDED", "CRITICAL_EXIT"}
         /\ reasons \subseteq Outage =>
              /\ Grade(reasons) # "CRITICAL_EXIT"
              /\ Grade(reasons) = "EXIT_RECOMMENDED" <=> "EXIT_PATH_UNVERIFIED" \in reasons
<1>1. Grade(reasons) \in States
  BY DEF Grade, States
<1>2. "AUTHORITY_ADDED" \in reasons => Grade(reasons) = "CRITICAL_EXIT"
  BY DEF Grade, Critical
<1>3. "LIQUIDITY_COLLAPSE" \in reasons => Grade(reasons) \in {"EXIT_RECOMMENDED", "CRITICAL_EXIT"}
  BY DEF Grade, Recommended
<1>4. ASSUME reasons \subseteq Outage
      PROVE  /\ Grade(reasons) # "CRITICAL_EXIT"
             /\ Grade(reasons) = "EXIT_RECOMMENDED" <=> "EXIT_PATH_UNVERIFIED" \in reasons
  <2>1. reasons \cap Critical = {}
    BY <1>4 DEF Outage, Critical
  <2>2. reasons \cap Recommended # {} <=> "EXIT_PATH_UNVERIFIED" \in reasons
    BY <1>4 DEF Outage, Recommended
  <2> QED
    BY <2>1, <2>2 DEF Grade
<1> QED
  BY <1>1, <1>2, <1>3, <1>4

\* What one evaluation has to say, given the baseline of the first.
RowRemembers(i) ==
  LET row == evaluations[i]
      first == evaluations[1].baseline
  IN /\ Collapsed(first.liquidity, row.liquidity) => AsksExit(row)
     /\ row.mint = "authority" /\ ~first.added => row.state = "CRITICAL_EXIT"
     /\ row.reasons \subseteq Outage =>
          /\ row.state # "CRITICAL_EXIT"
          /\ AsksExit(row) <=> ~row.canReduceNow /\ \A j \in (i - MaxUnknown + 1)..i : Unknown(j)

LEMMA BaselineIn ==
  ASSUME HeldShape
  PROVE  Baseline \in Baselines
<1>1. evaluations # <<>> => Last(evaluations) \in HeldRows
  BY DEF HeldShape, Last
<1> QED
  BY <1>1 DEF HeldShape, Baseline, HeldRows

\* The evaluation is appended to those there are.
LEMMA RowAppended ==
  ASSUME HeldInv, RecordSafety, held = "OPEN"
  PROVE  HeldInv'
<1>1. PICK seen : seen = look.seen
  OBVIOUS
<1>2. PICK base : base = Baseline
  OBVIOUS
<1>3. PICK reasons : reasons = Reasons(seen, base, UnknownCycles)
  OBVIOUS
<1> DEFINE row == [mint |-> seen.mint, liquidity |-> seen.liquidity, reasons |-> reasons,
                   canReduceNow |-> CanReduce(seen), state |-> Grade(reasons), baseline |-> base]
<1>4. /\ look.at = "measured" /\ look' = Away /\ UNCHANGED <<asset, moves, eligible, held>>
      /\ pointer' = row.state /\ evaluations' = Append(evaluations, row)
  BY <1>1, <1>2, <1>3 DEF RecordSafety
<1>5. seen \in Sights /\ base \in Baselines
  <2>1. look \in [at : {"measured"}, seen : Sights]
    BY <1>4 DEF HeldInv, HeldShape, Away
  <2> QED
    BY <1>1, <1>2, <2>1, BaselineIn DEF HeldInv
<1>6. PICK len \in Nat : len = Len(evaluations) /\ DOMAIN evaluations = 1..len
  BY DEF HeldInv, HeldShape
<1>7. /\ UnknownCycles \in Nat /\ MaxUnknown \in Nat \ {0}
      /\ UnknownCycles + 1 >= MaxUnknown <=> \A j \in (len - MaxUnknown + 2)..len : Unknown(j)
  BY <1>6, UnknownEnd, HeldAssumption DEF HeldInv
<1>8. /\ reasons \subseteq Causes
      /\ "AUTHORITY_ADDED" \in reasons <=> seen.mint = "authority" /\ ~base.added
      /\ "PRIMARY_ROUTE_UNKNOWN" \in reasons <=> seen.route = "unmeasured"
      /\ "EXIT_PATH_UNVERIFIED" \in reasons <=>
           ~CanReduce(seen) /\ seen.route = "unmeasured" /\ UnknownCycles + 1 >= MaxUnknown
      /\ "LIQUIDITY_COLLAPSE" \in reasons <=> Collapsed(base.liquidity, seen.liquidity)
  BY <1>3, <1>5, <1>7, ReasonsAre
<1>9. CanReduce(seen) \in BOOLEAN
  BY <1>5 DEF CanReduce, PrimaryAvailable, Sights
<1>10. /\ row \in HeldRows /\ row.mint = seen.mint /\ row.liquidity = seen.liquidity /\ row.reasons = reasons
       /\ row.canReduceNow = CanReduce(seen) /\ row.state = Grade(reasons) /\ row.baseline = base
  BY <1>5, <1>8, <1>9, GradeSays DEF HeldRows, Sights
<1> HIDE DEF row
<1>11. /\ evaluations' \in Seq(HeldRows) /\ Len(evaluations') = len + 1 /\ DOMAIN evaluations' = 1..(len + 1)
       /\ evaluations'[len + 1] = row /\ \A i \in 1..len : evaluations'[i] = evaluations[i]
  BY <1>4, <1>6, <1>10 DEF HeldInv, HeldShape
<1>12. \A j \in Int : j <= len => (Unknown(j)' <=> Unknown(j))
  BY <1>6, <1>11 DEF Unknown
<1>13. \A i \in 1..(len + 1) : evaluations'[i].baseline = evaluations'[1].baseline
  <2>1. CASE len = 0
    BY <2>1
  <2>2. CASE len > 0
    <3>1. evaluations # <<>> /\ Last(evaluations) = evaluations[len]
      BY <1>6, <2>2 DEF Last
    <3>2. base = evaluations[len].baseline
      BY <1>2, <3>1 DEF Baseline
    <3>3. 1 \in 1..len /\ len \in 1..len
      BY <2>2
    <3>4. \A i \in 1..len : evaluations[i].baseline = evaluations[1].baseline
      BY <1>6 DEF HeldInv, OneBaseline
    <3> QED
      BY <1>10, <1>11, <3>2, <3>3, <3>4
  <2> QED
    BY <2>1, <2>2
<1>14. OneBaseline'
  BY <1>4, <1>11, <1>13 DEF OneBaseline
<1>15. HeldShape'
  <2>1. \A q \in HeldRows : q.state \in States /\ q.mint \in Mints
    BY DEF HeldRows
  <2>2. ToSet(evaluations') \subseteq HeldRows
    BY <1>11 DEF ToSet
  <2>3. HeldTypeOK'
    BY <1>4, <1>10, <2>1, <2>2 DEF HeldInv, HeldShape, HeldTypeOK, Away, HeldRows
  <2> QED
    BY <1>4, <1>11, <2>3 DEF HeldInv, HeldShape
<1>16. ASSUME NEW i \in 1..len PROVE RowRemembers(i)'
  <2>1. RowRemembers(i)
    BY <1>6 DEF HeldInv, SafetyRemembers, RowRemembers
  <2>2. evaluations'[i] = evaluations[i] /\ evaluations'[1] = evaluations[1]
    BY <1>11
  <2>3. \A j \in (i - MaxUnknown + 1)..i : Unknown(j)' <=> Unknown(j)
    <3> SUFFICES ASSUME NEW j \in (i - MaxUnknown + 1)..i PROVE j \in Int /\ j <= len
      BY <1>12
    <3> QED
      BY <1>7
  <2> QED
    BY <2>1, <2>2, <2>3 DEF RowRemembers, AsksExit
<1>17. ASSUME NEW i \in Nat, i = len + 1 PROVE RowRemembers(i)'
  <2>1. evaluations'[i] = row /\ evaluations'[1].baseline = base
    BY <1>10, <1>11, <1>13, <1>17
  <2>2. Unknown(i)' <=> seen.route = "unmeasured"
    BY <1>8, <1>10, <1>11, <1>17 DEF Unknown
  <2>3. (\A j \in (i - MaxUnknown + 1)..i : Unknown(j)')
          <=> seen.route = "unmeasured" /\ UnknownCycles + 1 >= MaxUnknown
    <3>1. \A j \in (i - MaxUnknown + 1)..i :
            j = i \/ j \in (len - MaxUnknown + 2)..len
      BY <1>7, <1>17
    <3>2. \A j \in (len - MaxUnknown + 2)..len : /\ j \in (i - MaxUnknown + 1)..i
                                                 /\ j \in Int /\ j <= len
      BY <1>7, <1>17
    <3>3. i \in (i - MaxUnknown + 1)..i
      BY <1>7, <1>17
    <3> QED
      BY <1>7, <1>12, <2>2, <3>1, <3>2, <3>3
  <2>4. Collapsed(base.liquidity, row.liquidity) => AsksExit(row)
    BY <1>8, <1>10, GradeSays DEF AsksExit
  <2>5. row.mint = "authority" /\ ~base.added => row.state = "CRITICAL_EXIT"
    BY <1>8, <1>10, GradeSays
  <2>6. ASSUME row.reasons \subseteq Outage
        PROVE  /\ row.state # "CRITICAL_EXIT"
               /\ AsksExit(row) <=> ~row.canReduceNow
                    /\ \A j \in (i - MaxUnknown + 1)..i : Unknown(j)'
    <3>1. row.state # "CRITICAL_EXIT" /\ (AsksExit(row) <=> "EXIT_PATH_UNVERIFIED" \in reasons)
      BY <1>10, <2>6, GradeSays DEF AsksExit
    <3> QED
      BY <1>8, <1>10, <2>3, <3>1
  <2> QED
    <3>1. PICK last : last = evaluations'[i] /\ last = row
      BY <2>1
    <3>2. PICK first : first = evaluations'[1].baseline /\ first = base
      BY <2>1
    <3>3. /\ Collapsed(first.liquidity, last.liquidity) => AsksExit(last)
          /\ last.mint = "authority" /\ ~first.added => last.state = "CRITICAL_EXIT"
          /\ last.reasons \subseteq Outage =>
               /\ last.state # "CRITICAL_EXIT"
               /\ AsksExit(last) <=> ~last.canReduceNow
                    /\ \A j \in (i - MaxUnknown + 1)..i : Unknown(j)'
      BY <2>4, <2>5, <2>6, <3>1, <3>2
    <3> QED
      BY <3>1, <3>2, <3>3 DEF RowRemembers, AsksExit
<1>18. SafetyRemembers'
  <2>1. \A i \in DOMAIN evaluations' : RowRemembers(i)'
    <3>1. \A i \in 1..(len + 1) : i \in Nat /\ (i \in 1..len \/ i = len + 1)
      OBVIOUS
    <3> QED
      BY <1>11, <1>16, <1>17, <3>1
  <2>2. pointer' = Last(evaluations').state
    BY <1>4, <1>11 DEF Last
  <2> QED
    BY <2>1, <2>2 DEF SafetyRemembers, RowRemembers
<1> QED
  BY <1>14, <1>15, <1>18 DEF HeldInv

\* Steps that append no evaluation.
LEMMA RowsStand ==
  ASSUME HeldInv, HeldShape', UNCHANGED <<pointer, evaluations>>,
         held' = "none" => held = "none",
         held' = "OPEN" => held = "OPEN" \/ evaluations = <<>>
  PROVE  HeldInv'
<1>1. OneBaseline'
  BY DEF HeldInv, OneBaseline
<1>2. \A j : Unknown(j)' <=> Unknown(j)
  BY DEF Unknown
<1>3. SafetyRemembers'
  BY <1>2 DEF HeldInv, SafetyRemembers
<1> QED
  BY <1>1, <1>3 DEF HeldInv

LEMMA HeldStep ==
  ASSUME HeldInv, [HeldNext]_heldVars
  PROVE  HeldInv'
<1>0. /\ HeldShape /\ HeldTypeOK /\ MaxMoves \in Nat
      /\ held = "none" => evaluations = <<>>
  BY HeldAssumption DEF HeldInv, HeldShape, OneBaseline
<1>1. CASE UNCHANGED heldVars
  <2>1. UNCHANGED <<asset, moves, eligible, held, pointer, evaluations, look>>
    BY <1>1 DEF heldVars
  <2>2. HeldShape'
    BY <1>0, <2>1 DEF HeldShape, HeldTypeOK
  <2> QED
    BY <2>1, <2>2, RowsStand
<1>2. CASE AssetMoves
  <2>1. /\ moves < MaxMoves /\ moves' = moves + 1
        /\ UNCHANGED <<eligible, held, pointer, evaluations, look>>
    BY <1>2 DEF AssetMoves
  <2>2. asset' \in [mint : Mints, liquidity : {Full, Half, Rug}]
    BY <1>0, <1>2 DEF AssetMoves, HeldShape
  <2>3. asset'.mint \in Mints /\ asset'.liquidity \in {Full, Half, Rug}
    BY <2>2
  <2>4. moves' \in 0..MaxMoves
    BY <1>0, <2>1 DEF HeldTypeOK
  <2>5. HeldShape'
    BY <1>0, <2>1, <2>2, <2>3, <2>4 DEF HeldShape, HeldTypeOK
  <2> QED
    BY <2>1, <2>5, RowsStand
<1>3. CASE EvaluateEligibility
  <2>1. UNCHANGED <<asset, moves, held, pointer, evaluations, look>>
    BY <1>3 DEF EvaluateEligibility
  <2>2. PICK liquidity \in {asset.liquidity, Unread} :
          eligible' = [added |-> asset.mint = "authority", liquidity |-> liquidity]
    BY <1>3 DEF EvaluateEligibility
  <2>3. liquidity \in Readings
    BY <1>0 DEF HeldShape, Readings
  <2>4. eligible' \in Baselines
    BY <2>2, <2>3 DEF Baselines
  <2>5. HeldShape'
    BY <1>0, <2>1, <2>4 DEF HeldShape, HeldTypeOK
  <2> QED
    BY <2>1, <2>5, RowsStand
<1>4. CASE PositionOpens
  <2>1. /\ UNCHANGED <<asset, moves, eligible, pointer, evaluations, look>>
        /\ held = "none" /\ held' = "OPEN"
    BY <1>4 DEF PositionOpens
  <2>2. HeldShape'
    BY <1>0, <2>1 DEF HeldShape, HeldTypeOK
  <2> QED
    BY <1>0, <2>1, <2>2, RowsStand
<1>5. CASE PositionCloses
  <2>1. /\ UNCHANGED <<asset, moves, eligible, pointer, evaluations, look>>
        /\ held = "OPEN" /\ held' = "CLOSED"
    BY <1>5 DEF PositionCloses
  <2>2. HeldShape'
    BY <1>0, <2>1 DEF HeldShape, HeldTypeOK
  <2> QED
    BY <2>1, <2>2, RowsStand
<1>6. CASE ReadChain
  <2>1. /\ UNCHANGED <<asset, moves, eligible, held, pointer, evaluations>>
        /\ look' = [at |-> "read", mint |-> asset.mint]
    BY <1>6 DEF ReadChain
  <2>2. look' \in [at : {"read"}, mint : Mints] /\ look'.at = "read"
    BY <1>0, <2>1 DEF HeldTypeOK
  <2>3. HeldShape'
    BY <1>0, <2>1, <2>2 DEF HeldShape, HeldTypeOK
  <2> QED
    BY <2>1, <2>3, RowsStand
<1>7. CASE Measure
  <2>1. UNCHANGED <<asset, moves, eligible, held, pointer, evaluations>> /\ look.at = "read"
    BY <1>7 DEF Measure
  <2>2. PICK route \in Routes, emergency \in BOOLEAN, liquidity \in {asset.liquidity, Unread} :
          look' = [at |-> "measured",
                   seen |-> [mint |-> look.mint, route |-> route, emergency |-> emergency, liquidity |-> liquidity]]
    BY <1>7 DEF Measure
  <2>3. look.mint \in Mints /\ liquidity \in Readings
    BY <1>0, <2>1 DEF HeldShape, Away, Readings
  <2>4. [mint |-> look.mint, route |-> route, emergency |-> emergency, liquidity |-> liquidity] \in Sights
    BY <2>3 DEF Sights
  <2>5. look' \in [at : {"measured"}, seen : Sights] /\ look'.at = "measured"
    BY <2>2, <2>4
  <2>6. HeldShape'
    BY <1>0, <2>1, <2>5 DEF HeldShape, HeldTypeOK
  <2> QED
    BY <2>1, <2>6, RowsStand
<1>8. CASE RecordSafety
  <2>1. CASE held = "OPEN"
    BY <1>8, <2>1, RowAppended
  <2>2. CASE held # "OPEN"
    <3>1. UNCHANGED <<asset, moves, eligible, held, pointer, evaluations>> /\ look' = Away
      BY <1>8, <2>2 DEF RecordSafety
    <3>2. HeldShape'
      BY <1>0, <3>1 DEF HeldShape, HeldTypeOK, Away
    <3> QED
      BY <3>1, <3>2, RowsStand
  <2> QED
    BY <2>1, <2>2
<1> QED
  BY <1>1, <1>2, <1>3, <1>4, <1>5, <1>6, <1>7, <1>8 DEF HeldNext

LEMMA InitHeldInv ==
  ASSUME HeldInit
  PROVE  HeldInv
<1>1. /\ asset = [mint |-> "sound", liquidity |-> Full] /\ moves = 0
      /\ eligible = NoRecord /\ held = "none" /\ pointer = "NORMAL"
      /\ evaluations = <<>> /\ look = Away
  BY DEF HeldInit
<1>2. HeldTypeOK
  <2>1. ToSet(evaluations) = {}
    BY <1>1 DEF ToSet
  <2> QED
    BY <1>1, <2>1, HeldAssumption DEF HeldTypeOK, Mints, States, Away
<1>3. HeldShape
  BY <1>1, <1>2 DEF HeldShape, Baselines, Readings, NoRecord, Mints
<1>4. DOMAIN evaluations = {}
  BY <1>1
<1> QED
  BY <1>1, <1>3, <1>4 DEF HeldInv, OneBaseline, SafetyRemembers

(* Whatever the asset does, and whatever the providers answer, every        *)
(* evaluation of a held position (held-asset-safety.ts, position-safety.ts) *)
(* was taken against the baseline of the first.                             *)
THEOREM HeldInvariant == HeldSpec => []HeldInv
<1>1. HeldInit => HeldInv
  BY InitHeldInv
<1>2. HeldInv /\ [HeldNext]_heldVars => HeldInv'
  BY HeldStep
<1> QED
  BY <1>1, <1>2, PTL DEF HeldSpec

(* A pool drained little by little and an authority added cycles ago are    *)
(* graded against what the position was entered at, and an outage alone     *)
(* asks for an exit after exactly maxUnknownRouteCycles evaluations in a    *)
(* row, for any limit and any number of evaluations.                        *)
THEOREM SafetyIsRemembered == HeldSpec => []SafetyRemembers
<1>1. HeldInv => SafetyRemembers
  BY DEF HeldInv
<1> QED
  BY <1>1, HeldInvariant, PTL


(* Reassessment: powers of two, which count the subsets of an interval.     *)

Power(n) == 2 ^ n

LEMMA PowerCounts ==
  ASSUME NEW n \in Nat
  PROVE  /\ IsFiniteSet(SUBSET (1..n)) /\ Power(n) = Cardinality(SUBSET (1..n))
         /\ Power(n) \in Nat /\ Power(n) > 0
<1>1. IsFiniteSet(1..n) /\ Cardinality(1..n) = n
  BY FS_Interval
<1>2. IsFiniteSet(SUBSET (1..n)) /\ Cardinality(SUBSET (1..n)) = 2 ^ Cardinality(1..n)
  BY <1>1, FS_SUBSET
<1>3. Power(n) = Cardinality(SUBSET (1..n))
  BY <1>1, <1>2, Zenon DEF Power
<1>4. SUBSET (1..n) # {}
  OBVIOUS
<1>5. Cardinality(SUBSET (1..n)) \in Nat /\ Cardinality(SUBSET (1..n)) # 0
  BY <1>2, <1>4, FS_CardinalityType, FS_EmptySet
<1> QED
  BY <1>2, <1>3, <1>5

LEMMA PowerGrows ==
  ASSUME NEW m \in Nat, NEW n \in Nat, m <= n
  PROVE  Power(m) <= Power(n) /\ (m < n => Power(m) < Power(n))
<1> DEFINE few == SUBSET (1..m)
           many == SUBSET (1..n)
<1>1. /\ IsFiniteSet(many) /\ Power(n) = Cardinality(many) /\ Power(n) \in Nat
      /\ Power(m) = Cardinality(few) /\ Power(m) \in Nat
  BY PowerCounts
<1>2. few \in SUBSET many
  OBVIOUS
<1>3. m < n => 1..n \in many /\ 1..n \notin few
  OBVIOUS
<1> HIDE DEF few, many
<1>4. Cardinality(few) <= Cardinality(many) /\ (Cardinality(many) = Cardinality(few) => many = few)
  BY <1>1, <1>2, FS_Subset
<1> QED
  BY <1>1, <1>3, <1>4

LEMMA PowerBeats ==
  ASSUME NEW n \in Nat
  PROVE  n < Power(n)
<1> DEFINE bad == {k \in Nat : ~ (k < Power(k))}
<1> SUFFICES ASSUME bad # {} PROVE FALSE
  OBVIOUS
<1>1. PICK k \in bad : \A m \in bad : k <= m
  BY Least
<1>2. k \in Nat /\ ~ (k < Power(k)) /\ Power(k) \in Nat /\ Power(k) > 0
  BY <1>1, PowerCounts
<1>3. k # 0 /\ k - 1 \in Nat /\ k - 1 < k
  BY <1>2
<1>4. k - 1 \notin bad
  <2> HIDE DEF bad
  <2> QED
    BY <1>1, <1>2, <1>3
<1>5. PICK j \in Nat : j = k - 1 /\ j < k /\ j \notin bad
  BY <1>3, <1>4
<1>6. j < Power(j) /\ Power(j) < Power(k) /\ Power(j) \in Nat
  <2>1. j < Power(j)
    BY <1>5
  <2>2. j \in Nat /\ j <= k /\ j < k
    BY <1>2, <1>5
  <2> HIDE DEF bad
  <2>3. Power(j) < Power(k)
    BY <1>2, <2>2, PowerGrows
  <2>4. Power(j) \in Nat
    BY <2>2, PowerCounts
  <2> QED
    BY <2>1, <2>3, <2>4
<1> QED
  BY <1>2, <1>5, <1>6

LEMMA FinitelyBounded ==
  ASSUME NEW S, S \subseteq Nat, IsFiniteSet(S)
  PROVE  \E n \in Nat : \A x \in S : x <= n
<1> DEFINE Bounded(s) == \E n \in Nat : \A x \in s : x <= n
           bad == {s \in SUBSET S : ~ Bounded(s)}
<1> SUFFICES ASSUME bad # {} PROVE FALSE
  OBVIOUS
<1>1. bad \subseteq SUBSET S
  OBVIOUS
<1>2. PICK s \in bad : \A x \in s : s \ {x} \notin bad
  <2> HIDE DEF bad
  <2> QED
    BY <1>1, LeastSet
<1>3. s # {}
  <2>1. Bounded({})
    OBVIOUS
  <2> QED
    BY <1>2, <2>1
<1>4. PICK x \in s : TRUE
  BY <1>3
<1>5. PICK n \in Nat : \A y \in s \ {x} : y <= n
  BY <1>2, <1>4
<1>6. x \in Nat /\ x + n \in Nat /\ \A y \in s : y \in Nat /\ y <= x + n
  BY <1>2, <1>4, <1>5
<1> QED
  BY <1>2, <1>6

\* Greatest and least of two, and of finitely many.
LEMMA OfTwo ==
  ASSUME NEW a \in Int, NEW b \in Int
  PROVE  /\ Min({a, b}) = IF a <= b THEN a ELSE b
         /\ Max({a, b}) = IF a <= b THEN b ELSE a
BY DEF Min, Max

LEMMA GreatestOfFinite ==
  ASSUME NEW S, S \subseteq Nat, S # {}, IsFiniteSet(S)
  PROVE  Max(S) \in S /\ \A x \in S : x <= Max(S)
<1> DEFINE bounds == {u \in Nat : \A x \in S : x <= u}
<1>1. bounds \subseteq Nat /\ bounds # {}
  BY FinitelyBounded
<1>2. PICK u \in bounds : \A v \in bounds : u <= v
  BY <1>1, Least
<1>3. u \in S
  <2> SUFFICES ASSUME u \notin S PROVE FALSE
    OBVIOUS
  <2>1. PICK x \in S : TRUE
    OBVIOUS
  <2>2. u \in Nat /\ x \in Nat /\ x <= u /\ u # x
    BY <1>2, <2>1
  <2>3. u - 1 \in bounds
    BY <1>2, <2>2
  <2>4. u <= u - 1
    BY <1>2, <2>3
  <2> QED
    BY <2>2, <2>4
<1>4. \A x \in S : u >= x
  BY <1>2
<1>5. Max(S) \in S /\ \A x \in S : Max(S) >= x
  BY <1>3, <1>4 DEF Max
<1> QED
  BY <1>1, <1>5

----------------------------------------------------------------------------
(* The ladder of the backoff.                                               *)

Step(u) == (IF u <= 1 THEN 1 ELSE u) - 1

Wait(x) == IF RetryMax <= x THEN RetryMax ELSE x

LEMMA BackoffIs ==
  ASSUME NEW u \in Nat
  PROVE  Step(u) \in Nat /\ Backoff(u) = Wait(RetryBase * Power(Step(u)))
<1>1. /\ RetryMax \in Nat \ {0} /\ RetryBase \in Nat \ {0}
      /\ Max({u, 1}) = IF u <= 1 THEN 1 ELSE u
  BY ReassessmentAssumption, OfTwo
<1>2. Step(u) \in Nat /\ Max({u, 1}) - 1 = Step(u)
  BY <1>1 DEF Step
<1>3. Power(Step(u)) \in Nat /\ 2 ^ (Max({u, 1}) - 1) = Power(Step(u))
  BY <1>2, PowerCounts, Zenon DEF Power
<1>4. Backoff(u) = Min({RetryMax, RetryBase * Power(Step(u))})
  BY <1>3, Zenon DEF Backoff
<1>5. RetryBase * Power(Step(u)) \in Int /\ RetryMax \in Int
  BY <1>1, <1>3
<1>6. Min({RetryMax, RetryBase * Power(Step(u))}) = Wait(RetryBase * Power(Step(u)))
  BY <1>5, OfTwo DEF Wait
<1> QED
  BY <1>2, <1>4, <1>6

LEMMA Scales ==
  ASSUME NEW b \in Nat \ {0}, NEW x \in Nat, NEW y \in Nat, x <= y
  PROVE  b * x \in Nat /\ b * y \in Nat /\ b * x <= b * y /\ x <= b * x
OBVIOUS

LEMMA BackoffGrows ==
  ASSUME NEW u \in Nat, NEW v \in Nat, u <= v \/ u <= 1
  PROVE  /\ Backoff(u) \in 1..RetryMax /\ Backoff(u) <= Backoff(v)
<1>1. /\ Step(u) \in Nat /\ Backoff(u) = Wait(RetryBase * Power(Step(u)))
      /\ Step(v) \in Nat /\ Backoff(v) = Wait(RetryBase * Power(Step(v)))
  BY BackoffIs
<1>2. Step(u) <= Step(v)
  BY DEF Step
<1> DEFINE x == Power(Step(u))
           y == Power(Step(v))
<1>3. x \in Nat /\ y \in Nat /\ x <= y /\ x > 0
  BY <1>1, <1>2, PowerCounts, PowerGrows
<1> HIDE DEF x, y
<1>4. /\ RetryMax \in Nat \ {0} /\ RetryBase \in Nat \ {0}
  BY ReassessmentAssumption
<1>5. RetryBase * x \in Nat /\ RetryBase * y \in Nat /\ RetryBase * x <= RetryBase * y /\ x <= RetryBase * x
  BY <1>3, <1>4, Scales
<1>6. Backoff(u) = Wait(RetryBase * x) /\ Backoff(v) = Wait(RetryBase * y)
  BY <1>1 DEF x, y
<1> QED
  BY <1>3, <1>4, <1>5, <1>6 DEF Wait

LEMMA EnoughIs == Enough \in 1..(RetryMax + 1) /\ Backoff(Enough) = RetryMax
<1>1. RetryMax \in Nat \ {0} /\ RetryBase \in Nat \ {0}
  BY ReassessmentAssumption
<1> DEFINE top == RetryMax + 1
           reach == {n \in 1..top : Backoff(n) = RetryMax}
<1>2. Backoff(top) = RetryMax
  <2>1. top \in Nat /\ Step(top) = RetryMax
    BY <1>1 DEF Step
  <2>2. Backoff(top) = Wait(RetryBase * Power(RetryMax)) /\ RetryMax < Power(RetryMax) /\ Power(RetryMax) \in Nat
    BY <1>1, <2>1, BackoffIs, PowerBeats, PowerCounts
  <2> DEFINE x == Power(RetryMax)
  <2>3. x \in Nat /\ RetryMax < x /\ Backoff(top) = Wait(RetryBase * x)
    BY <2>2
  <2> HIDE DEF x
  <2>4. RetryBase * x \in Nat /\ x <= RetryBase * x
    BY <1>1, <2>3, Scales
  <2> QED
    BY <1>1, <2>3, <2>4 DEF Wait
<1>3. reach \subseteq Nat /\ reach # {}
  BY <1>1, <1>2
<1>4. PICK n \in reach : \A m \in reach : n <= m
  BY <1>3, Least
<1>5. n > 1 => Backoff(n - 1) < RetryMax
  <2> SUFFICES ASSUME n > 1 PROVE Backoff(n - 1) < RetryMax
    OBVIOUS
  <2>1. n - 1 \in 1..top /\ n - 1 \in Nat /\ ~ (n <= n - 1)
    BY <1>1, <1>4
  <2>2. n - 1 \notin reach
    <3> HIDE DEF reach
    <3> QED
      BY <1>4, <2>1
  <2>3. Backoff(n - 1) \in 1..RetryMax
    BY <2>1, BackoffGrows
  <2> QED
    BY <1>1, <2>1, <2>2, <2>3
<1>6. n \in 1..(RetryMax + 1) /\ Backoff(n) = RetryMax /\ (n > 1 => Backoff(n - 1) < RetryMax)
  BY <1>4, <1>5
<1> QED
  BY <1>6, Zenon DEF Enough

(* The rows and ages.                                                       *)

Outcomes == {"CLEARED", "FAILED"}
Asks == [at : {"idle", "decide", "asking", "record"}, trigger : Triggers \cup {"none"}, unreviewed : BOOLEAN,
         unresolved : 0..Window, age : 0..Long, begun : 0..MaxMeanwhile]

ReassessShape ==
  /\ review \in {"REVIEWED", "PROTECTION_ONLY", "BUDGET_PAUSED"}
  /\ recent \in Seq(Outcomes) /\ Len(recent) <= Window
  /\ fired \in [Triggers -> 0..Long]
  /\ agent \in Asks /\ (agent.at # "idle" => agent.trigger \in Triggers)
  /\ streak \in 0..Enough /\ asked \in [age : 0..Long, known : BOOLEAN]

LEMMA LongIs ==
  /\ Long \in Nat /\ RetryMax <= Long /\ RetryMax \in Nat \ {0} /\ Window \in Nat \ {0} /\ MaxMeanwhile \in Nat
  /\ \A age \in 0..Long : Aged(age) \in 0..Long /\ age <= Aged(age)
  /\ Aged(Long) = Long
  /\ \A a, b \in 0..Long : a <= b => Aged(a) <= Aged(b)
<1> DEFINE cools == {Cooldown[t] : t \in Triggers}
           mins == {Interval[t] : t \in Triggers}
<1>1. /\ IsFiniteSet(Triggers) /\ Cooldown \in [Triggers -> Nat] /\ Interval \in [Triggers -> Nat]
      /\ RetryMax \in Nat \ {0} /\ Window \in Nat \ {0} /\ MaxMeanwhile \in Nat /\ MaxWait \in Nat
  BY ReassessmentAssumption
<1>2. IsFiniteSet(cools) /\ IsFiniteSet(mins) /\ IsFiniteSet({RetryMax})
  <2>1. [t \in Triggers |-> Cooldown[t]] \in Surjection(Triggers, cools)
    BY DEF Surjection
  <2>2. [t \in Triggers |-> Interval[t]] \in Surjection(Triggers, mins)
    BY DEF Surjection
  <2> HIDE DEF cools, mins
  <2>3. IsFiniteSet(cools)
    BY <1>1, <2>1, FS_Surjection
  <2>4. IsFiniteSet(mins)
    BY <1>1, <2>2, FS_Surjection
  <2> QED
    BY <2>3, <2>4, FS_Singleton
<1>3. Ages = {RetryMax} \cup cools \cup mins
  BY DEF Ages
<1>4. IsFiniteSet(Ages) /\ Ages \subseteq Nat /\ RetryMax \in Ages
  <2>1. Ages \subseteq Nat /\ RetryMax \in Ages
    BY <1>1, <1>3
  <2> HIDE DEF cools, mins
  <2>2. IsFiniteSet({RetryMax} \cup cools)
    BY <1>2, FS_Union
  <2>3. IsFiniteSet(({RetryMax} \cup cools) \cup mins)
    BY <1>2, <2>2, FS_Union
  <2> QED
    BY <1>3, <2>1, <2>3
<1>5. Max(Ages) \in Ages /\ RetryMax <= Max(Ages)
  BY <1>4, GreatestOfFinite
<1>6. Long \in Nat /\ RetryMax <= Long
  <2>1. Max(Ages) \in Nat
    BY <1>4, <1>5
  <2> QED
    BY <1>1, <1>5, <2>1 DEF Long
<1>7. \A age \in 0..Long : Aged(age) = IF Long <= age + 1 THEN Long ELSE age + 1
  BY <1>6, OfTwo DEF Aged
<1> QED
  BY <1>1, <1>6, <1>7

LEMMA CycleJoins ==
  ASSUME NEW outcome \in Outcomes, NEW k \in 0..Len(recent), recent \in Seq(Outcomes), Len(recent) <= Window
  PROVE  /\ WithCycle(outcome, k) \in Seq(Outcomes)
         /\ Len(WithCycle(outcome, k)) = IF Len(recent) < Window THEN Len(recent) + 1 ELSE Window
         /\ \A i \in 1..Len(WithCycle(outcome, k)) :
              WithCycle(outcome, k)[i] =
                IF i <= k THEN recent[i] ELSE IF i = k + 1 THEN outcome ELSE recent[i - 1]
<1> DEFINE n == Len(recent)
           above == SubSeq(recent, 1, k)
           below == SubSeq(recent, k + 1, n)
           all == above \o <<outcome>> \o below
           m == IF n < Window THEN n + 1 ELSE Window
<1>1. n \in Nat /\ Window \in Nat /\ k \in Nat /\ \A i \in 1..n : recent[i] \in Outcomes
  BY LongIs
<1>2. above \in Seq(Outcomes) /\ Len(above) = k /\ \A i \in 1..k : above[i] = recent[i]
  <2>1. \A i \in 1..k : recent[i] \in Outcomes
    BY <1>1
  <2> QED
    BY <1>1, <2>1, SubSeqProperties
<1>3. below \in Seq(Outcomes) /\ Len(below) = n - k /\ \A i \in 1..n - k : below[i] = recent[k + i]
  <2>1. \A i \in k + 1..n : recent[i] \in Outcomes
    BY <1>1
  <2>2. k + 1 \in Int /\ n \in Int
    BY <1>1
  <2>3. /\ SubSeq(recent, k + 1, n) \in Seq(Outcomes)
        /\ Len(SubSeq(recent, k + 1, n)) = IF k + 1 <= n THEN n - (k + 1) + 1 ELSE 0
        /\ \A i \in 1..n - (k + 1) + 1 : SubSeq(recent, k + 1, n)[i] = recent[(k + 1) + i - 1]
    BY <2>1, <2>2, SubSeqProperties
  <2> QED
    BY <1>1, <2>3
<1> HIDE DEF above, below
<1>4. /\ all \in Seq(Outcomes) /\ Len(all) = n + 1
      /\ \A i \in 1..n + 1 :
           all[i] = IF i <= k THEN recent[i] ELSE IF i = k + 1 THEN outcome ELSE recent[i - 1]
  <2>1. <<outcome>> \in Seq(Outcomes) /\ Len(<<outcome>>) = 1 /\ <<outcome>>[1] = outcome
    OBVIOUS
  <2> DEFINE top == above \o <<outcome>>
  <2>2. /\ top \in Seq(Outcomes) /\ Len(top) = k + 1
        /\ \A i \in 1..k + 1 : top[i] = IF i <= k THEN recent[i] ELSE outcome
    BY <1>1, <1>2, <2>1, ConcatProperties
  <2> HIDE DEF top
  <2>3. /\ top \o below \in Seq(Outcomes) /\ Len(top \o below) = (k + 1) + (n - k)
        /\ \A i \in 1..(k + 1) + (n - k) :
             (top \o below)[i] = IF i <= k + 1 THEN top[i] ELSE below[i - (k + 1)]
    <3>1. top \in Seq(Outcomes) /\ below \in Seq(Outcomes)
      BY <1>3, <2>2
    <3>2. /\ top \o below \in Seq(Outcomes) /\ Len(top \o below) = Len(top) + Len(below)
          /\ \A i \in 1..Len(top) + Len(below) :
               (top \o below)[i] = IF i <= Len(top) THEN top[i] ELSE below[i - Len(top)]
      BY <3>1, ConcatProperties
    <3>3. Len(top) = k + 1 /\ Len(below) = n - k
      BY <1>3, <2>2
    <3> HIDE DEF n
    <3> QED
      BY <3>2, <3>3
  <2>4. all = top \o below
    BY DEF top
  <2>5. \A i \in k + 2..n + 1 : below[i - (k + 1)] = recent[i - 1]
    BY <1>1, <1>3
  <2> HIDE DEF all
  <2>6. all \in Seq(Outcomes) /\ Len(all) = n + 1
    <3>1. (k + 1) + (n - k) = n + 1
      BY <1>1
    <3> HIDE DEF n
    <3> QED
      BY <2>3, <2>4, <3>1
  <2>7. ASSUME NEW i \in 1..n + 1
        PROVE  all[i] = IF i <= k THEN recent[i] ELSE IF i = k + 1 THEN outcome ELSE recent[i - 1]
    <3>0. i \in 1..(k + 1) + (n - k)
      BY <1>1
    <3>1. i \in 1..(k + 1) + (n - k) /\ all[i] = IF i <= k + 1 THEN top[i] ELSE below[i - (k + 1)]
      <4> HIDE DEF n
      <4> QED
        BY <2>3, <2>4, <3>0
    <3>2. CASE i <= k + 1
      <4>1. i \in 1..k + 1
        BY <1>1, <3>2
      <4> QED
        BY <1>1, <2>2, <3>1, <3>2, <4>1
    <3>3. CASE ~ (i <= k + 1)
      <4>1. i \in k + 2..n + 1 /\ ~ (i <= k) /\ i # k + 1
        BY <1>1, <3>3
      <4> QED
        BY <2>5, <3>1, <3>3, <4>1
    <3> QED
      BY <3>2, <3>3
  <2> QED
    BY <2>6, <2>7
<1>5. InsertAt(recent, k + 1, outcome) = all
  <2>1. (k + 1) - 1 = k
    BY <1>1
  <2> QED
    BY <2>1 DEF InsertAt, above, below
<1> HIDE DEF all
<1>6. Min({Window, Len(all)}) = m
  BY <1>1, <1>4, OfTwo
<1>7. WithCycle(outcome, k) = SubSeq(all, 1, m)
  BY <1>5, <1>6 DEF WithCycle
<1>8. m \in Nat /\ m <= n + 1
  BY <1>1
<1>9. /\ SubSeq(all, 1, m) \in Seq(Outcomes) /\ Len(SubSeq(all, 1, m)) = m
      /\ \A i \in 1..m : SubSeq(all, 1, m)[i] = all[i]
  <2>1. \A i \in 1..m : all[i] \in Outcomes
    BY <1>1, <1>4, <1>8
  <2> HIDE DEF m
  <2> QED
    BY <1>8, <2>1, SubSeqProperties
<1> QED
  BY <1>4, <1>7, <1>8, <1>9

Failures == {i \in DOMAIN recent : recent[i] # "CLEARED"}

LEMMA UnresolvedFits ==
  ASSUME recent \in Seq(Outcomes), Len(recent) <= Window
  PROVE  /\ IsFiniteSet(Failures) /\ Unresolved \in 0..Window
         /\ (recent # <<>> /\ recent[1] = "FAILED") => Unresolved = Cardinality(Failures)
<1>1. Failures \subseteq 1..Len(recent) /\ Len(recent) \in Nat /\ Window \in Nat
  BY LongIs DEF Failures
<1>2. IsFiniteSet(1..Len(recent)) /\ Cardinality(1..Len(recent)) = Len(recent)
  <2> DEFINE n == Len(recent)
  <2>1. n \in Nat
    BY <1>1
  <2> HIDE DEF n
  <2>2. IsFiniteSet(1..n) /\ Cardinality(1..n) = IF 1 > n THEN 0 ELSE n - 1 + 1
    BY <2>1, FS_Interval
  <2>3. IsFiniteSet(1..n) /\ Cardinality(1..n) = n
    BY <2>1, <2>2
  <2> QED
    BY <2>3 DEF n
<1>3. IsFiniteSet(Failures) /\ Cardinality(Failures) \in Nat /\ Cardinality(Failures) <= Len(recent)
  BY <1>1, <1>2, FS_Subset, FS_CardinalityType
<1>4. Unresolved = IF recent = <<>> \/ Head(recent) = "CLEARED" THEN 0 ELSE Cardinality(Failures)
  BY DEF Unresolved, Failures
<1>5. recent # <<>> => Head(recent) = recent[1]
  OBVIOUS
<1> QED
  BY <1>1, <1>3, <1>4, <1>5

FailedSince(b) ==
  /\ streak + b \in 1..Len(recent) /\ recent[streak + b] = "FAILED"
  /\ \A i \in 1..streak - 1 : recent[i] = "FAILED"

StreakFits ==
  /\ review = "REVIEWED" <=> streak = 0
  /\ streak > 0 => \E b \in 0..MaxMeanwhile : FailedSince(b)

\* Reductions while the models are asked clear the position.
BegunFits == agent.begun > 0 => agent.at = "asking" /\ streak = 0

\* What the role has listed of a position not reviewed since.
ListedFits ==
  agent.at = "decide" /\ review # "REVIEWED" => agent.unreviewed /\ Backoff(streak) <= Backoff(agent.unresolved)

\* The latest run tells of the latest question.
AskedFits ==
  /\ agent.at \in {"asking", "record"} => agent.age = asked.age
  /\ asked.known => asked.age = Long \/ \E t \in Triggers : fired[t] <= asked.age

\* The failures that reach the ceiling of the backoff stay in sight behind the
\* reductions that are cleared while the models are asked.
LadderInWindow == Enough + MaxMeanwhile <= Window

ReassessInv == ReassessShape /\ (LadderInWindow => StreakFits /\ BegunFits /\ ListedFits /\ AskedFits)

LEMMA RestingFits == Resting \in Asks /\ Resting.at = "idle" /\ Resting.begun = 0
BY LongIs DEF Resting, Asks

LEMMA InitReassessInv == ReassessInit => ReassessInv
<1> SUFFICES ASSUME ReassessInit PROVE ReassessInv
  OBVIOUS
<1>1. /\ review = "REVIEWED" /\ recent = <<>> /\ fired = [t \in Triggers |-> Long] /\ agent = Resting
      /\ streak = 0 /\ asked = [age |-> Long, known |-> TRUE]
  BY DEF ReassessInit
<1>2. recent \in Seq(Outcomes) /\ Len(recent) = 0
  BY <1>1
<1>3. ReassessShape
  BY <1>1, <1>2, RestingFits, LongIs, EnoughIs DEF ReassessShape
<1>4. StreakFits /\ BegunFits /\ ListedFits /\ AskedFits
  BY <1>1, RestingFits DEF StreakFits, BegunFits, ListedFits, AskedFits
<1> QED
  BY <1>3, <1>4 DEF ReassessInv

\* Of a position not reviewed, the failures counted are those of the streak, and maybe more.
LEMMA CountsStreak ==
  ASSUME ReassessShape, StreakFits, review # "REVIEWED"
  PROVE  Backoff(streak) <= Backoff(Unresolved)
<1>1. /\ recent \in Seq(Outcomes) /\ Len(recent) <= Window /\ streak \in Nat /\ streak > 0
  BY EnoughIs DEF ReassessShape, StreakFits
<1>2. PICK b \in 0..MaxMeanwhile : FailedSince(b)
  BY <1>1 DEF StreakFits
<1>3. IsFiniteSet(Failures) /\ Unresolved \in 0..Window
  BY <1>1, UnresolvedFits
<1>4. Unresolved \in Nat /\ b \in Nat
  BY <1>3, LongIs
<1>5. CASE streak = 1
  BY <1>1, <1>4, <1>5, BackoffGrows
<1>6. CASE streak > 1
  <2>1. 1 \in 1..streak - 1
    BY <1>1, <1>6
  <2>2. recent[1] = "FAILED" /\ recent # <<>>
    <3>1. recent[1] = "FAILED" /\ Len(recent) > 0
      BY <1>1, <1>2, <1>4, <2>1 DEF FailedSince
    <3> QED
      BY <3>1
  <2>3. Unresolved = Cardinality(Failures)
    BY <1>1, <2>2, UnresolvedFits
  <2> DEFINE high == 1..streak - 1
             all == high \cup {streak + b}
  <2>4. all \subseteq Failures
    BY <1>1, <1>2, <1>4 DEF FailedSince, Failures
  <2>5. IsFiniteSet(high) /\ Cardinality(high) = streak - 1
    <3>1. streak - 1 \in Int
      BY <1>1
    <3>2. IsFiniteSet(1..streak - 1) /\ Cardinality(1..streak - 1) = IF 1 > streak - 1 THEN 0 ELSE streak - 1 - 1 + 1
      BY <3>1, FS_Interval
    <3> QED
      BY <1>1, <1>6, <3>2
  <2>6. streak + b \notin high
    BY <1>1, <1>4
  <2> HIDE DEF high
  <2>7. Cardinality(all) = (streak - 1) + 1
    BY <2>5, <2>6, FS_AddElement
  <2> HIDE DEF all
  <2>8. Cardinality(all) <= Cardinality(Failures)
    BY <1>3, <2>4, FS_Subset
  <2>9. streak <= Unresolved
    BY <1>1, <1>4, <2>3, <2>7, <2>8
  <2> QED
    BY <1>1, <1>4, <2>9, BackoffGrows
<1> QED
  BY <1>1, <1>5, <1>6

----------------------------------------------------------------------------
(* The steps.                                                               *)

LEMMA KeepsMandatory == ReassessInv /\ MandatoryReduction => ReassessInv'
<1> SUFFICES ASSUME ReassessInv, MandatoryReduction PROVE ReassessInv'
  OBVIOUS
<1>1. /\ agent.begun < MaxMeanwhile /\ review' = "REVIEWED" /\ streak' = 0
      /\ recent' = WithCycle("CLEARED", 0) /\ UNCHANGED <<fired, asked>>
      /\ agent' = IF agent.at = "asking" THEN [agent EXCEPT !.begun = @ + 1] ELSE agent
  BY DEF MandatoryReduction
<1>2. /\ recent \in Seq(Outcomes) /\ Len(recent) <= Window /\ agent \in Asks
      /\ (agent.at # "idle" => agent.trigger \in Triggers)
      /\ fired \in [Triggers -> 0..Long] /\ asked \in [age : 0..Long, known : BOOLEAN]
  BY DEF ReassessInv, ReassessShape
<1>3. recent' \in Seq(Outcomes) /\ Len(recent') <= Window
  <2>1. 0 \in 0..Len(recent) /\ "CLEARED" \in Outcomes
    BY <1>2 DEF Outcomes
  <2> DEFINE w == WithCycle("CLEARED", 0)
  <2>2. w \in Seq(Outcomes) /\ Len(w) = IF Len(recent) < Window THEN Len(recent) + 1 ELSE Window
    BY <1>2, <2>1, CycleJoins
  <2>3. recent' = w
    BY <1>1
  <2> HIDE DEF w
  <2> QED
    BY <1>2, <2>2, <2>3, LongIs
<1>4. /\ agent' \in Asks /\ agent'.at = agent.at /\ agent'.trigger = agent.trigger
      /\ agent'.age = agent.age /\ agent'.begun \in 0..MaxMeanwhile
      /\ (agent'.begun > 0 => agent.begun > 0 \/ agent.at = "asking")
  <2>1. agent.begun \in 0..MaxMeanwhile /\ MaxMeanwhile \in Nat
    BY <1>2, LongIs DEF Asks
  <2>2. agent.begun + 1 \in 0..MaxMeanwhile
    BY <1>1, <2>1
  <2> QED
    BY <1>1, <1>2, <2>1, <2>2 DEF Asks
<1>5. ReassessShape'
  BY <1>1, <1>2, <1>3, <1>4, EnoughIs DEF ReassessShape
<1>6. ASSUME LadderInWindow PROVE StreakFits' /\ BegunFits' /\ ListedFits' /\ AskedFits'
  <2>1. BegunFits /\ AskedFits
    BY <1>6 DEF ReassessInv
  <2> QED
    BY <1>1, <1>4, <2>1 DEF StreakFits, BegunFits, ListedFits, AskedFits
<1> QED
  BY <1>5, <1>6 DEF ReassessInv, LadderInWindow

LEMMA KeepsTick == ReassessInv /\ AgentTick => ReassessInv'
<1> SUFFICES ASSUME ReassessInv, AgentTick PROVE ReassessInv'
  OBVIOUS
<1> DEFINE age == IF agent.at = "idle" THEN 0 ELSE Aged(agent.age)
<1>1. /\ fired' = [t \in Triggers |-> Aged(fired[t])] /\ agent' = [agent EXCEPT !.age = age]
      /\ asked' = [asked EXCEPT !.age = Aged(asked.age)] /\ UNCHANGED <<review, recent, streak>>
  BY DEF AgentTick
<1>2. ReassessShape
  BY DEF ReassessInv
<1>3. agent \in Asks /\ asked \in [age : 0..Long, known : BOOLEAN] /\ age \in 0..Long /\ Aged(asked.age) \in 0..Long
  BY <1>2, LongIs DEF ReassessShape, Asks
<1>4. fired' \in [Triggers -> 0..Long]
  BY <1>1, <1>2, LongIs DEF ReassessShape
<1> HIDE DEF age
<1>5. /\ agent' \in Asks /\ agent'.at = agent.at /\ agent'.trigger = agent.trigger /\ agent'.age = age
      /\ agent'.begun = agent.begun /\ agent'.unreviewed = agent.unreviewed /\ agent'.unresolved = agent.unresolved
      /\ asked' \in [age : 0..Long, known : BOOLEAN] /\ asked'.age = Aged(asked.age) /\ asked'.known = asked.known
  BY <1>1, <1>3 DEF Asks
<1>6. ReassessShape'
  BY <1>1, <1>2, <1>4, <1>5 DEF ReassessShape
<1>7. ASSUME LadderInWindow PROVE StreakFits' /\ BegunFits' /\ ListedFits' /\ AskedFits'
  <2>1. StreakFits /\ BegunFits /\ ListedFits /\ AskedFits
    BY <1>7 DEF ReassessInv
  <2>2. StreakFits' /\ BegunFits' /\ ListedFits'
    BY <1>1, <1>5, <2>1 DEF StreakFits, FailedSince, BegunFits, ListedFits
  <2>3. agent'.at \in {"asking", "record"} => agent'.age = asked'.age
    BY <1>5, <2>1 DEF AskedFits, age
  <2>4. asked'.known => asked'.age = Long \/ \E t \in Triggers : fired'[t] <= asked'.age
    <3> SUFFICES ASSUME asked'.known PROVE asked'.age = Long \/ \E t \in Triggers : fired'[t] <= asked'.age
      OBVIOUS
    <3>1. CASE asked.age = Long
      BY <1>5, <3>1, LongIs
    <3>2. ASSUME NEW t \in Triggers, fired[t] <= asked.age PROVE fired'[t] <= asked'.age
      <4>1. fired[t] \in 0..Long /\ asked.age \in 0..Long /\ fired'[t] = Aged(fired[t])
        BY <1>1, <1>2, <1>3 DEF ReassessShape
      <4> QED
        BY <1>5, <3>2, <4>1, LongIs
    <3> QED
      BY <1>5, <2>1, <3>1, <3>2 DEF AskedFits
  <2> QED
    BY <2>2, <2>3, <2>4 DEF AskedFits
<1> QED
  BY <1>6, <1>7 DEF ReassessInv, LadderInWindow

LEMMA KeepsListing == ReassessInv /\ ListPosition => ReassessInv'
<1> SUFFICES ASSUME ReassessInv, ListPosition PROVE ReassessInv'
  OBVIOUS
<1>1. PICK t \in Triggers :
        agent' = [Resting EXCEPT !.at = "decide", !.trigger = t,
                    !.unreviewed = review # "REVIEWED", !.unresolved = Unresolved]
  BY DEF ListPosition
<1>2. UNCHANGED <<review, recent, fired, streak, asked>>
  BY DEF ListPosition
<1>3. ReassessShape
  BY DEF ReassessInv
<1>4. Unresolved \in 0..Window
  BY <1>3, UnresolvedFits DEF ReassessShape
<1> DEFINE open == review # "REVIEWED"
<1>5. open \in BOOLEAN
  OBVIOUS
<1>6. agent' = [at |-> "decide", trigger |-> t, unreviewed |-> open, unresolved |-> Unresolved, age |-> 0, begun |-> 0]
  BY <1>1 DEF Resting
<1>7. /\ agent' \in Asks /\ agent'.at = "decide" /\ agent'.trigger = t
      /\ agent'.begun = 0 /\ agent'.unreviewed = open /\ agent'.unresolved = Unresolved
  BY <1>4, <1>6, LongIs DEF Asks
<1>8. ReassessShape'
  BY <1>2, <1>3, <1>7 DEF ReassessShape
<1>9. ASSUME LadderInWindow PROVE StreakFits' /\ BegunFits' /\ ListedFits' /\ AskedFits'
  <2>1. StreakFits /\ AskedFits
    BY <1>9 DEF ReassessInv
  <2>2. review # "REVIEWED" => Backoff(streak) <= Backoff(Unresolved)
    BY <1>3, <2>1, CountsStreak
  <2>3. ListedFits'
    BY <1>2, <1>7, <2>2 DEF ListedFits
  <2> QED
    BY <1>2, <1>7, <2>1, <2>3 DEF StreakFits, FailedSince, BegunFits, AskedFits
<1> QED
  BY <1>8, <1>9 DEF ReassessInv, LadderInWindow

LEMMA KeepsResting ==
  ASSUME ReassessInv, agent' = Resting, UNCHANGED <<review, recent, fired, streak, asked>>
  PROVE  ReassessInv'
<1>1. ReassessShape'
  BY RestingFits DEF ReassessInv, ReassessShape
<1>2. ASSUME LadderInWindow PROVE StreakFits' /\ BegunFits' /\ ListedFits' /\ AskedFits'
  <2>1. StreakFits /\ AskedFits
    BY <1>2 DEF ReassessInv
  <2> QED
    BY <2>1, RestingFits DEF StreakFits, FailedSince, BegunFits, ListedFits, AskedFits
<1> QED
  BY <1>1, <1>2 DEF ReassessInv, LadderInWindow

LEMMA KeepsAsking == ReassessInv /\ Invoke => ReassessInv'
<1> SUFFICES ASSUME ReassessInv, Invoke PROVE ReassessInv'
  OBVIOUS
<1>1. /\ agent.at = "decide" /\ agent' = [Resting EXCEPT !.at = "asking", !.trigger = agent.trigger]
      /\ asked' = [age |-> 0, known |-> FALSE] /\ UNCHANGED <<review, recent, fired, streak>>
  BY DEF Invoke
<1>2. ReassessShape
  BY DEF ReassessInv
<1>3. agent.trigger \in Triggers
  BY <1>1, <1>2 DEF ReassessShape
<1>0. agent' = [at |-> "asking", trigger |-> agent.trigger, unreviewed |-> FALSE, unresolved |-> 0, age |-> 0, begun |-> 0]
  BY <1>1 DEF Resting
<1>4. /\ agent' \in Asks /\ agent'.at = "asking" /\ agent'.trigger \in Triggers /\ agent'.begun = 0 /\ agent'.age = 0
      /\ asked' \in [age : 0..Long, known : BOOLEAN] /\ asked'.age = 0 /\ ~ asked'.known
  BY <1>0, <1>1, <1>3, LongIs DEF Asks
<1>5. ReassessShape'
  BY <1>1, <1>2, <1>4 DEF ReassessShape
<1>6. ASSUME LadderInWindow PROVE StreakFits' /\ BegunFits' /\ ListedFits' /\ AskedFits'
  <2>1. StreakFits
    BY <1>6 DEF ReassessInv
  <2> QED
    BY <1>1, <1>4, <2>1 DEF StreakFits, FailedSince, BegunFits, ListedFits, AskedFits
<1> QED
  BY <1>5, <1>6 DEF ReassessInv, LadderInWindow

LEMMA KeepsRecording == ReassessInv /\ RecordRun => ReassessInv'
<1> SUFFICES ASSUME ReassessInv, RecordRun PROVE ReassessInv'
  OBVIOUS
<1>1. /\ agent.at = "record" /\ agent' = Resting /\ fired' = [fired EXCEPT ![agent.trigger] = agent.age]
      /\ asked' = [asked EXCEPT !.known = TRUE] /\ UNCHANGED <<review, recent, streak>>
  BY DEF RecordRun
<1>2. ReassessShape
  BY DEF ReassessInv
<1>3. /\ agent.trigger \in Triggers /\ agent.age \in 0..Long /\ fired \in [Triggers -> 0..Long]
      /\ asked \in [age : 0..Long, known : BOOLEAN]
  BY <1>1, <1>2 DEF ReassessShape, Asks
<1>4. /\ fired' \in [Triggers -> 0..Long] /\ fired'[agent.trigger] = agent.age
      /\ asked' \in [age : 0..Long, known : BOOLEAN] /\ asked'.age = asked.age
  BY <1>1, <1>3
<1>5. ReassessShape'
  BY <1>1, <1>2, <1>4, RestingFits DEF ReassessShape
<1>6. ASSUME LadderInWindow PROVE StreakFits' /\ BegunFits' /\ ListedFits' /\ AskedFits'
  <2>1. StreakFits /\ AskedFits
    BY <1>6 DEF ReassessInv
  <2>2. agent.age = asked.age
    BY <1>1, <2>1 DEF AskedFits
  <2>3. agent.age <= asked.age
    BY <1>3, <2>2
  <2>4. AskedFits'
    BY <1>1, <1>3, <1>4, <2>3, RestingFits DEF AskedFits
  <2> QED
    BY <1>1, <2>1, <2>4, RestingFits DEF StreakFits, FailedSince, BegunFits, ListedFits
<1> QED
  BY <1>5, <1>6 DEF ReassessInv, LadderInWindow

LEMMA KeepsOutcome == ReassessInv /\ PersistOutcome => ReassessInv'
<1> SUFFICES ASSUME ReassessInv, PersistOutcome PROVE ReassessInv'
  OBVIOUS
<1>1. PICK outcome \in {"CLEARED", "NO_BUDGET", "FAILED"} :
        /\ review' = ReviewOf(outcome)
        /\ recent' = WithCycle(IF outcome = "CLEARED" THEN outcome ELSE "FAILED", Min({agent.begun, Len(recent)}))
        /\ streak' = IF outcome = "CLEARED" THEN 0 ELSE Min({Enough, streak + 1})
  BY DEF PersistOutcome
<1>2. agent.at = "asking" /\ agent' = [agent EXCEPT !.at = "record", !.begun = 0] /\ UNCHANGED <<fired, asked>>
  BY DEF PersistOutcome
<1>3. ReassessShape
  BY DEF ReassessInv
<1>4. /\ agent \in Asks /\ agent.trigger \in Triggers /\ agent.begun \in 0..MaxMeanwhile
      /\ recent \in Seq(Outcomes) /\ Len(recent) \in Nat /\ Len(recent) <= Window
      /\ Window \in Nat \ {0} /\ MaxMeanwhile \in Nat
      /\ streak \in 0..Enough /\ streak \in Nat /\ Enough \in Nat \ {0}
  BY <1>2, <1>3, EnoughIs, LongIs DEF ReassessShape, Asks
<1> DEFINE o == IF outcome = "CLEARED" THEN outcome ELSE "FAILED"
           k == Min({agent.begun, Len(recent)})
           w == WithCycle(o, k)
<1>5. k = IF agent.begun <= Len(recent) THEN agent.begun ELSE Len(recent)
  BY <1>4, OfTwo
<1>6. k \in 0..Len(recent) /\ k <= agent.begun /\ o \in Outcomes /\ (outcome # "CLEARED" => o = "FAILED")
  BY <1>4, <1>5 DEF Outcomes
<1>7. recent' = w
  BY <1>1
<1> HIDE DEF o, k
<1>8. /\ w \in Seq(Outcomes) /\ Len(w) = IF Len(recent) < Window THEN Len(recent) + 1 ELSE Window
      /\ \A i \in 1..Len(w) : w[i] = IF i <= k THEN recent[i] ELSE IF i = k + 1 THEN o ELSE recent[i - 1]
  BY <1>4, <1>6, CycleJoins
<1> HIDE DEF w
<1>9. streak' = IF outcome = "CLEARED" THEN 0 ELSE IF Enough <= streak + 1 THEN Enough ELSE streak + 1
  BY <1>1, <1>4, OfTwo
<1>10. /\ agent' \in Asks /\ agent'.at = "record" /\ agent'.trigger \in Triggers
       /\ agent'.age = agent.age /\ agent'.begun = 0
  <2>1. agent' = [at |-> "record", trigger |-> agent.trigger, unreviewed |-> agent.unreviewed,
                  unresolved |-> agent.unresolved, age |-> agent.age, begun |-> 0]
    BY <1>2, <1>4 DEF Asks
  <2>2. agent.unreviewed \in BOOLEAN /\ agent.unresolved \in 0..Window /\ agent.age \in 0..Long /\ 0 \in 0..MaxMeanwhile
    BY <1>4 DEF Asks
  <2> QED
    BY <1>4, <2>1, <2>2 DEF Asks
<1>11. /\ review' \in {"REVIEWED", "PROTECTION_ONLY", "BUDGET_PAUSED"}
       /\ review' = "REVIEWED" <=> outcome = "CLEARED"
  BY <1>1 DEF ReviewOf
<1>12. streak' \in 0..Enough /\ (streak' = 0 <=> outcome = "CLEARED")
  BY <1>4, <1>9
<1>13. recent' \in Seq(Outcomes) /\ Len(recent') <= Window
  BY <1>4, <1>7, <1>8
<1>14. ReassessShape'
  BY <1>2, <1>3, <1>10, <1>11, <1>12, <1>13 DEF ReassessShape
<1>15. ASSUME LadderInWindow PROVE StreakFits' /\ BegunFits' /\ ListedFits' /\ AskedFits'
  <2>1. StreakFits /\ BegunFits /\ AskedFits
    BY <1>15 DEF ReassessInv
  <2>2. ASSUME outcome # "CLEARED" PROVE \E b \in 0..MaxMeanwhile : FailedSince(b)'
    <3>1. Enough + MaxMeanwhile <= Window
      BY <1>15 DEF LadderInWindow
    <3>2. CASE streak = 0
      <4>1. streak' = 1 /\ k \in 0..MaxMeanwhile
        BY <1>4, <1>6, <1>9, <2>2, <3>2
      <4>2. k + 1 \in 1..Len(w)
        BY <1>4, <1>6, <1>8, <3>1
      <4>3. w[k + 1] = "FAILED"
        BY <1>4, <1>6, <1>8, <2>2, <4>2
      <4>4. streak' + k = k + 1 /\ streak' - 1 = 0
        BY <4>1
      <4>5. PICK b \in 0..MaxMeanwhile : b = k
        BY <4>1
      <4>6. streak' + b \in 1..Len(recent') /\ recent'[streak' + b] = "FAILED" /\ \A i \in 1..streak' - 1 : FALSE
        BY <1>7, <4>2, <4>3, <4>4, <4>5
      <4>7. FailedSince(b)'
        BY <4>6 DEF FailedSince
      <4> QED
        BY <4>7
    <3>3. CASE streak > 0
      <4>1. k = 0
        BY <1>4, <1>6, <2>1, <3>3 DEF BegunFits
      <4>2. PICK b \in 0..MaxMeanwhile : FailedSince(b)
        BY <2>1, <3>3 DEF StreakFits
      <4>3. /\ Len(w) = IF Len(recent) < Window THEN Len(recent) + 1 ELSE Window
            /\ \A i \in 1..Len(w) : w[i] = IF i = 1 THEN "FAILED" ELSE recent[i - 1]
        BY <1>4, <1>6, <1>8, <2>2, <4>1
      <4>4. /\ streak + b \in 1..Len(recent) /\ recent[streak + b] = "FAILED" /\ b \in Nat
            /\ \A i \in 1..streak - 1 : recent[i] = "FAILED"
        BY <4>2 DEF FailedSince
      <4>5. \A i \in 1..streak : i \in 1..Len(w) /\ w[i] = "FAILED"
        <5>1. SUFFICES ASSUME NEW i \in 1..streak PROVE i \in 1..Len(w) /\ w[i] = "FAILED"
          OBVIOUS
        <5>2. i \in 1..Len(w)
          BY <1>4, <4>3, <4>4
        <5>3. i # 1 => i - 1 \in 1..streak - 1
          BY <1>4
        <5> QED
          BY <4>3, <4>4, <5>2, <5>3
      <4>6. CASE Enough <= streak
        <5>1. streak = Enough /\ streak' = streak
          BY <1>4, <1>9, <2>2, <4>6
        <5>2. streak' + 0 \in 1..Len(w) /\ w[streak' + 0] = "FAILED" /\ \A i \in 1..streak' - 1 : w[i] = "FAILED"
          BY <1>4, <3>3, <4>5, <5>1
        <5>3. \E c \in 0..MaxMeanwhile : c = 0 /\ FailedSince(c)'
          <6>1. PICK c \in 0..MaxMeanwhile : c = 0
            BY <1>4
          <6>2. streak' + c \in 1..Len(recent') /\ recent'[streak' + c] = "FAILED" /\ \A i \in 1..streak' - 1 : recent'[i] = "FAILED"
            BY <1>7, <5>2, <6>1
          <6>3. FailedSince(c)'
            BY <6>2 DEF FailedSince
          <6> QED
            BY <6>1, <6>3
        <5> QED
          BY <5>3
      <4>7. CASE ~ (Enough <= streak)
        <5>1. streak' = streak + 1
          BY <1>4, <1>9, <2>2, <4>7
        <5>2. (streak + b) + 1 \in 1..Len(w) /\ (streak + b) + 1 # 1 /\ ((streak + b) + 1) - 1 = streak + b
          BY <1>4, <3>1, <4>3, <4>4, <4>7
        <5>3. w[(streak + b) + 1] = "FAILED"
          BY <4>3, <4>4, <5>2
        <5>4. streak' + b = (streak + b) + 1 /\ streak' - 1 = streak
          BY <1>4, <4>4, <5>1
        <5>5. streak' + b \in 1..Len(recent') /\ recent'[streak' + b] = "FAILED" /\ \A i \in 1..streak' - 1 : recent'[i] = "FAILED"
          BY <1>7, <4>5, <5>2, <5>3, <5>4
        <5>6. FailedSince(b)'
          BY <5>5 DEF FailedSince
        <5> QED
          BY <5>6
      <4> QED
        BY <4>6, <4>7
    <3> QED
      BY <1>4, <3>2, <3>3
  <2>3. StreakFits'
    BY <1>11, <1>12, <2>2 DEF StreakFits
  <2>4. AskedFits'
    BY <1>2, <1>10, <2>1 DEF AskedFits
  <2> QED
    BY <1>10, <2>3, <2>4 DEF BegunFits, ListedFits
<1> QED
  BY <1>14, <1>15 DEF ReassessInv, LadderInWindow

LEMMA StepReassessInv == ReassessInv /\ [ReassessNext]_reassessVars => ReassessInv'
<1> SUFFICES ASSUME ReassessInv, [ReassessNext]_reassessVars PROVE ReassessInv'
  OBVIOUS
<1>1. CASE MandatoryReduction
  BY <1>1, KeepsMandatory
<1>2. CASE AgentTick
  BY <1>2, KeepsTick
<1>3. CASE ListPosition
  BY <1>3, KeepsListing
<1>4. CASE Skip \/ Stumble
  BY <1>4, KeepsResting DEF Skip, Stumble
<1>5. CASE Invoke
  BY <1>5, KeepsAsking
<1>6. CASE PersistOutcome
  BY <1>6, KeepsOutcome
<1>7. CASE RecordRun
  BY <1>7, KeepsRecording
<1>8. CASE UNCHANGED reassessVars
  <2>1. UNCHANGED <<review, recent, fired, agent, streak, asked>>
    BY <1>8 DEF reassessVars
  <2> QED
    BY <2>1 DEF ReassessInv, ReassessShape, StreakFits, FailedSince, BegunFits, ListedFits, AskedFits, LadderInWindow
<1> QED
  BY <1>1, <1>2, <1>3, <1>4, <1>5, <1>6, <1>7, <1>8 DEF ReassessNext

\* The wait of the last question is over when the role asks again.
LEMMA AskedInTime ==
  ASSUME ReassessInv, LadderInWindow, Invoke, review # "REVIEWED", asked.known
  PROVE  asked.age >= Backoff(streak)
<1>1. ReassessShape /\ ListedFits /\ AskedFits /\ agent.at = "decide" /\ Due
  BY DEF ReassessInv, Invoke
<1>2. agent.unreviewed /\ Backoff(streak) <= Backoff(agent.unresolved)
  BY <1>1 DEF ListedFits
<1>3. /\ asked.age \in 0..Long /\ agent.age \in 0..Long /\ agent.unresolved \in Nat /\ streak \in Nat
      /\ fired \in [Triggers -> 0..Long] /\ Long \in Nat /\ RetryMax <= Long
  BY <1>1, EnoughIs, LongIs DEF ReassessShape, Asks
<1>4. Backoff(streak) \in 1..RetryMax /\ Backoff(agent.unresolved) \in 1..RetryMax
  BY <1>3, BackoffGrows
<1>5. LastFired < Long => LastFired - agent.age >= Backoff(agent.unresolved)
  BY <1>1, <1>2 DEF Due, Since
<1>6. CASE asked.age = Long
  BY <1>3, <1>4, <1>6, LongIs
<1>7. ASSUME NEW t \in Triggers, fired[t] <= asked.age PROVE asked.age >= Backoff(streak)
  <2> DEFINE runs == {fired[s] : s \in Triggers}
  <2>1. runs \subseteq Nat /\ runs # {} /\ fired[t] \in runs
    BY <1>3
  <2>2. LastFired = Min(runs)
    BY DEF LastFired
  <2> HIDE DEF runs
  <2>3. LastFired \in Nat /\ LastFired <= fired[t]
    BY <2>1, <2>2, LeastOf
  <2>4. fired[t] \in 0..Long
    BY <1>3
  <2> QED
    BY <1>2, <1>3, <1>4, <1>5, <1>7, <2>3, <2>4, LongIs
<1> QED
  BY <1>1, <1>6, <1>7 DEF AskedFits

(* A review that failed to clear a position delays the next question by its *)
(* backoff, as long as the ladder and the mandatory reductions of one       *)
(* question fit into the outcomes looked back at; with one reduction more   *)
(* the streak is forgotten too early.                                       *)
THEOREM BackoffHolds == LadderInWindow => (ReassessSpec => RetriesBackOff)
<1> SUFFICES ASSUME LadderInWindow PROVE ReassessSpec => RetriesBackOff
  OBVIOUS
<1>1. ReassessInit => ReassessInv
  BY InitReassessInv
<1>2. ReassessInv /\ [ReassessNext]_reassessVars => ReassessInv'
  BY StepReassessInv
<1>3. ReassessInv /\ [ReassessNext]_reassessVars =>
        [agent.at = "decide" /\ agent'.at = "asking" /\ review # "REVIEWED" /\ asked.known =>
           asked.age >= Backoff(streak)]_reassessVars
  <2> SUFFICES ASSUME ReassessInv, ReassessNext, agent.at = "decide", agent'.at = "asking", review # "REVIEWED", asked.known
               PROVE  asked.age >= Backoff(streak)
    BY DEF reassessVars
  <2>1. CASE Invoke
    BY <2>1, AskedInTime
  <2>2. ASSUME ~ Invoke PROVE FALSE
    <3>1. agent \in Asks
      BY DEF ReassessInv, ReassessShape
    <3>2. CASE MandatoryReduction
      BY <3>1, <3>2 DEF MandatoryReduction
    <3>3. CASE AgentTick
      BY <3>1, <3>3 DEF AgentTick, Asks
    <3>4. CASE ListPosition
      BY <3>4 DEF ListPosition
    <3>5. CASE Skip \/ Stumble \/ RecordRun
      BY <3>5, RestingFits DEF Skip, Stumble, RecordRun
    <3>6. CASE PersistOutcome
      BY <3>6 DEF PersistOutcome
    <3> QED
      BY <2>2, <3>2, <3>3, <3>4, <3>5, <3>6 DEF ReassessNext
  <2> QED
    BY <2>1, <2>2
<1> QED
  BY <1>1, <1>2, <1>3, PTL DEF ReassessSpec, RetriesBackOff

LEMMA ReassessTyped == ReassessInv => ReassessTypeOK
<1> SUFFICES ASSUME ReassessShape PROVE ReassessTypeOK
  BY DEF ReassessInv
<1>1. recent \in SeqOf({"CLEARED", "FAILED"}, Window)
  <2> DEFINE n == Len(recent)
  <2>1. n \in 0..Window /\ recent \in [1..n -> {"CLEARED", "FAILED"}]
    BY LongIs DEF ReassessShape, Outcomes
  <2> QED
    BY <2>1 DEF SeqOf
<1> QED
  BY <1>1 DEF ReassessShape, ReassessTypeOK, Asks

----------------------------------------------------------------------------
(* The types of the six parts in which one thing is delivered twice.        *)

\* What ArmingInv leaves open of the types: whose the attestations are, and the mishaps.
EvidenceTyped ==
  /\ mishaps \in 0..MaxMishaps
  /\ \A t \in attestations : t.by \in DOMAIN petitions /\ t.purpose \in {"PROMOTE", "ARM"}

LEMMA ArmingTyped == ArmingInv /\ EvidenceTyped => ArmingTypeOK
<1> SUFFICES ASSUME ArmingInv, EvidenceTyped PROVE ArmingTypeOK
  OBVIOUS
<1>1. \A i \in DOMAIN petitions : petitions[i] \in Petition
  BY DEF ArmingInv, ArmingShape
<1>2. \A i \in DOMAIN petitions : petitions[i].state \in {"PENDING", "ACCEPTED", "REJECTED"}
  BY <1>1 DEF Petition
<1> QED
  BY <1>2 DEF ArmingInv, ArmingShape, EvidenceTyped, ArmingTypeOK

LEMMA EvidenceStarts == ArmingInit => EvidenceTyped
BY ReleaseArmingAssumption DEF ArmingInit, EvidenceTyped

\* A request that is filed or answered stays where it was filed.
LEMMA PetitionsStay ==
  ASSUME ArmingInv, [ArmingNext]_armingVars
  PROVE  DOMAIN petitions \subseteq DOMAIN petitions'
<1>1. petitions \in Seq(Petition)
  BY DEF ArmingInv, ArmingShape
<1>2. CASE FilePetition
  <2>1. PICK k \in PetitionKinds : petitions' = Append(petitions, [kind |-> k, state |-> "PENDING"])
    BY <1>2 DEF FilePetition
  <2> DEFINE row == [kind |-> k, state |-> "PENDING"]
  <2>2. row \in Petition
    BY DEF Petition
  <2>3. petitions' \in Seq(Petition) /\ Len(petitions') = Len(petitions) + 1
    BY <1>1, <2>1, <2>2
  <2> QED
    BY <1>1, <2>3
<1>3. ASSUME NEW a \in Approvers, AnswerPetition(a) PROVE DOMAIN petitions \subseteq DOMAIN petitions'
  BY <1>3 DEF AnswerPetition
<1>4. ASSUME UNCHANGED petitions PROVE DOMAIN petitions \subseteq DOMAIN petitions'
  BY <1>4
<1> QED
  BY <1>2, <1>3, <1>4 DEF ArmingNext, armingVars, ListPetitions, LoadRelease, KeepRows, ValidateRelease, InsertAttestation,
     InsertCapitalAttestation, MoveRelease, PetitionFails

LEMMA EvidenceKeeps == ArmingInv /\ EvidenceTyped /\ [ArmingNext]_armingVars => EvidenceTyped'
<1> SUFFICES ASSUME ArmingInv, EvidenceTyped, [ArmingNext]_armingVars PROVE EvidenceTyped'
  OBVIOUS
<1>1. DOMAIN petitions \subseteq DOMAIN petitions' /\ MaxMishaps \in Nat
  BY PetitionsStay, ReleaseArmingAssumption
<1>2. ASSUME NEW a \in Approvers, InsertAttestation(a) PROVE EvidenceTyped'
  <2>1. approver[a].at = "attest"
    BY <1>2 DEF InsertAttestation
  <2>2. Hand(a) \in DOMAIN petitions /\ KindInHand(a) \in {"PROMOTE_RELEASE", "ARM_RELEASE"}
    BY <2>1, InHand DEF ArmingInv, ApprovalFits
  <2>3. Purpose[KindInHand(a)] \in {"PROMOTE", "ARM"}
    BY <2>2 DEF Purpose
  <2> DEFINE row == [by |-> Hand(a), purpose |-> Purpose[KindInHand(a)]]
  <2>4. attestations' = attestations \cup {row} /\ mishaps' = mishaps
    BY <1>2 DEF InsertAttestation
  <2> QED
    BY <1>1, <2>2, <2>3, <2>4 DEF EvidenceTyped
<1>3. ASSUME NEW a \in Approvers, PetitionFails(a) PROVE EvidenceTyped'
  BY <1>1, <1>3 DEF EvidenceTyped, PetitionFails
<1>4. ASSUME UNCHANGED <<attestations, mishaps>> PROVE EvidenceTyped'
  BY <1>1, <1>4 DEF EvidenceTyped
<1> QED
  BY <1>2, <1>3, <1>4 DEF ArmingNext, armingVars, FilePetition, ListPetitions, LoadRelease, KeepRows, ValidateRelease,
     InsertCapitalAttestation, MoveRelease, AnswerPetition

\* One part moves, with its own step; to the others it is a stutter.
LEMMA RedeliveryMoves ==
  ASSUME [RedeliveryNext]_redeliveryVars
  PROVE  /\ [Next]_vars /\ [PaperNext]_paperVars /\ [AuthorizerNext]_authorizerVars /\ [ArmingNext]_armingVars
         /\ [HeldNext]_heldVars /\ [ReassessNext]_reassessVars
BY DEF RedeliveryNext, redeliveryVars, InExecutor, InAccount, InAuthorizer, InArming, InHeld, InReassessment

RedeliveryInv ==
  /\ TypeOK /\ PaperInv /\ AuthorityInv /\ ArmingInv /\ EvidenceTyped /\ HeldInv /\ ReassessInv

(* The journal and the handlers of the executor, the paper account, the     *)
(* authorizer, the Releases, held positions and the questions about them    *)
(* stay within their types.                                                 *)
THEOREM RedeliveryTyped == RedeliverySpec => []RedeliveryTypeOK
<1>1. RedeliveryInit => RedeliveryInv
  BY InitType, InitPaperInv, InitAuthorityInv, InitArming, EvidenceStarts, InitHeldInv, InitReassessInv
  DEF RedeliveryInit, RedeliveryInv
<1>2. RedeliveryInv /\ [RedeliveryNext]_redeliveryVars => RedeliveryInv'
  BY RedeliveryMoves, NextType, PaperStep, StepAuthorityInv, StepArmingInv, EvidenceKeeps, HeldStep, StepReassessInv
  DEF RedeliveryInv
<1>3. RedeliveryInv => RedeliveryTypeOK
  <2> SUFFICES ASSUME RedeliveryInv PROVE RedeliveryTypeOK
    OBVIOUS
  <2>1. TypeOK /\ ArmingTypeOK /\ ReassessTypeOK
    BY ArmingTyped, ReassessTyped DEF RedeliveryInv
  <2>2. PaperTypeOK
    BY DEF RedeliveryInv, PaperInv, PaperShape
  <2>3. AuthorizerTypeOK
    BY DEF RedeliveryInv, AuthorityInv, Rows, Typed
  <2>4. HeldTypeOK
    BY DEF RedeliveryInv, HeldInv, HeldShape
  <2> QED
    BY <2>1, <2>2, <2>3, <2>4 DEF RedeliveryTypeOK
<1> QED
  BY <1>1, <1>2, <1>3, PTL DEF RedeliverySpec

====
