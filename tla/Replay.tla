------------------------------- MODULE Replay -------------------------------
(* One replay run of the role replay, over one asset. The engine walks the  *)
(* ticks of a window under a clock that only moves forward: it executes the *)
(* entries whose decision moment has come, manages the open positions, and  *)
(* lets every stream decide on a candidate the detector reports, if any. At *)
(* the end of the window it rejects what is still pending and closes what   *)
(* is still open. The role then stores the decisions and the trades.        *)
EXTENDS Integers, Sequences, Functions

CONSTANTS
  Streams,         \* a strategy in one of its variants, each with its own book
  Tick,            \* time between two ticks
  WindowTo,        \* end of the window, which starts at 0
  MaxLatency,      \* bound: from a candidate to a decision on it
  FillDelay,       \* from the execution of an order to its fill
  UnquotableAfter, \* UNQUOTABLE_EXIT_AFTER_MS
  Start, Cap,      \* the starting capital, and the cap of the sleeve
  Costs, Lots,     \* amounts an entry may spend, and the quantities it may buy
  Prices,          \* settlement units a token may be worth
  MaxCandidates    \* bound: candidates

ASSUME ReplayAssumption ==
  /\ {Tick, UnquotableAfter} \subseteq Nat \ {0}
  /\ {WindowTo, MaxLatency, FillDelay, Start, Cap, MaxCandidates} \subseteq Nat
  /\ Costs \cup Lots \cup Prices \subseteq Nat \ {0}

VARIABLES
  run,             \* research.replay_runs.status
  stage,           \* the step the process that claimed it is at
  clock,           \* SimulatedClock
  tick,            \* the tick being played
  pending,         \* entries decided and not executed: stream, candidate, decision moment
  waiting,         \* the positions of this tick still to be managed
  books,           \* stream -> balance, realizedPnl, committed, positions by candidate
  decisions,       \* stream -> one row per candidate
  tables           \* the tables the run's rows are in

replayVars == <<run, stage, clock, tick, pending, waiting, books, decisions, tables>>

Never == -1
Unmade == [rejection |-> "", filledAt |-> Never, closedAt |-> Never, reason |-> "", pnl |-> 0]

NoPositions == [c \in {} |-> Unmade]

ReplayInit ==
  /\ run = "QUEUED" /\ stage = "off" /\ clock = 0 /\ tick = 0
  /\ pending = {} /\ waiting = {}
  /\ books = [s \in Streams |-> [balance |-> Start, realized |-> 0, committed |-> 0, positions |-> NoPositions]]
  /\ decisions = [s \in Streams |-> <<>>] /\ tables = {}

ClaimRun ==
  /\ run = "QUEUED"
  /\ run' = "RUNNING" /\ stage' = "drain"
  /\ UNCHANGED <<clock, tick, pending, waiting, books, decisions, tables>>

----------------------------------------------------------------------------
(* drain and executeEntry.                                                  *)

\* Mutant: the queue is served in the order it was filled.
FilledBefore(p, q) == p.candidate < q.candidate

\* The order of the queue: by decision moment, and as filled where two are the same (between
\* streams, whose books have nothing in common, any order).
Before(p, q) ==
  p.decidedAt < q.decidedAt \/ (p.decidedAt = q.decidedAt /\ p.candidate < q.candidate)
Due == {p \in pending : p.decidedAt <= tick}
Foremost == {p \in Due : \A q \in Due : ~Before(q, p)}
Draining == stage \in {"drain", "lastDrain"}

\* Refused by the risk policy, not filled, or drawn as not landed: the same to the books.
\* evaluateEntry sizes within the balance and what the sleeve has left.
Affordable(book) == {c \in Costs : c <= book.balance /\ book.committed + c <= Cap}

\* impliedPrice, to the unit and half up: what is worth less than half a unit has no price.
ImpliedPrice(cost, qty) == (2 * cost + qty) \div (2 * qty)

Position(cost, qty) ==
  [qty |-> qty, basis |-> cost, cost |-> cost, price |-> ImpliedPrice(cost, qty),
   since |-> Never, proceeds |-> 0]

Opened(book, c, cost, qty) ==
  [book EXCEPT !.balance = @ - cost, !.committed = @ + cost,
               !.positions = [x \in DOMAIN @ \cup {c} |-> IF x = c THEN Position(cost, qty) ELSE @[x]]]

Reject(s, c, reason) == decisions' = [decisions EXCEPT ![s][c].rejection = reason]

ExecuteEntry ==
  /\ Draining
  /\ \E p \in Foremost :
       /\ p.decidedAt >= clock  \* advanceTo throws otherwise
       /\ clock' = p.decidedAt /\ pending' = pending \ {p}
       /\ \/ Reject(p.stream, p.candidate, "REFUSED") /\ UNCHANGED books
          \/ \E cost \in Affordable(books[p.stream]), qty \in Lots :
               /\ books' = [books EXCEPT ![p.stream] = Opened(@, p.candidate, cost, qty)]
               /\ decisions' = [decisions EXCEPT ![p.stream][p.candidate].filledAt = p.decidedAt + FillDelay]
  /\ UNCHANGED <<run, stage, tick, waiting, tables>>

AllPositions ==
  UNION {[stream : {s}, candidate : DOMAIN books[s].positions] : s \in Streams}

IsPending(s, c) == \E p \in pending : p.stream = s /\ p.candidate = c

\* drain(t) of a tick: its positions are managed next.
DrainsTick == stage = "drain" /\ stage' = "manage" /\ UNCHANGED <<pending, decisions>>

\* The drain at the end of the window: an entry decided beyond it is rejected.
DrainsRest ==
  /\ stage = "lastDrain" /\ stage' = "closeAll" /\ pending' = {}
  /\ decisions' = [s \in Streams |-> [c \in DOMAIN decisions[s] |->
       IF IsPending(s, c) THEN [decisions[s][c] EXCEPT !.rejection = "WINDOW_END"]
       ELSE decisions[s][c]]]

EndDrain ==
  /\ Draining /\ Due = {}
  /\ clock' = tick /\ waiting' = AllPositions
  /\ DrainsTick \/ DrainsRest
  /\ UNCHANGED <<run, tick, books, tables>>

----------------------------------------------------------------------------
(* managePositions. The positions of a tick do not depend on each other: they *)
(* are managed in any order.                                                *)

Managing(w) == stage \in {"manage", "closeAll"} /\ w \in waiting
Forced == stage = "closeAll"
Held(w) == books[w.stream].positions[w.candidate]
Priced(w) == Held(w).price > 0
KeepManaging(w) == waiting' = waiting \ {w} /\ UNCHANGED <<run, stage, clock, tick, pending, tables>>

\* A part leaves with its share of the cost, the last of it with the rest.
BasisOut(p, sold) == IF sold = p.qty THEN p.basis ELSE (p.basis * sold) \div p.qty

Paid(book, proceeds, basisOut) ==
  [book EXCEPT !.balance = @ + proceeds, !.realized = @ + proceeds - basisOut,
               !.committed = IF @ > basisOut THEN @ - basisOut ELSE 0]

Rest(p, sold, proceeds) ==
  [p EXCEPT !.qty = @ - sold, !.basis = @ - BasisOut(p, sold), !.proceeds = @ + proceeds, !.since = Never]

\* finishClose: the row is closed with the last of the position, against the cost recorded at entry.
FinishClose(w, sold, proceeds, reason, at) ==
  LET p == Held(w)
      book == Paid(books[w.stream], proceeds, BasisOut(p, sold))
  IN  \/ /\ sold < p.qty
         /\ books' = [books EXCEPT ![w.stream] =
              [book EXCEPT !.positions[w.candidate] = Rest(p, sold, proceeds)]]
         /\ UNCHANGED decisions
      \/ /\ sold = p.qty
         /\ books' = [books EXCEPT ![w.stream] =
              [book EXCEPT !.positions = Restrict(@, DOMAIN @ \ {w.candidate})]]
         /\ decisions' = [decisions EXCEPT ![w.stream][w.candidate] =
              [@ EXCEPT !.closedAt = at, !.reason = reason, !.pnl = p.proceeds + proceeds - p.cost]]

Since(w, t) == books' = [books EXCEPT ![w.stream].positions[w.candidate].since = t] /\ UNCHANGED decisions

\* No quote: what has had none for too long, or at the window's end, is a total loss.
ManageUnquotable(w) ==
  /\ Managing(w)
  /\ LET since == IF Held(w).since = Never THEN clock ELSE Held(w).since
     IN  IF Forced \/ clock - since >= UnquotableAfter
         THEN FinishClose(w, Held(w).qty, 0, "UNQUOTABLE", clock)
         ELSE Since(w, since)
  /\ KeepManaging(w)

\* A quote, and nothing sold: hold, a stop tightened, an order that did not fill. A
\* position without an entry price is passed over, at the end of the window too.
ManageHold(w) ==
  /\ Managing(w) /\ (Forced => ~Priced(w))
  /\ Since(w, Never)
  /\ KeepManaging(w)

\* An exit, or the floor of a half by evaluateExitPolicy's REDUCE.
ManageSell(w) ==
  /\ Managing(w) /\ Priced(w)
  /\ \E sold \in {Held(w).qty} \cup (IF Forced THEN {} ELSE {Held(w).qty \div 2}), price \in Prices :
       /\ sold > 0
       /\ FinishClose(w, sold, sold * price, IF Forced THEN "WINDOW_END" ELSE "EXIT", clock + FillDelay)
  /\ KeepManaging(w)

\* There is no tick left to try again on: booked at the mark it could not reach.
CloseUnfilled(w) ==
  /\ Managing(w) /\ Forced /\ Priced(w)
  /\ \E price \in Prices : FinishClose(w, Held(w).qty, Held(w).qty * price, "WINDOW_END_UNFILLED", clock)
  /\ KeepManaging(w)

----------------------------------------------------------------------------
(* The rest of a tick: detection, and the streams' decisions.               *)

NextTick ==
  /\ stage = "manage" /\ waiting = {}
  /\ IF tick + Tick <= WindowTo
     THEN tick' = tick + Tick /\ stage' = "drain"
     ELSE tick' = WindowTo /\ stage' = "lastDrain"
  /\ UNCHANGED <<run, clock, waiting, books, tables>>

NothingDetected == NextTick /\ UNCHANGED <<pending, decisions>>

Discovered == Len(decisions[CHOOSE s \in Streams : TRUE])

\* A stream that enters is pending until its decision moment.
DetectCandidate ==
  /\ NextTick
  /\ Discovered < MaxCandidates
  /\ \E entering \in SUBSET Streams : \E latency \in [entering -> 0..MaxLatency] :
       /\ decisions' = [s \in Streams |-> Append(decisions[s],
            IF s \in entering THEN Unmade ELSE [Unmade EXCEPT !.rejection = "NO_ENTRY"])]
       /\ pending' = pending \cup {[stream |-> s, candidate |-> Discovered + 1,
                                   decidedAt |-> tick + latency[s]] : s \in entering}

----------------------------------------------------------------------------
(* runReplayExecutionCycle, once the engine has returned.                   *)

KeepReplay == UNCHANGED <<clock, tick, pending, waiting, books, decisions>>

EngineReturns ==
  /\ stage = "closeAll" /\ waiting = {} /\ stage' = "decisions"
  /\ UNCHANGED <<run, tables>> /\ KeepReplay

\* replay_trades: trade_order check (opened_at <= closed_at).
TradeOrder(d) == d.closedAt # Never => d.filledAt <= d.closedAt
Storable == \A s \in Streams : \A c \in DOMAIN decisions[s] : TradeOrder(decisions[s][c])

StoreDecisions ==
  /\ stage = "decisions" /\ stage' = "trades"
  /\ tables' = tables \cup {"decisions"}
  /\ UNCHANGED run /\ KeepReplay

StoreTrades ==
  /\ stage = "trades" /\ Storable /\ stage' = "complete"
  /\ tables' = tables \cup {"trades"}
  /\ UNCHANGED run /\ KeepReplay

CompleteRun ==
  /\ stage = "complete" /\ run' = "COMPLETED" /\ stage' = "off"
  /\ UNCHANGED tables /\ KeepReplay

\* Anything that throws fails the run; the rows already inserted stay.
RunThrows ==
  /\ stage # "off"
  /\ run' = "FAILED" /\ stage' = "off"
  /\ UNCHANGED tables /\ KeepReplay

\* Nothing claims a run that is RUNNING: a process that dies leaves it so.
RunnerDies ==
  /\ stage # "off" /\ stage' = "off"
  /\ UNCHANGED <<run, tables>> /\ KeepReplay

ReplayNext ==
  \/ ClaimRun
  \/ ExecuteEntry \/ EndDrain
  \/ \E w \in waiting : ManageUnquotable(w) \/ ManageHold(w) \/ ManageSell(w) \/ CloseUnfilled(w)
  \/ NothingDetected \/ DetectCandidate
  \/ EngineReturns \/ StoreDecisions \/ StoreTrades \/ CompleteRun \/ RunThrows
  \/ RunnerDies

ReplaySpec == ReplayInit /\ [][ReplayNext]_replayVars

----------------------------------------------------------------------------
Rejections == {"", "NO_ENTRY", "REFUSED", "WINDOW_END"}
Reasons == {"", "EXIT", "UNQUOTABLE", "WINDOW_END", "WINDOW_END_UNFILLED"}

(* The run, its clock, the books and the rows stay within their types.      *)
ReplayTypeOK ==
  /\ run \in {"QUEUED", "RUNNING", "COMPLETED", "FAILED"}
  /\ stage \in {"off", "drain", "manage", "lastDrain", "closeAll", "decisions", "trades", "complete"}
  /\ clock \in 0..WindowTo /\ tick \in 0..WindowTo /\ tables \subseteq {"decisions", "trades"}
  /\ pending \subseteq [stream : Streams, candidate : 1..MaxCandidates, decidedAt : Nat]
  /\ waiting \subseteq [stream : Streams, candidate : 1..MaxCandidates]
  /\ \A s \in Streams :
       /\ {books[s].balance, books[s].committed} \subseteq Nat /\ books[s].realized \in Int
       /\ \A d \in Range(decisions[s]) : d.rejection \in Rejections /\ d.reason \in Reasons

Basis(positions) == [c \in DOMAIN positions |-> positions[c].basis]
Gain(positions) ==
  [c \in DOMAIN positions |-> positions[c].proceeds - (positions[c].cost - positions[c].basis)]
Pnl(rows) == [c \in DOMAIN rows |-> rows[c].pnl]

\* What a book holds is what it started with and what it realized, the sleeve is charged
\* the cost of what is open, and the rows report exactly what the book realized.
BooksBalance ==
  \A s \in Streams :
    LET book == books[s]
        basis == SumFunction(Basis(book.positions))
    IN  /\ book.balance + basis = Start + book.realized
        /\ book.committed = basis
        /\ book.realized = SumFunction(Pnl(decisions[s])) + SumFunction(Gain(book.positions))

IsOpen(s, c) == c \in DOMAIN books[s].positions
IsPassedOver(s, c) == IsOpen(s, c) /\ books[s].positions[c].price = 0
OnlyOne(facts) == \E f \in DOMAIN facts : facts[f] /\ \A g \in DOMAIN facts \ {f} : ~facts[g]

\* A decision is pending, rejected, open or closed. Once the engine has returned none is
\* pending, and only what has no entry price is open.
OneEnding ==
  \A s \in Streams : \A c \in DOMAIN decisions[s] :
    LET d == decisions[s][c]
    IN /\ OnlyOne(<<IsPending(s, c), d.rejection # "", IsOpen(s, c), d.closedAt # Never>>)
       /\ stage \in {"decisions", "trades", "complete"} \/ run = "COMPLETED" =>
            d.rejection # "" \/ d.closedAt # Never \/ IsPassedOver(s, c)

\* Only a position whose fill lies beyond the window closes before it opened.
ClosesInOrder ==
  \A s \in Streams : \A c \in DOMAIN decisions[s] :
    TradeOrder(decisions[s][c]) \/ decisions[s][c].filledAt > WindowTo

(* The engine never asks the clock to go back, the books balance to the     *)
(* unit through partial exits, every decision ends in one way, and a trade  *)
(* can be stored unless its entry was filled beyond the end of the window.  *)
ReplayStands ==
  /\ Draining => \A p \in Foremost : clock <= p.decidedAt
  /\ BooksBalance /\ OneEnding /\ ClosesInOrder

=============================================================================
