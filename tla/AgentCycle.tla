----------------------------- MODULE AgentCycle -----------------------------
(* The discretionary agent cycle: the action-cycle machine, the runner that *)
(* drives it through two models, the role agents that stores its outcome    *)
(* with the position's review state and the message, and the role           *)
(* trading-actions that acts on the message.                                *)
(*                                                                          *)
(* The role agents runs one cycle at a time; a message may be handled by    *)
(* two handlers at once, because the handler works on connections of its    *)
(* own and outlives the transaction that claimed its key.                   *)
EXTENDS Integers, FiniteSets

CONSTANTS
  MaxCycles,     \* bound: cycles run
  Handlers,      \* handlers of trading-actions
  MaxCutoffs     \* bound: evidence cutoffs of a cycle

ASSUME CycleAssumption == MaxCycles \in Nat /\ MaxCutoffs \in Nat \ {0}

VARIABLES
  cycle,         \* the cycle in memory
  runner,        \* the next await of the runner, or "resting"
  stored,        \* cycle number -> its row of agents.action_cycles
  dropped,       \* cycles whose outcome a failed call lost
  review,        \* the position's review state
  open,          \* the position is open
  outbox,        \* messages sent and not yet processed, by cycle number
  handler,       \* handler -> its step and the cycle of its message
  executed       \* cycle number -> executions of its action (history)

agentVars == <<cycle, runner, stored, dropped, review, open, outbox, handler, executed>>

Numbers == 1..MaxCycles
Terminal == {"CLEARED", "REJECTED", "EXPIRED", "UNRESOLVED"}
MaxRevisionRounds == 1
AllowedActions(target) ==
  IF target = "POSITION" THEN {"HOLD", "REDUCE", "EXIT", "ADJUST_PROTECTION"} ELSE {"ENTER", "IGNORE"}
ExposureActions == {"ENTER", "HOLD", "REDUCE", "EXIT", "ADJUST_PROTECTION"}

\* seen: the cutoff of the packet each model was given (history).
NewCycle(n, target) ==
  [n |-> n, target |-> target, state |-> "TRIGGERED", cutoff |-> 1, packet |-> 0, action |-> "none",
   verdict |-> "none", round |-> 0, cleared |-> 0, reason |-> "none",
   seen |-> [proposer |-> 0, adversary |-> 0]]
NoCycle == NewCycle(0, "none")

----------------------------------------------------------------------------
(* transition: the cycle an event leads to, or Rejection.                   *)

Rejection == [NoCycle EXCEPT !.state = "rejected"]
Ends(c, state) == [c EXCEPT !.state = state]
Unresolved(c, why) == [Ends(c, "UNRESOLVED") EXCEPT !.reason = why]
Failures == {"ADVERSARY_UNAVAILABLE", "TIMEOUT", "BUDGET", "MALFORMED_OUTPUT"}

Refreshed(c) ==
  IF c.state \notin {"CONTEXT_BUILT", "PROPOSED", "REVISION_REQUESTED"} THEN Rejection
  ELSE LET next == [c EXCEPT !.cutoff = @ + 1]
       IN  IF c.state = "PROPOSED" THEN [next EXCEPT !.state = "CONTEXT_BUILT", !.action = "none"] ELSE next

Proposed(c, action, version) ==
  IF \/ c.state \notin {"CONTEXT_BUILT", "REVISION_REQUESTED"}
     \/ action \notin AllowedActions(c.target)
     \/ version # c.cutoff
  THEN Rejection
  ELSE LET base == [c EXCEPT !.action = action]
       IN  IF action = "IGNORE" THEN [Ends(base, "CLEARED") EXCEPT !.verdict = "none", !.cleared = c.cutoff]
           ELSE [base EXCEPT !.state = "PROPOSED"]

\* Mutant: a challenge does not count its round.
ReviewedUncounted(c, verdict, version) ==
  IF c.state # "PROPOSED" \/ version # c.cutoff THEN Rejection
  ELSE LET judged == [c EXCEPT !.verdict = verdict]
       IN  CASE verdict = "CONFIRM" -> [Ends(judged, "CLEARED") EXCEPT !.cleared = c.cutoff]
             [] verdict = "REJECT" -> Ends(judged, "REJECTED")
             [] verdict = "CHALLENGE" ->
                  IF c.round >= MaxRevisionRounds THEN Unresolved(judged, "REVISION_EXHAUSTED")
                  ELSE [judged EXCEPT !.state = "REVISION_REQUESTED"]

\* Mutant: the limit on rounds is passed by one.
ReviewedOnceMore(c, verdict, version) ==
  IF c.state # "PROPOSED" \/ version # c.cutoff THEN Rejection
  ELSE LET judged == [c EXCEPT !.verdict = verdict]
       IN  CASE verdict = "CONFIRM" -> [Ends(judged, "CLEARED") EXCEPT !.cleared = c.cutoff]
             [] verdict = "REJECT" -> Ends(judged, "REJECTED")
             [] verdict = "CHALLENGE" ->
                  IF c.round > MaxRevisionRounds THEN Unresolved(judged, "REVISION_EXHAUSTED")
                  ELSE [judged EXCEPT !.state = "REVISION_REQUESTED", !.round = @ + 1]

Reviewed(c, verdict, version) ==
  IF c.state # "PROPOSED" \/ version # c.cutoff THEN Rejection
  ELSE LET judged == [c EXCEPT !.verdict = verdict]
       IN  CASE verdict = "CONFIRM" -> [Ends(judged, "CLEARED") EXCEPT !.cleared = c.cutoff]
             [] verdict = "REJECT" -> Ends(judged, "REJECTED")
             [] verdict = "CHALLENGE" ->
                  IF c.round >= MaxRevisionRounds THEN Unresolved(judged, "REVISION_EXHAUSTED")
                  ELSE [judged EXCEPT !.state = "REVISION_REQUESTED", !.round = @ + 1]

Transition(c, e) ==
  CASE c.state \in Terminal -> Rejection
    [] e.type = "EXPIRED" -> Ends(c, "EXPIRED")
    [] e.type \in Failures -> Unresolved(c, e.type)
    [] e.type = "CONTEXT_BUILT" -> IF c.state = "TRIGGERED" THEN Ends(c, "CONTEXT_BUILT") ELSE Rejection
    [] e.type = "EVIDENCE_REFRESHED" -> Refreshed(c)
    [] e.type = "PROPOSED" -> Proposed(c, e.action, e.version)
    [] e.type = "ADVERSARY_REVIEWED" -> Reviewed(c, e.verdict, e.version)

CanAuthorize(c) ==
  /\ c.state = "CLEARED" /\ c.verdict = "CONFIRM" /\ c.action \in ExposureActions
  /\ c.cleared # 0 /\ c.cleared = c.cutoff

\* The stored cycle, as far as its reader asks: the action it may authorize. sound says
\* that both models had seen the packet built at the latest cutoff (history).
Row(c) ==
  [state |-> c.state, authorizes |-> IF CanAuthorize(c) THEN c.action ELSE "none", evaluated |-> FALSE,
   sound |-> c.seen = [proposer |-> c.cutoff, adversary |-> c.cutoff] /\ c.verdict = "CONFIRM"]
NoRow == Row(NoCycle)

----------------------------------------------------------------------------
(* The runner: one action per await. A rejected event throws.               *)

AgentInit ==
  /\ cycle = NoCycle /\ runner = "resting"
  /\ stored = [n \in Numbers |-> NoRow] /\ dropped = {}
  /\ review = "REVIEWED" /\ open = TRUE /\ outbox = {}
  /\ handler = [h \in Handlers |-> [at |-> "waiting", n |-> 0]]
  /\ executed = [n \in Numbers |-> 0]

\* step(e), on the cycle c: it goes on at next, or to the outcome's storage.
StepTo(c, e, next) ==
  LET moved == Transition(c, e)
  IN  /\ cycle' = moved
      /\ runner' = CASE moved.state = "rejected" -> "rejected"
                     [] moved.state \in Terminal -> "store"
                     [] moved.state = "REVISION_REQUESTED" /\ e.type = "ADVERSARY_REVIEWED" -> "revise"
                     [] OTHER -> next
Fail(why) == StepTo(cycle, [type |-> why], "none")
InRunner == UNCHANGED <<stored, dropped, review, open, outbox, handler, executed>>

StartCycle(target) ==
  /\ runner = "resting" /\ cycle.n < MaxCycles
  /\ target = "POSITION" => open
  /\ cycle' = NewCycle(cycle.n + 1, target) /\ runner' = "gate"
  /\ InRunner

\* Spend gate, skill binding, first context, distinct models.
GateAndBuild ==
  /\ runner = "gate"
  /\ \/ \E why \in {"BUDGET", "ADVERSARY_UNAVAILABLE", "EXPIRED"} : Fail(why)
     \/ StepTo([cycle EXCEPT !.packet = cycle.cutoff], [type |-> "CONTEXT_BUILT"], "propose")
     \/ LET built == Transition([cycle EXCEPT !.packet = cycle.cutoff], [type |-> "CONTEXT_BUILT"])
        IN  StepTo(built, [type |-> "ADVERSARY_UNAVAILABLE"], "none")
  /\ InRunner

\* A revision, when the policy refreshes the evidence, and when it does not.
Revise ==
  /\ runner = "revise"
  /\ \/ cycle.cutoff < MaxCutoffs /\ StepTo(cycle, [type |-> "EVIDENCE_REFRESHED"], "rebuild")
     \/ runner' = "propose" /\ UNCHANGED cycle
  /\ InRunner

Rebuild ==
  /\ runner = "rebuild"
  /\ \/ cycle' = [cycle EXCEPT !.packet = cycle.cutoff] /\ runner' = "propose"
     \/ Fail("ADVERSARY_UNAVAILABLE")
  /\ InRunner

\* A model call that fails, overruns, or returns what does not validate.
CallFails ==
  /\ runner \in {"propose", "review"}
  /\ \E why \in {"EXPIRED", "MALFORMED_OUTPUT", "TIMEOUT", "ADVERSARY_UNAVAILABLE"} : Fail(why)
  /\ InRunner

ProposeAction ==
  /\ runner = "propose"
  /\ \E action \in AllowedActions(cycle.target) :
       StepTo([cycle EXCEPT !.seen.proposer = cycle.packet],
              [type |-> "PROPOSED", action |-> action, version |-> cycle.cutoff], "review")
  /\ InRunner

ReviewAction ==
  /\ runner = "review"
  /\ \E verdict \in {"CONFIRM", "REJECT", "CHALLENGE"} :
       StepTo([cycle EXCEPT !.seen.adversary = cycle.packet],
              [type |-> "ADVERSARY_REVIEWED", verdict |-> verdict, version |-> cycle.cutoff], "none")
  /\ InRunner

----------------------------------------------------------------------------
(* The outcome, the position's review and the message in one transaction.   *)

\* reviewTransition on CYCLE_TERMINATED.
ReviewAfter(c) ==
  CASE c.state = "CLEARED" -> "REVIEWED"
    [] c.state = "UNRESOLVED" /\ c.reason = "BUDGET" -> "BUDGET_PAUSED"
    [] OTHER -> "PROTECTION_ONLY"

\* The outcome is local to handleTarget: nothing of it is kept but its number.
Forget == runner' = "resting" /\ cycle' = [NoCycle EXCEPT !.n = cycle.n]
HandsOff(c) == ReviewAfter(c) = "REVIEWED" /\ CanAuthorize(c) /\ c.action # "HOLD"

StoreOutcome ==
  /\ runner = "store" /\ (cycle.target = "POSITION" => open)
  /\ stored' = [stored EXCEPT ![cycle.n] = Row(cycle)]
  /\ IF cycle.target = "POSITION"
     THEN /\ review' = ReviewAfter(cycle)
          /\ outbox' = IF HandsOff(cycle) THEN outbox \cup {cycle.n} ELSE outbox
     ELSE UNCHANGED <<review, outbox>>
  /\ Forget
  /\ UNCHANGED <<dropped, open, handler, executed>>

\* The transaction fails, always when the position has been closed meanwhile.
StoreFails ==
  /\ runner = "store"
  /\ dropped' = dropped \cup {cycle.n} /\ Forget
  /\ UNCHANGED <<stored, review, open, outbox, handler, executed>>

\* A mandatory exit: a reviewed decision of its own, and perhaps the end.
MandatoryExit ==
  /\ open /\ review' = "REVIEWED" /\ open' \in BOOLEAN
  /\ UNCHANGED <<cycle, runner, stored, dropped, outbox, handler, executed>>

----------------------------------------------------------------------------
(* handleClearedAction.                                                     *)

Handles(h, at) == handler[h].at = at
HandlerGoes(h, at) == handler' = [handler EXCEPT ![h].at = at]
RowOf(h) == stored[handler[h].n]
InHandler == UNCHANGED <<cycle, runner, dropped, review>>

DeliverAction(h) ==
  /\ Handles(h, "waiting")
  /\ \E n \in outbox : handler' = [handler EXCEPT ![h] = [at |-> "check", n |-> n]]
  /\ InHandler /\ UNCHANGED <<stored, open, outbox, executed>>

\* Everything is re-checked, from the rows, before anything moves. What ADJUST_PROTECTION
\* does to a stop is in PaperAccount.tla.
CheckAction(h) ==
  /\ Handles(h, "check")
  /\ \E expired \in BOOLEAN :
       HandlerGoes(h, IF /\ RowOf(h).authorizes \in {"REDUCE", "EXIT"} /\ ~RowOf(h).evaluated /\ ~expired
                         /\ open /\ review = "REVIEWED"
                      THEN "evaluate" ELSE "finish")
  /\ InHandler /\ UNCHANGED <<stored, open, outbox, executed>>

\* Mutant: an evaluation that is there already is replaced.
EvaluateAgain(h) ==
  /\ Handles(h, "evaluate")
  /\ stored' = [stored EXCEPT ![handler[h].n].evaluated = TRUE]
  /\ HandlerGoes(h, "fill")
  /\ InHandler /\ UNCHANGED <<open, outbox, executed>>

\* recordRiskEvaluation links the evaluation once, and throws otherwise.
EvaluateAction(h) ==
  /\ Handles(h, "evaluate")
  /\ IF RowOf(h).evaluated THEN HandlerGoes(h, "waiting") /\ UNCHANGED stored
     ELSE /\ stored' = [stored EXCEPT ![handler[h].n].evaluated = TRUE]
          /\ HandlerGoes(h, "fill")
  /\ InHandler /\ UNCHANGED <<open, outbox, executed>>

FillAction(h) ==
  /\ Handles(h, "fill") /\ HandlerGoes(h, "finish")
  /\ executed' = [executed EXCEPT ![handler[h].n] = IF @ < 2 THEN @ + 1 ELSE @]
  /\ \E closes \in BOOLEAN : open' = (open /\ ~closes)
  /\ InHandler /\ UNCHANGED <<stored, outbox>>

FinishAction(h) ==
  /\ Handles(h, "finish") /\ HandlerGoes(h, "waiting")
  /\ outbox' = outbox \ {handler[h].n}
  /\ InHandler /\ UNCHANGED <<stored, open, executed>>

\* A call of the handler throws, or its worker dies: it is delivered again.
ActionThrows(h) ==
  /\ ~Handles(h, "waiting") /\ HandlerGoes(h, "waiting")
  /\ InHandler /\ UNCHANGED <<stored, open, outbox, executed>>

----------------------------------------------------------------------------
RunnerStep ==
  \/ GateAndBuild \/ Revise \/ Rebuild \/ CallFails \/ ProposeAction \/ ReviewAction
  \/ StoreOutcome \/ StoreFails

AgentNext ==
  \/ \E target \in {"CANDIDATE", "POSITION"} : StartCycle(target)
  \/ RunnerStep \/ MandatoryExit
  \/ \E h \in Handlers :
       DeliverAction(h) \/ CheckAction(h) \/ EvaluateAction(h) \/ FillAction(h) \/ FinishAction(h) \/ ActionThrows(h)

AgentSpec == AgentInit /\ [][AgentNext]_agentVars
\* A model call is raced against a timer, and every other call returns.
AgentFairness == WF_agentVars(RunnerStep)
AgentFairSpec == AgentSpec /\ AgentFairness

----------------------------------------------------------------------------
AgentTypeOK ==
  /\ cycle.n \in 0..MaxCycles /\ cycle.cutoff \in 1..MaxCutoffs /\ cycle.round \in 0..MaxRevisionRounds
  /\ runner \in {"resting", "gate", "revise", "rebuild", "propose", "review", "store", "rejected"}
  /\ review \in {"REVIEWED", "PROTECTION_ONLY", "BUDGET_PAUSED"}
  /\ outbox \subseteq Numbers /\ dropped \subseteq Numbers /\ executed \in [Numbers -> 0..2]

(* INV-14, INV-19: an action moves exposure only when the adversary         *)
(* confirmed that action, and both models had seen the packet built at the  *)
(* cycle's latest cutoff: also after a revision on refreshed evidence. And  *)
(* it does so once, delivered twice, handled by two handlers at a time, or  *)
(* cut off anywhere.                                                        *)
ExecutedAsConfirmed ==
  \A n \in Numbers :
    /\ executed[n] <= 1
    /\ executed[n] = 1 =>
         stored[n].state = "CLEARED" /\ stored[n].authorizes \in {"REDUCE", "EXIT"} /\ stored[n].sound

(* Every cycle that starts is stored with a terminal state, or lost with a  *)
(* failed transaction: the models may disagree for ever, the runner offers  *)
(* the machine no event it refuses, and a revision comes to an end.         *)
CyclesEnd ==
  \A n \in Numbers : cycle.n = n ~> (stored[n].state \in Terminal \/ n \in dropped)
=============================================================================
