----------------------------- MODULE Reassessment -----------------------------
(* When the role agents asks the models about one open position: triggers,   *)
(* the cooldowns and intervals of the automation set, the backoff of a       *)
(* position no review cleared, over the rows a cycle leaves and the run      *)
(* recorded after it. What a cycle is made of is AgentCycle.tla. A tick is    *)
(* the interval of the role; ages beyond every limit are alike.              *)
EXTENDS Integers, Sequences, SequencesExt, FiniteSets, FiniteSetsExt

CONSTANTS
  Triggers,      \* of the automation set, those an open position can meet
  Cooldown,      \* cooldownMs per trigger, in ticks
  Interval,      \* minIntervalMs per trigger
  RetryBase,     \* protectionOnlyRetryBaseMs
  RetryMax,      \* protectionOnlyRetryMaxMs
  Window,        \* cycles that listPositionTargets looks back
  MaxWait,       \* bound: ticks a listed position waits for its turn
  MaxMeanwhile,  \* bound: mandatory reductions while the models are asked
  MaxStumbles    \* bound: cycles that throw or die before their run is recorded

ASSUME ReassessmentAssumption ==
  /\ IsFiniteSet(Triggers) /\ {Cooldown, Interval} \subseteq [Triggers -> Nat]
  /\ {RetryBase, RetryMax, Window} \subseteq Nat \ {0} /\ {MaxWait, MaxMeanwhile, MaxStumbles} \subseteq Nat

VARIABLES
  review,       \* review_state: reviewed, or what stands in its way
  recent,       \* the outcomes of the latest Window cycles, newest first
  fired,        \* per trigger: age of its latest INVOKED automation run
  agent,        \* the role: its step, the trigger, what it listed, ages, cycles begun meanwhile
  streak,       \* history: failures since the position was last cleared
  asked,        \* history: ticks since the models were last asked, and whether a run says so
  stumbles

reassessVars == <<review, recent, fired, agent, streak, asked, stumbles>>

\* protectionOnlyBackoffMs.
Backoff(unresolved) == Min({RetryMax, RetryBase * 2 ^ (Max({unresolved, 1}) - 1)})

\* Older than anything that is compared with an age.
Ages == {RetryMax} \cup {Cooldown[t] : t \in Triggers} \cup {Interval[t] : t \in Triggers}
Long == Max(Ages) + MaxWait

Aged(age) == Min({Long, age + 1})

\* As many failures as the longest backoff takes.
Enough == CHOOSE n \in 1..(RetryMax + 1) :
            Backoff(n) = RetryMax /\ (n > 1 => Backoff(n - 1) < RetryMax)

Resting == [at |-> "idle", trigger |-> "none", unreviewed |-> FALSE, unresolved |-> 0, age |-> 0,
            begun |-> 0]

ReassessInit ==
  /\ review = "REVIEWED" /\ recent = <<>>
  /\ fired = [t \in Triggers |-> Long]
  /\ agent = Resting /\ streak = 0 /\ asked = [age |-> Long, known |-> TRUE] /\ stumbles = 0

-----------------------------------------------------------------------------
(* Around the role.                                                         *)

\* The latest cycles by the time they began.
WithCycle(outcome, begunSince) ==
  LET all == InsertAt(recent, begunSince + 1, outcome) IN SubSeq(all, 1, Min({Window, Len(all)}))

\* A mandatory sale, or part of one, is a reviewed cycle of its own.
MandatoryReduction ==
  /\ agent.begun < MaxMeanwhile
  /\ review' = "REVIEWED" /\ streak' = 0 /\ recent' = WithCycle("CLEARED", 0)
  /\ agent' = IF agent.at = "asking" THEN [agent EXCEPT !.begun = @ + 1] ELSE agent
  /\ UNCHANGED <<fired, asked, stumbles>>

AgentTick ==
  /\ agent.at = "decide" => agent.age < MaxWait
  /\ fired' = [t \in Triggers |-> Aged(fired[t])]
  /\ agent' = [agent EXCEPT !.age = IF agent.at = "idle" THEN 0 ELSE Aged(@)]
  /\ asked' = [asked EXCEPT !.age = Aged(@)]
  /\ UNCHANGED <<review, recent, streak, stumbles>>

-----------------------------------------------------------------------------
(* One position in one cycle of the role.                                   *)

\* Mutant: the failures of the latest cycle alone.
UnresolvedLast == IF recent = <<>> \/ Head(recent) = "CLEARED" THEN 0 ELSE 1

\* listPositionTargets: the failures among the latest cycles, unless the last one cleared.
Unresolved ==
  IF recent = <<>> \/ Head(recent) = "CLEARED" THEN 0
  ELSE Cardinality({i \in DOMAIN recent : recent[i] # "CLEARED"})

\* The price, the due time and the safety state change freely, so any trigger may be the one
\* of the highest priority that is due.
ListPosition ==
  /\ agent.at = "idle"
  /\ \E t \in Triggers :
       agent' = [Resting EXCEPT !.at = "decide", !.trigger = t,
                   !.unreviewed = review # "REVIEWED", !.unresolved = Unresolved]
  /\ UNCHANGED <<review, recent, fired, streak, asked, stumbles>>

\* event.at is the start of the role's cycle, the history is read when the target comes up.
Since(age) == age - agent.age

LastFired == Min({fired[t] : t \in Triggers})

\* decideAutomation, for an enabled rule in an enabled mode within its budget.
Due ==
  /\ Since(LastFired) >= Cooldown[agent.trigger]
  /\ Since(fired[agent.trigger]) >= Interval[agent.trigger]
  /\ agent.unreviewed /\ LastFired < Long => Since(LastFired) >= Backoff(agent.unresolved)

\* The mode, the activity state or the spend gate may refuse as well.
Skip ==
  /\ agent.at = "decide" /\ agent' = Resting
  /\ UNCHANGED <<review, recent, fired, streak, asked, stumbles>>

Invoke ==
  /\ agent.at = "decide" /\ Due
  /\ agent' = [Resting EXCEPT !.at = "asking", !.trigger = agent.trigger]
  /\ asked' = [age |-> 0, known |-> FALSE]
  /\ UNCHANGED <<review, recent, fired, streak, stumbles>>

\* reviewTransition on the cycle's outcome, in the transaction that stores the cycle.
ReviewOf(outcome) ==
  CASE outcome = "CLEARED" -> "REVIEWED"
    [] outcome = "NO_BUDGET" -> "BUDGET_PAUSED"
    [] OTHER -> "PROTECTION_ONLY"

PersistOutcome ==
  /\ agent.at = "asking" /\ agent' = [agent EXCEPT !.at = "record", !.begun = 0]
  /\ \E outcome \in {"CLEARED", "NO_BUDGET", "FAILED"} :
       /\ review' = ReviewOf(outcome)
       /\ recent' = WithCycle(IF outcome = "CLEARED" THEN outcome ELSE "FAILED",
                              Min({agent.begun, Len(recent)}))
       /\ streak' = IF outcome = "CLEARED" THEN 0 ELSE Min({Enough, streak + 1})
  /\ UNCHANGED <<fired, asked, stumbles>>

\* recordAutomationRun, created when the target was taken up.
RecordRun ==
  /\ agent.at = "record" /\ agent' = Resting
  /\ fired' = [fired EXCEPT ![agent.trigger] = agent.age]
  /\ asked' = [asked EXCEPT !.known = TRUE]
  /\ UNCHANGED <<review, recent, streak, stumbles>>

\* A throw or a death between the question and its run: what the cycle stored stands.
Stumble ==
  /\ stumbles < MaxStumbles /\ stumbles' = stumbles + 1
  /\ agent.at \in {"asking", "record"} /\ agent' = Resting
  /\ UNCHANGED <<review, recent, fired, streak, asked>>

ReassessNext ==
  \/ MandatoryReduction \/ AgentTick
  \/ ListPosition \/ Skip \/ Invoke \/ PersistOutcome \/ RecordRun \/ Stumble

ReassessSpec == ReassessInit /\ [][ReassessNext]_reassessVars

(* Ages, outcomes and the cycles looked back at stay within their types.       *)
ReassessTypeOK ==
  /\ review \in {"REVIEWED", "PROTECTION_ONLY", "BUDGET_PAUSED"}
  /\ recent \in SeqOf({"CLEARED", "FAILED"}, Window)
  /\ fired \in [Triggers -> 0..Long]
  /\ agent.at \in {"idle", "decide", "asking", "record"}
  /\ agent.trigger \in Triggers \cup {"none"}
  /\ agent.unreviewed \in BOOLEAN /\ agent.unresolved \in 0..Window
  /\ agent.age \in 0..Long /\ agent.begun \in 0..MaxMeanwhile
  /\ streak \in 0..Enough /\ asked \in [age : 0..Long, known : BOOLEAN]

(* The models are not asked again about a position that n reviews in a row  *)
(* failed to clear before the backoff of n has passed since they were last  *)
(* asked, whatever trigger comes (D39; automations.ts:70 "Consecutive       *)
(* unresolved cycles before the retry backoff reaches its ceiling"), unless *)
(* the last question left no run behind.                                    *)
RetriesBackOff ==
  [][agent.at = "decide" /\ agent'.at = "asking" /\ review # "REVIEWED" /\ asked.known =>
       asked.age >= Backoff(streak)]_reassessVars
=============================================================================
