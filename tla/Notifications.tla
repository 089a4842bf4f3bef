--------------------------- MODULE Notifications ---------------------------
(* The role notifications, for one CRITICAL alert class with the dead-man   *)
(* rule that the role itself raises and resolves: acknowledgement, raise,   *)
(* escalation, dead-man pause and delivery, cycle after cycle. A cycle's    *)
(* now is read at its start; heartbeats, whose row is never open, are left  *)
(* out.                                                                     *)
EXTENDS Integers, FiniteSets

CONSTANTS
  Channels,        \* channelsBySeverity.CRITICAL
  Unconfigured,    \* channels whose sender always answers CHANNEL_NOT_CONFIGURED
  EscalateAfter,   \* escalationIntervalMs, in ticks
  DeadManAfter,    \* deadManIntervalMs, in ticks
  MaxLevel,        \* escalationMaxLevel
  MaxTroubles      \* bound: failed sends and dead cycles

ASSUME NotificationsAssumption ==
  /\ Unconfigured \subseteq Channels
  /\ {EscalateAfter, DeadManAfter, MaxLevel} \subseteq Nat \ {0} /\ MaxTroubles \in Nat

VARIABLES
  condition,       \* the fact behind the alert holds
  alert,           \* the open row, its age and its deliveries
  acknowledging,   \* an ACKNOWLEDGE_ALERT request for it is pending
  deadMan,         \* the session pause of the dead-man rule, and the alert that tells of it
  teller,          \* the role: its step, the channels left, a send whose row is not written
  troubles

alertVars == <<condition, alert, acknowledging, deadMan, teller, troubles>>

Never == -1
NoAlert == [open |-> FALSE, acked |-> FALSE, level |-> 0, age |-> 0, lastTry |-> Never,
            paused |-> FALSE, confirmed |-> {}]
Asleep == [at |-> "idle", todo |-> {}, sent |-> {}]

AlertInit ==
  /\ condition = FALSE /\ alert = NoAlert /\ acknowledging = FALSE
  /\ deadMan = [paused |-> FALSE, told |-> FALSE]
  /\ teller = Asleep /\ troubles = 0

----------------------------------------------------------------------------
(* The world.                                                               *)

ConditionChanges ==
  /\ condition' = ~condition
  /\ UNCHANGED <<alert, acknowledging, deadMan, teller, troubles>>

OperatorAcknowledges ==
  /\ alert.open /\ ~alert.acked /\ acknowledging' = TRUE
  /\ UNCHANGED <<condition, alert, deadMan, teller, troubles>>

\* Time counts while no cycle runs: a cycle is shorter than a tick. Ages beyond the
\* intervals are alike.
Later(t) == IF t = Never \/ t = EscalateAfter + DeadManAfter THEN t ELSE t + 1

TimePasses ==
  /\ teller.at = "idle" /\ alert.open
  /\ alert' = [alert EXCEPT !.age = Later(@), !.lastTry = Later(@)]
  /\ UNCHANGED <<condition, acknowledging, deadMan, teller, troubles>>

----------------------------------------------------------------------------
(* A cycle.                                                                 *)

TellerTo(step) == teller' = [teller EXCEPT !.at = step]

Trouble == troubles < MaxTroubles /\ troubles' = troubles + 1

Acknowledge ==
  /\ teller.at = "idle" /\ TellerTo("facts")
  /\ alert' = [alert EXCEPT !.acked = @ \/ (alert.open /\ acknowledging)]
  /\ acknowledging' = FALSE
  /\ UNCHANGED <<condition, deadMan, troubles>>

\* The class is raised when its fact holds and no row is open, resolved when it does not.
RaiseOrResolve ==
  /\ teller.at = "facts" /\ TellerTo("escalate")
  /\ alert' = CASE condition /\ ~alert.open -> [NoAlert EXCEPT !.open = TRUE]
                [] ~condition -> NoAlert
                [] OTHER -> alert
  /\ UNCHANGED <<condition, acknowledging, deadMan, troubles>>

\* lastEscalatedAt ?? raisedAt: the newest try at the level, from level 1 on.
Since == IF alert.lastTry = Never THEN alert.age ELSE alert.lastTry

Escalate ==
  /\ teller.at = "escalate" /\ TellerTo("deadman")
  /\ alert' = IF alert.open /\ ~alert.acked /\ alert.level < MaxLevel /\ Since >= EscalateAfter
              THEN [alert EXCEPT !.level = @ + 1, !.lastTry = Never] ELSE alert
  /\ UNCHANGED <<condition, acknowledging, deadMan, troubles>>

\* Mutant: the dead man counts from the last escalation.
DueSinceEscalation == alert.open /\ ~alert.acked /\ ~alert.paused /\ Since >= DeadManAfter

DeadManDue == alert.open /\ ~alert.acked /\ ~alert.paused /\ alert.age >= DeadManAfter

\* applyDeadManPause; its own alert follows in another statement.
ApplyDeadManPause ==
  /\ teller.at = "deadman" /\ DeadManDue /\ TellerTo("tell")
  /\ alert' = [alert EXCEPT !.paused = TRUE]
  /\ deadMan' = [deadMan EXCEPT !.paused = TRUE]
  /\ UNCHANGED <<condition, acknowledging, troubles>>

TellOfPause ==
  /\ teller.at = "tell" /\ TellerTo("list")
  /\ deadMan' = [deadMan EXCEPT !.told = TRUE]
  /\ UNCHANGED <<condition, alert, acknowledging, troubles>>

\* The channels without a confirmed delivery at the level.
Undelivered == {c \in Channels : <<c, alert.level>> \notin alert.confirmed}

ListDeliveries ==
  /\ teller.at = "list" \/ (teller.at = "deadman" /\ ~DeadManDue)
  /\ teller' = [teller EXCEPT !.at = "deliver", !.todo = IF alert.open THEN Undelivered ELSE {}]
  /\ UNCHANGED <<condition, alert, acknowledging, deadMan, troubles>>

Send(c) ==
  /\ teller.at = "deliver" /\ c \in teller.todo
  /\ \/ /\ c \notin Unconfigured /\ UNCHANGED troubles
        /\ teller' = [teller EXCEPT !.at = "record", !.todo = @ \ {c}, !.sent = {c}]
     \/ /\ IF c \in Unconfigured THEN UNCHANGED troubles ELSE Trouble
        /\ teller' = [teller EXCEPT !.at = "record", !.todo = @ \ {c}, !.sent = {}]
  /\ UNCHANGED <<condition, alert, acknowledging, deadMan>>

\* recordDelivery, confirmed or with the error; every row counts as a try.
RecordDelivery ==
  /\ teller.at = "record"
  /\ teller' = [teller EXCEPT !.at = "deliver", !.sent = {}]
  /\ alert' = [alert EXCEPT !.confirmed = @ \cup {<<c, alert.level>> : c \in teller.sent},
                            !.lastTry = IF alert.level > 0 THEN 0 ELSE Never]
  /\ UNCHANGED <<condition, acknowledging, deadMan, troubles>>

EndAlertCycle ==
  /\ teller.at = "deliver" /\ teller.todo = {} /\ teller' = Asleep
  /\ UNCHANGED <<condition, alert, acknowledging, deadMan, troubles>>

\* The process dies, or a call to the database throws.
CycleDies ==
  /\ teller.at # "idle" /\ Trouble /\ teller' = Asleep
  /\ UNCHANGED <<condition, alert, acknowledging, deadMan>>

TellerStep ==
  \/ Acknowledge \/ RaiseOrResolve \/ Escalate \/ ApplyDeadManPause \/ TellOfPause
  \/ ListDeliveries \/ RecordDelivery \/ EndAlertCycle
  \/ \E c \in Channels : Send(c)

AlertNext == ConditionChanges \/ OperatorAcknowledges \/ TimePasses \/ CycleDies \/ TellerStep

\* The loop runs on and time passes.
AlertSpec == AlertInit /\ [][AlertNext]_alertVars /\ WF_alertVars(TellerStep) /\ SF_alertVars(TimePasses)

----------------------------------------------------------------------------
AlertTypeOK ==
  /\ alert.level \in 0..MaxLevel /\ alert.age \in 0..EscalateAfter + DeadManAfter
  /\ alert.lastTry \in {Never} \cup 0..EscalateAfter + DeadManAfter
  /\ alert.confirmed \subseteq Channels \X (0..MaxLevel)
  /\ teller.todo \cup teller.sent \subseteq Channels /\ troubles \in 0..MaxTroubles
  /\ {condition, acknowledging, alert.open, alert.acked, alert.paused, deadMan.paused, deadMan.told} \subseteq BOOLEAN

Unheeded == alert.open /\ ~alert.acked

Told == \A c \in Channels \ Unconfigured : \E l \in 0..MaxLevel : <<c, l>> \in alert.confirmed

(* A critical alert nobody acknowledges ends in the pause of new entries    *)
(* and on every channel that answers, unless its condition clears: though   *)
(* cycles die between a send and its row or a pause and its row, sends      *)
(* fail, and one channel never answers.                                     *)
DeadManFires == Unheeded ~> (~Unheeded \/ (alert.paused /\ Told))

(* Unacknowledged CRITICAL alerts re-send on a schedule, up to the maximum  *)
(* level.                                                                   *)
EscalationReachesTop == Unheeded ~> (alert.level = MaxLevel \/ ~Unheeded)
=============================================================================
