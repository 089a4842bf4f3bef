------------------------------ MODULE Session ------------------------------
(* The role session of the worker, with everything that writes the same     *)
(* rows beside it: the operator's control requests and step-up, the         *)
(* dead-man pause of the role notifications, and calls that throw.          *)
(*                                                                          *)
(* A cycle works on a copy of the open session (its variable session). Each *)
(* transition writes the whole row from that copy, pause included, and then *)
(* reloads it; between two statements any other role may write.             *)
EXTENDS Integers, Sequences, FiniteSets, FiniteSetsExt

CONSTANTS
  MaxRequests,   \* bound: control requests
  MaxSessions,   \* bound: session rows
  MaxStrikes,    \* bound: dead-man pauses
  MaxThrows,     \* bound: calls that throw
  AutoStart      \* SESSION_AUTOSTART

ASSUME SessionAssumption ==
  /\ {MaxRequests, MaxSessions, MaxStrikes, MaxThrows} \subseteq Nat
  /\ AutoStart \in BOOLEAN

VARIABLES
  rows,          \* the session rows, oldest first: activity and paused
  sticky,        \* an uncleared row of ops.entry_pauses exists
  request,       \* the control requests, oldest first: kind, state, verified
  role,          \* the session role: its step, its copy, its batch
  struck,        \* a dead-man pause no RESUME has cleared since (history)
  strikes, throws

sessionVars == <<rows, sticky, request, role, struck, strikes, throws>>

Kinds == {"START_SESSION", "END_SESSION", "PAUSE_NEW_ENTRIES", "RESUME_NEW_ENTRIES"}
Awake == {"STARTING", "WATCH", "ACTIVE"}
NoSession == [id |-> 0, activity |-> "OFF", paused |-> "no"]
Resting == [at |-> "idle", step |-> "none", copy |-> NoSession,
            to |-> [activity |-> "OFF", paused |-> "no"], batch |-> {}]

SessionInit ==
  /\ rows = <<>> /\ sticky = FALSE /\ request = <<>> /\ role = Resting
  /\ struck = FALSE /\ strikes = 0 /\ throws = 0

OpenSessions == {s \in DOMAIN rows : rows[s].activity # "OFF"}
\* findOpenSession: the newest session that is not OFF.
Current == IF OpenSessions = {} THEN 0 ELSE Max(OpenSessions)
Load(s) == IF s = 0 THEN NoSession ELSE [id |-> s, activity |-> rows[s].activity, paused |-> rows[s].paused]
Req == Min(role.batch)

----------------------------------------------------------------------------
(* The operator and the other writers.                                      *)

FileRequest(k) ==
  /\ Len(request) < MaxRequests
  /\ request' = Append(request, [kind |-> k, state |-> "PENDING", verified |-> FALSE])
  /\ UNCHANGED <<rows, sticky, role, struck, strikes, throws>>

\* A verified step-up assertion is bound to one request, and lapses.
StepUp(r) ==
  /\ request[r].kind = "RESUME_NEW_ENTRIES" /\ request[r].state = "PENDING"
  /\ request' = [request EXCEPT ![r].verified = ~@]
  /\ UNCHANGED <<rows, sticky, role, struck, strikes, throws>>

\* applyDeadManPause: the running sessions and the sticky row, at once.
DeadManPause ==
  /\ strikes < MaxStrikes /\ strikes' = strikes + 1
  /\ rows' = [s \in DOMAIN rows |->
       IF s \in OpenSessions /\ rows[s].paused = "no"
       THEN [rows[s] EXCEPT !.paused = "DEAD_MAN"] ELSE rows[s]]
  /\ sticky' = TRUE /\ struck' = TRUE
  /\ UNCHANGED <<request, role, throws>>

----------------------------------------------------------------------------
(* runSessionCycle: the pending requests, oldest first.                     *)

BeginCycle ==
  /\ role.at = "idle"
  /\ role' = [Resting EXCEPT !.at = "list", !.copy = Load(Current)]
  /\ UNCHANGED <<rows, sticky, request, struck, strikes, throws>>

\* Mutant: only the requests a role may always grant are listed.
ListWithoutResume ==
  /\ role.at = "list"
  /\ role' = [role EXCEPT !.at = "next",
       !.batch = {r \in DOMAIN request :
                   request[r].state = "PENDING" /\ request[r].kind # "RESUME_NEW_ENTRIES"}]
  /\ UNCHANGED <<rows, sticky, request, struck, strikes, throws>>

ListRequests ==
  /\ role.at = "list"
  /\ role' = [role EXCEPT !.at = "next",
       !.batch = {r \in DOMAIN request : request[r].state = "PENDING"}]
  /\ UNCHANGED <<rows, sticky, request, struck, strikes, throws>>

Write(step, activity, paused) ==
  role' = [role EXCEPT !.at = "persist", !.step = step,
                       !.to = [activity |-> activity, paused |-> paused]]
Refuse == role' = [role EXCEPT !.at = "answer", !.step = "REJECTED"]

TakeStart ==
  /\ request[Req].kind = "START_SESSION"
  /\ IF role.copy.id # 0 THEN Refuse
     ELSE role' = [role EXCEPT !.at = "create", !.step = "START"]

TakeEnd ==
  /\ request[Req].kind = "END_SESSION"
  /\ IF role.copy.activity \in Awake THEN Write("END", "WIND_DOWN", role.copy.paused)
     ELSE Refuse

TakePause ==
  /\ request[Req].kind = "PAUSE_NEW_ENTRIES"
  /\ IF role.copy.id = 0 THEN Refuse
     ELSE Write("PAUSE", role.copy.activity,
                IF role.copy.paused = "no" THEN "OPERATOR" ELSE role.copy.paused)

TakeResume ==
  /\ request[Req].kind = "RESUME_NEW_ENTRIES"
  /\ IF role.copy.id # 0 /\ request[Req].verified THEN Write("RESUME", role.copy.activity, "no")
     ELSE Refuse

NextRequest ==
  /\ role.at = "next" /\ role.batch # {}
  /\ TakeStart \/ TakeEnd \/ TakePause \/ TakeResume
  /\ UNCHANGED <<rows, sticky, request, struck, strikes, throws>>

\* resolveControlRequest, and the next request of the batch.
Answer ==
  /\ role.at = "answer"
  /\ request' = [request EXCEPT ![Req].state = IF role.step = "REJECTED" THEN "REJECTED" ELSE "ACCEPTED"]
  /\ role' = [role EXCEPT !.at = "next", !.step = "none", !.batch = @ \ {Req}]
  /\ UNCHANGED <<rows, sticky, struck, strikes, throws>>

----------------------------------------------------------------------------
(* persist, start, and what follows a reload.                               *)

\* createSession inserts an OFF row; START is written to it next.
CreateSession ==
  /\ role.at = "create" /\ Len(rows) < MaxSessions
  /\ rows' = Append(rows, [activity |-> "OFF", paused |-> "no"])
  /\ role' = [role EXCEPT !.at = "persist", !.copy = [NoSession EXCEPT !.id = Len(rows) + 1],
                          !.to = [activity |-> "STARTING", paused |-> "no"]]
  /\ UNCHANGED <<sticky, request, struck, strikes, throws>>

PersistTransition ==
  /\ role.at = "persist"
  /\ rows' = [rows EXCEPT ![role.copy.id] = role.to]
  /\ role' = [role EXCEPT !.at = "reload"]
  /\ UNCHANGED <<sticky, request, struck, strikes, throws>>

\* Mutant: after a request the role goes on with the copy it had before.
ReloadNothing ==
  /\ role.at = "reload"
  /\ role' = IF role.step = "DRIVE" THEN Resting ELSE [role EXCEPT
       !.copy = IF role.step \in {"START", "HONOUR"} THEN Load(role.copy.id) ELSE @,
       !.at = CASE role.step = "START" -> "sticky"
                [] role.step = "RESUME" -> "clear"
                [] OTHER -> IF role.batch = {} THEN "drive" ELSE "answer"]
  /\ UNCHANGED <<rows, sticky, request, struck, strikes, throws>>

Reload ==
  /\ role.at = "reload"
  /\ role' = IF role.step = "DRIVE" THEN Resting ELSE [role EXCEPT !.copy = Load(role.copy.id),
       !.at = CASE role.step = "START" -> "sticky"
                [] role.step = "RESUME" -> "clear"
                [] OTHER -> IF role.batch = {} THEN "drive" ELSE "answer"]
  /\ UNCHANGED <<rows, sticky, request, struck, strikes, throws>>

\* activeEntryPauses: a session that starts under a sticky pause is paused.
HonourSticky ==
  /\ role.at = "sticky"
  /\ IF sticky THEN Write("HONOUR", role.copy.activity, "STICKY")
     ELSE role' = [role EXCEPT !.at = IF role.batch = {} THEN "drive" ELSE "answer"]
  /\ UNCHANGED <<rows, sticky, request, struck, strikes, throws>>

ClearSticky ==
  /\ role.at = "clear"
  /\ sticky' = FALSE /\ struck' = FALSE
  /\ role' = [role EXCEPT !.at = "answer"]
  /\ UNCHANGED <<rows, request, strikes, throws>>

\* After the requests: start on schedule when nothing runs, then drive.
AfterRequests ==
  /\ role.at = "next" /\ role.batch = {}
  /\ role' = IF role.copy.id # 0 THEN [role EXCEPT !.at = "drive"]
             ELSE IF AutoStart /\ Len(rows) < MaxSessions
                  THEN [role EXCEPT !.at = "create", !.step = "START"] ELSE Resting
  /\ UNCHANGED <<rows, sticky, request, struck, strikes, throws>>

\* The machine, from stored facts: gates, presence, exposure.
DriveTo(activity) ==
  CASE activity = "STARTING" -> "WATCH" [] activity = "WATCH" -> "ACTIVE"
    [] activity = "ACTIVE" -> "WATCH"   [] activity = "WIND_DOWN" -> "OFF"

Drive ==
  /\ role.at = "drive"
  /\ \/ Write("DRIVE", DriveTo(role.copy.activity), role.copy.paused)
     \/ role' = Resting
  /\ UNCHANGED <<rows, sticky, request, struck, strikes, throws>>

\* A thrown call ends the request, the start or the drive it belongs to. The
\* variable session is assigned only when persist, or start, has returned.
Starting == role.at \in {"create", "persist", "reload", "sticky"} /\ role.step \in {"START", "HONOUR"}
Thrown ==
  IF role.at # "list" /\ role.batch = {} THEN Resting
  ELSE [role EXCEPT !.at = "next", !.step = "none",
                    !.copy = IF Starting THEN NoSession ELSE @,
                    !.batch = IF @ = {} THEN @ ELSE @ \ {Req}]

CallThrows ==
  /\ role.at \notin {"idle", "next"} /\ throws < MaxThrows /\ throws' = throws + 1
  /\ role' = Thrown
  /\ UNCHANGED <<rows, sticky, request, struck, strikes>>

\* At the bound on session rows the insert fails, and is tried again.
CreateFails ==
  /\ role.at = "create" /\ Len(rows) = MaxSessions
  /\ role' = Thrown
  /\ UNCHANGED <<rows, sticky, request, struck, strikes, throws>>

\* The worker dies and the next one begins its first cycle.
WorkerDies ==
  /\ role.at # "idle" /\ throws < MaxThrows /\ throws' = throws + 1
  /\ role' = Resting
  /\ UNCHANGED <<rows, sticky, request, struck, strikes>>

RoleStep ==
  \/ BeginCycle \/ ListRequests \/ NextRequest \/ Answer \/ AfterRequests
  \/ CreateSession \/ CreateFails \/ PersistTransition \/ Reload \/ HonourSticky \/ ClearSticky \/ Drive

SessionNext ==
  \/ RoleStep \/ CallThrows \/ WorkerDies \/ DeadManPause
  \/ \E k \in Kinds : FileRequest(k)
  \/ \E r \in DOMAIN request : StepUp(r)

SessionSpec == SessionInit /\ [][SessionNext]_sessionVars
SessionFairSpec == SessionSpec /\ WF_sessionVars(RoleStep)

----------------------------------------------------------------------------
SessionTypeOK ==
  /\ \A s \in DOMAIN rows :
       /\ rows[s].activity \in Awake \cup {"OFF", "WIND_DOWN"}
       /\ rows[s].paused \in {"no", "OPERATOR", "DEAD_MAN", "STICKY"}
  /\ \A r \in DOMAIN request : request[r].state \in {"PENDING", "ACCEPTED", "REJECTED"}
  /\ role.copy.id \in 0..Len(rows) /\ role.batch \subseteq DOMAIN request

Waiting(k) == \E r \in DOMAIN request : request[r].kind = k /\ request[r].state = "PENDING"

\* What the row says when a request is answered.
InEffect(kind, row) ==
  CASE kind = "START_SESSION" -> row.activity # "OFF"
    [] kind = "END_SESSION" -> row.activity = "WIND_DOWN"
    [] kind = "PAUSE_NEW_ENTRIES" -> row.paused # "no"
    [] kind = "RESUME_NEW_ENTRIES" -> row.paused \in {"no", "DEAD_MAN"} /\ (sticky => struck)

(* A request the operator was told is ACCEPTED has taken effect before, and *)
(* stands, through thrown calls and copies gone stale: an operator's pause  *)
(* ends only by a RESUME, and a session that was ended is not brought back. *)
AcceptedStands ==
  [][/\ \A r \in DOMAIN request :
          (request[r].state = "PENDING" /\ request'[r].state = "ACCEPTED") =>
            InEffect(request[r].kind, rows[role.copy.id])
     /\ \A s \in DOMAIN rows :
          /\ (rows[s].paused = "OPERATOR" /\ rows'[s].paused = "no" /\ ~Waiting("PAUSE_NEW_ENTRIES"))
               => role.step = "RESUME"
          /\ (rows[s].activity = "WIND_DOWN" /\ ~Waiting("END_SESSION"))
               => rows'[s].activity \in {"WIND_DOWN", "OFF"}]_sessionVars

(* Every control request is answered, once calls stop throwing. A START at  *)
(* the bound on sessions is the exception the bound makes.                  *)
RequestsResolve ==
  \A r \in 1..MaxRequests : r \in DOMAIN request ~>
    /\ r \in DOMAIN request
    /\ \/ request[r].state # "PENDING"
       \/ request[r].kind = "START_SESSION" /\ Len(rows) = MaxSessions

(* machine.ts:9 "PAUSED: set by anyone, cleared only by an operator with    *)
(* step-up": a paused session becomes unpaused by a RESUME and nothing else.*)
OnlyResumeUnpauses ==
  [][\A s \in DOMAIN rows : (rows[s].paused # "no" /\ rows'[s].paused = "no") => role.step = "RESUME"]_sessionVars
=============================================================================
