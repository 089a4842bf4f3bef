----------------------------- MODULE ShadowSync ------------------------------
(* The position shadow of the worker (15.10A): the role shadow-sync numbers  *)
(* the open book in a journal file of its own and pushes it to the executor, *)
(* which keeps the newest one for the time the database is down. Between     *)
(* them: a database that goes down, pushes that arrive late or never, a      *)
(* worker that dies (inside a write of its file too), and lost disks.        *)
EXTENDS Integers, Sequences, SequencesExt

CONSTANTS
  Books,         \* contents of the open book
  MaxChanges,    \* bound: changes of the book
  MaxFaults      \* bound: outages, crashes, lost disks and closed alerts

ASSUME ShadowAssumption == Books # {} /\ "none" \notin Books /\ {MaxChanges, MaxFaults} \subseteq Nat

VARIABLES
  book,          \* the open positions in the database
  dbUp,          \* the database answers
  shadows,       \* the entries of the worker's file that parse
  tail,          \* how its last line ends
  shadowRole,    \* the role: its step, the shadow in hand, failed reads
  pushes,        \* pushes on their way to the executor
  held,          \* the newest SHADOW_SYNCED of the executor's journal
  refused,       \* an emergency close was refused as SHADOW_STALE
  entryPause,    \* the sticky pause of a refused push
  alert,         \* an open alert SHADOW_SYNC_REGRESSION
  lost,          \* the file has lost an entry, or was not read (history)
  changes, faults

shadowVars == <<book, dbUp, shadows, tail, shadowRole, pushes, held, refused,
                entryPause, alert, lost, changes, faults>>
fileVars == <<shadows, tail, lost>>
alarmVars == <<entryPause, alert>>

NoShadow == [sequence |-> 0, book |-> "none"]
Shadows == [sequence : 1..(MaxChanges + MaxFaults + 1), book : Books]
Latest == IF shadows = <<>> THEN NoShadow ELSE Last(shadows)
RoleAtRest == [at |-> "idle", shadow |-> NoShadow, failures |-> 0]
Fault == faults < MaxFaults /\ faults' = faults + 1

ShadowInit ==
  /\ book \in Books /\ dbUp = TRUE /\ shadows = <<>> /\ tail = "clean"
  /\ shadowRole = RoleAtRest /\ pushes = {} /\ held = NoShadow /\ refused = FALSE
  /\ entryPause = "none" /\ alert = FALSE /\ lost = FALSE /\ changes = 0 /\ faults = 0

----------------------------------------------------------------------------
(* What happens around the role.                                            *)

BookChanges ==
  /\ dbUp /\ changes < MaxChanges /\ changes' = changes + 1
  /\ book' \in Books \ {book}
  /\ UNCHANGED <<dbUp, fileVars, shadowRole, pushes, held, refused, alarmVars, faults>>

DatabaseFails ==
  /\ dbUp /\ Fault /\ dbUp' = FALSE
  /\ UNCHANGED <<book, fileVars, shadowRole, pushes, held, refused, alarmVars, changes>>

DatabaseReturns ==
  /\ ~dbUp /\ dbUp' = TRUE
  /\ UNCHANGED <<book, fileVars, shadowRole, pushes, held, refused, alarmVars, changes, faults>>

WorkerDies ==
  /\ shadowRole # RoleAtRest /\ Fault /\ shadowRole' = RoleAtRest
  /\ UNCHANGED <<book, dbUp, fileVars, pushes, held, refused, alarmVars, changes>>

WorkerDiskLost ==
  /\ shadows # <<>> /\ Fault
  /\ shadows' = <<>> /\ tail' = "clean" /\ lost' = TRUE /\ shadowRole' = RoleAtRest
  /\ UNCHANGED <<book, dbUp, pushes, held, refused, alarmVars, changes>>

ExecutorDiskLost ==
  /\ held # NoShadow /\ Fault /\ held' = NoShadow
  /\ UNCHANGED <<book, dbUp, fileVars, shadowRole, pushes, refused, alarmVars, changes>>

OperatorResumes ==
  /\ entryPause = "set" /\ entryPause' = "cleared"
  /\ UNCHANGED <<book, dbUp, fileVars, shadowRole, pushes, held, refused, alert, changes, faults>>

OperatorCloses ==
  /\ alert /\ Fault /\ alert' = FALSE
  /\ UNCHANGED <<book, dbUp, fileVars, shadowRole, pushes, held, refused, entryPause, changes>>

----------------------------------------------------------------------------
(* runShadowSyncCycle.                                                      *)

RoleTo(at) == shadowRole' = [shadowRole EXCEPT !.at = at]
AtRest == shadowRole' = [RoleAtRest EXCEPT !.failures = shadowRole.failures]

\* Mutant: a book that has not changed is not pushed again (DEFECT-1).
ReadBookAndReturn ==
  /\ shadowRole.at = "idle" /\ dbUp
  /\ shadowRole' = IF Latest.book = book THEN RoleAtRest
                   ELSE [at |-> "append", failures |-> 0,
                         shadow |-> [sequence |-> Latest.sequence + 1, book |-> book]]
  /\ UNCHANGED <<book, dbUp, fileVars, pushes, held, refused, alarmVars, changes, faults>>

\* The shadow of record: the newest entry when the book is still the same.
ReadBook ==
  /\ shadowRole.at = "idle" /\ dbUp
  /\ shadowRole' = IF Latest.book = book THEN [at |-> "push", shadow |-> Latest, failures |-> 0]
                   ELSE [at |-> "append", failures |-> 0,
                         shadow |-> [sequence |-> Latest.sequence + 1, book |-> book]]
  /\ UNCHANGED <<book, dbUp, fileVars, pushes, held, refused, alarmVars, changes, faults>>

\* Any error of reading the file counts as no file: the numbers start again at 1.
FileUnread ==
  /\ shadowRole.at = "idle" /\ dbUp /\ shadows # <<>> /\ Fault
  /\ shadowRole' = [at |-> "append", failures |-> 0, shadow |-> [sequence |-> 1, book |-> book]]
  /\ lost' = TRUE
  /\ UNCHANGED <<book, dbUp, shadows, tail, pushes, held, refused, alarmVars, changes>>

\* The second failed read in a row closes from the shadow (protectFromShadow,
\* a stop that is hit), and the executor refuses a sequence below its own.
ReadFails ==
  /\ shadowRole.at = "idle" /\ ~dbUp
  /\ shadowRole' = [RoleAtRest EXCEPT !.failures = IF shadowRole.failures < 2 THEN @ + 1 ELSE 2]
  /\ refused' = (refused \/ (shadowRole.failures >= 1 /\ 0 < Latest.sequence /\ Latest.sequence < held.sequence))
  /\ UNCHANGED <<book, dbUp, fileVars, pushes, held, alarmVars, changes, faults>>

\* What the file still holds once something is written behind its last line.
Kept == IF tail = "unterminated" THEN Front(shadows) ELSE shadows

\* Mutant: the entry is still in a buffer when the shadow is pushed.
AppendBuffered ==
  /\ shadowRole.at = "append" /\ RoleTo("push")
  /\ UNCHANGED <<book, dbUp, fileVars, pushes, held, refused, alarmVars, changes, faults>>

\* A line behind a line that was not finished is one line, and does not parse.
AppendShadow ==
  /\ shadowRole.at = "append" /\ RoleTo("push")
  /\ shadows' = IF tail = "clean" THEN Append(shadows, shadowRole.shadow) ELSE Kept
  /\ tail' = "clean" /\ lost' = (lost \/ tail # "clean")
  /\ UNCHANGED <<book, dbUp, pushes, held, refused, alarmVars, changes, faults>>

\* The worker dies inside appendFile: in the line, or before its newline.
DiesInAppend ==
  /\ shadowRole.at = "append" /\ Fault /\ shadowRole' = RoleAtRest
  /\ \/ tail' = "torn" /\ shadows' = Kept /\ lost' = (lost \/ tail = "unterminated")
     \/ /\ tail = "clean" /\ tail' = "unterminated"
        /\ shadows' = Append(shadows, shadowRole.shadow) /\ UNCHANGED lost
  /\ UNCHANGED <<book, dbUp, pushes, held, refused, alarmVars, changes>>

Push ==
  /\ shadowRole.at = "push" /\ RoleTo("await")
  /\ pushes' = pushes \cup {shadowRole.shadow}
  /\ UNCHANGED <<book, dbUp, fileVars, held, refused, alarmVars, changes, faults>>

\* syncShadow of the executor, and the answer when it is still awaited.
SyncShadow(s) ==
  /\ s \in pushes /\ pushes' = pushes \ {s}
  /\ held' = IF s.sequence > held.sequence THEN s ELSE held
  /\ IF shadowRole.at = "await" /\ shadowRole.shadow = s
     THEN IF s.sequence < held.sequence THEN RoleTo("alarm") ELSE AtRest
     ELSE UNCHANGED shadowRole
  /\ UNCHANGED <<book, dbUp, fileVars, refused, alarmVars, changes, faults>>

\* The client gives up; the push is lost, or still on its way.
PushFails ==
  /\ shadowRole.at = "await" /\ AtRest
  /\ pushes' \in {pushes, pushes \ {shadowRole.shadow}}
  /\ UNCHANGED <<book, dbUp, fileVars, held, refused, alarmVars, changes, faults>>

\* openAlertExists and insertEntryPauseOnce: an open alert is left alone.
SetAlarm ==
  /\ shadowRole.at = "alarm" /\ dbUp
  /\ IF alert THEN AtRest /\ UNCHANGED entryPause ELSE RoleTo("raise") /\ entryPause' = "set"
  /\ UNCHANGED <<book, dbUp, fileVars, pushes, held, refused, alert, changes, faults>>

Raise ==
  /\ shadowRole.at = "raise" /\ dbUp
  /\ alert' = TRUE /\ AtRest
  /\ UNCHANGED <<book, dbUp, fileVars, pushes, held, refused, entryPause, changes, faults>>

AlarmThrows ==
  /\ shadowRole.at \in {"alarm", "raise"} /\ ~dbUp /\ AtRest
  /\ UNCHANGED <<book, dbUp, fileVars, pushes, held, refused, alarmVars, changes, faults>>

Awaited(s) == SyncShadow(s) /\ shadowRole.at = "await" /\ shadowRole.shadow = s
ShadowStep ==
  ReadBook \/ ReadFails \/ AppendShadow \/ Push \/ SetAlarm \/ Raise \/ AlarmThrows

ShadowNext ==
  \/ BookChanges \/ DatabaseFails \/ DatabaseReturns \/ WorkerDies \/ WorkerDiskLost \/ ExecutorDiskLost
  \/ OperatorResumes \/ OperatorCloses \/ FileUnread \/ DiesInAppend \/ PushFails
  \/ ShadowStep \/ \E s \in pushes : SyncShadow(s)

\* The role's loop never ends, and one push in many is answered in time.
ShadowSpec ==
  /\ ShadowInit /\ [][ShadowNext]_shadowVars
  /\ WF_shadowVars(ShadowStep) /\ WF_shadowVars(DatabaseReturns)
  /\ SF_shadowVars(\E s \in pushes : Awaited(s))

----------------------------------------------------------------------------
ShadowTypeOK ==
  /\ book \in Books /\ \A i \in DOMAIN shadows : shadows[i] \in Shadows
  /\ tail \in {"clean", "torn", "unterminated"}
  /\ shadowRole \in [at : {"idle", "append", "push", "await", "alarm", "raise"},
                     shadow : Shadows \cup {NoShadow}, failures : 0..2]
  /\ pushes \subseteq Shadows /\ held \in Shadows \cup {NoShadow}
  /\ entryPause \in {"none", "set", "cleared"}
  /\ {dbUp, refused, alert, lost} \subseteq BOOLEAN

(* As long as the worker's file was read and lost no entry, the executor     *)
(* holds one of its entries, the same under the same number, and never       *)
(* refuses a close of the worker as stale: whatever pushes are late, and     *)
(* whoever restarts.                                                         *)
ShadowAgrees ==
  ~lost => /\ held # NoShadow => \E i \in DOMAIN shadows : shadows[i] = held
           /\ ~refused

\* The executor holds another book under the number of the worker's newest
\* entry, and answers IN_SYNC.
NumberReused == held.sequence = Latest.sequence /\ held.book # Latest.book

(* Once faults stop, an executor beside a worker with a shadow file comes to  *)
(* hold the open book, or its refusal has paused entries and stands as an    *)
(* open alert; the exception is a lost entry whose number is used again.     *)
SyncSettles ==
  <>[](shadows # <<>> =>
        held.book = book \/ (alert /\ entryPause # "none") \/ NumberReused)
=============================================================================
