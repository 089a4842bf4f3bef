------------------------------ MODULE AuditTrail ------------------------------
(* The hash-chained audit ledger, the file its head is copied to outside     *)
(* the database by the role audit-checkpoint, and the verdict on both that   *)
(* the risk-authorizer caches and denies entries by. A hash stands for the   *)
(* whole history up to its event, so an event is a number used once; what    *)
(* an event says is left out.                                                *)
EXTENDS Integers, Sequences, SequencesExt

CONSTANTS
  Ttl,          \* CHAIN_STANDING_TTL_MS, in ticks
  MaxEvents,    \* bound: events ever written
  MaxMishaps    \* bound: losses, damages, failures and deaths

ASSUME AuditAssumption == Ttl \in Nat \ {0} /\ MaxEvents \in Nat \ {0} /\ MaxMishaps \in Nat

VARIABLES
  ledger,      \* audit.events: the hashes in sequence
  damaged,     \* the first sequence whose row is no longer what was hashed, 0 for none
  damage,      \* history: ticks since the damage
  written,     \* events ever written
  replica,     \* the file: its last line as latest() parses it, and whether a newline ends it
  checker,     \* the role: its step, the head it copies, the copy it read, its verdict
  recorded,    \* ok of the latest row of audit.verifications
  alarm,       \* an AUDIT_CHAIN_UNVERIFIED row is open
  asker,       \* one call of chainStanding in the authorizer
  cache,       \* verifiedHead
  mishaps

auditVars == <<ledger, damaged, damage, written, replica, checker, recorded, alarm, asker,
               cache, mishaps>>

NoPoint == [sequence |-> 0, hash |-> 0]   \* latest() answers null
NoFile  == [line |-> NoPoint, torn |-> FALSE]
Between == [at |-> "idle", head |-> NoPoint, read |-> NoPoint, ok |-> TRUE]
Quiet   == [at |-> "idle", head |-> 0, keyed |-> NoPoint, read |-> NoPoint, ok |-> FALSE,
            lost |-> FALSE]
NoVerdict == [head |-> 0, keyed |-> NoPoint, ok |-> FALSE, age |-> 0, moved |-> FALSE]

Lives(age) == age < Ttl

AuditInit ==
  /\ ledger = <<>> /\ damaged = 0 /\ damage = 0 /\ written = 0
  /\ replica = NoFile /\ checker = Between /\ recorded = TRUE /\ alarm = FALSE
  /\ asker = Quiet /\ cache = NoVerdict /\ mishaps = 0

HeadOf(events) ==
  IF events = <<>> THEN NoPoint ELSE [sequence |-> Len(events), hash |-> Last(events)]

\* verifyAgainstExternalCheckpoint, once latest() has answered.
Stands(external) ==
  /\ external # NoPoint
  /\ damaged = 0
  /\ external.sequence <= Len(ledger)
  /\ ledger[external.sequence] = external.hash

-----------------------------------------------------------------------------
(* The two stores.                                                          *)

InStores == UNCHANGED <<checker, recorded, alarm, cache>>

Mishap == mishaps < MaxMishaps /\ mishaps' = mishaps + 1

\* A call under way meets the loss.
Losing == [asker EXCEPT !.lost = asker.at # "idle"]

\* audit.chain_event(): writers are serialized, each hashes over the last row.
WriteEvent ==
  /\ written < MaxEvents /\ written' = written + 1
  /\ ledger' = Append(ledger, written + 1)
  /\ InStores /\ UNCHANGED <<damaged, damage, replica, asker, mishaps>>

\* The database comes back from a backup: the last events are gone.
RestoreLedger ==
  /\ Mishap
  /\ \E n \in 0..(Len(ledger) - 1) :
       /\ ledger' = SubSeq(ledger, 1, n)
       /\ damaged' = IF damaged > n THEN 0 ELSE damaged
       /\ damage' = IF damaged > n THEN 0 ELSE damage
  /\ asker' = Losing
  /\ InStores /\ UNCHANGED <<written, replica>>

\* A row is not what it was when it was hashed.
DamageRow ==
  /\ Mishap
  /\ damaged = 0 /\ damaged' \in DOMAIN ledger /\ damage' = 0
  /\ InStores /\ UNCHANGED <<ledger, written, replica, asker>>

\* The volume of the file is lost.
LoseReplica ==
  /\ Mishap
  /\ replica' = NoFile /\ asker' = Losing
  /\ InStores /\ UNCHANGED <<ledger, damaged, damage, written>>

\* A call of the authorizer is shorter than a tick; a verdict as old as the Ttl is none.
TimeGoesBy ==
  /\ asker.at = "idle"
  /\ damage' = IF damaged # 0 /\ damage < Ttl THEN damage + 1 ELSE damage
  /\ cache' = IF Lives(cache.age + 1) THEN [cache EXCEPT !.age = @ + 1] ELSE NoVerdict
  /\ UNCHANGED <<ledger, damaged, written, replica, checker, recorded, alarm, asker, mishaps>>

-----------------------------------------------------------------------------
(* A cycle of the role: copy the head, verify against the copy, tell.       *)

CheckerTo(step) == checker' = [checker EXCEPT !.at = step]
Finds(ok) == checker' = [Between EXCEPT !.at = "record", !.ok = ok]

InChecker == UNCHANGED <<ledger, damaged, damage, written, asker, cache>>

\* checkpointAuditChain verifies the chain first and throws when it is broken.
VerifyChain ==
  /\ checker.at = "idle"
  /\ IF damaged # 0 THEN Finds(FALSE) ELSE CheckerTo("head")
  /\ InChecker /\ UNCHANGED <<replica, recorded, alarm, mishaps>>

\* An empty ledger passes and records nothing.
ReadHead ==
  /\ checker.at = "head"
  /\ checker' = [checker EXCEPT !.head = HeadOf(ledger), !.ok = TRUE,
                   !.at = IF ledger = <<>> THEN "alert" ELSE "replicate"]
  /\ InChecker /\ UNCHANGED <<replica, recorded, alarm, mishaps>>

\* Mutant: the newline is written before the next line, not after this one.
AppendUnterminated(point) ==
  [line |-> IF replica.torn THEN NoPoint ELSE point, torn |-> TRUE]

\* A line appended to a tail without its newline continues that tail: neither parses.
AppendLine(point) ==
  [line |-> IF replica.torn THEN NoPoint ELSE point, torn |-> FALSE]

Replicate ==
  /\ checker.at = "replicate" /\ CheckerTo("insert")
  /\ replica' = AppendLine(checker.head)
  /\ InChecker /\ UNCHANGED <<recorded, alarm, mishaps>>

\* audit.checkpoints references the event: the row is refused when the event is gone.
InsertCheckpoint ==
  /\ checker.at = "insert"
  /\ IF checker.head.sequence <= Len(ledger) THEN checker' = [Between EXCEPT !.at = "read"]
     ELSE Finds(FALSE)
  /\ InChecker /\ UNCHANGED <<replica, recorded, alarm, mishaps>>

ReadReplica ==
  /\ checker.at = "read"
  /\ checker' = [checker EXCEPT !.at = "compare", !.read = replica.line]
  /\ InChecker /\ UNCHANGED <<replica, recorded, alarm, mishaps>>

CompareWithReplica ==
  /\ checker.at = "compare" /\ Finds(Stands(checker.read))
  /\ InChecker /\ UNCHANGED <<replica, recorded, alarm, mishaps>>

RecordVerification ==
  /\ checker.at = "record" /\ recorded' = checker.ok /\ CheckerTo("alert")
  /\ InChecker /\ UNCHANGED <<replica, alarm, mishaps>>

\* Raised unless one is open, resolved by a cycle that passes.
SettleAlert ==
  /\ checker.at = "alert" /\ alarm' = ~checker.ok /\ checker' = Between
  /\ InChecker /\ UNCHANGED <<replica, recorded, mishaps>>

\* What throws inside checkpoint() is a cycle that could not verify; elsewhere it ends the
\* cycle. The process may die anywhere, in the append too.
CheckerFails ==
  /\ Mishap
  /\ \/ checker.at \in {"idle", "head", "replicate", "insert"} /\ Finds(FALSE) /\ UNCHANGED replica
     \/ checker.at # "idle" /\ checker' = Between /\ UNCHANGED replica
     \/ /\ checker.at = "replicate" /\ checker' = Between
        /\ \E whole \in BOOLEAN :
             replica' = [line |-> IF whole THEN AppendLine(checker.head).line ELSE NoPoint,
                         torn |-> TRUE]
  /\ InChecker /\ UNCHANGED <<recorded, alarm>>

CheckerStep ==
  \/ VerifyChain \/ ReadHead \/ Replicate \/ InsertCheckpoint \/ ReadReplica
  \/ CompareWithReplica \/ RecordVerification \/ SettleAlert

-----------------------------------------------------------------------------
(* A call of chainStanding.                                                 *)

InAsker == UNCHANGED <<ledger, damaged, damage, written, replica, checker, recorded, alarm,
                       mishaps>>

Answered(ok) == [asker EXCEPT !.at = "answered", !.head = 0, !.ok = ok]

AskHead ==
  /\ asker.at = "idle"
  /\ asker' = IF ledger = <<>> THEN Answered(FALSE)
              ELSE [Quiet EXCEPT !.at = "replica", !.head = Last(ledger)]
  /\ InAsker /\ UNCHANGED cache

\* Mutant: the key before DEFECT-3, the ledger's head alone.
KeyMatchesHead(head, external) == cache.head = head

\* chainStandingCacheKey names both stores.
KeyMatches(head, external) == cache.head = head /\ cache.keyed = external

AskReplica ==
  /\ asker.at = "replica"
  /\ LET external == replica.line
         asked == [asker EXCEPT !.keyed = external, !.read = external]
     IN  asker' = IF KeyMatches(asker.head, external)
                  THEN [asked EXCEPT !.at = "answered", !.head = 0, !.ok = cache.ok]
                  ELSE [asked EXCEPT !.at = "reread"]
  /\ InAsker /\ UNCHANGED cache

\* The verification reads both stores again; its verdict is kept under the first reading.
AskAgain ==
  /\ asker.at = "reread"
  /\ asker' = [asker EXCEPT !.at = "verify", !.read = replica.line]
  /\ InAsker /\ UNCHANGED cache

AskVerify ==
  /\ asker.at = "verify"
  /\ asker' = Answered(Stands(asker.read))
  /\ cache' = [head |-> asker.head, keyed |-> asker.keyed, ok |-> Stands(asker.read), age |-> 0,
               moved |-> asker.read # asker.keyed \/ HeadOf(ledger).hash # asker.head]
  /\ InAsker

\* The authorizer goes on with the answer.
CallEnds == asker.at = "answered" /\ asker' = Quiet /\ InAsker /\ UNCHANGED cache

AuthorizerRestarts ==
  /\ cache # NoVerdict /\ cache' = NoVerdict /\ asker' = Quiet
  /\ InAsker

-----------------------------------------------------------------------------

AuditNext ==
  \/ WriteEvent \/ RestoreLedger \/ DamageRow \/ LoseReplica \/ TimeGoesBy
  \/ CheckerStep \/ CheckerFails
  \/ AskHead \/ AskReplica \/ AskAgain \/ AskVerify \/ CallEnds \/ AuthorizerRestarts

AuditSpec == AuditInit /\ [][AuditNext]_auditVars /\ WF_auditVars(CheckerStep)

Points == [sequence : 0..MaxEvents, hash : 0..MaxEvents]

(* Ledger, file and verdicts stay within their types, and no event twice.   *)
AuditTypeOK ==
  /\ ledger \in Seq(1..written) /\ IsInjective(ledger) /\ damaged \in 0..Len(ledger)
  /\ damage \in 0..Ttl /\ written \in 0..MaxEvents
  /\ replica \in [line : Points, torn : BOOLEAN]
  /\ checker.at \in {"idle", "head", "replicate", "insert", "read", "compare", "record", "alert"}
  /\ checker.head \in Points /\ checker.read \in Points /\ checker.ok \in BOOLEAN
  /\ {recorded, alarm} \subseteq BOOLEAN
  /\ asker.at \in {"idle", "replica", "reread", "verify", "answered"}
  /\ asker.keyed \in Points /\ asker.read \in Points /\ asker.ok \in BOOLEAN
  /\ cache.keyed \in Points /\ cache.age \in 0..(Ttl - 1)

(* An entry is let past the audit check only on a copy that the ledger      *)
(* bears out when the answer is given, and at most a Ttl after a row went   *)
(* bad: neither store can change behind the cached verdict (authorizer      *)
(* main.ts, DEFECT-3). Left out: a store that loses something in the middle *)
(* of the call itself, and the answers from a verdict whose own call saw a  *)
(* store move, which is cached under what the call saw first.               *)
StandingIsCurrent ==
  [][asker.at # "answered" /\ asker'.at = "answered" /\ asker'.ok =>
       \/ asker.lost
       \/ asker.at = "replica" /\ cache.moved
       \/ /\ asker'.read # NoPoint
          /\ asker'.read.sequence <= Len(ledger)
          /\ ledger[asker'.read.sequence] = asker'.read.hash
          /\ damaged # 0 => damage < Ttl]_auditVars

(* Torn lines, lost files, restored ledgers and dying cycles pass: unless a  *)
(* row stays damaged, the copy stands again in the end, the latest recorded  *)
(* verification says so and no alert is left open (audit-checkpoint.ts:11).  *)
StandingRecovers ==
  <>[](damaged # 0 \/ ledger = <<>> \/ (Stands(replica.line) /\ recorded /\ ~alarm))
=============================================================================
