--------------------------- MODULE ProtocolProofs ---------------------------
(* Proofs about queue messages, the lease of a role, the executor's journal, *)
(* the sessions, the audit trail and the types of all of them and of alerts, *)
(* for any messages, keys, consumers, workers, processes, tasks and bounds:  *)
(* the effect of a key is committed at most once, a message that left the    *)
(* queue is accounted for, a role runs in two workers at once only if one    *)
(* outlived its lease, a running executor remembers nothing that a journal   *)
(* that loads does not hold, a request marked ACCEPTED left its session as   *)
(* it asked, and an entry passes the audit check only on a copy the ledger   *)
(* bears out.                                                                *)
EXTENDS MCProtocols, SumTheorems, SequenceTheorems

Steps == {"claim", "handle", "archive", "failed", "bury", "interred"}

\* consumer[h] holds nothing, or one message at one of the steps.
Consuming == {Unoccupied} \cup [at : Steps, msg : Msgs, attempt : Nat]

ShapeOK ==
  /\ mail \in [Msgs -> [place : {"unsent", "visible", "leased", "archived"}, reads : Nat]]
  /\ claim \in [Keys -> Consumers \cup {"free", "done"}]
  /\ effects \in [Keys -> Nat] /\ deadLetters \in [Msgs -> Nat]
  /\ consumer \in [Consumers -> Consuming]

Handling(h, k) == consumer[h].at = "handle" /\ KeyHeld(h) = k

\* A claim is held by the transaction of the one consumer that handles its key.
ClaimsHeld == \A k \in Keys, h \in Consumers : claim[k] = h <=> Handling(h, k)

\* The claim and the effect are committed together.
EffectsClaimed == \A k \in Keys : effects[k] = IF claim[k] = "done" THEN 1 ELSE 0

\* Before a message is archived its effect is committed, or its dead letter written.
ArchivesBacked ==
  \A h \in Consumers :
    /\ consumer[h].at = "archive" => claim[KeyHeld(h)] = "done"
    /\ consumer[h].at = "interred" => deadLetters[Held(h)] > 0

LeftBacked ==
  \A m \in Msgs : mail[m].place = "archived" => claim[KeyOf[m]] = "done" \/ deadLetters[m] > 0

QueueInv == ShapeOK /\ ClaimsHeld /\ EffectsClaimed /\ ArchivesBacked /\ LeftBacked

\* The key of a message is a key, and no consumer is named like the state of a claim.
LEMMA KeysAndNames ==
  /\ \A m \in Msgs : KeyOf[m] \in Keys
  /\ \A h \in Consumers : h # "free" /\ h # "done"
  /\ MaxAttempts \in Nat
BY QueueAssumption, ConsumerNames DEF Keys

\* What is held at a step is a message, and its key a key.
LEMMA HeldIsMessage ==
  ASSUME ShapeOK, NEW h \in Consumers, consumer[h].at # "free"
  PROVE  Held(h) \in Msgs /\ KeyHeld(h) \in Keys /\ consumer[h] \in [at : Steps, msg : Msgs, attempt : Nat]
BY KeysAndNames DEF ShapeOK, Consuming, Unoccupied, Held, KeyHeld

LEMMA InitInv == QueueInit => QueueInv
BY KeysAndNames
   DEF QueueInit, QueueInv, ShapeOK, ClaimsHeld, EffectsClaimed, ArchivesBacked, LeftBacked,
       Handling, Consuming, Unoccupied

\* Moving a consumer from one step to another keeps what it holds.
LEMMA StepKeeps ==
  ASSUME ShapeOK, NEW h \in Consumers, consumer[h].at # "free", NEW to \in Steps, Step(h, to)
  PROVE  /\ consumer' \in [Consumers -> Consuming]
         /\ consumer'[h] = [consumer[h] EXCEPT !.at = to]
         /\ consumer'[h].at = to /\ consumer'[h].msg = consumer[h].msg
         /\ \A g \in Consumers : g # h => consumer'[g] = consumer[g]
BY HeldIsMessage DEF ShapeOK, Consuming, Step, Steps

\* Releasing a consumer leaves it with nothing.
LEMMA ReleaseKeeps ==
  ASSUME ShapeOK, NEW h \in Consumers, Release(h)
  PROVE  /\ consumer' \in [Consumers -> Consuming]
         /\ consumer'[h].at = "free"
         /\ \A g \in Consumers : g # h => consumer'[g] = consumer[g]
BY DEF ShapeOK, Consuming, Release, Unoccupied

-----------------------------------------------------------------------------
(* Each action keeps the invariant.                                         *)

LEMMA MailKeeps ==
  ASSUME QueueInv, NEW m \in Msgs, SendMessage(m) \/ LeaseLapses(m)
  PROVE  QueueInv'
<1>1. ShapeOK'
  BY DEF QueueInv, ShapeOK, SendMessage, LeaseLapses
<1>2. LeftBacked'
  BY DEF QueueInv, ShapeOK, LeftBacked, SendMessage, LeaseLapses
<1> QED
  BY <1>1, <1>2
     DEF QueueInv, ClaimsHeld, EffectsClaimed, ArchivesBacked, Handling, KeyHeld, Held,
         SendMessage, LeaseLapses

LEMMA ReadKeeps ==
  ASSUME QueueInv, NEW h \in Consumers, NEW m \in Msgs, ReadMessage(h, m)
  PROVE  QueueInv'
<1> DEFINE taken == [at |-> IF m \in Refuses[h] THEN "bury" ELSE "claim", msg |-> m,
                     attempt |-> Counted(mail[m].reads)]
<1>1. Counted(mail[m].reads) \in Nat
  BY KeysAndNames DEF QueueInv, ShapeOK, Counted
<1>2. taken \in Consuming
  BY <1>1 DEF Consuming, Steps
<1>3. consumer' = [consumer EXCEPT ![h] = taken]
  BY DEF ReadMessage
<1> HIDE DEF taken
<1>4. /\ consumer' \in [Consumers -> Consuming] /\ consumer'[h] = taken
      /\ \A g \in Consumers : g # h => consumer'[g] = consumer[g]
  BY <1>2, <1>3 DEF QueueInv, ShapeOK
<1>5. taken.at \in {"bury", "claim"}
  BY DEF taken
<1>6. ShapeOK'
  <2>1. mail' \in [Msgs -> [place : {"unsent", "visible", "leased", "archived"}, reads : Nat]]
    BY <1>1 DEF ReadMessage, QueueInv, ShapeOK
  <2> QED
    BY <1>4, <2>1 DEF QueueInv, ShapeOK, ReadMessage
<1>7. LeftBacked'
  BY DEF QueueInv, ShapeOK, LeftBacked, ReadMessage
<1>8. ClaimsHeld'
  BY <1>4, <1>5 DEF QueueInv, ClaimsHeld, Handling, KeyHeld, Held, ReadMessage
<1>9. ArchivesBacked'
  BY <1>4, <1>5 DEF QueueInv, ArchivesBacked, KeyHeld, Held, ReadMessage
<1> QED
  BY <1>6, <1>7, <1>8, <1>9 DEF QueueInv, EffectsClaimed, ReadMessage

\* A consumer that moves on without touching claims, and not to or from its handler.
LEMMA MovesOn ==
  ASSUME QueueInv, NEW h \in Consumers, consumer[h].at \notin {"free", "handle"},
         NEW to \in Steps \ {"handle"}, Step(h, to),
         UNCHANGED <<claim, effects>>,
         mail' = mail, deadLetters' \in [Msgs -> Nat],
         \A m \in Msgs : deadLetters[m] > 0 => deadLetters'[m] > 0,
         to = "archive" => claim[KeyHeld(h)] = "done",
         to = "interred" => deadLetters'[Held(h)] > 0
  PROVE  QueueInv'
<1>1. /\ consumer' \in [Consumers -> Consuming] /\ consumer'[h].at = to
      /\ consumer'[h].msg = consumer[h].msg
      /\ \A g \in Consumers : g # h => consumer'[g] = consumer[g]
  BY StepKeeps DEF QueueInv
<1>2. ShapeOK'
  BY <1>1 DEF QueueInv, ShapeOK
<1>3. ClaimsHeld'
  BY <1>1 DEF QueueInv, ClaimsHeld, Handling, KeyHeld, Held
<1>4. ArchivesBacked'
  <2> SUFFICES ASSUME NEW g \in Consumers
               PROVE  /\ consumer'[g].at = "archive" => claim'[KeyHeld(g)'] = "done"
                      /\ consumer'[g].at = "interred" => deadLetters'[Held(g)'] > 0
    BY DEF ArchivesBacked
  <2>1. CASE g = h
    BY <1>1, <2>1 DEF KeyHeld, Held
  <2>2. CASE g # h
    <3>1. consumer'[g] = consumer[g] /\ Held(g)' = Held(g) /\ KeyHeld(g)' = KeyHeld(g)
      BY <1>1, <2>2 DEF KeyHeld, Held
    <3>2. consumer[g].at # "free" => Held(g) \in Msgs
      BY HeldIsMessage DEF QueueInv
    <3> QED
      BY <3>1, <3>2 DEF QueueInv, ArchivesBacked
  <2> QED
    BY <2>1, <2>2
<1>5. LeftBacked'
  BY DEF QueueInv, LeftBacked
<1> QED
  BY <1>2, <1>3, <1>4, <1>5 DEF QueueInv, EffectsClaimed

LEMMA ClaimKeeps ==
  ASSUME QueueInv, NEW h \in Consumers, ClaimKey(h)
  PROVE  QueueInv'
<1>1. consumer[h].at = "claim"
  BY DEF ClaimKey
<1>2. Held(h) \in Msgs /\ KeyHeld(h) \in Keys
  BY <1>1, HeldIsMessage DEF QueueInv
<1>3. CASE claim[KeyHeld(h)] = "done" /\ Step(h, "archive") /\ UNCHANGED claim
  BY <1>1, <1>3, MovesOn DEF ClaimKey, Steps, QueueInv, ShapeOK
<1>4. CASE /\ claim[KeyHeld(h)] = "free" /\ claim' = [claim EXCEPT ![KeyHeld(h)] = h]
           /\ Step(h, "handle")
  <2>1. /\ consumer' \in [Consumers -> Consuming] /\ consumer'[h].at = "handle"
        /\ consumer'[h].msg = consumer[h].msg
        /\ \A g \in Consumers : g # h => consumer'[g] = consumer[g]
    BY <1>1, <1>4, StepKeeps DEF QueueInv, Steps
  <2>2. claim \in [Keys -> Consumers \cup {"free", "done"}]
    BY DEF QueueInv, ShapeOK
  <2>3. /\ claim' \in [Keys -> Consumers \cup {"free", "done"}] /\ claim'[KeyHeld(h)] = h
        /\ \A k \in Keys : k # KeyHeld(h) => claim'[k] = claim[k]
    BY <1>2, <1>4, <2>2
  <2>4. ShapeOK'
    BY <2>1, <2>3 DEF QueueInv, ShapeOK, ClaimKey
  <2>5. ClaimsHeld'
    <3> SUFFICES ASSUME NEW k \in Keys, NEW g \in Consumers
                 PROVE  claim'[k] = g <=> Handling(g, k)'
      BY DEF ClaimsHeld
    <3>1. claim[k] = g <=> Handling(g, k)
      BY DEF QueueInv, ClaimsHeld
    <3>2. CASE g = h
      BY <1>1, <2>1, <2>3, <3>1, <3>2 DEF Handling, KeyHeld, Held
    <3>3. CASE g # h
      BY <1>4, <2>1, <2>3, <3>1, <3>3, KeysAndNames DEF Handling, KeyHeld, Held
    <3> QED
      BY <3>2, <3>3
  <2>6. \A k \in Keys : claim'[k] = "done" <=> claim[k] = "done"
    BY <1>4, <2>3, KeysAndNames
  <2>7. EffectsClaimed'
    BY <2>6 DEF QueueInv, EffectsClaimed, ClaimKey
  <2>8. LeftBacked'
    BY <2>6, KeysAndNames DEF QueueInv, LeftBacked, ClaimKey
  <2>9. ArchivesBacked'
    <3> SUFFICES ASSUME NEW g \in Consumers
                 PROVE  /\ consumer'[g].at = "archive" => claim'[KeyHeld(g)'] = "done"
                        /\ consumer'[g].at = "interred" => deadLetters'[Held(g)'] > 0
      BY DEF ArchivesBacked
    <3>1. consumer'[g].at # "handle" => consumer'[g] = consumer[g]
      BY <2>1
    <3>2. consumer[g].at # "free" => KeyHeld(g) \in Keys
      BY HeldIsMessage DEF QueueInv
    <3> QED
      BY <2>6, <3>1, <3>2 DEF QueueInv, ArchivesBacked, ClaimKey, KeyHeld, Held
  <2> QED
    BY <2>4, <2>5, <2>7, <2>8, <2>9 DEF QueueInv
<1> QED
  BY <1>3, <1>4 DEF ClaimKey

\* The transaction of h ends, in a commit or a roll back, and h is not its handler any more.
LEMMA TransactionEnds ==
  ASSUME QueueInv, NEW h \in Consumers, consumer[h].at # "free",
         NEW s \in {"free", "done"},
         claim' = [k \in Keys |-> IF claim[k] = h THEN s ELSE claim[k]],
         consumer' \in [Consumers -> Consuming], consumer'[h].at \in {"free", "failed", "archive"},
         consumer'[h].at # "free" => consumer'[h].msg = consumer[h].msg,
         consumer'[h].at = "archive" => s = "done" /\ consumer[h].at = "handle",
         \A g \in Consumers : g # h => consumer'[g] = consumer[g],
         effects' = [k \in Keys |-> IF claim[k] = h /\ s = "done" THEN effects[k] + 1 ELSE effects[k]],
         UNCHANGED <<mail, deadLetters>>
  PROVE  QueueInv'
<1>1. claim \in [Keys -> Consumers \cup {"free", "done"}] /\ effects \in [Keys -> Nat]
  BY DEF QueueInv, ShapeOK
<1>2. ShapeOK'
  BY <1>1 DEF QueueInv, ShapeOK
<1>3. \A k \in Keys : claim[k] = "done" => claim'[k] = "done"
  BY <1>1, KeysAndNames
<1>4. ClaimsHeld'
  <2> SUFFICES ASSUME NEW k \in Keys, NEW g \in Consumers
               PROVE  claim'[k] = g <=> Handling(g, k)'
    BY DEF ClaimsHeld
  <2>1. claim[k] = g <=> Handling(g, k)
    BY DEF QueueInv, ClaimsHeld
  <2>2. CASE g = h
    BY <2>2, KeysAndNames DEF Handling
  <2>3. CASE g # h
    BY <1>1, <2>1, <2>3, KeysAndNames DEF Handling, KeyHeld, Held
  <2> QED
    BY <2>2, <2>3
<1>5. EffectsClaimed'
  <2> SUFFICES ASSUME NEW k \in Keys
               PROVE  effects'[k] = IF claim'[k] = "done" THEN 1 ELSE 0
    BY DEF EffectsClaimed
  <2>1. effects[k] = IF claim[k] = "done" THEN 1 ELSE 0
    BY DEF QueueInv, EffectsClaimed
  <2> QED
    BY <2>1, KeysAndNames
<1>6. ArchivesBacked'
  <2> SUFFICES ASSUME NEW g \in Consumers
               PROVE  /\ consumer'[g].at = "archive" => claim'[KeyHeld(g)'] = "done"
                      /\ consumer'[g].at = "interred" => deadLetters'[Held(g)'] > 0
    BY DEF ArchivesBacked
  <2>1. consumer[g].at # "free" => KeyHeld(g) \in Keys
    BY HeldIsMessage DEF QueueInv
  <2>2. CASE g = h
    <3>1. consumer[h].at = "handle" => claim[KeyHeld(h)] = h
      BY <2>1, <2>2 DEF QueueInv, ClaimsHeld, Handling
    <3> QED
      BY <2>1, <2>2, <3>1 DEF KeyHeld, Held
  <2>3. CASE g # h
    BY <1>3, <2>1, <2>3 DEF QueueInv, ArchivesBacked, KeyHeld, Held
  <2> QED
    BY <2>2, <2>3
<1>7. LeftBacked'
  BY <1>3, KeysAndNames DEF QueueInv, LeftBacked
<1> QED
  BY <1>2, <1>4, <1>5, <1>6, <1>7 DEF QueueInv

\* A consumer that is not in its handler holds no claim.
LEMMA NoClaim ==
  ASSUME QueueInv, NEW h \in Consumers, consumer[h].at # "handle"
  PROVE  \A k \in Keys : claim[k] # h
BY DEF QueueInv, ClaimsHeld, Handling

\* The handler's claim is that of the key it holds, and no other.
LEMMA OneClaim ==
  ASSUME QueueInv, NEW h \in Consumers, consumer[h].at = "handle"
  PROVE  KeyHeld(h) \in Keys /\ \A k \in Keys : claim[k] = h <=> k = KeyHeld(h)
BY HeldIsMessage DEF QueueInv, ClaimsHeld, Handling

LEMMA CommitKeeps ==
  ASSUME QueueInv, NEW h \in Consumers, Commit(h)
  PROVE  QueueInv'
<1>1. consumer[h].at = "handle"
  BY DEF Commit
<1>2. PICK to \in {"archive", "failed"} : Step(h, to)
  BY DEF Commit
<1>3. /\ consumer' \in [Consumers -> Consuming] /\ consumer'[h].at = to
      /\ consumer'[h].msg = consumer[h].msg
      /\ \A g \in Consumers : g # h => consumer'[g] = consumer[g]
  BY <1>1, <1>2, StepKeeps DEF QueueInv, Steps
<1>4. /\ KeyHeld(h) \in Keys /\ \A k \in Keys : claim[k] = h <=> k = KeyHeld(h)
      /\ claim \in [Keys -> Consumers \cup {"free", "done"}] /\ effects \in [Keys -> Nat]
  BY <1>1, OneClaim DEF QueueInv, ShapeOK
<1>5. claim' = [k \in Keys |-> IF claim[k] = h THEN "done" ELSE claim[k]]
  <2>1. claim' = [k \in Keys |-> IF k = KeyHeld(h) THEN "done" ELSE claim[k]]
    BY <1>4 DEF Commit
  <2> QED
    BY <1>4, <2>1
<1>6. effects' = [k \in Keys |-> IF claim[k] = h /\ "done" = "done" THEN effects[k] + 1 ELSE effects[k]]
  <2>1. effects' = [k \in Keys |-> IF k = KeyHeld(h) THEN effects[k] + 1 ELSE effects[k]]
    BY <1>4 DEF Commit
  <2> QED
    BY <1>4, <2>1
<1> QED
  BY <1>1, <1>3, <1>5, <1>6, TransactionEnds DEF Commit

\* A roll back changes no effect.
LEMMA EffectsStay ==
  ASSUME QueueInv, NEW h \in Consumers, UNCHANGED effects
  PROVE  effects' = [k \in Keys |-> IF claim[k] = h /\ "free" = "done" THEN effects[k] + 1 ELSE effects[k]]
BY DEF QueueInv, ShapeOK

LEMMA ThrowKeeps ==
  ASSUME QueueInv, NEW h \in Consumers, HandlerThrows(h)
  PROVE  QueueInv'
<1>1. consumer[h].at = "handle" /\ Step(h, "failed")
  BY DEF HandlerThrows
<1>2. /\ consumer' \in [Consumers -> Consuming] /\ consumer'[h].at = "failed"
      /\ consumer'[h].msg = consumer[h].msg
      /\ \A g \in Consumers : g # h => consumer'[g] = consumer[g]
  BY <1>1, StepKeeps DEF QueueInv, Steps
<1> QED
  BY <1>1, <1>2, EffectsStay, TransactionEnds DEF HandlerThrows, Unclaim

LEMMA DeathKeeps ==
  ASSUME QueueInv, NEW h \in Consumers, ConsumerDies(h)
  PROVE  QueueInv'
<1>1. /\ consumer' \in [Consumers -> Consuming] /\ consumer'[h].at = "free"
      /\ \A g \in Consumers : g # h => consumer'[g] = consumer[g]
  BY ReleaseKeeps DEF ConsumerDies, QueueInv
<1> QED
  BY <1>1, EffectsStay, TransactionEnds DEF ConsumerDies, Unclaim

\* A consumer outside its handler lets its message go: no claim changes with it.
LEMMA LetsGo ==
  ASSUME QueueInv, NEW h \in Consumers, consumer[h].at \notin {"free", "handle"}, Release(h),
         UNCHANGED <<claim, effects, deadLetters>>,
         mail' \in [Msgs -> [place : {"unsent", "visible", "leased", "archived"}, reads : Nat]],
         \A m \in Msgs : mail'[m].place = "archived" =>
           \/ mail[m].place = "archived"
           \/ m = Held(h) /\ consumer[h].at \in {"archive", "interred"}
  PROVE  QueueInv'
<1>1. /\ consumer' \in [Consumers -> Consuming] /\ consumer'[h].at = "free"
      /\ \A g \in Consumers : g # h => consumer'[g] = consumer[g]
  BY ReleaseKeeps DEF QueueInv
<1>2. ShapeOK'
  BY <1>1 DEF QueueInv, ShapeOK
<1>3. ClaimsHeld'
  BY <1>1 DEF QueueInv, ClaimsHeld, Handling, KeyHeld, Held
<1>4. ArchivesBacked'
  BY <1>1 DEF QueueInv, ArchivesBacked, KeyHeld, Held
<1>5. LeftBacked'
  BY DEF QueueInv, LeftBacked, ArchivesBacked, KeyHeld
<1> QED
  BY <1>2, <1>3, <1>4, <1>5 DEF QueueInv, EffectsClaimed

LEMMA ArchiveKeeps ==
  ASSUME QueueInv, NEW h \in Consumers, Archive(h)
  PROVE  QueueInv'
<1>1. consumer[h].at \in {"archive", "interred"} /\ UNCHANGED <<claim, effects, deadLetters>>
  BY DEF Archive
<1>2. Held(h) \in Msgs /\ ShapeOK
  BY <1>1, HeldIsMessage DEF QueueInv
<1>3. CASE mail' = [mail EXCEPT ![Held(h)].place = "archived"] /\ Release(h)
  BY <1>1, <1>2, <1>3, LetsGo DEF ShapeOK
<1>4. CASE UNCHANGED mail /\ Release(h)
  BY <1>1, <1>2, <1>4, LetsGo DEF ShapeOK
<1>5. CASE UNCHANGED mail /\ Step(h, "failed")
  BY <1>1, <1>2, <1>5, MovesOn DEF ShapeOK, Steps
<1> QED
  BY <1>3, <1>4, <1>5 DEF Archive

LEMMA RetryKeeps ==
  ASSUME QueueInv, NEW h \in Consumers, Retry(h)
  PROVE  QueueInv'
<1>1. consumer[h].at = "failed" /\ UNCHANGED <<claim, effects, deadLetters>>
  BY DEF Retry
<1>2. Held(h) \in Msgs /\ ShapeOK
  BY <1>1, HeldIsMessage DEF QueueInv
<1>3. CASE Step(h, "bury") /\ UNCHANGED mail
  BY <1>1, <1>2, <1>3, MovesOn DEF ShapeOK, Steps
<1>4. CASE /\ mail' = [mail EXCEPT ![Held(h)].place = IF @ = "archived" THEN @ ELSE "leased"]
           /\ Release(h)
  <2>1. mail' \in [Msgs -> [place : {"unsent", "visible", "leased", "archived"}, reads : Nat]]
    BY <1>2, <1>4 DEF ShapeOK
  <2>2. \A m \in Msgs : mail'[m].place = "archived" => mail[m].place = "archived"
    BY <1>2, <1>4 DEF ShapeOK
  <2> QED
    BY <1>1, <1>4, <2>1, <2>2, LetsGo
<1> QED
  BY <1>3, <1>4 DEF Retry

LEMMA BuryKeeps ==
  ASSUME QueueInv, NEW h \in Consumers, Bury(h)
  PROVE  QueueInv'
<1>1. consumer[h].at = "bury" /\ Step(h, "interred") /\ UNCHANGED <<mail, claim, effects>>
  BY DEF Bury
<1>2. Held(h) \in Msgs /\ ShapeOK
  BY <1>1, HeldIsMessage DEF QueueInv
<1>3. /\ deadLetters' \in [Msgs -> Nat] /\ deadLetters'[Held(h)] > 0
      /\ \A m \in Msgs : deadLetters[m] > 0 => deadLetters'[m] > 0
  BY <1>2 DEF Bury, ShapeOK
<1> QED
  BY <1>1, <1>3, MovesOn DEF Steps

-----------------------------------------------------------------------------

LEMMA StepInv == QueueInv /\ [QueueNext]_queueVars => QueueInv'
<1> SUFFICES ASSUME QueueInv, [QueueNext]_queueVars
             PROVE  QueueInv'
  OBVIOUS
<1>1. CASE UNCHANGED queueVars
  BY <1>1
     DEF queueVars, QueueInv, ShapeOK, ClaimsHeld, EffectsClaimed, ArchivesBacked, LeftBacked,
         Handling, KeyHeld, Held
<1>2. ASSUME NEW h \in Consumers, ConsumerStep(h) \/ ConsumerDies(h)
      PROVE  QueueInv'
  BY <1>2, ClaimKeeps, CommitKeeps, ThrowKeeps, ArchiveKeeps, RetryKeeps, BuryKeeps, DeathKeeps
     DEF ConsumerStep
<1>3. ASSUME NEW m \in Msgs, SendMessage(m) \/ Deliver(m) \/ LeaseLapses(m)
      PROVE  QueueInv'
  BY <1>3, MailKeeps, ReadKeeps DEF Deliver
<1> QED
  BY <1>1, <1>2, <1>3 DEF QueueNext

(* The inductive invariant holds: claims are held by handlers, and the      *)
(* claim and the effect of a key are committed together.                    *)
THEOREM QueueInvariant == QueueSpec => []QueueInv
BY InitInv, StepInv, PTL DEF QueueSpec

(* Redelivery, concurrent consumers, lapsed leases and deaths: the handler  *)
(* of a key commits its effect at most once (processMessage).               *)
THEOREM EffectsOnce == QueueSpec => []EffectOnce
<1>1. QueueInv => EffectOnce
  BY DEF QueueInv, EffectsClaimed, EffectOnce
<1> QED
  BY <1>1, QueueInvariant, PTL

(* A message leaves the queue only with its effect committed or its dead    *)
(* letter written.                                                          *)
THEOREM NothingDropped == QueueSpec => []ArchivedIsAccounted
<1>1. QueueInv => ArchivedIsAccounted
  BY KeysAndNames DEF QueueInv, EffectsClaimed, LeftBacked, ArchivedIsAccounted
<1> QED
  BY <1>1, QueueInvariant, PTL

-----------------------------------------------------------------------------
(* The lease of a role. No time a call, a cycle or a timer takes is bounded. *)

\* A worker that was granted the lease and has not left since.
Engaged(w) == AtWork(w) \/ worker[w].at = "granted"

\* As long as a worker was granted or renewed the lease within TTL, the row is its own, and
\* as old as that.
LeaseOfEngaged ==
  \A w \in Workers :
    Engaged(w) /\ worker[w].unrenewed <= TTL => lease.holder = w /\ lease.age = worker[w].unrenewed

LeaseInv == LeaseTypeOK /\ LeaseOfEngaged

\* What LeaseTypeOK says of one worker, and of the row.
WorkerShape ==
  [at : {"out", "acquiring", "granted", "between", "cycle", "releasing"},
   fenced : BOOLEAN, beat : 0..BeatEvery, sent : 0..MaxBeats, failing : BOOLEAN,
   stray : BOOLEAN, unrenewed : 0..(TTL + 1)]

LeaseShape == [holder : Workers \cup {NoWorker}, age : 0..(TTL + 1)]

LEMMA Times ==
  TTL \in Nat /\ BeatEvery \in Nat /\ MaxBeats \in Nat /\ NoWorker \notin Workers
BY LeaseAssumption

LEMMA Shapes == LeaseTypeOK <=> lease \in LeaseShape /\ worker \in [Workers -> WorkerShape]
BY DEF LeaseTypeOK, LeaseShape, WorkerShape

LEMMA InitLeaseInv == LeaseInit => LeaseInv
<1> SUFFICES ASSUME LeaseInit PROVE LeaseInv
  OBVIOUS
<1>1. Out \in WorkerShape
  BY Times DEF Out, WorkerShape
<1>2. LeaseTypeOK
  BY <1>1, Times, Shapes DEF LeaseInit, LeaseShape
<1>3. \A w \in Workers : worker[w].at = "out"
  BY DEF LeaseInit, Out
<1> QED
  BY <1>2, <1>3 DEF LeaseInv, LeaseOfEngaged, Engaged, AtWork

\* Who leaves is out, and of the shape.
LEMMA LeavingShape ==
  ASSUME LeaseTypeOK, NEW w \in Workers
  PROVE  /\ Left(w) \in WorkerShape /\ Left(w).at = "out"
         /\ [Left(w) EXCEPT !.at = "releasing"] \in WorkerShape
         /\ [Left(w) EXCEPT !.at = "releasing"].at = "releasing"
<1>1. worker[w] \in WorkerShape
  BY Shapes
<1>2. (worker[w].stray \/ worker[w].sent > 0) \in BOOLEAN
  BY <1>1 DEF WorkerShape
<1> DEFINE stray == worker[w].stray \/ worker[w].sent > 0
<1>3. Left(w) = [Out EXCEPT !.stray = stray]
  BY DEF Left
<1>4. Left(w) \in WorkerShape /\ Left(w).at = "out"
  <2>1. stray \in BOOLEAN
    BY <1>2
  <2>2. Out \in WorkerShape /\ Out.at = "out"
    BY Times DEF Out, WorkerShape
  <2> HIDE DEF stray
  <2> QED
    BY <1>3, <2>1, <2>2 DEF WorkerShape
<1> QED
  BY <1>4 DEF WorkerShape

\* A step of one worker that leaves the row alone keeps the invariant if the worker is not
\* engaged after it, or was before, with the row as long renewed.
LEMMA WorkerStep ==
  ASSUME LeaseInv, NEW w \in Workers, NEW r \in WorkerShape,
         worker' = [worker EXCEPT ![w] = r], UNCHANGED lease,
         r.at \in {"granted", "between", "cycle"} => Engaged(w) /\ r.unrenewed = worker[w].unrenewed
  PROVE  LeaseInv'
<1>1. worker \in [Workers -> WorkerShape]
  BY Shapes DEF LeaseInv
<1>2. LeaseTypeOK'
  <2>1. lease' \in LeaseShape /\ worker' \in [Workers -> WorkerShape]
    BY <1>1, Shapes DEF LeaseInv
  <2> QED
    BY <2>1 DEF LeaseTypeOK, LeaseShape, WorkerShape
<1>3. \A v \in Workers : worker'[v] = IF v = w THEN r ELSE worker[v]
  BY <1>1
<1>4. LeaseOfEngaged'
  BY <1>3 DEF LeaseInv, LeaseOfEngaged, Engaged, AtWork
<1> QED
  BY <1>2, <1>4 DEF LeaseInv

\* One with which the row becomes the worker's, renewed now, keeps it if nobody else was
\* renewed within TTL.
LEMMA RenewingStep ==
  ASSUME LeaseInv, NEW w \in Workers, NEW r \in WorkerShape,
         worker' = [worker EXCEPT ![w] = r], lease' = [holder |-> w, age |-> 0], r.unrenewed = 0,
         lease.holder \in {NoWorker, w} \/ Lapsed
  PROVE  LeaseInv'
<1>1. worker \in [Workers -> WorkerShape] /\ lease \in LeaseShape
  BY Shapes DEF LeaseInv
<1>2. LeaseTypeOK'
  <2>1. lease' \in LeaseShape /\ worker' \in [Workers -> WorkerShape]
    BY <1>1, Times DEF LeaseShape
  <2> QED
    BY <2>1 DEF LeaseTypeOK, LeaseShape, WorkerShape
<1>3. \A v \in Workers : worker'[v] = IF v = w THEN r ELSE worker[v]
  BY <1>1
<1>4. ASSUME NEW v \in Workers, v # w, Engaged(v)
      PROVE  ~(worker[v].unrenewed <= TTL)
  <2> SUFFICES ASSUME worker[v].unrenewed <= TTL PROVE FALSE
    OBVIOUS
  <2>1. lease.holder = v /\ lease.age <= TTL
    BY <1>4 DEF LeaseInv, LeaseOfEngaged
  <2>2. ~Lapsed
    BY <1>1, <2>1, Times DEF Lapsed, LeaseShape
  <2> QED
    BY <1>4, <2>1, <2>2, Times
<1>5. LeaseOfEngaged'
  BY <1>3, <1>4 DEF LeaseOfEngaged, Engaged, AtWork
<1> QED
  BY <1>2, <1>5 DEF LeaseInv

LEMMA ServeAcquireKeeps ==
  ASSUME LeaseInv, NEW w \in Workers, ServeAcquire(w)
  PROVE  LeaseInv'
<1>1. worker[w] \in WorkerShape
  BY Shapes DEF LeaseInv
<1>2. CASE lease.holder \in {NoWorker, w} \/ Lapsed
  <2> DEFINE r == [worker[w] EXCEPT !.at = "granted", !.unrenewed = 0]
  <2>1. r \in WorkerShape /\ r.unrenewed = 0
    <3>1. 0 \in 0..(TTL + 1)
      BY Times
    <3> QED
      BY <1>1, <3>1 DEF WorkerShape
  <2>2. worker' = [worker EXCEPT ![w] = r] /\ lease' = [holder |-> w, age |-> 0]
    BY <1>2 DEF ServeAcquire
  <2> HIDE DEF r
  <2> QED
    BY <1>2, <2>1, <2>2, RenewingStep
<1>3. CASE ~(lease.holder \in {NoWorker, w} \/ Lapsed)
  <2>1. worker' = [worker EXCEPT ![w] = Left(w)] /\ UNCHANGED lease
    BY <1>3 DEF ServeAcquire
  <2> QED
    BY <2>1, LeavingShape, WorkerStep DEF LeaseInv
<1> QED
  BY <1>2, <1>3

LEMMA ServeBeatKeeps ==
  ASSUME LeaseInv, NEW w \in Workers, ServeBeat(w)
  PROVE  LeaseInv'
<1>1. worker[w] \in WorkerShape /\ lease \in LeaseShape
  BY Shapes DEF LeaseInv
<1>2. PICK answered \in BOOLEAN :
        worker' = [worker EXCEPT ![w] = [@ EXCEPT
          !.sent = worker[w].sent - 1,
          !.failing = worker[w].failing \/ ~answered \/ ~Renewable(w),
          !.unrenewed = IF Renewable(w) THEN 0 ELSE worker[w].unrenewed]]
  BY DEF ServeBeat
<1> DEFINE failing == worker[w].failing \/ ~answered \/ ~Renewable(w)
           unrenewed == IF Renewable(w) THEN 0 ELSE worker[w].unrenewed
           r == [worker[w] EXCEPT
             !.sent = worker[w].sent - 1, !.failing = failing, !.unrenewed = unrenewed]
<1>3. worker' = [worker EXCEPT ![w] = r]
  BY <1>2
<1>4. worker[w].sent - 1 \in 0..MaxBeats
  BY <1>1, Times DEF ServeBeat, WorkerShape
<1>5. r \in WorkerShape /\ r.at = worker[w].at
      /\ r.unrenewed = IF Renewable(w) THEN 0 ELSE worker[w].unrenewed
  <2>1. failing \in BOOLEAN /\ unrenewed \in 0..(TTL + 1)
    BY <1>1, Times DEF WorkerShape
  <2>2. unrenewed = IF Renewable(w) THEN 0 ELSE worker[w].unrenewed
    OBVIOUS
  <2> HIDE DEF failing, unrenewed
  <2> QED
    BY <1>1, <1>4, <2>1, <2>2 DEF WorkerShape
<1> HIDE DEF r
<1>6. CASE Renewable(w)
  <2>1. lease.holder = w /\ lease' = [lease EXCEPT !.age = 0]
    BY <1>6 DEF ServeBeat, Renewable
  <2>2. lease' = [holder |-> w, age |-> 0]
    BY <1>1, <2>1 DEF LeaseShape
  <2> QED
    BY <1>3, <1>5, <1>6, <2>1, <2>2, RenewingStep
<1>7. CASE ~Renewable(w)
  <2>1. UNCHANGED lease
    BY <1>7 DEF ServeBeat
  <2> QED
    BY <1>3, <1>5, <1>7, <2>1, WorkerStep DEF Engaged, AtWork
<1> QED
  BY <1>6, <1>7

LEMMA ServeStrayKeeps ==
  ASSUME LeaseInv, NEW w \in Workers, ServeStray(w)
  PROVE  LeaseInv'
<1>1. worker[w] \in WorkerShape /\ lease \in LeaseShape
  BY Shapes DEF LeaseInv
<1> DEFINE unrenewed == IF Renewable(w) THEN 0 ELSE worker[w].unrenewed
           r == [worker[w] EXCEPT !.stray = FALSE, !.unrenewed = unrenewed]
<1>2. worker' = [worker EXCEPT ![w] = r]
  BY DEF ServeStray
<1>3. r \in WorkerShape /\ r.at = worker[w].at
      /\ r.unrenewed = IF Renewable(w) THEN 0 ELSE worker[w].unrenewed
  <2>1. unrenewed \in 0..(TTL + 1)
    BY <1>1, Times DEF WorkerShape
  <2>2. unrenewed = IF Renewable(w) THEN 0 ELSE worker[w].unrenewed
    OBVIOUS
  <2> HIDE DEF unrenewed
  <2> QED
    BY <1>1, <2>1, <2>2 DEF WorkerShape
<1> HIDE DEF r
<1>4. CASE Renewable(w)
  <2>1. lease.holder = w /\ lease' = [lease EXCEPT !.age = 0]
    BY <1>4 DEF ServeStray, Renewable
  <2>2. lease' = [holder |-> w, age |-> 0]
    BY <1>1, <2>1 DEF LeaseShape
  <2> QED
    BY <1>2, <1>3, <1>4, <2>1, <2>2, RenewingStep
<1>5. CASE ~Renewable(w)
  <2>1. UNCHANGED lease
    BY <1>5 DEF ServeStray
  <2> QED
    BY <1>2, <1>3, <1>5, <2>1, WorkerStep DEF Engaged, AtWork
<1> QED
  BY <1>4, <1>5

\* The row goes only from the worker that asks, which is out by then.
LEMMA ServeReleaseKeeps ==
  ASSUME LeaseInv, NEW w \in Workers, ServeRelease(w)
  PROVE  LeaseInv'
<1>1. worker' = [worker EXCEPT ![w] = Left(w)] /\ Left(w) \in WorkerShape /\ Left(w).at = "out"
  BY LeavingShape DEF ServeRelease, LeaseInv
<1>2. CASE lease.holder = w
  <2>1. lease' = [holder |-> NoWorker, age |-> 0]
    BY <1>2 DEF ServeRelease
  <2>2. worker \in [Workers -> WorkerShape]
    BY Shapes DEF LeaseInv
  <2>3. LeaseTypeOK'
    <3>1. lease' \in LeaseShape /\ worker' \in [Workers -> WorkerShape]
      BY <1>1, <2>1, <2>2, Times DEF LeaseShape
    <3> QED
      BY <3>1 DEF LeaseTypeOK, LeaseShape, WorkerShape
  <2>4. \A v \in Workers : worker'[v] = IF v = w THEN Left(w) ELSE worker[v]
    BY <1>1, <2>2
  <2>5. LeaseOfEngaged'
    BY <1>1, <1>2, <2>4 DEF LeaseInv, LeaseOfEngaged, Engaged, AtWork
  <2> QED
    BY <2>3, <2>5 DEF LeaseInv
<1>3. CASE lease.holder # w
  <2>1. UNCHANGED lease
    BY <1>3 DEF ServeRelease
  <2> QED
    BY <1>1, <2>1, WorkerStep
<1> QED
  BY <1>2, <1>3

\* Steps of the worker itself.
LEMMA WorkKeeps ==
  ASSUME LeaseInv, NEW w \in Workers,
         \/ Acquire(w) \/ HearGrant(w) \/ Beat(w) \/ BeatFails(w) \/ HearFailure(w)
         \/ StartCycle(w) \/ EndCycle(w)
  PROVE  LeaseInv'
<1>1. worker[w] \in WorkerShape
  BY Shapes DEF LeaseInv
<1>2. CASE Acquire(w)
  <2> DEFINE r == [worker[w] EXCEPT !.at = "acquiring"]
  <2>1. r \in WorkerShape /\ r.at = "acquiring" /\ worker' = [worker EXCEPT ![w] = r] /\ UNCHANGED lease
    BY <1>1, <1>2 DEF Acquire, WorkerShape
  <2> QED
    BY <2>1, WorkerStep
<1>3. CASE HearGrant(w)
  <2> DEFINE r == [worker[w] EXCEPT !.at = "between"]
  <2>1. r \in WorkerShape /\ r.unrenewed = worker[w].unrenewed
        /\ worker' = [worker EXCEPT ![w] = r] /\ UNCHANGED lease /\ Engaged(w)
    BY <1>1, <1>3 DEF HearGrant, WorkerShape, Engaged
  <2> QED
    BY <2>1, WorkerStep
<1>4. CASE Beat(w)
  <2> DEFINE sent == worker[w].sent + IF worker[w].sent < MaxBeats THEN 1 ELSE 0
             r == [worker[w] EXCEPT !.beat = 0, !.sent = sent]
  <2>1. worker' = [worker EXCEPT ![w] = r] /\ UNCHANGED lease /\ Engaged(w)
    BY <1>4 DEF Beat, Engaged
  <2>2. sent \in 0..MaxBeats /\ 0 \in 0..BeatEvery
    BY <1>1, Times DEF WorkerShape
  <2>3. r \in WorkerShape /\ r.unrenewed = worker[w].unrenewed
    <3> HIDE DEF sent
    <3> QED
      BY <1>1, <2>2 DEF WorkerShape
  <2> HIDE DEF r
  <2> QED
    BY <2>1, <2>3, WorkerStep
<1>5. CASE BeatFails(w)
  <2> DEFINE r == [worker[w] EXCEPT !.sent = worker[w].sent - 1, !.failing = TRUE]
  <2>1. worker' = [worker EXCEPT ![w] = r] /\ UNCHANGED lease
    BY <1>5 DEF BeatFails
  <2>2. worker[w].sent - 1 \in 0..MaxBeats
    BY <1>1, <1>5, Times DEF BeatFails, WorkerShape
  <2>3. r \in WorkerShape /\ r.unrenewed = worker[w].unrenewed /\ r.at = worker[w].at
    BY <1>1, <2>2 DEF WorkerShape
  <2> HIDE DEF r
  <2> QED
    BY <2>1, <2>3, WorkerStep DEF Engaged, AtWork
<1>6. CASE HearFailure(w)
  <2> DEFINE r == [worker[w] EXCEPT !.failing = FALSE, !.fenced = TRUE]
  <2>1. r \in WorkerShape /\ r.unrenewed = worker[w].unrenewed
        /\ worker' = [worker EXCEPT ![w] = r] /\ UNCHANGED lease /\ Engaged(w)
    BY <1>1, <1>6 DEF HearFailure, WorkerShape, Engaged
  <2> QED
    BY <2>1, WorkerStep
<1>7. CASE StartCycle(w)
  <2> DEFINE r == [worker[w] EXCEPT !.at = "cycle"]
  <2>1. r \in WorkerShape /\ r.unrenewed = worker[w].unrenewed
        /\ worker' = [worker EXCEPT ![w] = r] /\ UNCHANGED lease /\ Engaged(w)
    BY <1>1, <1>7 DEF StartCycle, WorkerShape, Engaged, AtWork
  <2> QED
    BY <2>1, WorkerStep
<1>8. CASE EndCycle(w)
  <2> DEFINE r == [worker[w] EXCEPT !.at = "between"]
  <2>1. r \in WorkerShape /\ r.unrenewed = worker[w].unrenewed
        /\ worker' = [worker EXCEPT ![w] = r] /\ UNCHANGED lease /\ Engaged(w)
    BY <1>1, <1>8 DEF EndCycle, WorkerShape, Engaged, AtWork
  <2> QED
    BY <2>1, WorkerStep
<1> QED
  BY <1>2, <1>3, <1>4, <1>5, <1>6, <1>7, <1>8

\* The ways out, of which none touches the row.
LEMMA LeavingKeeps ==
  ASSUME LeaseInv, NEW w \in Workers, CallFails(w) \/ LeaveWork(w) \/ WorkerCrash(w)
  PROVE  LeaseInv'
<1>1. CASE worker' = [worker EXCEPT ![w] = Left(w)] /\ UNCHANGED lease
  BY <1>1, LeavingShape, WorkerStep DEF LeaseInv
<1>2. CASE worker' = [worker EXCEPT ![w] = [Left(w) EXCEPT !.at = "releasing"]] /\ UNCHANGED lease
  <2> DEFINE r == [Left(w) EXCEPT !.at = "releasing"]
  <2>1. r \in WorkerShape /\ r.at = "releasing"
    BY LeavingShape DEF LeaseInv
  <2>2. worker' = [worker EXCEPT ![w] = r] /\ UNCHANGED lease
    BY <1>2
  <2> HIDE DEF r
  <2> QED
    BY <2>1, <2>2, WorkerStep
<1> QED
  BY <1>1, <1>2 DEF CallFails, LeaveWork, WorkerCrash

\* The row ages with the worker it belongs to.
LEMMA TickKeeps ==
  ASSUME LeaseInv, Tick
  PROVE  LeaseInv'
<1>1. lease \in LeaseShape /\ lease.age \in 0..(TTL + 1)
  BY Shapes DEF LeaseInv, LeaseShape
<1>2. ASSUME NEW w \in Workers
      PROVE  /\ worker'[w] \in WorkerShape /\ worker'[w].at = worker[w].at
             /\ worker'[w].unrenewed =
                  IF Engaged(w) /\ worker[w].unrenewed <= TTL THEN worker[w].unrenewed + 1
                  ELSE worker[w].unrenewed
             /\ worker[w].unrenewed \in 0..(TTL + 1)
  <2> DEFINE beat == IF AtWork(w) /\ worker[w].beat < BeatEvery THEN worker[w].beat + 1 ELSE worker[w].beat
             unrenewed == IF (AtWork(w) \/ worker[w].at = "granted") /\ worker[w].unrenewed <= TTL
                          THEN worker[w].unrenewed + 1 ELSE worker[w].unrenewed
  <2>1. worker[w] \in WorkerShape
    BY Shapes DEF LeaseInv
  <2>2. worker'[w] = [worker[w] EXCEPT !.beat = beat, !.unrenewed = unrenewed]
    BY DEF Tick
  <2>3. worker[w].beat \in 0..BeatEvery /\ worker[w].unrenewed \in 0..(TTL + 1)
    BY <2>1 DEF WorkerShape
  <2>4. beat \in 0..BeatEvery /\ unrenewed \in 0..(TTL + 1)
    BY <2>3, Times
  <2>5. unrenewed = IF Engaged(w) /\ worker[w].unrenewed <= TTL THEN worker[w].unrenewed + 1
                    ELSE worker[w].unrenewed
    BY DEF Engaged
  <2> HIDE DEF beat, unrenewed
  <2> QED
    BY <2>1, <2>2, <2>3, <2>4, <2>5 DEF WorkerShape
<1>3. /\ lease' \in LeaseShape /\ lease'.holder = lease.holder
      /\ lease.holder # NoWorker /\ lease.age <= TTL => lease'.age = lease.age + 1
  <2>1. lease' = IF lease.holder = NoWorker \/ Lapsed THEN lease ELSE [lease EXCEPT !.age = @ + 1]
    BY DEF Tick
  <2> QED
    BY <1>1, <2>1, Times DEF Lapsed, LeaseShape
<1>4. LeaseTypeOK'
  <2>1. worker' \in [Workers -> WorkerShape]
    BY <1>2 DEF Tick
  <2> QED
    BY <1>3, <2>1 DEF LeaseTypeOK, LeaseShape, WorkerShape
<1>5. ASSUME NEW w \in Workers, Engaged(w)', worker'[w].unrenewed <= TTL
      PROVE  lease'.holder = w /\ lease'.age = worker'[w].unrenewed
  <2>1. Engaged(w)
    BY <1>2, <1>5 DEF Engaged, AtWork
  <2>2. worker[w].unrenewed <= TTL /\ worker'[w].unrenewed = worker[w].unrenewed + 1
    BY <1>2, <1>5, <2>1, Times
  <2>3. lease.holder = w /\ lease.age = worker[w].unrenewed
    BY <2>1, <2>2 DEF LeaseInv, LeaseOfEngaged
  <2> QED
    BY <1>3, <2>2, <2>3, Times
<1> QED
  BY <1>4, <1>5 DEF LeaseInv, LeaseOfEngaged

LEMMA NextKeepsLease == LeaseInv /\ [LeaseNext]_leaseVars => LeaseInv'
<1>1. LeaseInv /\ UNCHANGED leaseVars => LeaseInv'
  BY DEF leaseVars, LeaseInv, LeaseTypeOK, LeaseOfEngaged, Engaged, AtWork
<1> QED
  BY <1>1, ServeAcquireKeeps, ServeBeatKeeps, ServeStrayKeeps, ServeReleaseKeeps, WorkKeeps,
     LeavingKeeps, TickKeeps DEF LeaseNext

(* Whoever the database granted or renewed the lease within TTL is its       *)
(* holder still, whatever became of the others and of its calls.             *)
THEOREM LeaseInvariant == LeaseSpec => []LeaseInv
<1> QED
  BY InitLeaseInv, NextKeepsLease, PTL DEF LeaseSpec

(* Two workers are inside a cycle of one role at once only if one of them    *)
(* outlived its lease: for any number of workers, however long calls, cycles *)
(* and timers take, whatever is lost and whoever dies.                       *)
THEOREM OneWorkerPerRole == LeaseSpec => []RoleExclusive
<1>1. LeaseInv => RoleExclusive
  <2> SUFFICES ASSUME LeaseInv, NEW v \in Workers, NEW w \in Workers,
                      worker[v].at = "cycle", worker[w].at = "cycle",
                      ~(worker[v].unrenewed > TTL), ~(worker[w].unrenewed > TTL)
               PROVE  v = w
    BY DEF RoleExclusive
  <2>1. worker[v].unrenewed \in Nat /\ worker[w].unrenewed \in Nat
    BY DEF LeaseInv, LeaseTypeOK
  <2>2. worker[v].unrenewed <= TTL /\ worker[w].unrenewed <= TTL
    BY <2>1, Times
  <2>3. Engaged(v) /\ Engaged(w)
    BY DEF Engaged, AtWork
  <2> QED
    BY <2>2, <2>3 DEF LeaseInv, LeaseOfEngaged
<1> QED
  BY <1>1, LeaseInvariant, PTL

-----------------------------------------------------------------------------
(* The journal. No token is assumed to be a process's own, and no append to *)
(* wait for another: a line that is written late, or twice under one        *)
(* sequence, makes the file one that does not load.                         *)

\* The sequence of a line under way is no larger than what its process takes for written.
PendingBehind ==
  \A p \in Processes, t \in Tasks :
    /\ ~Running(p) => pending[p][t] = {}
    /\ \A line \in pending[p][t] : line.sequence <= Len(entries[p])

JournalInv == TypeOK /\ PendingBehind /\ OneHistory

-----------------------------------------------------------------------------
(* Lines.                                                                   *)

\* What a line appended leaves of the lines before it.
LEMMA AppendKeepsFront ==
  ASSUME NEW lines \in Seq(Line), NEW line \in Line, NEW n \in 0..Len(lines)
  PROVE  SubSeq(Append(lines, line), 1, n) = SubSeq(lines, 1, n)
<1>1. /\ Append(lines, line) \in Seq(Line) /\ Len(Append(lines, line)) = Len(lines) + 1
      /\ \A i \in 1..Len(lines) : Append(lines, line)[i] = lines[i] /\ lines[i] \in Line
  BY AppendProperties, ElementOfSeq
<1>2. Len(lines) \in Nat
  BY LenProperties
<1>3. CASE n = 0
  BY <1>3, SubSeqEmpty
<1>4. CASE n # 0
  <2>1. /\ SubSeq(lines, 1, n) \in Seq(Line) /\ Len(SubSeq(lines, 1, n)) = n
        /\ \A i \in 1..n : SubSeq(lines, 1, n)[i] = lines[i]
    BY <1>1, <1>2, <1>4, SubSeqProperties
  <2>2. \A i \in 1..n : Append(lines, line)[i] \in Line
    BY <1>1, <1>2
  <2>3. /\ SubSeq(Append(lines, line), 1, n) \in Seq(Line) /\ Len(SubSeq(Append(lines, line), 1, n)) = n
        /\ \A i \in 1..n : SubSeq(Append(lines, line), 1, n)[i] = Append(lines, line)[i]
    BY <1>2, <1>4, <2>2, SubSeqProperties
  <2>4. \A i \in 1..n : SubSeq(Append(lines, line), 1, n)[i] = SubSeq(lines, 1, n)[i]
    BY <1>1, <1>2, <2>1, <2>3
  <2> QED
    BY <2>1, <2>3, <2>4, SeqEqual
<1> QED
  BY <1>3, <1>4

\* A file that loads did so before its last line, which has the next sequence.
LEMMA LoadsBefore ==
  ASSUME NEW lines \in Seq(Line), NEW line \in Line, Loads(Append(lines, line))
  PROVE  Loads(lines) /\ line.sequence = Len(lines)
<1> DEFINE longer == Append(lines, line)
<1>1. /\ longer \in Seq(Line) /\ Len(longer) = Len(lines) + 1
      /\ \A i \in 1..Len(lines) : longer[i] = lines[i]
      /\ longer[Len(lines) + 1] = line
  BY AppendProperties
<1>2. DOMAIN longer = 1..(Len(lines) + 1) /\ DOMAIN lines = 1..Len(lines) /\ Len(lines) \in Nat
  BY <1>1, LenProperties
<1>3. line.sequence = Len(lines)
  BY <1>1, <1>2 DEF Loads
<1>4. ASSUME NEW i \in 1..Len(lines)
      PROVE  /\ lines[i].sequence = i - 1
             /\ lines[i].previous = HashOf(SubSeq(lines, 1, i - 1))
  <2>1. /\ longer[i].sequence = i - 1
        /\ longer[i].previous = HashOf(SubSeq(longer, 1, i - 1))
    BY <1>2 DEF Loads
  <2>2. SubSeq(longer, 1, i - 1) = SubSeq(lines, 1, i - 1)
    BY <1>2, AppendKeepsFront
  <2> QED
    BY <1>1, <2>1, <2>2
<1> QED
  BY <1>2, <1>3, <1>4 DEF Loads

LEMMA PrefixOfItself ==
  ASSUME NEW lines \in Seq(Line)
  PROVE  IsPrefix(lines, lines)
BY LenProperties DEF IsPrefix

LEMMA PrefixOfLonger ==
  ASSUME NEW lines \in Seq(Line), NEW line \in Line, NEW known \in Seq(Line), IsPrefix(known, lines)
  PROVE  IsPrefix(known, Append(lines, line))
<1>1. /\ Len(known) \in 0..Len(lines) /\ Len(lines) \in Nat
      /\ Len(Append(lines, line)) = Len(lines) + 1
  BY LenProperties, AppendProperties DEF IsPrefix
<1> QED
  BY <1>1, AppendKeepsFront DEF IsPrefix

LEMMA PrefixInFull ==
  ASSUME NEW lines \in Seq(Line), NEW known \in Seq(Line), IsPrefix(known, lines), Len(known) >= Len(lines)
  PROVE  known = lines
<1>1. Len(known) = Len(lines)
  BY LenProperties DEF IsPrefix
<1> QED
  BY <1>1, SubSeqFull DEF IsPrefix

-----------------------------------------------------------------------------
(* Types.                                                                   *)

LEMMA HashIsNatural ==
  ASSUME NEW lines \in Seq(Line)
  PROVE  HashOf(lines) \in Nat
<1>1. CASE lines = <<>>
  BY <1>1 DEF HashOf, Genesis
<1>2. CASE lines # <<>>
  <2>1. Len(lines) \in 1..Len(lines)
    BY <1>2, EmptySeq, LenProperties
  <2>2. lines[Len(lines)] \in Line
    BY <2>1, ElementOfSeq
  <2> QED
    BY <1>2, <2>2 DEF HashOf, Last, Line
<1> QED
  BY <1>1, <1>2

LEMMA JournalTypeStarts == Init => TypeOK
BY DEF Init, TypeOK

LEMMA JournalTypeSteps == TypeOK /\ [Next]_vars => TypeOK'
<1> SUFFICES ASSUME TypeOK, [Next]_vars PROVE TypeOK'
  OBVIOUS
<1>1. ASSUME NEW p \in Processes, Open(p) PROVE TypeOK'
  BY <1>1 DEF Open, TypeOK
<1>2. ASSUME NEW p \in Processes, Stop(p) PROVE TypeOK'
  BY <1>2 DEF Stop, TypeOK
<1>3. ASSUME NEW p \in Processes, End(p) PROVE TypeOK'
  BY <1>3 DEF End, TypeOK
<1>4. ASSUME NEW p \in Processes, NEW t \in Tasks, BeginAppend(p, t) PROVE TypeOK'
  <2> DEFINE line == [sequence |-> Len(entries[p]), previous |-> HashOf(entries[p]), hash |-> hashes + 1]
  <2>1. entries[p] \in Seq(Line) /\ Len(entries[p]) \in Nat /\ HashOf(entries[p]) \in Nat /\ hashes \in Nat
    BY HashIsNatural DEF TypeOK
  <2>2. line \in Line
    BY <2>1 DEF Line
  <2>3. pending' = [pending EXCEPT ![p][t] = {line}] /\ hashes' = hashes + 1
        /\ UNCHANGED <<file, lock, status, entries, opens>>
    BY <1>4 DEF BeginAppend
  <2> HIDE DEF line
  <2> QED
    BY <2>2, <2>3 DEF TypeOK
<1>5. ASSUME NEW p \in Processes, NEW t \in Tasks, FinishAppend(p, t) PROVE TypeOK'
  <2>1. PICK line \in pending[p][t] : file' = Append(file, line) /\ entries' = [entries EXCEPT ![p] = Append(@, line)]
    BY <1>5 DEF FinishAppend
  <2>2. line \in Line /\ file \in Seq(Line) /\ entries[p] \in Seq(Line)
    BY DEF TypeOK
  <2>3. Append(file, line) \in Seq(Line) /\ Append(entries[p], line) \in Seq(Line)
    BY <2>2, AppendProperties
  <2>4. pending' = [pending EXCEPT ![p][t] = {}] /\ UNCHANGED <<lock, status, hashes, opens>>
    BY <1>5 DEF FinishAppend
  <2> QED
    BY <2>1, <2>3, <2>4 DEF TypeOK
<1>6. CASE UNCHANGED vars
  BY <1>6 DEF vars, TypeOK
<1> QED
  BY <1>1, <1>2, <1>3, <1>4, <1>5, <1>6 DEF Next

-----------------------------------------------------------------------------
(* Each action keeps the invariant.                                         *)

LEMMA InitJournal == Init => JournalInv
BY JournalTypeStarts DEF Init, JournalInv, PendingBehind, OneHistory, Running

LEMMA OpenKeeps ==
  ASSUME JournalInv, NEW p \in Processes, Open(p)
  PROVE  PendingBehind' /\ OneHistory'
<1>1. /\ ~Running(p) /\ UNCHANGED <<file, pending>>
      /\ status' = [status EXCEPT ![p] = IF Loads(file) THEN "up" ELSE "fatal"]
      /\ entries' = [entries EXCEPT ![p] = IF Loads(file) THEN file ELSE <<>>]
  BY DEF Open, Running
<1>2. PendingBehind'
  BY <1>1 DEF JournalInv, TypeOK, PendingBehind, Running
<1>3. OneHistory'
  BY <1>1, PrefixOfItself DEF JournalInv, TypeOK, OneHistory, RestartLoads, Running
<1> QED
  BY <1>2, <1>3

LEMMA BeginKeeps ==
  ASSUME JournalInv, NEW p \in Processes, NEW t \in Tasks, BeginAppend(p, t)
  PROVE  PendingBehind' /\ OneHistory'
<1> DEFINE line == [sequence |-> Len(entries[p]), previous |-> HashOf(entries[p]), hash |-> hashes + 1]
<1>1. /\ Running(p) /\ UNCHANGED <<file, status, entries>>
      /\ pending' = [pending EXCEPT ![p][t] = {line}]
  BY DEF BeginAppend
<1>2. line.sequence <= Len(entries[p])
  BY LenProperties DEF JournalInv, TypeOK
<1> HIDE DEF line
<1>3. PendingBehind'
  BY <1>1, <1>2 DEF JournalInv, TypeOK, PendingBehind, Running
<1>4. OneHistory'
  BY <1>1 DEF JournalInv, OneHistory, RestartLoads, Running
<1> QED
  BY <1>3, <1>4

\* The one step at which a fork could pass for a history: the file still loads only if the
\* line comes next in it, and then the process that wrote it knew all of the file.
LEMMA FinishKeeps ==
  ASSUME JournalInv, NEW p \in Processes, NEW t \in Tasks, FinishAppend(p, t)
  PROVE  PendingBehind' /\ OneHistory'
<1>1. PICK line \in pending[p][t] :
        file' = Append(file, line) /\ entries' = [entries EXCEPT ![p] = Append(@, line)]
  BY DEF FinishAppend
<1>2. /\ Running(p) /\ pending' = [pending EXCEPT ![p][t] = {}] /\ UNCHANGED status
      /\ line \in Line /\ file \in Seq(Line) /\ \A q \in Processes : entries[q] \in Seq(Line)
      /\ line.sequence <= Len(entries[p])
  BY DEF FinishAppend, JournalInv, TypeOK, PendingBehind
<1>3. PendingBehind'
  <2>1. Len(Append(entries[p], line)) = Len(entries[p]) + 1 /\ Len(entries[p]) \in Nat
    BY <1>2, AppendProperties, LenProperties
  <2>2. ASSUME NEW q \in Processes, NEW u \in Tasks
        PROVE  /\ ~Running(q)' => pending'[q][u] = {}
               /\ \A other \in pending'[q][u] : other.sequence <= Len(entries'[q])
    <3>1. /\ pending'[q][u] \subseteq pending[q][u] /\ Running(q)' = Running(q)
          /\ entries'[q] = IF q = p THEN Append(entries[p], line) ELSE entries[q]
      BY <1>1, <1>2 DEF JournalInv, TypeOK, Running
    <3>2. \A other \in pending[q][u] : other.sequence \in Nat /\ other.sequence <= Len(entries[q])
      BY DEF JournalInv, TypeOK, PendingBehind, Line
    <3> QED
      BY <2>1, <3>1, <3>2 DEF JournalInv, PendingBehind
  <2> QED
    BY <2>2 DEF PendingBehind
<1>4. ASSUME Loads(file'), NEW q \in Processes, Running(q)
      PROVE  IsPrefix(entries'[q], file')
  <2>1. Loads(file) /\ line.sequence = Len(file)
    BY <1>1, <1>2, <1>4, LoadsBefore
  <2>2. IsPrefix(entries[p], file) /\ IsPrefix(entries[q], file)
    BY <1>2, <1>4, <2>1 DEF JournalInv, OneHistory, RestartLoads
  <2>3. entries[p] = file
    BY <1>2, <2>1, <2>2, PrefixInFull
  <2>4. CASE q = p
    <3>1. entries'[q] = file' /\ file' \in Seq(Line)
      BY <1>1, <1>2, <2>3, <2>4, AppendProperties DEF JournalInv, TypeOK
    <3> QED
      BY <3>1, PrefixOfItself
  <2>5. CASE q # p
    <3>1. entries'[q] = entries[q]
      BY <1>1, <2>5 DEF JournalInv, TypeOK
    <3> QED
      BY <1>1, <1>2, <2>2, <3>1, PrefixOfLonger
  <2> QED
    BY <2>4, <2>5
<1>5. OneHistory'
  BY <1>2, <1>4 DEF OneHistory, RestartLoads, Running
<1> QED
  BY <1>3, <1>5

LEMMA StopKeeps ==
  ASSUME JournalInv, NEW p \in Processes, Stop(p)
  PROVE  PendingBehind' /\ OneHistory'
BY DEF Stop, JournalInv, TypeOK, PendingBehind, OneHistory, RestartLoads, Running

LEMMA EndKeeps ==
  ASSUME JournalInv, NEW p \in Processes, End(p)
  PROVE  PendingBehind' /\ OneHistory'
BY DEF End, JournalInv, TypeOK, PendingBehind, OneHistory, RestartLoads, Running

LEMMA NextKeepsJournal == JournalInv /\ [Next]_vars => JournalInv'
<1>1. JournalInv /\ UNCHANGED vars => PendingBehind' /\ OneHistory'
  BY DEF vars, JournalInv, PendingBehind, OneHistory, RestartLoads, Running
<1>2. JournalInv /\ [Next]_vars => TypeOK'
  BY JournalTypeSteps DEF JournalInv
<1> QED
  BY <1>1, <1>2, OpenKeeps, BeginKeeps, FinishKeeps, StopKeeps, EndKeeps DEF Next, JournalInv

(* One history: as long as the file loads, every running process finds what *)
(* it took for written at its place in it, for any processes, tasks and     *)
(* tokens, appends that overlap, fences released with a line on the way,    *)
(* crashes and takeovers. Where appends do fork the file, load() says so    *)
(* (the runs journal_concurrent and journal_stale_holder show what it       *)
(* costs).                                                                  *)
THEOREM HistoryIsOne == Spec => []OneHistory
<1>1. JournalInv => OneHistory
  BY DEF JournalInv
<1> QED
  BY InitJournal, NextKeepsJournal, <1>1, PTL DEF Spec

----------------------------------------------------------------------------
(* Sessions. The copy a cycle works on may be stale in one way only: it does *)
(* not know the pause, or the end, of a request whose call threw after the   *)
(* row was written, and that request is still pending.                       *)

Activities == Awake \cup {"OFF", "WIND_DOWN"}
PausedBy == {"no", "OPERATOR", "DEAD_MAN", "STICKY"}
SessionRow == [activity : Activities, paused : PausedBy]
ControlRequest == [kind : Kinds, state : {"PENDING", "ACCEPTED", "REJECTED"}, verified : BOOLEAN]
RolePlaces == {"idle", "list", "next", "create", "persist", "reload", "sticky", "clear", "answer", "drive"}
RoleSteps == {"none", "START", "HONOUR", "END", "PAUSE", "RESUME", "DRIVE", "REJECTED"}
SessionCopy == [id : Nat, activity : Activities, paused : PausedBy]
SessionRole == [at : RolePlaces, step : RoleSteps, copy : SessionCopy, to : SessionRow, batch : SUBSET Nat]

SessionShape ==
  /\ rows \in Seq(SessionRow) /\ request \in Seq(ControlRequest) /\ role \in SessionRole
  /\ role.copy.id \in 0..Len(rows) /\ role.batch \subseteq 1..Len(request)

Row == rows[role.copy.id]

\* What a step is for: the oldest pending request of the batch, or none of them.
StepServes ==
  /\ \A r \in role.batch : request[r].state = "PENDING"
  /\ role.step \in {"START", "HONOUR"} => role.batch = {} \/ request[Req].kind = "START_SESSION"
  /\ role.step = "END" => role.batch # {} /\ request[Req].kind = "END_SESSION"
  /\ role.step = "PAUSE" => role.batch # {} /\ request[Req].kind = "PAUSE_NEW_ENTRIES"
  /\ role.step = "RESUME" => role.batch # {} /\ request[Req].kind = "RESUME_NEW_ENTRIES"

PlaceFits ==
  /\ role.at \in {"idle", "list", "drive"} => role.batch = {}
  /\ role.at \in {"idle", "list", "next"} => role.step = "none"
  /\ role.at \in {"create", "sticky"} => role.step = "START"
  /\ role.at = "clear" => role.step = "RESUME"
  /\ role.at \in {"persist", "reload"} => role.step \notin {"none", "REJECTED"}
  /\ role.at = "answer" => role.step \notin {"none", "DRIVE"} /\ role.batch # {}
  /\ role.at \in {"persist", "reload", "sticky", "clear", "drive"} \/ (role.at = "answer" /\ role.step # "REJECTED")
       => role.copy.id # 0

\* What is about to be written is the copy, but for what the step is there to change.
WriteFits ==
  role.at = "persist" =>
    /\ role.step = "START" => Row = [activity |-> "OFF", paused |-> "no"] /\ role.to = [activity |-> "STARTING", paused |-> "no"]
    /\ role.step = "HONOUR" => role.to = [activity |-> "STARTING", paused |-> "STICKY"]
    /\ role.step = "END" => role.to = [activity |-> "WIND_DOWN", paused |-> role.copy.paused]
    /\ role.step = "PAUSE" => role.to.activity = role.copy.activity /\ role.to.paused # "no"
    /\ role.step = "RESUME" => role.to = [activity |-> role.copy.activity, paused |-> "no"]
    /\ role.step = "DRIVE" => role.to = [activity |-> DriveTo(role.copy.activity), paused |-> role.copy.paused]

\* What the row says once it is written.
RowTold ==
  /\ role.step = "HONOUR" /\ role.at = "persist" => Row.activity = "STARTING"
  /\ role.at \in {"reload", "sticky", "clear", "answer"} =>
       /\ role.step \in {"START", "HONOUR"} => Row.activity = "STARTING"
       /\ role.step = "END" => Row.activity = "WIND_DOWN"
       /\ role.step = "PAUSE" => Row.paused # "no"
       /\ role.step = "RESUME" => Row.paused \in {"no", "DEAD_MAN"}
  /\ role.at = "reload" /\ role.step # "DRIVE" => Row.activity # "OFF"
  /\ role.at = "answer" /\ role.step = "RESUME" => (sticky => struck)

CopyKnows ==
  /\ role.copy.id = 0 => role.copy = NoSession
  /\ role.copy.id # 0 =>
       /\ role.copy.activity = "OFF" => role.step = "START" /\ role.at \in {"persist", "reload"}
       /\ Row.activity = "WIND_DOWN" /\ role.copy.activity # "WIND_DOWN" => Waiting("END_SESSION")
       /\ Row.paused = "OPERATOR" /\ role.copy.paused = "no" => Waiting("PAUSE_NEW_ENTRIES")
  /\ role.at = "sticky" => role.copy.activity = "STARTING"
  /\ role.at = "answer" =>
       /\ role.step = "END" => role.copy.activity = "WIND_DOWN"
       /\ role.step = "PAUSE" => role.copy.paused # "no"
       /\ role.step = "REJECTED" /\ request[Req].kind = "END_SESSION" => role.copy.activity \notin Awake
       /\ role.step = "REJECTED" /\ request[Req].kind = "PAUSE_NEW_ENTRIES" => role.copy.id = 0

SessionInv == SessionShape /\ StepServes /\ PlaceFits /\ WriteFits /\ RowTold /\ CopyKnows

LEMMA RoleNames ==
  /\ "idle" \in RolePlaces /\ "list" \in RolePlaces /\ "next" \in RolePlaces /\ "create" \in RolePlaces
  /\ "persist" \in RolePlaces /\ "reload" \in RolePlaces /\ "sticky" \in RolePlaces /\ "clear" \in RolePlaces
  /\ "answer" \in RolePlaces /\ "drive" \in RolePlaces
  /\ "none" \in RoleSteps /\ "START" \in RoleSteps /\ "HONOUR" \in RoleSteps /\ "END" \in RoleSteps
  /\ "PAUSE" \in RoleSteps /\ "RESUME" \in RoleSteps /\ "DRIVE" \in RoleSteps /\ "REJECTED" \in RoleSteps
BY DEF RolePlaces, RoleSteps

LEMMA RoleIs ==
  ASSUME SessionShape
  PROVE  /\ role = [at |-> role.at, step |-> role.step, copy |-> role.copy, to |-> role.to, batch |-> role.batch]
         /\ role.at \in RolePlaces /\ role.step \in RoleSteps /\ role.copy \in SessionCopy /\ role.to \in SessionRow
         /\ role.batch \in SUBSET Nat /\ role.copy.id \in Nat /\ role.copy.activity \in Activities
         /\ role.copy.paused \in PausedBy
         /\ \A s \in 1..Len(rows) : rows[s] \in SessionRow /\ rows[s].activity \in Activities /\ rows[s].paused \in PausedBy
         /\ rows \in Seq(SessionRow) /\ Len(rows) \in Nat /\ DOMAIN rows = 1..Len(rows)
         /\ request \in Seq(ControlRequest) /\ Len(request) \in Nat /\ DOMAIN request = 1..Len(request)
         /\ \A r \in 1..Len(request) : request[r] \in ControlRequest
<1>1. role \in SessionRole /\ rows \in Seq(SessionRow) /\ request \in Seq(ControlRequest)
  BY DEF SessionShape
<1>2. role = [at |-> role.at, step |-> role.step, copy |-> role.copy, to |-> role.to, batch |-> role.batch]
      /\ role.at \in RolePlaces /\ role.step \in RoleSteps /\ role.copy \in SessionCopy /\ role.to \in SessionRow
      /\ role.batch \in SUBSET Nat
  BY <1>1 DEF SessionRole
<1>3. role.copy.id \in Nat /\ role.copy.activity \in Activities /\ role.copy.paused \in PausedBy
  BY <1>2 DEF SessionCopy
<1>4. \A s \in 1..Len(rows) : rows[s] \in SessionRow
  BY <1>1
<1>5. \A x \in SessionRow : x.activity \in Activities /\ x.paused \in PausedBy
  BY DEF SessionRow
<1>6. Len(rows) \in Nat /\ DOMAIN rows = 1..Len(rows) /\ Len(request) \in Nat /\ DOMAIN request = 1..Len(request)
      /\ \A r \in 1..Len(request) : request[r] \in ControlRequest
  BY <1>1
<1> QED
  BY <1>1, <1>2, <1>3, <1>4, <1>5, <1>6

LEMMA OldestOf ==
  ASSUME SessionShape, role.batch # {}
  PROVE  Req \in role.batch /\ Req \in 1..Len(request) /\ request[Req].kind \in Kinds
<1>1. role.batch \subseteq Nat
  BY RoleIs
<1>2. Req \in role.batch
  BY <1>1, LeastOf DEF Req
<1>3. Req \in 1..Len(request)
  BY <1>2 DEF SessionShape
<1>4. request[Req] \in ControlRequest
  BY <1>3, RoleIs
<1> QED
  BY <1>2, <1>3, <1>4 DEF ControlRequest

LEMMA AtRest ==
  /\ NoSession \in SessionCopy /\ NoSession.id = 0 /\ [activity |-> "OFF", paused |-> "no"] \in SessionRow
  /\ Resting.at = "idle" /\ Resting.step = "none" /\ Resting.copy = NoSession /\ Resting.batch = {}
  /\ Resting.to = [activity |-> "OFF", paused |-> "no"]
  /\ Resting = [at |-> "idle", step |-> "none", copy |-> NoSession,
                to |-> [activity |-> "OFF", paused |-> "no"], batch |-> {}]
BY DEF NoSession, SessionCopy, Activities, PausedBy, Resting, SessionRow

LEMMA SessionStart == SessionInit => SessionInv
<1> SUFFICES ASSUME SessionInit PROVE SessionInv
  OBVIOUS
<1>1. rows = <<>> /\ request = <<>> /\ role = Resting /\ sticky = FALSE
  BY DEF SessionInit
<1>2. SessionShape
  <2>1. role \in SessionRole
    BY <1>1, AtRest DEF SessionRole, RolePlaces, RoleSteps
  <2> QED
    BY <1>1, <2>1, AtRest DEF SessionShape
<1> QED
  BY <1>1, <1>2, AtRest DEF SessionInv, StepServes, PlaceFits, WriteFits, RowTold, CopyKnows

\* What the role's own steps leave as it was.
LEMMA WaitingStays ==
  ASSUME UNCHANGED request
  PROVE  \A k : Waiting(k)' <=> Waiting(k)
BY DEF Waiting

LEMMA RestKeeps ==
  ASSUME SessionInv, role' = Resting, UNCHANGED <<rows, request>>
  PROVE  SessionInv'
<1>1. role' \in SessionRole
  <2>1. role' = [at |-> "idle", step |-> "none", copy |-> NoSession,
                 to |-> [activity |-> "OFF", paused |-> "no"], batch |-> {}]
    BY AtRest
  <2>2. {} \in SUBSET Nat
    OBVIOUS
  <2> QED
    BY <2>1, <2>2, AtRest, RoleNames DEF SessionRole
<1>2. SessionShape'
  BY <1>1, AtRest DEF SessionInv, SessionShape
<1> QED
  BY <1>2, AtRest DEF SessionInv, StepServes, PlaceFits, WriteFits, RowTold, CopyKnows

LEMMA LoadFits ==
  ASSUME SessionShape, NEW s \in 0..Len(rows)
  PROVE  /\ Load(s) \in SessionCopy /\ Load(s).id = s
         /\ s # 0 => Load(s).activity = rows[s].activity /\ Load(s).paused = rows[s].paused
         /\ s = 0 => Load(s) = NoSession
<1>1. CASE s = 0
  BY <1>1, AtRest DEF Load
<1>2. CASE s # 0
  <2>1. s \in 1..Len(rows) /\ s \in Nat
    BY <1>2, RoleIs
  <2>2. rows[s].activity \in Activities /\ rows[s].paused \in PausedBy
    BY <2>1, RoleIs
  <2> QED
    BY <1>2, <2>1, <2>2 DEF Load, SessionCopy
<1> QED
  BY <1>1, <1>2

LEMMA CurrentFits ==
  ASSUME SessionShape
  PROVE  Current \in 0..Len(rows) /\ (Current # 0 => rows[Current].activity # "OFF")
<1>1. OpenSessions \subseteq 1..Len(rows) /\ Len(rows) \in Nat
  BY RoleIs DEF OpenSessions
<1>2. CASE OpenSessions = {}
  BY <1>1, <1>2 DEF Current
<1>3. CASE OpenSessions # {}
  <2>1. Current = Max(OpenSessions)
    BY <1>3 DEF Current
  <2>2. Current \in OpenSessions
    BY <1>1, <1>3, <2>1, GreatestOf
  <2> QED
    BY <1>1, <2>2 DEF OpenSessions
<1> QED
  BY <1>2, <1>3

LEMMA SessionBegins ==
  ASSUME SessionInv, BeginCycle
  PROVE  SessionInv'
<1> DEFINE c == Load(Current)
<1>1. UNCHANGED <<rows, request, sticky, struck>>
      /\ role' = [at |-> "list", step |-> "none", copy |-> c, to |-> Resting.to, batch |-> {}]
  BY AtRest DEF BeginCycle
<1>2. c \in SessionCopy /\ c.id \in 0..Len(rows)
      /\ (c.id # 0 => c.activity = rows[c.id].activity /\ c.paused = rows[c.id].paused /\ c.activity # "OFF")
      /\ (c.id = 0 => c = NoSession)
  BY CurrentFits, LoadFits DEF SessionInv
<1> HIDE DEF c
<1>3. role' \in SessionRole /\ role'.at = "list" /\ role'.step = "none" /\ role'.copy = c /\ role'.batch = {}
      /\ role'.copy.id = c.id
  <2>1. Resting.to \in SessionRow /\ {} \in SUBSET Nat
    BY AtRest
  <2> QED
    BY <1>1, <1>2, <2>1, RoleNames DEF SessionRole
<1>4. SessionShape'
  BY <1>1, <1>2, <1>3 DEF SessionInv, SessionShape
<1> QED
  BY <1>1, <1>2, <1>3, <1>4 DEF SessionInv, StepServes, PlaceFits, WriteFits, RowTold, CopyKnows, Row

LEMMA ListKeeps ==
  ASSUME SessionInv, ListRequests
  PROVE  SessionInv'
<1> DEFINE B == {r \in DOMAIN request : request[r].state = "PENDING"}
<1>1. UNCHANGED <<rows, request, sticky, struck>> /\ role.at = "list" /\ SessionShape
      /\ role' = [role EXCEPT !.at = "next", !.batch = B]
  BY DEF ListRequests, SessionInv
<1>2. B \subseteq 1..Len(request) /\ B \in SUBSET Nat /\ \A r \in B : request[r].state = "PENDING"
  BY <1>1, RoleIs
<1> HIDE DEF B
<1>3. role.step = "none"
  BY <1>1 DEF SessionInv, PlaceFits
<1>4. role' = [at |-> "next", step |-> "none", copy |-> role.copy, to |-> role.to, batch |-> B]
  BY <1>1, <1>3, RoleIs
<1>5. role' \in SessionRole /\ role'.at = "next" /\ role'.step = "none" /\ role'.copy = role.copy /\ role'.batch = B
  <2>1. role.copy \in SessionCopy /\ role.to \in SessionRow
    BY <1>1, RoleIs
  <2> QED
    BY <1>2, <1>4, <2>1, RoleNames DEF SessionRole
<1>6. SessionShape'
  BY <1>1, <1>2, <1>5 DEF SessionShape
<1>7. CopyKnows'
  BY <1>1, <1>5, WaitingStays DEF SessionInv, CopyKnows, Row
<1> QED
  BY <1>1, <1>2, <1>5, <1>6, <1>7 DEF SessionInv, StepServes, PlaceFits, WriteFits, RowTold

\* A step of the role with these fields leaves requests and rows of the right shape.
LEMMA RoleMoves ==
  ASSUME SessionShape, UNCHANGED <<rows, request>>,
         role' = [at |-> role'.at, step |-> role'.step, copy |-> role'.copy, to |-> role'.to, batch |-> role'.batch],
         role'.at \in RolePlaces, role'.step \in RoleSteps, role'.copy \in SessionCopy, role'.to \in SessionRow,
         role'.copy.id \in 0..Len(rows), role'.batch \subseteq role.batch
  PROVE  SessionShape' /\ \A k : Waiting(k)' <=> Waiting(k)
<1>1. role'.batch \in SUBSET Nat
  BY RoleIs
<1>2. role' \in SessionRole
  BY <1>1 DEF SessionRole
<1> QED
  BY <1>2, WaitingStays DEF SessionShape

\* A step that moves on with the same batch.
LEMMA Moved ==
  ASSUME SessionShape, NEW a, NEW s, NEW t, role' = [role EXCEPT !.at = a, !.step = s, !.to = t]
  PROVE  /\ role' = [at |-> role'.at, step |-> role'.step, copy |-> role'.copy, to |-> role'.to, batch |-> role'.batch]
         /\ role'.at = a /\ role'.step = s /\ role'.copy = role.copy /\ role'.to = t /\ role'.batch = role.batch
         /\ Req' = Req
<1>1. role = [at |-> role.at, step |-> role.step, copy |-> role.copy, to |-> role.to, batch |-> role.batch]
  BY RoleIs
<1>2. role' = [at |-> a, step |-> s, copy |-> role.copy, to |-> t, batch |-> role.batch]
  BY <1>1
<1> QED
  BY <1>2 DEF Req

\* A step that moves on with the same row to be.
LEMMA MovedOn ==
  ASSUME SessionShape, NEW a, NEW s, role' = [role EXCEPT !.at = a, !.step = s]
  PROVE  /\ role' = [at |-> role'.at, step |-> role'.step, copy |-> role'.copy, to |-> role'.to, batch |-> role'.batch]
         /\ role'.at = a /\ role'.step = s /\ role'.copy = role.copy /\ role'.to = role.to /\ role'.batch = role.batch
         /\ Req' = Req
<1>1. role = [at |-> role.at, step |-> role.step, copy |-> role.copy, to |-> role.to, batch |-> role.batch]
  BY RoleIs
<1>2. role' = [at |-> a, step |-> s, copy |-> role.copy, to |-> role.to, batch |-> role.batch]
  BY <1>1
<1> QED
  BY <1>2 DEF Req

LEMMA RefuseKeeps ==
  ASSUME SessionInv, role.at = "next", role.batch # {}, UNCHANGED <<rows, sticky, request, struck>>, Refuse,
         request[Req].kind = "END_SESSION" => role.copy.activity \notin Awake,
         request[Req].kind = "PAUSE_NEW_ENTRIES" => role.copy.id = 0
  PROVE  SessionInv'
<1>1. SessionShape
  BY DEF SessionInv
<1>2. /\ role' = [at |-> role'.at, step |-> role'.step, copy |-> role'.copy, to |-> role'.to, batch |-> role'.batch]
      /\ role'.at = "answer" /\ role'.step = "REJECTED" /\ role'.copy = role.copy /\ role'.to = role.to
      /\ role'.batch = role.batch /\ Req' = Req
  BY <1>1, MovedOn DEF Refuse
<1>3. SessionShape' /\ \A k : Waiting(k)' <=> Waiting(k)
  <2>1. role.copy \in SessionCopy /\ role.to \in SessionRow /\ role.copy.id \in 0..Len(rows)
    BY <1>1, RoleIs DEF SessionShape
  <2> QED
    BY <1>1, <1>2, <2>1, RoleMoves, RoleNames
<1>4. CopyKnows'
  BY <1>2, <1>3 DEF SessionInv, CopyKnows, Row
<1> QED
  BY <1>2, <1>3, <1>4 DEF SessionInv, StepServes, PlaceFits, WriteFits, RowTold

LEMMA TakeStartKeeps ==
  ASSUME SessionInv, role.at = "next", role.batch # {}, UNCHANGED <<rows, sticky, request, struck>>, TakeStart
  PROVE  SessionInv'
<1>1. CASE role.copy.id # 0
  BY <1>1, RefuseKeeps DEF TakeStart
<1>2. CASE role.copy.id = 0
  <2>1. SessionShape /\ request[Req].kind = "START_SESSION"
    BY DEF SessionInv, TakeStart
  <2>2. role' = [role EXCEPT !.at = "create", !.step = "START"]
    BY <1>2 DEF TakeStart
  <2>3. /\ role' = [at |-> role'.at, step |-> role'.step, copy |-> role'.copy, to |-> role'.to, batch |-> role'.batch]
        /\ role'.at = "create" /\ role'.step = "START" /\ role'.copy = role.copy /\ role'.to = role.to
        /\ role'.batch = role.batch /\ Req' = Req
    BY <2>1, <2>2, MovedOn
  <2>4. SessionShape' /\ \A k : Waiting(k)' <=> Waiting(k)
    <3>1. role.copy \in SessionCopy /\ role.to \in SessionRow /\ role.copy.id \in 0..Len(rows)
      BY <2>1, RoleIs DEF SessionShape
    <3> QED
      BY <2>1, <2>3, <3>1, RoleMoves, RoleNames
  <2> QED
    BY <1>2, <2>1, <2>3, <2>4 DEF SessionInv, StepServes, PlaceFits, WriteFits, RowTold, CopyKnows
<1> QED
  BY <1>1, <1>2

\* A write begins: the row to be is the copy's, but for what the step is there to change.
LEMMA WriteBegins ==
  ASSUME SessionInv, UNCHANGED <<rows, sticky, request, struck>>,
         role.at \in {"next", "drive"}, role.copy.id # 0, role.copy.activity # "OFF",
         NEW s \in RoleSteps, NEW a \in Activities, NEW p \in PausedBy, Write(s, a, p),
         \/ /\ s = "END" /\ a = "WIND_DOWN" /\ p = role.copy.paused
            /\ role.batch # {} /\ request[Req].kind = "END_SESSION"
         \/ /\ s = "PAUSE" /\ a = role.copy.activity /\ p # "no"
            /\ role.batch # {} /\ request[Req].kind = "PAUSE_NEW_ENTRIES"
         \/ /\ s = "RESUME" /\ a = role.copy.activity /\ p = "no"
            /\ role.batch # {} /\ request[Req].kind = "RESUME_NEW_ENTRIES"
         \/ s = "DRIVE" /\ a = DriveTo(role.copy.activity) /\ p = role.copy.paused /\ role.batch = {}
  PROVE  SessionInv'
<1>1. SessionShape
  BY DEF SessionInv
<1>2. [activity |-> a, paused |-> p] \in SessionRow
  BY DEF SessionRow
<1>3. /\ role' = [at |-> role'.at, step |-> role'.step, copy |-> role'.copy, to |-> role'.to, batch |-> role'.batch]
      /\ role'.at = "persist" /\ role'.step = s /\ role'.copy = role.copy /\ role'.to = [activity |-> a, paused |-> p]
      /\ role'.batch = role.batch /\ Req' = Req
  BY <1>1, Moved DEF Write
<1>4. SessionShape' /\ \A k : Waiting(k)' <=> Waiting(k)
  <2>1. role.copy \in SessionCopy /\ role.copy.id \in 0..Len(rows)
    BY <1>1, RoleIs DEF SessionShape
  <2> QED
    BY <1>1, <1>2, <1>3, <2>1, RoleMoves, RoleNames
<1>5. StepServes' /\ PlaceFits' /\ RowTold'
  BY <1>3 DEF SessionInv, StepServes, PlaceFits, RowTold
<1>6. WriteFits'
  BY <1>3 DEF WriteFits
<1>7. CopyKnows'
  BY <1>3, <1>4 DEF SessionInv, CopyKnows, Row
<1> QED
  BY <1>4, <1>5, <1>6, <1>7 DEF SessionInv

LEMMA NextKeeps ==
  ASSUME SessionInv, NextRequest
  PROVE  SessionInv'
<1>1. role.at = "next" /\ role.batch # {} /\ UNCHANGED <<rows, sticky, request, struck>> /\ SessionShape
  BY DEF NextRequest, SessionInv
<1>2. role.copy.id \in Nat /\ role.copy.activity \in Activities /\ role.copy.paused \in PausedBy
  BY <1>1, RoleIs
<1>3. role.copy.id # 0 => role.copy.activity # "OFF"
  BY <1>1 DEF SessionInv, CopyKnows
<1>4. CASE TakeStart
  BY <1>1, <1>4, TakeStartKeeps
<1>5. CASE TakeEnd
  <2>1. CASE role.copy.activity \in Awake
    <3>1. role.copy.id # 0
      <4>1. role.copy.id = 0 => role.copy.activity = "OFF"
        BY DEF SessionInv, CopyKnows, NoSession
      <4> QED
        BY <2>1, <4>1 DEF Awake
    <3> QED
      BY <1>1, <1>2, <1>3, <1>5, <2>1, <3>1, WriteBegins, RoleNames DEF TakeEnd, Activities
  <2>2. CASE role.copy.activity \notin Awake
    BY <1>1, <1>5, <2>2, RefuseKeeps DEF TakeEnd
  <2> QED
    BY <2>1, <2>2
<1>6. CASE TakePause
  <2>1. CASE role.copy.id = 0
    BY <1>1, <1>6, <2>1, RefuseKeeps DEF TakePause
  <2>2. CASE role.copy.id # 0
    <3> DEFINE p == IF role.copy.paused = "no" THEN "OPERATOR" ELSE role.copy.paused
    <3>1. p \in PausedBy /\ p # "no"
      BY <1>2 DEF PausedBy
    <3>2. Write("PAUSE", role.copy.activity, p) /\ request[Req].kind = "PAUSE_NEW_ENTRIES"
      BY <1>6, <2>2 DEF TakePause
    <3> HIDE DEF p
    <3> QED
      BY <1>1, <1>2, <1>3, <2>2, <3>1, <3>2, WriteBegins, RoleNames
  <2> QED
    BY <2>1, <2>2
<1>7. CASE TakeResume
  <2>1. CASE role.copy.id # 0 /\ request[Req].verified
    BY <1>1, <1>2, <1>3, <1>7, <2>1, WriteBegins, RoleNames DEF TakeResume, PausedBy
  <2>2. CASE ~(role.copy.id # 0 /\ request[Req].verified)
    BY <1>1, <1>7, <2>2, RefuseKeeps DEF TakeResume
  <2> QED
    BY <2>1, <2>2
<1> QED
  BY <1>4, <1>5, <1>6, <1>7 DEF NextRequest

\* An answer is given on what the row says, so whoever still waits is someone else, or the copy knows.
LEMMA AnswerKeeps ==
  ASSUME SessionInv, Answer
  PROVE  SessionInv'
<1> DEFINE st == IF role.step = "REJECTED" THEN "REJECTED" ELSE "ACCEPTED"
<1>1. /\ SessionShape /\ role.at = "answer" /\ role.batch # {} /\ UNCHANGED <<rows, sticky, struck>>
      /\ request' = [request EXCEPT ![Req].state = st]
      /\ role' = [role EXCEPT !.at = "next", !.step = "none", !.batch = @ \ {Req}]
  BY DEF Answer, SessionInv, PlaceFits
<1>2. st \in {"REJECTED", "ACCEPTED"}
  OBVIOUS
<1> HIDE DEF st
<1>3. Req \in role.batch /\ Req \in 1..Len(request) /\ request[Req].kind \in Kinds
  BY <1>1, OldestOf
<1>4. request' \in Seq(ControlRequest) /\ Len(request)' = Len(request) /\ DOMAIN request' = DOMAIN request
      /\ \A q \in 1..Len(request) : request'[q].kind = request[q].kind /\ (q # Req => request'[q] = request[q])
  <2>1. [request[Req] EXCEPT !.state = st] \in ControlRequest
    BY <1>1, <1>2, <1>3, RoleIs DEF ControlRequest
  <2>2. [request[Req] EXCEPT !.state = st].kind = request[Req].kind
    BY <1>1, <1>3, RoleIs DEF ControlRequest
  <2>3. request \in Seq(ControlRequest)
    BY <1>1, RoleIs
  <2> DEFINE new == [request[Req] EXCEPT !.state = st]
  <2>4. request' = [request EXCEPT ![Req] = new] /\ new \in ControlRequest /\ new.kind = request[Req].kind
    BY <1>1, <2>1, <2>2
  <2> HIDE DEF new
  <2> QED
    BY <1>3, <2>3, <2>4
<1>5. role' = [at |-> "next", step |-> "none", copy |-> role.copy, to |-> role.to, batch |-> role.batch \ {Req}]
  <2>1. role = [at |-> role.at, step |-> role.step, copy |-> role.copy, to |-> role.to, batch |-> role.batch]
    BY <1>1, RoleIs
  <2> QED
    BY <1>1, <2>1
<1>6. role'.at = "next" /\ role'.step = "none" /\ role'.copy = role.copy /\ role'.batch = role.batch \ {Req}
  BY <1>5
<1>7. SessionShape'
  <2>1. role.copy \in SessionCopy /\ role.to \in SessionRow /\ role.batch \ {Req} \in SUBSET Nat
    BY <1>1, RoleIs
  <2>2. role' \in SessionRole
    BY <1>5, <2>1, RoleNames DEF SessionRole
  <2> QED
    BY <1>1, <1>4, <1>6, <2>2 DEF SessionShape
<1>8. StepServes'
  <2>1. \A r \in role.batch \ {Req} : request'[r].state = "PENDING"
    BY <1>1, <1>4 DEF SessionInv, StepServes, SessionShape
  <2> QED
    BY <1>6, <2>1 DEF StepServes
<1>9. CopyKnows'
  <2>1. \A k : Waiting(k) /\ k # request[Req].kind => Waiting(k)'
    BY <1>1, <1>4, RoleIs DEF Waiting
  <2>2. ASSUME role.copy.id # 0, Row.activity = "WIND_DOWN", role.copy.activity # "WIND_DOWN" PROVE Waiting("END_SESSION")'
    <3>1. request[Req].kind # "END_SESSION"
      <4> SUFFICES ASSUME request[Req].kind = "END_SESSION" PROVE FALSE
        OBVIOUS
      <4>1. role.step \in {"END", "REJECTED"}
        BY <1>1, RoleIs DEF SessionInv, StepServes, PlaceFits, RoleSteps
      <4>2. role.copy.activity \notin Awake /\ role.copy.activity # "OFF"
        BY <1>1, <2>2, <4>1 DEF SessionInv, CopyKnows
      <4>3. role.copy.activity \in Activities
        BY <1>1, RoleIs
      <4> QED
        BY <2>2, <4>2, <4>3 DEF Activities
    <3> QED
      BY <2>1, <2>2, <3>1 DEF SessionInv, CopyKnows
  <2>3. ASSUME role.copy.id # 0, Row.paused = "OPERATOR", role.copy.paused = "no" PROVE Waiting("PAUSE_NEW_ENTRIES")'
    <3>1. request[Req].kind # "PAUSE_NEW_ENTRIES"
      <4> SUFFICES ASSUME request[Req].kind = "PAUSE_NEW_ENTRIES" PROVE FALSE
        OBVIOUS
      <4>1. role.step \in {"PAUSE", "REJECTED"}
        BY <1>1, RoleIs DEF SessionInv, StepServes, PlaceFits, RoleSteps
      <4> QED
        BY <1>1, <2>3, <4>1 DEF SessionInv, CopyKnows
    <3> QED
      BY <2>1, <2>3, <3>1 DEF SessionInv, CopyKnows
  <2>4. Row' = Row
    BY <1>1, <1>6 DEF Row
  <2>5. (role.copy.id = 0 => role.copy = NoSession) /\ (role.copy.id # 0 => role.copy.activity # "OFF")
    BY <1>1 DEF SessionInv, CopyKnows
  <2> QED
    BY <1>6, <2>2, <2>3, <2>4, <2>5 DEF CopyKnows
<1> QED
  BY <1>6, <1>7, <1>8, <1>9 DEF SessionInv, PlaceFits, WriteFits, RowTold

LEMMA CreateKeeps ==
  ASSUME SessionInv, CreateSession
  PROVE  SessionInv'
<1> DEFINE c == [NoSession EXCEPT !.id = Len(rows) + 1]
           new == [activity |-> "OFF", paused |-> "no"]
<1>1. /\ SessionShape /\ role.at = "create" /\ role.step = "START" /\ UNCHANGED <<request, sticky, struck>>
      /\ rows' = Append(rows, new)
      /\ role' = [role EXCEPT !.at = "persist", !.copy = c, !.to = [activity |-> "STARTING", paused |-> "no"]]
  BY DEF CreateSession, SessionInv, PlaceFits
<1>2. c \in SessionCopy /\ c.id = Len(rows) + 1 /\ c.activity = "OFF" /\ c.paused = "no"
  BY <1>1, RoleIs DEF NoSession, SessionCopy, Activities, PausedBy
<1>3. new \in SessionRow /\ [activity |-> "STARTING", paused |-> "no"] \in SessionRow
  BY DEF SessionRow, Activities, Awake, PausedBy
<1> HIDE DEF c, new
<1>4. role' = [at |-> "persist", step |-> "START", copy |-> c, to |-> [activity |-> "STARTING", paused |-> "no"],
               batch |-> role.batch]
  <2>1. role = [at |-> role.at, step |-> role.step, copy |-> role.copy, to |-> role.to, batch |-> role.batch]
    BY <1>1, RoleIs
  <2> QED
    BY <1>1, <2>1
<1>5. /\ role'.at = "persist" /\ role'.step = "START" /\ role'.copy = c /\ role'.batch = role.batch
      /\ role'.to = [activity |-> "STARTING", paused |-> "no"] /\ role'.copy.id = Len(rows) + 1 /\ Req' = Req
  BY <1>2, <1>4 DEF Req
<1>6. rows' \in Seq(SessionRow) /\ Len(rows)' = Len(rows) + 1 /\ rows'[Len(rows) + 1] = new /\ Len(rows) \in Nat
  BY <1>1, <1>3, RoleIs
<1>7. SessionShape'
  <2>1. role.batch \in SUBSET Nat
    BY <1>1, RoleIs
  <2>2. role' \in SessionRole
    BY <1>2, <1>3, <1>4, <2>1, RoleNames DEF SessionRole
  <2> QED
    BY <1>1, <1>5, <1>6, <2>2 DEF SessionShape
<1>8. StepServes' /\ PlaceFits' /\ RowTold'
  BY <1>1, <1>5, <1>6 DEF SessionInv, StepServes, PlaceFits, RowTold
<1>9. Row' = new
  BY <1>5, <1>6 DEF Row
<1>10. WriteFits' /\ CopyKnows'
  BY <1>2, <1>5, <1>6, <1>9 DEF WriteFits, CopyKnows, new
<1> QED
  BY <1>7, <1>8, <1>10 DEF SessionInv

\* The row is written, and what the copy does not know of it is a pending request's.
LEMMA PersistKeeps ==
  ASSUME SessionInv, PersistTransition
  PROVE  SessionInv'
<1>1. /\ SessionShape /\ role.at = "persist" /\ UNCHANGED <<request, sticky, struck>>
      /\ rows' = [rows EXCEPT ![role.copy.id] = role.to] /\ role' = [role EXCEPT !.at = "reload"]
  BY DEF PersistTransition, SessionInv
<1>2. role = [at |-> role.at, step |-> role.step, copy |-> role.copy, to |-> role.to, batch |-> role.batch]
  BY <1>1, RoleIs
<1>3. role' = [at |-> "reload", step |-> role.step, copy |-> role.copy, to |-> role.to, batch |-> role.batch]
  BY <1>1, <1>2
<1>4. /\ role'.at = "reload" /\ role'.step = role.step /\ role'.copy = role.copy /\ role'.to = role.to
      /\ role'.batch = role.batch /\ Req' = Req
  BY <1>3 DEF Req
<1>5. role.copy.id \in 1..Len(rows) /\ role.copy.id # 0 /\ role.step \notin {"none", "REJECTED"}
  BY <1>1, RoleIs DEF SessionInv, PlaceFits, SessionShape
<1>6. rows' \in Seq(SessionRow) /\ Len(rows)' = Len(rows) /\ Row' = role.to
  <2>1. rows \in Seq(SessionRow) /\ role.to \in SessionRow
    BY <1>1, RoleIs
  <2> QED
    BY <1>1, <1>4, <1>5, <2>1 DEF Row
<1>7. SessionShape'
  <2>1. role.copy \in SessionCopy /\ role.to \in SessionRow /\ role.batch \in SUBSET Nat /\ role.step \in RoleSteps
    BY <1>1, RoleIs
  <2>2. role' \in SessionRole
    BY <1>3, <2>1, RoleNames DEF SessionRole
  <2> QED
    BY <1>1, <1>4, <1>6, <2>2 DEF SessionShape
<1>8. \A k : Waiting(k)' <=> Waiting(k)
  BY <1>1, WaitingStays
<1>9. /\ (role.step = "END" => Waiting("END_SESSION")) /\ (role.step = "PAUSE" => Waiting("PAUSE_NEW_ENTRIES"))
  <2>1. role.batch # {} => Req \in role.batch /\ Req \in 1..Len(request)
    BY <1>1, OldestOf
  <2> QED
    BY <1>1, <2>1, RoleIs DEF SessionInv, StepServes, Waiting
<1>10. StepServes' /\ PlaceFits' /\ WriteFits'
  BY <1>1, <1>4, <1>5 DEF SessionInv, StepServes, PlaceFits, WriteFits
<1>11. role.step \in {"START", "HONOUR", "END", "PAUSE", "RESUME", "DRIVE"}
  BY <1>1, <1>5, RoleIs DEF RoleSteps
<1>12. role.copy.activity = "OFF" => role.step = "START"
  BY <1>5 DEF SessionInv, CopyKnows
<1>13. RowTold'
  <2>1. /\ (role.step \in {"START", "HONOUR"} => role.to.activity = "STARTING")
        /\ (role.step = "END" => role.to.activity = "WIND_DOWN")
        /\ (role.step \in {"PAUSE", "RESUME"} => role.to.activity = role.copy.activity)
        /\ (role.step = "PAUSE" => role.to.paused # "no") /\ (role.step = "RESUME" => role.to.paused = "no")
    BY <1>1 DEF SessionInv, WriteFits
  <2> QED
    BY <1>4, <1>6, <1>11, <1>12, <2>1 DEF RowTold
<1>14. CopyKnows'
  <2>1. role.step \in {"RESUME", "PAUSE"} => role.to.activity = role.copy.activity
    BY <1>1 DEF SessionInv, WriteFits
  <2>2. role.step \in {"START", "HONOUR"} => role.to.activity # "WIND_DOWN"
    BY <1>1 DEF SessionInv, WriteFits
  <2>3. role.step = "DRIVE" => role.to.activity # "WIND_DOWN" /\ role.to.paused = role.copy.paused
    <3>1. role.copy.activity \in Activities
      BY <1>1, RoleIs
    <3>2. role.step = "DRIVE" => role.to = [activity |-> DriveTo(role.copy.activity), paused |-> role.copy.paused]
      BY <1>1 DEF SessionInv, WriteFits
    <3>3. role.step = "DRIVE" => DriveTo(role.copy.activity) # "WIND_DOWN"
      BY <1>12, <3>1 DEF DriveTo, Activities, Awake
    <3> QED
      BY <3>2, <3>3
  <2>4. role.step \in {"RESUME", "HONOUR"} => role.to.paused # "OPERATOR"
    BY <1>1 DEF SessionInv, WriteFits
  <2>5. role.step = "END" => role.to.paused = role.copy.paused
    BY <1>1 DEF SessionInv, WriteFits
  <2>6. role.step = "START" => role.to.paused # "OPERATOR"
    BY <1>1 DEF SessionInv, WriteFits
  <2> QED
    BY <1>4, <1>5, <1>6, <1>8, <1>9, <1>11, <1>12, <2>1, <2>2, <2>3, <2>4, <2>5, <2>6 DEF CopyKnows
<1> QED
  BY <1>7, <1>10, <1>13, <1>14 DEF SessionInv

LEMMA ReloadKeeps ==
  ASSUME SessionInv, Reload
  PROVE  SessionInv'
<1>1. SessionShape /\ role.at = "reload" /\ UNCHANGED <<rows, request, sticky, struck>>
  BY DEF Reload, SessionInv
<1>2. CASE role.step = "DRIVE"
  <2>1. role' = Resting
    BY <1>2 DEF Reload
  <2> QED
    BY <1>1, <2>1, RestKeeps
<1>3. CASE role.step # "DRIVE"
  <2> DEFINE c == Load(role.copy.id)
             a == CASE role.step = "START" -> "sticky"
                    [] role.step = "RESUME" -> "clear"
                    [] OTHER -> IF role.batch = {} THEN "drive" ELSE "answer"
  <2>1. role' = [role EXCEPT !.copy = c, !.at = a]
    BY <1>3 DEF Reload
  <2>2. /\ (role.step = "START" => a = "sticky") /\ (role.step = "RESUME" => a = "clear")
        /\ (role.step \notin {"START", "RESUME"} => a = IF role.batch = {} THEN "drive" ELSE "answer")
        /\ a \in {"sticky", "clear", "drive", "answer"} /\ a \in RolePlaces
    BY RoleNames
  <2>3. role.copy.id \in 0..Len(rows) /\ role.copy.id # 0 /\ role.step \notin {"none", "REJECTED"}
    BY <1>1 DEF SessionInv, SessionShape, PlaceFits
  <2>4. c \in SessionCopy /\ c.id = role.copy.id /\ c.activity = Row.activity /\ c.paused = Row.paused
    BY <1>1, <2>3, LoadFits DEF Row
  <2> HIDE DEF a, c
  <2>5. role' = [at |-> a, step |-> role.step, copy |-> c, to |-> role.to, batch |-> role.batch]
    <3>1. role = [at |-> role.at, step |-> role.step, copy |-> role.copy, to |-> role.to, batch |-> role.batch]
      BY <1>1, RoleIs
    <3> QED
      BY <2>1, <3>1
  <2>6. role'.at = a /\ role'.step = role.step /\ role'.copy = c /\ role'.to = role.to /\ role'.batch = role.batch /\ Req' = Req
    BY <2>5 DEF Req
  <2>7. SessionShape' /\ \A k : Waiting(k)' <=> Waiting(k)
    <3>1. role.step \in RoleSteps /\ role.to \in SessionRow
      BY <1>1, RoleIs
    <3> QED
      BY <1>1, <2>2, <2>3, <2>4, <2>5, <2>6, <3>1, RoleMoves
  <2>8. Row' = Row
    BY <1>1, <2>4, <2>6 DEF Row
  <2>9. StepServes'
    BY <1>1, <2>6 DEF SessionInv, StepServes
  <2>10. PlaceFits'
    <3>1. role.step \in {"END", "PAUSE", "RESUME"} => role.batch # {}
      BY DEF SessionInv, StepServes
    <3> QED
      BY <1>3, <2>2, <2>3, <2>4, <2>6, <3>1 DEF PlaceFits
  <2>11. WriteFits'
    BY <2>2, <2>6 DEF WriteFits
  <2>12. RowTold'
    BY <1>1, <2>2, <2>6, <2>8 DEF SessionInv, RowTold
  <2>13. Row.activity # "OFF" /\ (role.step = "START" => Row.activity = "STARTING")
         /\ (role.step = "END" => Row.activity = "WIND_DOWN") /\ (role.step = "PAUSE" => Row.paused # "no")
    BY <1>1, <1>3 DEF SessionInv, RowTold
  <2>14. CopyKnows'
    BY <2>2, <2>3, <2>4, <2>6, <2>8, <2>13 DEF CopyKnows
  <2> QED
    BY <2>7, <2>9, <2>10, <2>11, <2>12, <2>14 DEF SessionInv
<1> QED
  BY <1>2, <1>3

\* A step that only moves on.
LEMMA MoveKeeps ==
  ASSUME SessionInv, UNCHANGED <<rows, request>>,
         NEW a \in {"answer", "drive"}, role' = [role EXCEPT !.at = a],
         \/ role.at = "sticky" /\ a = (IF role.batch = {} THEN "drive" ELSE "answer")
         \/ role.at = "clear" /\ a = "answer" /\ sticky' = FALSE
         \/ role.at = "next" /\ a = "drive" /\ role.batch = {} /\ role.copy.id # 0
  PROVE  SessionInv'
<1>1. SessionShape
  BY DEF SessionInv
<1>2. role' = [at |-> a, step |-> role.step, copy |-> role.copy, to |-> role.to, batch |-> role.batch]
  <2>1. role = [at |-> role.at, step |-> role.step, copy |-> role.copy, to |-> role.to, batch |-> role.batch]
    BY <1>1, RoleIs
  <2> QED
    BY <2>1
<1>3. role'.at = a /\ role'.step = role.step /\ role'.copy = role.copy /\ role'.to = role.to /\ role'.batch = role.batch
      /\ Req' = Req
  BY <1>2 DEF Req
<1>4. SessionShape' /\ \A k : Waiting(k)' <=> Waiting(k)
  <2>1. role.step \in RoleSteps /\ role.to \in SessionRow /\ role.copy \in SessionCopy /\ role.copy.id \in 0..Len(rows)
        /\ a \in RolePlaces
    BY <1>1, RoleIs, RoleNames DEF SessionShape
  <2> QED
    BY <1>1, <1>2, <1>3, <2>1, RoleMoves
<1>5. role.at = "clear" => role.batch # {}
  BY DEF SessionInv, StepServes, PlaceFits
<1>6. /\ (role.at = "sticky" => role.step = "START" /\ role.copy.id # 0)
      /\ (role.at = "clear" => role.step = "RESUME" /\ role.copy.id # 0)
      /\ (role.at = "next" => role.step = "none")
  BY DEF SessionInv, PlaceFits
<1>7. StepServes' /\ WriteFits'
  BY <1>3 DEF SessionInv, StepServes, WriteFits
<1>8. PlaceFits'
  BY <1>3, <1>5, <1>6 DEF PlaceFits
<1>9. Row' = Row
  BY <1>3 DEF Row
<1>10. RowTold'
  BY <1>3, <1>6, <1>9 DEF SessionInv, RowTold
<1>11. CopyKnows'
  BY <1>3, <1>4, <1>6, <1>9 DEF SessionInv, CopyKnows
<1> QED
  BY <1>4, <1>7, <1>8, <1>10, <1>11 DEF SessionInv

LEMMA HonourKeeps ==
  ASSUME SessionInv, HonourSticky
  PROVE  SessionInv'
<1>1. SessionShape /\ role.at = "sticky" /\ UNCHANGED <<rows, request, sticky, struck>>
  BY DEF HonourSticky, SessionInv
<1>2. CASE ~sticky
  <2>1. role' = [role EXCEPT !.at = IF role.batch = {} THEN "drive" ELSE "answer"]
    BY <1>2 DEF HonourSticky
  <2> DEFINE a == IF role.batch = {} THEN "drive" ELSE "answer"
  <2>2. a \in {"answer", "drive"} /\ role' = [role EXCEPT !.at = a]
    BY <2>1
  <2> QED
    BY <1>1, <2>2, MoveKeeps
<1>3. CASE sticky
  <2>1. role.step = "START" /\ role.copy.id # 0 /\ role.copy.activity = "STARTING" /\ Row.activity = "STARTING"
    BY <1>1 DEF SessionInv, PlaceFits, RowTold, CopyKnows
  <2> DEFINE t == [activity |-> "STARTING", paused |-> "STICKY"]
  <2>2. role' = [role EXCEPT !.at = "persist", !.step = "HONOUR", !.to = t]
    BY <1>3, <2>1 DEF HonourSticky, Write
  <2>3. t \in SessionRow
    BY DEF SessionRow, Activities, Awake, PausedBy
  <2> HIDE DEF t
  <2>4. /\ role' = [at |-> role'.at, step |-> role'.step, copy |-> role'.copy, to |-> role'.to, batch |-> role'.batch]
        /\ role'.at = "persist" /\ role'.step = "HONOUR" /\ role'.copy = role.copy /\ role'.to = t
        /\ role'.batch = role.batch /\ Req' = Req
    BY <1>1, <2>2, Moved
  <2>5. SessionShape' /\ \A k : Waiting(k)' <=> Waiting(k)
    <3>1. role.copy \in SessionCopy /\ role.copy.id \in 0..Len(rows)
      BY <1>1, RoleIs DEF SessionShape
    <3> QED
      BY <1>1, <2>3, <2>4, <3>1, RoleMoves, RoleNames
  <2>6. Row' = Row
    BY <1>1, <2>4 DEF Row
  <2>7. StepServes' /\ PlaceFits' /\ WriteFits'
    BY <1>1, <2>1, <2>4 DEF SessionInv, StepServes, PlaceFits, WriteFits, t
  <2>8. RowTold' /\ CopyKnows'
    BY <2>1, <2>4, <2>5, <2>6 DEF SessionInv, RowTold, CopyKnows
  <2> QED
    BY <2>5, <2>7, <2>8 DEF SessionInv
<1> QED
  BY <1>2, <1>3

LEMMA AfterKeeps ==
  ASSUME SessionInv, AfterRequests
  PROVE  SessionInv'
<1>1. SessionShape /\ role.at = "next" /\ role.batch = {} /\ UNCHANGED <<rows, request, sticky, struck>>
  BY DEF AfterRequests, SessionInv
<1>2. CASE role.copy.id # 0
  <2>1. role' = [role EXCEPT !.at = "drive"]
    BY <1>2 DEF AfterRequests
  <2> QED
    BY <1>1, <1>2, <2>1, MoveKeeps
<1>3. CASE role.copy.id = 0 /\ role' = Resting
  BY <1>1, <1>3, RestKeeps
<1>4. CASE role.copy.id = 0 /\ role' = [role EXCEPT !.at = "create", !.step = "START"]
  <2>1. /\ role' = [at |-> role'.at, step |-> role'.step, copy |-> role'.copy, to |-> role'.to, batch |-> role'.batch]
        /\ role'.at = "create" /\ role'.step = "START" /\ role'.copy = role.copy /\ role'.to = role.to
        /\ role'.batch = role.batch /\ Req' = Req
    BY <1>1, <1>4, MovedOn
  <2>2. SessionShape' /\ \A k : Waiting(k)' <=> Waiting(k)
    <3>1. role.copy \in SessionCopy /\ role.to \in SessionRow /\ role.copy.id \in 0..Len(rows)
      BY <1>1, RoleIs DEF SessionShape
    <3> QED
      BY <1>1, <2>1, <3>1, RoleMoves, RoleNames
  <2> QED
    BY <1>1, <1>4, <2>1, <2>2 DEF SessionInv, StepServes, PlaceFits, WriteFits, RowTold, CopyKnows
<1> QED
  BY <1>2, <1>3, <1>4 DEF AfterRequests

LEMMA DriveKeeps ==
  ASSUME SessionInv, Drive
  PROVE  SessionInv'
<1>1. SessionShape /\ role.at = "drive" /\ UNCHANGED <<rows, request, sticky, struck>>
      /\ role.batch = {} /\ role.copy.id # 0
  BY DEF Drive, SessionInv, PlaceFits
<1>2. CASE role' = Resting
  BY <1>1, <1>2, RestKeeps
<1>3. CASE Write("DRIVE", DriveTo(role.copy.activity), role.copy.paused)
  <2>1. role.copy.activity # "OFF" /\ role.copy.activity \in Activities /\ role.copy.paused \in PausedBy
    BY <1>1, RoleIs DEF SessionInv, CopyKnows
  <2>2. DriveTo(role.copy.activity) \in Activities
    BY <2>1 DEF DriveTo, Activities, Awake
  <2> DEFINE a == DriveTo(role.copy.activity)
  <2>3. a \in Activities /\ a = DriveTo(role.copy.activity) /\ Write("DRIVE", a, role.copy.paused)
    BY <1>3, <2>2
  <2> HIDE DEF a
  <2> QED
    BY <1>1, <2>1, <2>3, WriteBegins, RoleNames
<1> QED
  BY <1>2, <1>3 DEF Drive

\* A call that throws loses what the copy would have learnt; its request is pending still.
LEMMA ThrownKeeps ==
  ASSUME SessionInv, role.at \notin {"idle", "next"}, UNCHANGED <<rows, request>>, role' = Thrown
  PROVE  SessionInv'
<1>1. SessionShape
  BY DEF SessionInv
<1>2. CASE role.at # "list" /\ role.batch = {}
  BY <1>2, RestKeeps DEF Thrown
<1>3. CASE ~(role.at # "list" /\ role.batch = {})
  <2> DEFINE c == IF Starting THEN NoSession ELSE role.copy
             B == IF role.batch = {} THEN role.batch ELSE role.batch \ {Req}
  <2>1. role' = [role EXCEPT !.at = "next", !.step = "none", !.copy = c, !.batch = B]
    BY <1>3 DEF Thrown
  <2>2. c \in {NoSession, role.copy} /\ c \in SessionCopy /\ B \subseteq role.batch
    BY <1>1, RoleIs, AtRest
  <2>3. c.id \in 0..Len(rows)
    BY <1>1, <2>2, AtRest, RoleIs DEF SessionShape
  <2>4. c.id # 0 => c = role.copy /\ ~Starting
    BY AtRest
  <2> HIDE DEF c, B
  <2>5. role' = [at |-> "next", step |-> "none", copy |-> c, to |-> role.to, batch |-> B]
    <3>1. role = [at |-> role.at, step |-> role.step, copy |-> role.copy, to |-> role.to, batch |-> role.batch]
      BY <1>1, RoleIs
    <3> QED
      BY <2>1, <3>1
  <2>6. role'.at = "next" /\ role'.step = "none" /\ role'.copy = c /\ role'.to = role.to /\ role'.batch = B
    BY <2>5
  <2>7. SessionShape' /\ \A k : Waiting(k)' <=> Waiting(k)
    <3>1. role.to \in SessionRow
      BY <1>1, RoleIs
    <3> QED
      BY <1>1, <2>2, <2>3, <2>5, <2>6, <3>1, RoleMoves, RoleNames
  <2>8. StepServes' /\ PlaceFits' /\ WriteFits' /\ RowTold'
    BY <2>2, <2>6 DEF SessionInv, StepServes, PlaceFits, WriteFits, RowTold
  <2>9. CopyKnows'
    <3>1. c.id = 0 => c = NoSession
      BY <2>2 DEF SessionInv, CopyKnows
    <3>2. ASSUME c.id # 0
          PROVE  /\ c.activity # "OFF"
                 /\ (rows[c.id].activity = "WIND_DOWN" /\ c.activity # "WIND_DOWN" => Waiting("END_SESSION"))
                 /\ (rows[c.id].paused = "OPERATOR" /\ c.paused = "no" => Waiting("PAUSE_NEW_ENTRIES"))
      BY <2>4, <3>2 DEF SessionInv, CopyKnows, Starting, Row
    <3> QED
      BY <2>6, <2>7, <3>1, <3>2 DEF CopyKnows, Row
  <2> QED
    BY <2>7, <2>8, <2>9 DEF SessionInv
<1> QED
  BY <1>2, <1>3

LEMMA FileKeeps ==
  ASSUME SessionInv, NEW k \in Kinds, FileRequest(k)
  PROVE  SessionInv'
<1> DEFINE q == [kind |-> k, state |-> "PENDING", verified |-> FALSE]
<1>1. SessionShape /\ UNCHANGED <<rows, sticky, role, struck>> /\ request' = Append(request, q)
  BY DEF FileRequest, SessionInv
<1>2. q \in ControlRequest
  BY DEF ControlRequest
<1> HIDE DEF q
<1>3. request' \in Seq(ControlRequest) /\ Len(request)' = Len(request) + 1
      /\ DOMAIN request = 1..Len(request) /\ DOMAIN request' = 1..Len(request) + 1 /\ Len(request) \in Nat
      /\ \A r \in 1..Len(request) : request'[r] = request[r]
  BY <1>1, <1>2, RoleIs
<1>4. SessionShape'
  BY <1>1, <1>3 DEF SessionShape
<1>5. \A j : Waiting(j) => Waiting(j)'
  BY <1>3 DEF Waiting
<1>6. Req' = Req /\ Row' = Row /\ (role.batch # {} => request'[Req] = request[Req])
      /\ \A r \in role.batch : request'[r] = request[r]
  BY <1>1, <1>3, OldestOf DEF Req, Row, SessionShape
<1>7. StepServes'
  BY <1>1, <1>6 DEF SessionInv, StepServes
<1>8. PlaceFits' /\ WriteFits' /\ RowTold'
  BY <1>1, <1>6 DEF SessionInv, PlaceFits, WriteFits, RowTold
<1>9. CopyKnows'
  <2>1. role.at = "answer" => role.batch # {}
    BY DEF SessionInv, PlaceFits
  <2> QED
    BY <1>1, <1>5, <1>6, <2>1 DEF SessionInv, CopyKnows
<1> QED
  BY <1>4, <1>7, <1>8, <1>9 DEF SessionInv

LEMMA StepUpKeeps ==
  ASSUME SessionInv, NEW r \in DOMAIN request, StepUp(r)
  PROVE  SessionInv'
<1> DEFINE q == [request[r] EXCEPT !.verified = ~@]
<1>1. SessionShape /\ UNCHANGED <<rows, sticky, role, struck>> /\ request' = [request EXCEPT ![r] = q]
  BY DEF StepUp, SessionInv
<1>2. q \in ControlRequest /\ q.kind = request[r].kind /\ q.state = request[r].state
  <2>1. request[r] \in ControlRequest
    BY <1>1, RoleIs
  <2>2. (~request[r].verified) \in BOOLEAN
    OBVIOUS
  <2> DEFINE v == ~request[r].verified
  <2>3. q = [request[r] EXCEPT !.verified = v] /\ v \in BOOLEAN
    BY <2>2
  <2> HIDE DEF v
  <2> QED
    BY <2>1, <2>3 DEF ControlRequest
<1> HIDE DEF q
<1>3. request' \in Seq(ControlRequest) /\ Len(request)' = Len(request)
      /\ DOMAIN request = 1..Len(request) /\ DOMAIN request' = 1..Len(request)
      /\ \A j \in 1..Len(request) : request'[j].kind = request[j].kind /\ request'[j].state = request[j].state
  BY <1>1, <1>2, RoleIs
<1>4. SessionShape'
  BY <1>1, <1>3 DEF SessionShape
<1>5. \A j : Waiting(j) => Waiting(j)'
  BY <1>3 DEF Waiting
<1>6. Req' = Req /\ Row' = Row /\ (role.batch # {} => request'[Req].kind = request[Req].kind)
      /\ \A j \in role.batch : request'[j].state = request[j].state
  BY <1>1, <1>3, OldestOf DEF Req, Row, SessionShape
<1>7. StepServes'
  BY <1>1, <1>6 DEF SessionInv, StepServes
<1>8. PlaceFits' /\ WriteFits' /\ RowTold'
  BY <1>1, <1>6 DEF SessionInv, PlaceFits, WriteFits, RowTold
<1>9. CopyKnows'
  <2>1. role.at = "answer" => role.batch # {}
    BY DEF SessionInv, PlaceFits
  <2> QED
    BY <1>1, <1>5, <1>6, <2>1 DEF SessionInv, CopyKnows
<1> QED
  BY <1>4, <1>7, <1>8, <1>9 DEF SessionInv

\* A dead-man pause changes rows that are open and not paused, and is never an operator's.
LEMMA StruckRow ==
  ASSUME SessionShape, DeadManPause, NEW s \in 1..Len(rows)
  PROVE  /\ rows'[s] \in SessionRow /\ rows'[s].activity = rows[s].activity
         /\ rows[s].paused # "no" => rows'[s] = rows[s]
         /\ rows[s].paused = "no" => rows'[s].paused \in {"no", "DEAD_MAN"}
         /\ rows[s].activity = "OFF" => rows'[s] = rows[s]
<1>1. s \in DOMAIN rows /\ rows[s] \in SessionRow
  BY RoleIs
<1>2. CASE s \in OpenSessions /\ rows[s].paused = "no"
  <2>1. rows'[s] = [rows[s] EXCEPT !.paused = "DEAD_MAN"]
    BY <1>1, <1>2 DEF DeadManPause
  <2>2. rows[s].activity # "OFF"
    BY <1>2 DEF OpenSessions
  <2> QED
    BY <1>1, <1>2, <2>1, <2>2 DEF SessionRow, PausedBy
<1>3. CASE ~(s \in OpenSessions /\ rows[s].paused = "no")
  <2>1. rows'[s] = rows[s]
    BY <1>1, <1>3 DEF DeadManPause
  <2> QED
    BY <1>1, <2>1
<1> QED
  BY <1>2, <1>3

LEMMA StrikeKeeps ==
  ASSUME SessionInv, DeadManPause
  PROVE  SessionInv'
<1>1. SessionShape /\ UNCHANGED <<request, role>> /\ struck' = TRUE
  BY DEF DeadManPause, SessionInv
<1>2. \A s \in 1..Len(rows) :
        /\ rows'[s] \in SessionRow /\ rows'[s].activity = rows[s].activity
        /\ (rows[s].paused # "no" => rows'[s] = rows[s])
        /\ (rows[s].paused = "no" => rows'[s].paused \in {"no", "DEAD_MAN"})
        /\ (rows[s].activity = "OFF" => rows'[s] = rows[s])
  BY <1>1, StruckRow
<1>3. rows' \in Seq(SessionRow) /\ Len(rows)' = Len(rows)
  <2>1. rows' = [s \in 1..Len(rows) |-> rows'[s]] /\ Len(rows) \in Nat
    BY <1>1, RoleIs DEF DeadManPause
  <2>2. rows' \in [1..Len(rows) -> SessionRow]
    BY <1>2, <2>1
  <2> QED
    BY <2>1, <2>2
<1>4. SessionShape'
  BY <1>1, <1>3 DEF SessionShape
<1>5. role.copy.id # 0 => role.copy.id \in 1..Len(rows)
  BY <1>1, RoleIs DEF SessionShape
<1>6. Row' = rows'[role.copy.id] /\ Req' = Req /\ \A k : Waiting(k)' <=> Waiting(k)
  BY <1>1, WaitingStays DEF Row, Req
<1>7. role.copy.id # 0 =>
        /\ Row'.activity = Row.activity /\ (Row.activity = "OFF" => Row' = Row)
        /\ (Row.paused # "no" => Row' = Row) /\ (Row.paused = "no" => Row'.paused \in {"no", "DEAD_MAN"})
  BY <1>2, <1>5, <1>6 DEF Row
<1>8. role.at \in {"persist", "reload", "sticky", "clear"} \/ (role.at = "answer" /\ role.step # "REJECTED") => role.copy.id # 0
  BY DEF SessionInv, PlaceFits
<1>9. StepServes' /\ PlaceFits'
  BY <1>1, <1>6 DEF SessionInv, StepServes, PlaceFits
<1>10. WriteFits'
  BY <1>1, <1>6, <1>7, <1>8 DEF SessionInv, WriteFits
<1>11. RowTold'
  BY <1>1, <1>6, <1>7, <1>8 DEF SessionInv, RowTold
<1>12. CopyKnows'
  BY <1>1, <1>6, <1>7 DEF SessionInv, CopyKnows
<1> QED
  BY <1>4, <1>9, <1>10, <1>11, <1>12 DEF SessionInv

LEMMA SessionStep == SessionInv /\ [SessionNext]_sessionVars => SessionInv'
<1> SUFFICES ASSUME SessionInv, [SessionNext]_sessionVars PROVE SessionInv'
  OBVIOUS
<1>1. CASE UNCHANGED sessionVars
  BY <1>1 DEF sessionVars, SessionInv, SessionShape, StepServes, PlaceFits, WriteFits, RowTold, CopyKnows, Row, Req, Waiting
<1>2. CASE BeginCycle \/ ListRequests \/ NextRequest \/ Answer \/ AfterRequests
  BY <1>2, SessionBegins, ListKeeps, NextKeeps, AnswerKeeps, AfterKeeps
<1>3. CASE CreateSession \/ PersistTransition \/ Reload \/ HonourSticky \/ Drive
  BY <1>3, CreateKeeps, PersistKeeps, ReloadKeeps, HonourKeeps, DriveKeeps
<1>4. CASE ClearSticky
  <2>1. role' = [role EXCEPT !.at = "answer"] /\ UNCHANGED <<rows, request>> /\ role.at = "clear" /\ sticky' = FALSE
    BY <1>4 DEF ClearSticky
  <2> QED
    BY <2>1, MoveKeeps
<1>5. CASE CreateFails \/ CallThrows
  BY <1>5, ThrownKeeps DEF CreateFails, CallThrows
<1>6. CASE WorkerDies
  BY <1>6, RestKeeps DEF WorkerDies
<1>7. CASE DeadManPause
  BY <1>7, StrikeKeeps
<1>8. ASSUME NEW k \in Kinds, FileRequest(k) PROVE SessionInv'
  BY <1>8, FileKeeps
<1>9. ASSUME NEW r \in DOMAIN request, StepUp(r) PROVE SessionInv'
  BY <1>9, StepUpKeeps
<1> QED
  BY <1>1, <1>2, <1>3, <1>4, <1>5, <1>6, <1>7, <1>8, <1>9 DEF SessionNext, RoleStep

\* What the role is about to write of an open session is what the row says, but for what a pending request changes.
THEOREM SessionInvariant == SessionSpec => []SessionInv
BY SessionStart, SessionStep, PTL DEF SessionSpec

LEMMA AnsweredInEffect ==
  ASSUME SessionInv, [SessionNext]_sessionVars, NEW r \in DOMAIN request,
         request[r].state = "PENDING", request'[r].state = "ACCEPTED"
  PROVE  InEffect(request[r].kind, rows[role.copy.id])
<1>1. SessionShape /\ DOMAIN request = 1..Len(request)
  BY RoleIs DEF SessionInv
<1>2. Answer
  <2>1. CASE UNCHANGED request
    BY <2>1
  <2>2. ASSUME NEW k \in Kinds, FileRequest(k) PROVE FALSE
    <3>1. request \in Seq(ControlRequest) /\ request' = Append(request, [kind |-> k, state |-> "PENDING", verified |-> FALSE])
      BY <1>1, <2>2, RoleIs DEF FileRequest
    <3>2. request'[r] = request[r]
      BY <1>1, <3>1
    <3> QED
      BY <3>2
  <2>3. ASSUME NEW q \in DOMAIN request, StepUp(q) PROVE FALSE
    <3>1. request'[r] = request[r] \/ request'[r] = [request[r] EXCEPT !.verified = ~@]
      BY <2>3 DEF StepUp
    <3>2. request[r] \in ControlRequest
      BY <1>1, RoleIs
    <3>3. request'[r].state = request[r].state
      BY <3>1, <3>2 DEF ControlRequest
    <3> QED
      BY <3>3
  <2> QED
    BY <2>1, <2>2, <2>3 DEF SessionNext, RoleStep, sessionVars, BeginCycle, ListRequests, NextRequest, AfterRequests,
       CreateSession, CreateFails, PersistTransition, Reload, HonourSticky, ClearSticky, Drive, CallThrows, WorkerDies,
       DeadManPause
<1>3. r = Req /\ role.step # "REJECTED" /\ role.at = "answer"
  <2>1. request' = [request EXCEPT ![Req].state = IF role.step = "REJECTED" THEN "REJECTED" ELSE "ACCEPTED"]
    BY <1>2 DEF Answer
  <2>2. r = Req
    BY <2>1
  <2>3. request[r] \in ControlRequest
    BY <1>1, RoleIs
  <2>4. request'[r].state = IF role.step = "REJECTED" THEN "REJECTED" ELSE "ACCEPTED"
    BY <2>1, <2>2, <2>3 DEF ControlRequest
  <2> QED
    BY <1>2, <2>2, <2>4 DEF Answer
<1>4. role.step \in {"START", "HONOUR", "END", "PAUSE", "RESUME"} /\ role.batch # {}
  BY <1>1, <1>3, RoleIs DEF SessionInv, PlaceFits, RoleSteps
<1>5. /\ (role.step \in {"START", "HONOUR"} => request[r].kind = "START_SESSION")
      /\ (role.step = "END" => request[r].kind = "END_SESSION")
      /\ (role.step = "PAUSE" => request[r].kind = "PAUSE_NEW_ENTRIES")
      /\ (role.step = "RESUME" => request[r].kind = "RESUME_NEW_ENTRIES")
  BY <1>3, <1>4 DEF SessionInv, StepServes
<1>6. /\ (role.step \in {"START", "HONOUR"} => Row.activity = "STARTING")
      /\ (role.step = "END" => Row.activity = "WIND_DOWN")
      /\ (role.step = "PAUSE" => Row.paused # "no")
      /\ (role.step = "RESUME" => Row.paused \in {"no", "DEAD_MAN"} /\ (sticky => struck))
  BY <1>3 DEF SessionInv, RowTold
<1> QED
  BY <1>4, <1>5, <1>6 DEF InEffect, Row

LEMMA PauseAndEndStand ==
  ASSUME SessionInv, [SessionNext]_sessionVars, NEW s \in DOMAIN rows
  PROVE  /\ (rows[s].paused = "OPERATOR" /\ rows'[s].paused = "no" /\ ~Waiting("PAUSE_NEW_ENTRIES")) => role.step = "RESUME"
         /\ (rows[s].activity = "WIND_DOWN" /\ ~Waiting("END_SESSION")) => rows'[s].activity \in {"WIND_DOWN", "OFF"}
<1>1. SessionShape /\ s \in 1..Len(rows) /\ rows \in Seq(SessionRow)
  BY RoleIs DEF SessionInv
<1>2. CASE UNCHANGED rows
  BY <1>2
<1>3. CASE CreateSession
  <2>1. rows' = Append(rows, [activity |-> "OFF", paused |-> "no"])
    BY <1>3 DEF CreateSession
  <2>2. rows'[s] = rows[s]
    BY <1>1, <2>1
  <2> QED
    BY <2>2
<1>4. CASE DeadManPause
  BY <1>1, <1>4, StruckRow
<1>5. CASE PersistTransition
  <2>1. role.at = "persist" /\ rows' = [rows EXCEPT ![role.copy.id] = role.to]
    BY <1>5 DEF PersistTransition
  <2>2. CASE s # role.copy.id
    BY <2>1, <2>2
  <2>3. CASE s = role.copy.id
    <3>1. rows'[s] = role.to /\ Row = rows[s] /\ role.copy.id # 0
      BY <1>1, <2>1, <2>3 DEF Row, SessionInv, PlaceFits
    <3>2. role.step \in {"START", "HONOUR", "END", "PAUSE", "RESUME", "DRIVE"}
      BY <1>1, <2>1, RoleIs DEF SessionInv, PlaceFits, RoleSteps
    <3>3. (Row.paused = "OPERATOR" /\ ~Waiting("PAUSE_NEW_ENTRIES") => role.copy.paused # "no")
          /\ (Row.activity = "WIND_DOWN" /\ ~Waiting("END_SESSION") => role.copy.activity = "WIND_DOWN")
      BY <3>1 DEF SessionInv, CopyKnows
    <3>4. /\ (role.step = "START" => Row = [activity |-> "OFF", paused |-> "no"])
          /\ (role.step = "HONOUR" => role.to.paused # "no")
          /\ (role.step = "END" => role.to.activity = "WIND_DOWN" /\ role.to.paused = role.copy.paused)
          /\ (role.step = "PAUSE" => role.to.activity = role.copy.activity /\ role.to.paused # "no")
          /\ (role.step = "RESUME" => role.to.activity = role.copy.activity)
          /\ (role.step = "DRIVE" => role.to.activity = DriveTo(role.copy.activity) /\ role.to.paused = role.copy.paused)
      BY <2>1 DEF SessionInv, WriteFits
    <3>5. role.step = "HONOUR" => Row.activity = "STARTING"
      BY <2>1 DEF SessionInv, RowTold
    <3>6. DriveTo("WIND_DOWN") = "OFF"
      BY DEF DriveTo
    <3> QED
      BY <3>1, <3>2, <3>3, <3>4, <3>5, <3>6
  <2> QED
    BY <2>2, <2>3
<1>6. ASSUME NEW k \in Kinds, FileRequest(k) PROVE UNCHANGED rows
  BY <1>6 DEF FileRequest
<1>7. ASSUME NEW q \in DOMAIN request, StepUp(q) PROVE UNCHANGED rows
  BY <1>7 DEF StepUp
<1> QED
  BY <1>2, <1>3, <1>4, <1>5, <1>6, <1>7 DEF SessionNext, RoleStep, sessionVars, BeginCycle, ListRequests, NextRequest,
     Answer, AfterRequests, CreateFails, Reload, HonourSticky, ClearSticky, Drive, CallThrows, WorkerDies

\* What the operator was told is ACCEPTED is in effect and stands, for any sessions, requests, dead-man pauses,
\* thrown calls and workers that die (role session, runSessionCycle).
THEOREM AcceptedIsDone == SessionSpec => AcceptedStands
<1>1. SessionInv /\ [SessionNext]_sessionVars =>
        [/\ \A r \in DOMAIN request :
              (request[r].state = "PENDING" /\ request'[r].state = "ACCEPTED") =>
                InEffect(request[r].kind, rows[role.copy.id])
         /\ \A s \in DOMAIN rows :
              /\ (rows[s].paused = "OPERATOR" /\ rows'[s].paused = "no" /\ ~Waiting("PAUSE_NEW_ENTRIES"))
                   => role.step = "RESUME"
              /\ (rows[s].activity = "WIND_DOWN" /\ ~Waiting("END_SESSION"))
                   => rows'[s].activity \in {"WIND_DOWN", "OFF"}]_sessionVars
  <2> SUFFICES ASSUME SessionInv, [SessionNext]_sessionVars
               PROVE  /\ \A r \in DOMAIN request :
                           (request[r].state = "PENDING" /\ request'[r].state = "ACCEPTED") =>
                             InEffect(request[r].kind, rows[role.copy.id])
                      /\ \A s \in DOMAIN rows :
                           /\ (rows[s].paused = "OPERATOR" /\ rows'[s].paused = "no" /\ ~Waiting("PAUSE_NEW_ENTRIES"))
                                => role.step = "RESUME"
                           /\ (rows[s].activity = "WIND_DOWN" /\ ~Waiting("END_SESSION"))
                                => rows'[s].activity \in {"WIND_DOWN", "OFF"}
    OBVIOUS
  <2> QED
    BY AnsweredInEffect, PauseAndEndStand
<1> QED
  BY <1>1, SessionInvariant, PTL DEF SessionSpec, AcceptedStands

----------------------------------------------------------------------------
(* The audit trail. A hash names the history up to its event: a ledger that   *)
(* holds the head a verdict was given under has the history it was given on,  *)
(* whatever was restored and written meanwhile.                               *)

CopyLine == {p \in [sequence : Nat, hash : Nat] : p = NoPoint \/ p.sequence # 0}
CheckPlaces == {"idle", "head", "replicate", "insert", "read", "compare", "record", "alert"}
AskPlaces == {"idle", "replica", "reread", "verify", "answered"}
Checking == [at : CheckPlaces, head : CopyLine, read : CopyLine, ok : BOOLEAN]
Asking == [at : AskPlaces, head : Nat, keyed : CopyLine, read : CopyLine, ok : BOOLEAN, lost : BOOLEAN]
Cached == [head : Nat, keyed : CopyLine, ok : BOOLEAN, age : Nat, moved : BOOLEAN]

AuditShape ==
  /\ ledger \in Seq(Nat) /\ damaged \in Nat /\ damage \in Nat /\ written \in Nat
  /\ replica \in [line : CopyLine, torn : BOOLEAN] /\ checker \in Checking
  /\ asker \in Asking /\ cache \in Cached

\* Events are numbered as they are written, and none is written twice.
Ascending ==
  /\ \A i \in 1..Len(ledger) : ledger[i] \in 1..written
  /\ \A i, j \in 1..Len(ledger) : i < j => ledger[i] < ledger[j]

Bears(p, n) == p.sequence \in 1..n /\ ledger[p.sequence] = p.hash

\* The head a call has read is an event, and in the ledger unless a loss met the call.
CallKnows ==
  asker.at \in {"replica", "reread", "verify"} =>
    /\ asker.head \in 1..written
    /\ asker.lost \/ \E i \in 1..Len(ledger) : ledger[i] = asker.head

\* What the copy said holds in every ledger that has the head it was compared with, and a row that
\* went bad since did so within the verdict's age.
VerdictHolds ==
  cache.ok =>
    /\ cache.age < Ttl
    /\ damaged # 0 => damage <= cache.age
    /\ cache.moved \/ (/\ cache.keyed # NoPoint /\ cache.head \in 1..written
                       /\ \A i \in 1..Len(ledger) : ledger[i] = cache.head => Bears(cache.keyed, i))

AuditInv == AuditShape /\ Ascending /\ CallKnows /\ VerdictHolds

LEMMA AuditNames ==
  /\ NoPoint \in CopyLine /\ NoPoint = [sequence |-> 0, hash |-> 0]
  /\ Between \in Checking /\ Between.at = "idle"
  /\ Quiet \in Asking /\ Quiet.at = "idle"
  /\ NoVerdict \in Cached /\ NoVerdict.ok = FALSE
  /\ NoFile \in [line : CopyLine, torn : BOOLEAN]
<1>1. NoPoint \in CopyLine
  BY DEF NoPoint, CopyLine
<1> QED
  BY <1>1 DEF NoPoint, Between, Checking, CheckPlaces, Quiet, Asking, AskPlaces, NoVerdict, Cached, NoFile

LEMMA AuditStart == AuditInit => AuditInv
<1> SUFFICES ASSUME AuditInit PROVE AuditInv
  OBVIOUS
<1>1. AuditShape
  BY AuditNames DEF AuditInit, AuditShape
<1>2. ledger = <<>> /\ asker = Quiet /\ cache = NoVerdict
  BY DEF AuditInit
<1> QED
  BY <1>1, <1>2, AuditNames DEF AuditInv, Ascending, CallKnows, VerdictHolds

LEMMA LedgerFits ==
  ASSUME AuditInv
  PROVE  /\ ledger \in Seq(Nat) /\ Len(ledger) \in Nat /\ DOMAIN ledger = 1..Len(ledger) /\ written \in Nat
         /\ damaged \in Nat /\ damage \in Nat /\ Ttl \in Nat \ {0}
         /\ cache.age \in Nat /\ cache.head \in Nat /\ cache.keyed \in CopyLine /\ cache.keyed.sequence \in Nat
         /\ cache.ok \in BOOLEAN /\ asker.head \in Nat /\ replica.line \in CopyLine
         /\ asker.keyed \in CopyLine /\ asker.read \in CopyLine /\ asker.lost \in BOOLEAN
         /\ \A i, j \in 1..Len(ledger) : ledger[i] = ledger[j] => i = j
<1>1. /\ ledger \in Seq(Nat) /\ Len(ledger) \in Nat /\ DOMAIN ledger = 1..Len(ledger) /\ written \in Nat
      /\ damaged \in Nat /\ damage \in Nat /\ cache \in Cached /\ asker \in Asking
      /\ replica \in [line : CopyLine, torn : BOOLEAN]
  BY DEF AuditInv, AuditShape
<1>2. cache.age \in Nat /\ cache.head \in Nat /\ cache.keyed \in CopyLine /\ cache.ok \in BOOLEAN
  BY <1>1 DEF Cached
<1>3. asker.head \in Nat /\ asker.keyed \in CopyLine /\ asker.read \in CopyLine /\ asker.lost \in BOOLEAN
  BY <1>1 DEF Asking
<1>4. replica.line \in CopyLine
  BY <1>1
<1>5. cache.keyed.sequence \in Nat
  BY <1>2 DEF CopyLine
<1>6. ASSUME NEW i \in 1..Len(ledger), NEW j \in 1..Len(ledger), ledger[i] = ledger[j] PROVE i = j
  <2>1. ledger[i] \in Nat /\ ledger[j] \in Nat
    BY <1>1
  <2>2. (i < j => ledger[i] < ledger[j]) /\ (j < i => ledger[j] < ledger[i])
    BY DEF AuditInv, Ascending
  <2> QED
    BY <1>1, <1>6, <2>1, <2>2
<1> QED
  BY <1>1, <1>2, <1>3, <1>4, <1>5, <1>6, AuditAssumption

\* An event more: no ledger had it before, so nothing was compared with it.
LEMMA EventKeeps ==
  ASSUME AuditInv, WriteEvent
  PROVE  AuditInv'
<1>1. /\ written' = written + 1 /\ ledger' = Append(ledger, written + 1)
      /\ UNCHANGED <<checker, cache, damaged, damage, replica, asker>>
  BY DEF WriteEvent, InStores
<1>2. /\ ledger' \in Seq(Nat) /\ Len(ledger)' = Len(ledger) + 1 /\ ledger'[Len(ledger) + 1] = written + 1
      /\ \A i \in 1..Len(ledger) : ledger'[i] = ledger[i] /\ ledger[i] \in Nat
      /\ Len(ledger) \in Nat /\ written \in Nat
  BY <1>1, LedgerFits
<1>3. AuditShape'
  BY <1>1, <1>2 DEF AuditInv, AuditShape
<1>4. \A i \in 1..Len(ledger) + 1 : i = Len(ledger) + 1 \/ i \in 1..Len(ledger)
  BY <1>2
<1>5. Ascending'
  <2>1. \A i \in 1..Len(ledger) : ledger[i] \in 1..written
    BY DEF AuditInv, Ascending
  <2>2. \A i \in 1..Len(ledger) + 1 : ledger'[i] \in 1..written + 1
    BY <1>2, <1>4, <2>1
  <2>3. ASSUME NEW i \in 1..Len(ledger) + 1, NEW j \in 1..Len(ledger) + 1, i < j PROVE ledger'[i] < ledger'[j]
    <3>1. i \in 1..Len(ledger)
      BY <1>2, <2>3
    <3>2. CASE j \in 1..Len(ledger)
      BY <1>2, <2>3, <3>1, <3>2 DEF AuditInv, Ascending
    <3>3. CASE j = Len(ledger) + 1
      BY <1>2, <2>1, <3>1, <3>3
    <3> QED
      BY <1>4, <3>2, <3>3
  <2> QED
    BY <1>1, <1>2, <2>2, <2>3 DEF Ascending
<1>6. CallKnows'
  <2> SUFFICES ASSUME asker.at \in {"replica", "reread", "verify"}
               PROVE  /\ asker.head \in 1..written + 1
                      /\ asker.lost \/ \E i \in 1..Len(ledger) + 1 : ledger'[i] = asker.head
    BY <1>1, <1>2 DEF CallKnows
  <2>1. asker.head \in 1..written /\ (asker.lost \/ \E i \in 1..Len(ledger) : ledger[i] = asker.head)
    BY DEF AuditInv, CallKnows
  <2> QED
    BY <1>2, <2>1
<1>7. VerdictHolds'
  <2> SUFFICES ASSUME cache.ok, ~cache.moved
               PROVE  /\ cache.keyed # NoPoint /\ cache.head \in 1..written + 1
                      /\ \A i \in 1..Len(ledger) + 1 : ledger'[i] = cache.head => Bears(cache.keyed, i)'
    BY <1>1, <1>2 DEF AuditInv, VerdictHolds
  <2>1. /\ cache.keyed # NoPoint /\ cache.head \in 1..written
        /\ \A i \in 1..Len(ledger) : ledger[i] = cache.head => Bears(cache.keyed, i)
    BY DEF AuditInv, VerdictHolds
  <2>2. ASSUME NEW i \in 1..Len(ledger) + 1, ledger'[i] = cache.head
        PROVE  cache.keyed.sequence \in 1..i /\ ledger'[cache.keyed.sequence] = cache.keyed.hash
    <3>1. i \in 1..Len(ledger)
      <4>1. i = Len(ledger) + 1 => FALSE
        BY <1>2, <2>1, <2>2
      <4> QED
        BY <1>4, <4>1
    <3>2. Bears(cache.keyed, i)
      BY <1>2, <2>1, <2>2, <3>1
    <3> QED
      BY <1>2, <3>1, <3>2 DEF Bears
  <2>3. \A i \in 1..Len(ledger) + 1 : ledger'[i] = cache.head => Bears(cache.keyed, i)'
    BY <1>1, <2>2 DEF Bears
  <2> QED
    BY <1>2, <2>1, <2>3
<1> QED
  BY <1>3, <1>5, <1>6, <1>7 DEF AuditInv

\* The ledger comes back shorter: what is left of it is what it was.
LEMMA RestoreKeeps ==
  ASSUME AuditInv, RestoreLedger
  PROVE  AuditInv'
<1>1. PICK n \in 0..(Len(ledger) - 1) :
        /\ ledger' = SubSeq(ledger, 1, n)
        /\ damaged' = (IF damaged > n THEN 0 ELSE damaged)
        /\ damage' = (IF damaged > n THEN 0 ELSE damage)
  BY DEF RestoreLedger
<1>2. UNCHANGED <<checker, cache, written, replica>> /\ asker' = [asker EXCEPT !.lost = asker.at # "idle"]
  BY DEF RestoreLedger, InStores, Losing
<1>3. /\ ledger' \in Seq(Nat) /\ Len(ledger)' = n /\ n \in Nat /\ n < Len(ledger) /\ Len(ledger) \in Nat
      /\ \A i \in 1..n : ledger'[i] = ledger[i] /\ i \in 1..Len(ledger)
  BY <1>1, LedgerFits
<1>4. asker' \in Asking /\ asker'.at = asker.at /\ asker'.head = asker.head /\ (asker.at # "idle" => asker'.lost)
  <2> DEFINE b == asker.at # "idle"
  <2>1. b \in BOOLEAN /\ asker' = [asker EXCEPT !.lost = b] /\ (asker.at # "idle" => b)
    BY <1>2
  <2>2. asker \in Asking
    BY DEF AuditInv, AuditShape
  <2> HIDE DEF b
  <2> QED
    BY <2>1, <2>2 DEF Asking
<1>5. AuditShape'
  <2>1. damaged' \in Nat /\ damage' \in Nat
    BY <1>1, LedgerFits
  <2> QED
    BY <1>2, <1>3, <1>4, <2>1 DEF AuditInv, AuditShape
<1>6. Ascending'
  BY <1>2, <1>3 DEF AuditInv, Ascending
<1>7. CallKnows'
  BY <1>2, <1>4 DEF AuditInv, CallKnows
<1>8. VerdictHolds'
  <2> SUFFICES ASSUME cache.ok
               PROVE  /\ cache.age < Ttl
                      /\ damaged' # 0 => damage' <= cache.age
                      /\ cache.moved \/ (/\ cache.keyed # NoPoint /\ cache.head \in 1..written
                                         /\ \A i \in 1..n : ledger'[i] = cache.head => Bears(cache.keyed, i)')
    BY <1>2, <1>3 DEF VerdictHolds
  <2>1. cache.age < Ttl /\ (damaged' # 0 => damage' <= cache.age)
    BY <1>1 DEF AuditInv, VerdictHolds
  <2>2. ASSUME ~cache.moved
        PROVE  /\ cache.keyed # NoPoint /\ cache.head \in 1..written
               /\ \A i \in 1..n : ledger'[i] = cache.head => Bears(cache.keyed, i)'
    <3>1. /\ cache.keyed # NoPoint /\ cache.head \in 1..written
          /\ \A i \in 1..Len(ledger) : ledger[i] = cache.head => Bears(cache.keyed, i)
      BY <2>2 DEF AuditInv, VerdictHolds
    <3>2. ASSUME NEW i \in 1..n, ledger'[i] = cache.head
          PROVE  cache.keyed.sequence \in 1..i /\ ledger'[cache.keyed.sequence] = cache.keyed.hash
      <4>1. Bears(cache.keyed, i)
        BY <1>3, <3>1, <3>2
      <4>2. cache.keyed.sequence \in 1..n
        BY <1>3, <4>1 DEF Bears
      <4> QED
        BY <1>3, <4>1, <4>2 DEF Bears
    <3>3. \A i \in 1..n : ledger'[i] = cache.head => Bears(cache.keyed, i)'
      BY <1>2, <3>2 DEF Bears
    <3> QED
      BY <3>1, <3>3
  <2> QED
    BY <2>1, <2>2
<1> QED
  BY <1>5, <1>6, <1>7, <1>8 DEF AuditInv

LEMMA StoreKeeps ==
  ASSUME AuditInv, DamageRow \/ LoseReplica
  PROVE  AuditInv'
<1>1. UNCHANGED <<checker, cache, written, ledger>>
  BY DEF DamageRow, LoseReplica, InStores
<1>2. damaged' \in Nat /\ damage' \in Nat /\ (damaged' # 0 => damage' = 0 \/ (damage' = damage /\ damaged' = damaged))
  BY LedgerFits DEF DamageRow, LoseReplica
<1>3. replica' \in [line : CopyLine, torn : BOOLEAN]
  BY AuditNames DEF DamageRow, LoseReplica, AuditInv, AuditShape
<1>4. asker' \in Asking /\ asker'.at = asker.at /\ asker'.head = asker.head /\ (asker.at # "idle" => asker'.lost \/ asker' = asker)
  <2>1. asker \in Asking
    BY DEF AuditInv, AuditShape
  <2>2. CASE DamageRow
    BY <2>1, <2>2 DEF DamageRow
  <2>3. CASE LoseReplica
    <3> DEFINE b == asker.at # "idle"
    <3>1. b \in BOOLEAN /\ asker' = [asker EXCEPT !.lost = b] /\ (asker.at # "idle" => b)
      BY <2>3 DEF LoseReplica, Losing
    <3> HIDE DEF b
    <3> QED
      BY <2>1, <3>1 DEF Asking
  <2> QED
    BY <2>2, <2>3
<1>5. AuditShape'
  BY <1>1, <1>2, <1>3, <1>4 DEF AuditInv, AuditShape
<1>6. Ascending'
  BY <1>1 DEF AuditInv, Ascending
<1>7. CallKnows'
  BY <1>1, <1>4 DEF AuditInv, CallKnows
<1>8. VerdictHolds'
  <2>1. cache.ok /\ damaged' # 0 => damage' <= cache.age
    BY <1>2, LedgerFits DEF AuditInv, VerdictHolds
  <2>2. \A i : Bears(cache.keyed, i)' <=> Bears(cache.keyed, i)
    BY <1>1 DEF Bears
  <2> QED
    BY <1>1, <2>1, <2>2 DEF AuditInv, VerdictHolds
<1> QED
  BY <1>5, <1>6, <1>7, <1>8 DEF AuditInv

LEMMA TimeKeeps ==
  ASSUME AuditInv, TimeGoesBy
  PROVE  AuditInv'
<1>1. UNCHANGED <<ledger, damaged, written, replica, checker, asker>>
      /\ damage' = (IF damaged # 0 /\ damage < Ttl THEN damage + 1 ELSE damage)
      /\ cache' = (IF Lives(cache.age + 1) THEN [cache EXCEPT !.age = @ + 1] ELSE NoVerdict)
  BY DEF TimeGoesBy
<1>2. cache' \in Cached
      /\ (cache'.ok => /\ cache.ok /\ cache'.age = cache.age + 1 /\ cache.age + 1 < Ttl
                       /\ cache'.keyed = cache.keyed /\ cache'.head = cache.head /\ cache'.moved = cache.moved)
  <2>1. cache \in Cached /\ cache.age + 1 \in Nat
    BY LedgerFits DEF AuditInv, AuditShape
  <2> DEFINE c == [cache EXCEPT !.age = cache.age + 1]
  <2>2. c \in Cached /\ c.ok = cache.ok /\ c.age = cache.age + 1 /\ c.keyed = cache.keyed /\ c.head = cache.head
        /\ c.moved = cache.moved
    BY <2>1 DEF Cached
  <2>3. (Lives(cache.age + 1) /\ cache' = c) \/ cache' = NoVerdict
    BY <1>1
  <2> HIDE DEF c
  <2> QED
    BY <2>2, <2>3, AuditNames DEF Lives
<1>3. damage' \in Nat /\ damage' <= damage + 1
  BY <1>1, LedgerFits
<1>4. AuditShape'
  BY <1>1, <1>2, <1>3 DEF AuditInv, AuditShape
<1>5. Ascending' /\ CallKnows'
  BY <1>1 DEF AuditInv, Ascending, CallKnows
<1>6. VerdictHolds'
  <2> SUFFICES ASSUME cache'.ok
               PROVE  /\ cache'.age < Ttl
                      /\ damaged # 0 => damage' <= cache'.age
                      /\ cache'.moved \/ (/\ cache'.keyed # NoPoint /\ cache'.head \in 1..written
                                          /\ \A i \in 1..Len(ledger) : ledger[i] = cache'.head =>
                                               cache'.keyed.sequence \in 1..i /\ ledger[cache'.keyed.sequence] = cache'.keyed.hash)
    BY <1>1 DEF VerdictHolds, Bears
  <2>1. damaged # 0 => damage <= cache.age
    BY <1>2 DEF AuditInv, VerdictHolds
  <2>2. damaged # 0 => damage' <= cache.age + 1
    BY <1>3, <2>1, LedgerFits
  <2> QED
    BY <1>2, <2>2 DEF AuditInv, VerdictHolds, Bears
<1> QED
  BY <1>4, <1>5, <1>6 DEF AuditInv


LEMMA HeadIsACopy ==
  ASSUME AuditInv
  PROVE  /\ HeadOf(ledger) \in CopyLine
         /\ ledger # <<>> => /\ Len(ledger) >= 1 /\ Last(ledger) = ledger[Len(ledger)]
                             /\ Last(ledger) \in 1..written
                             /\ HeadOf(ledger) = [sequence |-> Len(ledger), hash |-> Last(ledger)]
<1>1. CASE ledger = <<>>
  BY <1>1, AuditNames DEF HeadOf
<1>2. CASE ledger # <<>>
  <2>1. Len(ledger) \in Nat /\ Len(ledger) >= 1 /\ Last(ledger) = ledger[Len(ledger)]
    BY <1>2, LedgerFits DEF Last
  <2>2. Last(ledger) \in 1..written /\ Last(ledger) \in Nat
    BY <2>1, LedgerFits DEF AuditInv, Ascending
  <2>3. HeadOf(ledger) = [sequence |-> Len(ledger), hash |-> Last(ledger)]
    BY <1>2 DEF HeadOf
  <2>4. [sequence |-> Len(ledger), hash |-> Last(ledger)] \in CopyLine
    BY <2>1, <2>2 DEF CopyLine
  <2> QED
    BY <2>1, <2>2, <2>3, <2>4
<1> QED
  BY <1>1, <1>2

\* The role reads the ledger and writes the copy: whatever it writes or leaves behind is a line.
LEMMA CheckerKeeps ==
  ASSUME AuditInv, CheckerStep \/ CheckerFails
  PROVE  AuditInv'
<1>1. UNCHANGED <<ledger, damaged, damage, written, asker, cache>>
  BY DEF CheckerStep, CheckerFails, VerifyChain, ReadHead, Replicate, InsertCheckpoint, ReadReplica,
         CompareWithReplica, RecordVerification, SettleAlert, InChecker
<1>2. checker \in Checking /\ checker.head \in CopyLine /\ checker.read \in CopyLine
      /\ replica \in [line : CopyLine, torn : BOOLEAN] /\ replica.line \in CopyLine
  BY DEF AuditInv, AuditShape, Checking
<1>3. Between \in Checking /\ \A b \in BOOLEAN : [Between EXCEPT !.at = "record", !.ok = b] \in Checking
  BY AuditNames DEF Checking, CheckPlaces
<1>4. \A p \in CheckPlaces : [checker EXCEPT !.at = p] \in Checking
  BY <1>2 DEF Checking
<1>5. checker' \in Checking
  <2>1. CASE VerifyChain
    BY <1>3, <1>4, <2>1 DEF VerifyChain, Finds, CheckerTo, CheckPlaces
  <2>2. CASE ReadHead
    <3> DEFINE to == IF ledger = <<>> THEN "alert" ELSE "replicate"
    <3>1. to \in CheckPlaces /\ HeadOf(ledger) \in CopyLine
      BY HeadIsACopy DEF CheckPlaces
    <3>2. checker' = [checker EXCEPT !.head = HeadOf(ledger), !.ok = TRUE, !.at = to]
      BY <2>2 DEF ReadHead
    <3> HIDE DEF to
    <3> QED
      BY <1>2, <3>1, <3>2 DEF Checking
  <2>3. CASE Replicate
    BY <1>4, <2>3 DEF Replicate, CheckerTo, CheckPlaces
  <2>4. CASE InsertCheckpoint
    BY <1>3, <1>2, AuditNames, <2>4 DEF InsertCheckpoint, Finds, Checking, CheckPlaces
  <2>5. CASE ReadReplica
    BY <1>2, <2>5 DEF ReadReplica, Checking, CheckPlaces
  <2>6. CASE CompareWithReplica
    <3> DEFINE b == Stands(checker.read)
    <3>1. b \in BOOLEAN
      BY DEF Stands
    <3>2. checker' = [Between EXCEPT !.at = "record", !.ok = b]
      BY <2>6 DEF CompareWithReplica, Finds
    <3> HIDE DEF b
    <3> QED
      BY <1>3, <3>1, <3>2
  <2>7. CASE RecordVerification
    BY <1>4, <2>7 DEF RecordVerification, CheckerTo, CheckPlaces
  <2>8. CASE SettleAlert
    BY <1>3, <2>8 DEF SettleAlert
  <2>9. CASE CheckerFails
    BY <1>3, <2>9 DEF CheckerFails, Finds
  <2> QED
    BY <2>1, <2>2, <2>3, <2>4, <2>5, <2>6, <2>7, <2>8, <2>9 DEF CheckerStep
<1>6. replica' \in [line : CopyLine, torn : BOOLEAN]
  <2>1. AppendLine(checker.head) \in [line : CopyLine, torn : BOOLEAN] /\ AppendLine(checker.head).line \in CopyLine
    BY <1>2, AuditNames DEF AppendLine
  <2>2. CASE Replicate
    BY <2>1, <2>2 DEF Replicate
  <2>3. CASE CheckerFails
    <3>1. CASE UNCHANGED replica
      BY <1>2, <3>1
    <3>2. CASE \E whole \in BOOLEAN :
                 replica' = [line |-> IF whole THEN AppendLine(checker.head).line ELSE NoPoint, torn |-> TRUE]
      BY <2>1, <3>2, AuditNames
    <3> QED
      BY <2>3, <3>1, <3>2 DEF CheckerFails
  <2>4. CASE CheckerStep /\ ~Replicate
    BY <1>2, <2>4 DEF CheckerStep, VerifyChain, ReadHead, InsertCheckpoint, ReadReplica, CompareWithReplica,
         RecordVerification, SettleAlert
  <2> QED
    BY <2>2, <2>3, <2>4
<1>7. AuditShape'
  BY <1>1, <1>5, <1>6 DEF AuditInv, AuditShape
<1>8. VerdictHolds'
  <2>1. \A i : Bears(cache.keyed, i)' <=> Bears(cache.keyed, i)
    BY <1>1 DEF Bears
  <2> QED
    BY <1>1, <2>1 DEF AuditInv, VerdictHolds
<1> QED
  BY <1>1, <1>7, <1>8 DEF AuditInv, Ascending, CallKnows

\* A call reads the head of the ledger, then the copy.
LEMMA AskingKeeps ==
  ASSUME AuditInv, AskHead \/ AskReplica \/ AskAgain \/ CallEnds
  PROVE  AuditInv'
<1>1. UNCHANGED <<ledger, damaged, damage, written, replica, checker, cache>>
  BY DEF AskHead, AskReplica, AskAgain, CallEnds, InAsker
<1>2. asker \in Asking /\ replica.line \in CopyLine /\ cache.ok \in BOOLEAN
  BY LedgerFits DEF AuditInv, AuditShape
<1>3. asker' \in Asking
      /\ (asker'.at \in {"replica", "reread", "verify"} =>
            \/ ledger # <<>> /\ asker'.head = Last(ledger)
            \/ /\ asker.at \in {"replica", "reread", "verify"} /\ asker'.head = asker.head
               /\ asker'.lost = asker.lost)
  <2>1. CASE AskHead
    <3>1. CASE ledger = <<>>
      BY <1>2, <2>1, <3>1 DEF AskHead, Answered, Asking, AskPlaces
    <3>2. CASE ledger # <<>>
      <4>1. Last(ledger) \in Nat
        BY <3>2, HeadIsACopy, LedgerFits
      <4>2. asker' = [Quiet EXCEPT !.at = "replica", !.head = Last(ledger)]
        BY <2>1, <3>2 DEF AskHead
      <4> QED
        BY <3>2, <4>1, <4>2, AuditNames DEF Asking, AskPlaces
    <3> QED
      BY <3>1, <3>2
  <2>2. CASE AskReplica
    <3>1. \/ asker' = [[asker EXCEPT !.keyed = replica.line, !.read = replica.line]
                         EXCEPT !.at = "answered", !.head = 0, !.ok = cache.ok]
          \/ asker' = [[asker EXCEPT !.keyed = replica.line, !.read = replica.line] EXCEPT !.at = "reread"]
      BY <2>2 DEF AskReplica
    <3> DEFINE asked == [asker EXCEPT !.keyed = replica.line, !.read = replica.line]
               b == cache.ok
    <3>2. /\ asker.at = "replica" /\ asked \in Asking /\ asked.head = asker.head /\ asked.lost = asker.lost
          /\ b \in BOOLEAN
      BY <1>2, <2>2 DEF AskReplica, Asking
    <3>3. asker' = [asked EXCEPT !.at = "answered", !.head = 0, !.ok = b] \/ asker' = [asked EXCEPT !.at = "reread"]
      BY <3>1
    <3> HIDE DEF asked, b
    <3>4. CASE asker' = [asked EXCEPT !.at = "answered", !.head = 0, !.ok = b]
      BY <3>2, <3>4 DEF Asking, AskPlaces
    <3>5. CASE asker' = [asked EXCEPT !.at = "reread"]
      BY <3>2, <3>5 DEF Asking, AskPlaces
    <3> QED
      BY <3>3, <3>4, <3>5
  <2>3. CASE AskAgain
    BY <1>2, <2>3 DEF AskAgain, Asking, AskPlaces
  <2>4. CASE CallEnds
    BY <2>4, AuditNames DEF CallEnds
  <2> QED
    BY <2>1, <2>2, <2>3, <2>4
<1>4. AuditShape' /\ Ascending'
  BY <1>1, <1>3 DEF AuditInv, AuditShape, Ascending
<1>5. CallKnows'
  <2> SUFFICES ASSUME asker'.at \in {"replica", "reread", "verify"}
               PROVE  /\ asker'.head \in 1..written
                      /\ asker'.lost \/ \E i \in 1..Len(ledger) : ledger[i] = asker'.head
    BY <1>1 DEF CallKnows
  <2>1. CASE ledger # <<>> /\ asker'.head = Last(ledger)
    BY <2>1, HeadIsACopy, LedgerFits
  <2>2. CASE /\ asker.at \in {"replica", "reread", "verify"} /\ asker'.head = asker.head
             /\ asker'.lost = asker.lost
    BY <2>2 DEF AuditInv, CallKnows
  <2> QED
    BY <1>3, <2>1, <2>2
<1>6. VerdictHolds'
  <2>1. \A i : Bears(cache.keyed, i)' <=> Bears(cache.keyed, i)
    BY <1>1 DEF Bears
  <2> QED
    BY <1>1, <2>1 DEF AuditInv, VerdictHolds
<1> QED
  BY <1>4, <1>5, <1>6 DEF AuditInv

\* A verdict for which neither store moved is about the head the call has read: what the copy says
\* is an event at or before that head, and the head is at one place only.
LEMMA VerifyKeeps ==
  ASSUME AuditInv, AskVerify
  PROVE  AuditInv'
<1> DEFINE ok == Stands(asker.read)
           moved == asker.read # asker.keyed \/ HeadOf(ledger).hash # asker.head
<1>1. /\ UNCHANGED <<ledger, damaged, damage, written, replica, checker>>
      /\ asker.at = "verify"
      /\ asker' = [asker EXCEPT !.at = "answered", !.head = 0, !.ok = ok]
      /\ cache' = [head |-> asker.head, keyed |-> asker.keyed, ok |-> ok, age |-> 0, moved |-> moved]
  BY DEF AskVerify, InAsker, Answered
<1>2. ok \in BOOLEAN /\ moved \in BOOLEAN
  BY DEF Stands
<1>3. ok /\ ~moved => /\ asker.keyed # NoPoint /\ asker.head \in 1..written
                      /\ \A i \in 1..Len(ledger) : ledger[i] = asker.head =>
                           asker.keyed.sequence \in 1..i /\ ledger[asker.keyed.sequence] = asker.keyed.hash
  <2> SUFFICES ASSUME ok, ~moved
               PROVE  /\ asker.keyed # NoPoint /\ asker.head \in 1..written
                      /\ \A i \in 1..Len(ledger) : ledger[i] = asker.head =>
                           asker.keyed.sequence \in 1..i /\ ledger[asker.keyed.sequence] = asker.keyed.hash
    OBVIOUS
  <2>1. /\ asker.keyed # NoPoint /\ asker.keyed.sequence <= Len(ledger)
        /\ ledger[asker.keyed.sequence] = asker.keyed.hash /\ HeadOf(ledger).hash = asker.head
    BY DEF Stands
  <2>2. asker.head \in 1..written
    BY <1>1 DEF AuditInv, CallKnows
  <2>3. asker.keyed.sequence \in Nat /\ asker.keyed.sequence # 0
    BY <2>1, LedgerFits DEF CopyLine
  <2>4. ledger # <<>>
    BY <2>1, <2>2, AuditNames DEF HeadOf
  <2>5. ledger[Len(ledger)] = asker.head /\ Len(ledger) \in 1..Len(ledger)
    BY <2>1, <2>4, HeadIsACopy, LedgerFits
  <2>6. \A i \in 1..Len(ledger) : ledger[i] = asker.head => i = Len(ledger)
    BY <2>5, LedgerFits
  <2>7. asker.keyed.sequence \in 1..Len(ledger)
    BY <2>1, <2>3, LedgerFits
  <2>8. \A i \in 1..Len(ledger) : ledger[i] = asker.head =>
          asker.keyed.sequence \in 1..i /\ ledger[asker.keyed.sequence] = asker.keyed.hash
    BY <2>1, <2>6, <2>7
  <2> QED
    BY <2>1, <2>2, <2>8
<1>4. ok => damaged = 0
  BY DEF Stands
<1> HIDE DEF ok, moved
<1>5. asker' \in Asking /\ asker'.at = "answered" /\ cache' \in Cached
  <2>1. asker \in Asking /\ asker.head \in Nat /\ asker.keyed \in CopyLine
    BY LedgerFits DEF AuditInv, AuditShape
  <2> QED
    BY <1>1, <1>2, <2>1 DEF Asking, AskPlaces, Cached
<1>6. AuditShape' /\ Ascending' /\ CallKnows'
  BY <1>1, <1>5 DEF AuditInv, AuditShape, Ascending, CallKnows
<1>7. VerdictHolds'
  <2> SUFFICES ASSUME cache'.ok
               PROVE  /\ cache'.age < Ttl
                      /\ damaged # 0 => damage <= cache'.age
                      /\ cache'.moved \/ (/\ cache'.keyed # NoPoint /\ cache'.head \in 1..written
                                          /\ \A i \in 1..Len(ledger) : ledger[i] = cache'.head =>
                                               cache'.keyed.sequence \in 1..i /\ ledger[cache'.keyed.sequence] = cache'.keyed.hash)
    BY <1>1 DEF VerdictHolds, Bears
  <2>1. ok /\ cache'.age = 0 /\ cache'.moved = moved /\ cache'.keyed = asker.keyed /\ cache'.head = asker.head
    BY <1>1
  <2> QED
    BY <1>2, <1>3, <1>4, <2>1, LedgerFits
<1> QED
  BY <1>6, <1>7 DEF AuditInv

LEMMA RestartKeeps ==
  ASSUME AuditInv, AuthorizerRestarts
  PROVE  AuditInv'
<1>1. UNCHANGED <<ledger, damaged, damage, written, replica, checker>> /\ cache' = NoVerdict /\ asker' = Quiet
  BY DEF AuthorizerRestarts, InAsker
<1>2. cache'.ok = FALSE /\ asker'.at = "idle" /\ cache' \in Cached /\ asker' \in Asking
  BY <1>1, AuditNames
<1> QED
  BY <1>1, <1>2 DEF AuditInv, AuditShape, Ascending, CallKnows, VerdictHolds

LEMMA AuditStep == AuditInv /\ [AuditNext]_auditVars => AuditInv'
<1> SUFFICES ASSUME AuditInv, [AuditNext]_auditVars PROVE AuditInv'
  OBVIOUS
<1>1. CASE UNCHANGED auditVars
  <2>1. UNCHANGED <<ledger, damaged, damage, written, replica, checker, asker, cache>>
    BY <1>1 DEF auditVars
  <2>2. \A i : Bears(cache.keyed, i)' <=> Bears(cache.keyed, i)
    BY <2>1 DEF Bears
  <2>3. AuditShape' /\ Ascending' /\ CallKnows'
    BY <2>1 DEF AuditInv, AuditShape, Ascending, CallKnows
  <2>4. VerdictHolds'
    BY <2>1, <2>2 DEF AuditInv, VerdictHolds
  <2> QED
    BY <2>3, <2>4 DEF AuditInv
<1>2. CASE AuditNext
  BY <1>2, EventKeeps, RestoreKeeps, StoreKeeps, TimeKeeps, CheckerKeeps, AskingKeeps, VerifyKeeps, RestartKeeps
  DEF AuditNext
<1> QED
  BY <1>1, <1>2

(* What the authorizer holds a verdict on (chainStanding) is what the ledger  *)
(* bears out, through writers, restores, lost files and restarts.            *)
THEOREM AuditInvariant == AuditSpec => []AuditInv
BY AuditStart, AuditStep, PTL DEF AuditSpec

\* An answer that passes comes from a verification, or from the verdict of one under this head.
LEMMA PassIsBorneOut ==
  AuditInv /\ [AuditNext]_auditVars =>
    [asker.at # "answered" /\ asker'.at = "answered" /\ asker'.ok =>
       \/ asker.lost
       \/ asker.at = "replica" /\ cache.moved
       \/ /\ asker'.read # NoPoint
          /\ asker'.read.sequence <= Len(ledger)
          /\ ledger[asker'.read.sequence] = asker'.read.hash
          /\ damaged # 0 => damage < Ttl]_auditVars
<1> SUFFICES ASSUME AuditInv, AuditNext,
                    asker.at # "answered", asker'.at = "answered", asker'.ok,
                    ~asker.lost, ~(asker.at = "replica" /\ cache.moved)
             PROVE  /\ asker'.read # NoPoint
                    /\ asker'.read.sequence <= Len(ledger)
                    /\ ledger[asker'.read.sequence] = asker'.read.hash
                    /\ damaged # 0 => damage < Ttl
  BY DEF auditVars
<1>1. asker \in Asking
  BY DEF AuditInv, AuditShape
<1>2. AskReplica \/ AskVerify
  <2>1. CASE WriteEvent \/ DamageRow \/ TimeGoesBy \/ CheckerStep \/ CheckerFails
    <3>1. UNCHANGED asker
      BY <2>1 DEF WriteEvent, DamageRow, TimeGoesBy, InStores, CheckerStep, CheckerFails, VerifyChain, ReadHead,
             Replicate, InsertCheckpoint, ReadReplica, CompareWithReplica, RecordVerification, SettleAlert, InChecker
    <3> QED
      BY <3>1
  <2>2. CASE RestoreLedger \/ LoseReplica
    <3> DEFINE b == asker.at # "idle"
    <3>1. b \in BOOLEAN /\ asker' = [asker EXCEPT !.lost = b]
      BY <2>2 DEF RestoreLedger, LoseReplica, Losing
    <3> HIDE DEF b
    <3> QED
      BY <1>1, <3>1 DEF Asking
  <2>3. CASE AskHead
    <3>1. CASE ledger = <<>>
      BY <1>1, <2>3, <3>1 DEF AskHead, Answered, Asking
    <3>2. CASE ledger # <<>>
      <4>1. asker' = [Quiet EXCEPT !.at = "replica", !.head = Last(ledger)]
        BY <2>3, <3>2 DEF AskHead
      <4> QED
        BY <4>1 DEF Quiet
    <3> QED
      BY <3>1, <3>2
  <2>4. CASE AskAgain
    BY <1>1, <2>4 DEF AskAgain, Asking
  <2>5. CASE CallEnds \/ AuthorizerRestarts
    BY <2>5, AuditNames DEF CallEnds, AuthorizerRestarts
  <2> QED
    BY <2>1, <2>2, <2>3, <2>4, <2>5 DEF AuditNext
<1>3. CASE AskReplica
  <2>1. asker.at = "replica" /\ ~cache.moved
    BY <1>3 DEF AskReplica
  <2> DEFINE asked == [asker EXCEPT !.keyed = replica.line, !.read = replica.line]
  <2>2. KeyMatches(asker.head, replica.line)
        /\ asker' = [asked EXCEPT !.at = "answered", !.head = 0, !.ok = cache.ok]
    <3>1. ~KeyMatches(asker.head, replica.line) => asker' = [asked EXCEPT !.at = "reread"]
      BY <1>3 DEF AskReplica
    <3>2. [asked EXCEPT !.at = "reread"].at = "reread"
      BY <1>1 DEF Asking
    <3>3. KeyMatches(asker.head, replica.line)
      BY <3>1, <3>2
    <3> QED
      BY <1>3, <3>3 DEF AskReplica
  <2>3. asker'.read = replica.line /\ asker'.ok = cache.ok
    BY <1>1, <2>2 DEF Asking
  <2>4. cache.ok /\ cache.head = asker.head /\ cache.keyed = asker'.read
    BY <2>2, <2>3 DEF KeyMatches
  <2>5. PICK i \in 1..Len(ledger) : ledger[i] = asker.head
    BY <2>1 DEF AuditInv, CallKnows
  <2>6. /\ cache.age < Ttl /\ (damaged # 0 => damage <= cache.age) /\ cache.keyed # NoPoint
        /\ Bears(cache.keyed, i)
    BY <2>1, <2>4, <2>5 DEF AuditInv, VerdictHolds
  <2>7. damaged # 0 => damage < Ttl
    BY <2>6, LedgerFits
  <2>8. cache.keyed.sequence <= Len(ledger) /\ ledger[cache.keyed.sequence] = cache.keyed.hash
    BY <2>6, LedgerFits DEF Bears
  <2> QED
    BY <2>4, <2>6, <2>7, <2>8
<1>4. CASE AskVerify
  <2> DEFINE ok == Stands(asker.read)
  <2>1. asker' = [asker EXCEPT !.at = "answered", !.head = 0, !.ok = ok] /\ ok \in BOOLEAN
    BY <1>4 DEF AskVerify, Answered, Stands
  <2>2. asker'.read = asker.read /\ asker'.ok = ok
    <3> HIDE DEF ok
    <3> QED
      BY <1>1, <2>1 DEF Asking
  <2>3. Stands(asker.read)
    BY <2>2
  <2> QED
    BY <2>2, <2>3 DEF Stands
<1> QED
  BY <1>2, <1>3, <1>4

(* AuditTrail!StandingIsCurrent: an entry is let past the audit check only on *)
(* a copy that the ledger bears out, at most a Ttl after a row went bad       *)
(* (authorizer main.ts chainStanding and its cache key).                      *)
THEOREM StandingHolds == AuditSpec => StandingIsCurrent
<1>1. AuditSpec => []AuditInv /\ [][AuditNext]_auditVars
  BY AuditInvariant, PTL DEF AuditSpec
<1> QED
  BY <1>1, PassIsBorneOut, PTL DEF StandingIsCurrent

----------------------------------------------------------------------------
(* The types of the queues.                                                 *)

QueueBounded ==
  /\ \A m \in Msgs : mail[m].reads \in 0..MaxAttempts /\ deadLetters[m] \in 0..2
  /\ lost \in 0..MaxLost

LEMMA QueueBoundedStarts == QueueInit => QueueBounded
BY QueueAssumption DEF QueueInit, QueueBounded

LEMMA QueueBoundedSteps == QueueInv /\ QueueBounded /\ [QueueNext]_queueVars => QueueBounded'
<1> SUFFICES ASSUME QueueInv, QueueBounded, [QueueNext]_queueVars PROVE QueueBounded'
  OBVIOUS
<1>1. /\ mail \in [Msgs -> [place : {"unsent", "visible", "leased", "archived"}, reads : Nat]]
      /\ deadLetters \in [Msgs -> Nat] /\ MaxLost \in Nat /\ MaxAttempts \in Nat \ {0}
  BY QueueAssumption DEF QueueInv, ShapeOK
<1>2. ASSUME NEW h \in Consumers, ConsumerStep(h) \/ ConsumerDies(h) PROVE lost' \in 0..MaxLost
  BY <1>1, <1>2 DEF QueueBounded, ConsumerStep, ConsumerDies, ClaimKey, Commit, HandlerThrows, Archive, Retry, Bury
<1>3. ASSUME NEW h \in Consumers, ConsumerStep(h) \/ ConsumerDies(h)
      PROVE  \A m \in Msgs : mail'[m].reads \in 0..MaxAttempts /\ deadLetters'[m] \in 0..2
  <2>1. CASE UNCHANGED <<mail, deadLetters>>
    BY <2>1 DEF QueueBounded
  <2>2. CASE Archive(h) \/ Retry(h)
    <3>1. \/ UNCHANGED mail
          \/ \E place : mail' = [mail EXCEPT ![Held(h)].place = place]
      BY <2>2 DEF Archive, Retry
    <3>2. \A m \in Msgs : mail'[m].reads = mail[m].reads
      BY <1>1, <3>1
    <3> QED
      BY <2>2, <3>2 DEF QueueBounded, Archive, Retry
  <2>3. CASE Bury(h)
    <3>1. mail' = mail /\ deadLetters' = [deadLetters EXCEPT ![Held(h)] = IF @ < 2 THEN @ + 1 ELSE @]
      BY <2>3 DEF Bury
    <3> QED
      BY <1>1, <3>1 DEF QueueBounded
  <2> QED
    BY <1>3, <2>1, <2>2, <2>3 DEF ConsumerStep, ConsumerDies, ClaimKey, Commit, HandlerThrows
<1>4. ASSUME NEW n \in Msgs, SendMessage(n) \/ LeaseLapses(n) PROVE QueueBounded'
  <2>1. mail' = [mail EXCEPT ![n].place = "visible"] /\ UNCHANGED <<deadLetters, lost>>
    BY <1>4 DEF SendMessage, LeaseLapses
  <2>2. \A m \in Msgs : mail'[m].reads = mail[m].reads
    BY <1>1, <2>1
  <2> QED
    BY <2>1, <2>2 DEF QueueBounded
<1>5. ASSUME NEW n \in Msgs, NEW h \in Consumers, ReadMessage(h, n) PROVE QueueBounded'
  <2> DEFINE r == Counted(mail[n].reads)
  <2>1. r \in 0..MaxAttempts
    BY <1>1 DEF QueueBounded, Counted
  <2>2. mail' = [mail EXCEPT ![n] = [place |-> "leased", reads |-> r]] /\ UNCHANGED <<deadLetters, lost>>
    BY <1>1, <1>5 DEF ReadMessage
  <2> HIDE DEF r
  <2> QED
    BY <1>1, <2>1, <2>2 DEF QueueBounded
<1>6. CASE UNCHANGED queueVars
  BY <1>6 DEF queueVars, QueueBounded
<1> QED
  BY <1>2, <1>3, <1>4, <1>5, <1>6 DEF QueueNext, Deliver, QueueBounded

LEMMA QueueTyped == QueueInv /\ QueueBounded => QueueTypeOK
<1> SUFFICES ASSUME QueueInv, QueueBounded PROVE QueueTypeOK
  OBVIOUS
<1>1. mail \in [Msgs -> [place : {"unsent", "visible", "leased", "archived"}, reads : 0..MaxAttempts]]
  BY DEF QueueInv, ShapeOK, QueueBounded
<1>2. deadLetters \in [Msgs -> 0..2]
  BY DEF QueueInv, ShapeOK, QueueBounded
<1> QED
  BY <1>1, <1>2 DEF QueueInv, ShapeOK, QueueBounded, QueueTypeOK

LEMMA SessionTyped == SessionInv => SessionTypeOK
<1> SUFFICES ASSUME SessionInv PROVE SessionTypeOK
  OBVIOUS
<1>1. SessionShape
  BY DEF SessionInv
<1>2. \A r \in DOMAIN request : request[r].state \in {"PENDING", "ACCEPTED", "REJECTED"}
  BY <1>1, RoleIs DEF ControlRequest
<1> QED
  BY <1>1, <1>2, RoleIs DEF SessionShape, SessionTypeOK, Activities, PausedBy

----------------------------------------------------------------------------
(* The types of the alerts.                                                 *)

Ages == 0..(EscalateAfter + DeadManAfter)
TellerPlaces == {"idle", "facts", "escalate", "deadman", "tell", "list", "deliver", "record"}
AlertRow ==
  [open : BOOLEAN, acked : BOOLEAN, level : 0..MaxLevel, age : Ages, lastTry : {Never} \cup Ages,
   paused : BOOLEAN, confirmed : SUBSET (Channels \X (0..MaxLevel))]
TellerState == [at : TellerPlaces, todo : SUBSET Channels, sent : SUBSET Channels]

AlertShape ==
  /\ condition \in BOOLEAN /\ acknowledging \in BOOLEAN /\ alert \in AlertRow
  /\ deadMan \in [paused : BOOLEAN, told : BOOLEAN] /\ teller \in TellerState /\ troubles \in 0..MaxTroubles

LEMMA AlertConstants ==
  /\ EscalateAfter \in Nat \ {0} /\ DeadManAfter \in Nat \ {0} /\ MaxLevel \in Nat \ {0} /\ MaxTroubles \in Nat
  /\ NoAlert \in AlertRow /\ Asleep \in TellerState
<1>1. EscalateAfter \in Nat \ {0} /\ DeadManAfter \in Nat \ {0} /\ MaxLevel \in Nat \ {0} /\ MaxTroubles \in Nat
  BY NotificationsAssumption
<1>2. 0 \in Ages /\ 0 \in 0..MaxLevel
  BY <1>1 DEF Ages
<1>3. NoAlert \in AlertRow
  BY <1>2 DEF NoAlert, AlertRow
<1> QED
  BY <1>1, <1>3 DEF Asleep, TellerState, TellerPlaces

LEMMA LaterFits ==
  /\ \A t \in Ages : Later(t) \in Ages
  /\ Later(Never) = Never
BY AlertConstants DEF Ages, Later, Never

LEMMA AlertStarts == AlertInit => AlertShape
<1> SUFFICES ASSUME AlertInit PROVE AlertShape
  OBVIOUS
<1>1. deadMan \in [paused : BOOLEAN, told : BOOLEAN]
  BY DEF AlertInit
<1>2. condition \in BOOLEAN /\ acknowledging \in BOOLEAN /\ alert = NoAlert /\ teller = Asleep /\ troubles = 0
  BY DEF AlertInit
<1>3. 0 \in 0..MaxTroubles
  BY AlertConstants
<1> QED
  BY <1>1, <1>2, <1>3, AlertConstants DEF AlertShape

LEMMA TellerFits ==
  ASSUME AlertShape, NEW step \in TellerPlaces, TellerTo(step)
  PROVE  teller' \in TellerState
BY DEF AlertShape, TellerTo, TellerState

LEMMA AlertWorld ==
  ASSUME AlertShape, ConditionChanges \/ OperatorAcknowledges \/ TimePasses \/ CycleDies
  PROVE  AlertShape'
<1>1. CASE ConditionChanges \/ OperatorAcknowledges
  BY <1>1 DEF ConditionChanges, OperatorAcknowledges, AlertShape
<1>2. CASE TimePasses
  <2> DEFINE a == Later(alert.age)
             l == Later(alert.lastTry)
  <2>1. alert \in AlertRow /\ a \in Ages /\ l \in {Never} \cup Ages
    BY LaterFits DEF AlertShape, AlertRow
  <2>2. alert' = [alert EXCEPT !.age = a, !.lastTry = l]
    BY <1>2 DEF TimePasses
  <2> HIDE DEF a, l
  <2>3. alert' \in AlertRow
    BY <2>1, <2>2 DEF AlertRow
  <2> QED
    BY <1>2, <2>3 DEF TimePasses, AlertShape
<1>3. CASE CycleDies
  BY <1>3, AlertConstants DEF CycleDies, Trouble, AlertShape
<1> QED
  BY <1>1, <1>2, <1>3

LEMMA AlertCycle ==
  ASSUME AlertShape, Acknowledge \/ RaiseOrResolve \/ Escalate \/ ApplyDeadManPause \/ TellOfPause
  PROVE  AlertShape'
<1>1. CASE Acknowledge
  <2> DEFINE acked == alert.acked \/ (alert.open /\ acknowledging)
  <2>1. acked \in BOOLEAN
    OBVIOUS
  <2>2. alert' = [alert EXCEPT !.acked = acked] /\ TellerTo("facts") /\ acknowledging' = FALSE
        /\ UNCHANGED <<condition, deadMan, troubles>>
    BY <1>1 DEF Acknowledge
  <2> HIDE DEF acked
  <2>3. alert' \in AlertRow
    BY <2>1, <2>2 DEF AlertShape, AlertRow
  <2> QED
    BY <2>2, <2>3, TellerFits DEF AlertShape, TellerPlaces
<1>2. CASE RaiseOrResolve
  <2>1. [NoAlert EXCEPT !.open = TRUE] \in AlertRow
    BY AlertConstants DEF AlertRow
  <2>2. alert' \in {[NoAlert EXCEPT !.open = TRUE], NoAlert, alert}
    BY <1>2 DEF RaiseOrResolve, AlertShape
  <2>3. alert' \in AlertRow
    BY <2>1, <2>2, AlertConstants DEF AlertShape
  <2> QED
    BY <1>2, <2>3, TellerFits DEF RaiseOrResolve, AlertShape, TellerPlaces
<1>3. CASE Escalate
  <2>1. ASSUME alert.level < MaxLevel PROVE [alert EXCEPT !.level = @ + 1, !.lastTry = Never] \in AlertRow
    <3>1. alert \in AlertRow /\ alert.level + 1 \in 0..MaxLevel
      BY <2>1, AlertConstants DEF AlertShape, AlertRow
    <3> QED
      BY <3>1 DEF AlertRow
  <2>2. alert' \in AlertRow
    BY <1>3, <2>1 DEF Escalate, AlertShape
  <2> QED
    BY <1>3, <2>2, TellerFits DEF Escalate, AlertShape, TellerPlaces
<1>4. CASE ApplyDeadManPause
  <2>1. alert' \in AlertRow
    BY <1>4 DEF ApplyDeadManPause, AlertShape, AlertRow
  <2>2. deadMan' \in [paused : BOOLEAN, told : BOOLEAN]
    BY <1>4 DEF ApplyDeadManPause, AlertShape
  <2> QED
    BY <1>4, <2>1, <2>2, TellerFits DEF ApplyDeadManPause, AlertShape, TellerPlaces
<1>5. CASE TellOfPause
  <2>1. deadMan' \in [paused : BOOLEAN, told : BOOLEAN]
    BY <1>5 DEF TellOfPause, AlertShape
  <2> QED
    BY <1>5, <2>1, TellerFits DEF TellOfPause, AlertShape, TellerPlaces
<1> QED
  BY <1>1, <1>2, <1>3, <1>4, <1>5

LEMMA AlertDeliveries ==
  ASSUME AlertShape, ListDeliveries \/ RecordDelivery \/ EndAlertCycle \/ (\E c \in Channels : Send(c))
  PROVE  AlertShape'
<1>0. teller \in TellerState /\ alert \in AlertRow
  BY DEF AlertShape
<1>1. CASE ListDeliveries
  <2> DEFINE todo == IF alert.open THEN Undelivered ELSE {}
  <2>1. todo \in SUBSET Channels
    BY DEF Undelivered
  <2>2. teller' = [teller EXCEPT !.at = "deliver", !.todo = todo]
    BY <1>1 DEF ListDeliveries
  <2> HIDE DEF todo
  <2>3. teller' \in TellerState
    BY <1>0, <2>1, <2>2 DEF TellerState, TellerPlaces
  <2> QED
    BY <1>1, <2>3 DEF ListDeliveries, AlertShape
<1>2. CASE RecordDelivery
  <2> DEFINE known == alert.confirmed \cup {<<c, alert.level>> : c \in teller.sent}
             try == IF alert.level > 0 THEN 0 ELSE Never
  <2>1. known \in SUBSET (Channels \X (0..MaxLevel))
    BY <1>0 DEF AlertRow, TellerState
  <2>2. try \in {Never} \cup Ages
    BY AlertConstants DEF Ages
  <2>3. alert' = [alert EXCEPT !.confirmed = known, !.lastTry = try]
    BY <1>2 DEF RecordDelivery
  <2> HIDE DEF known, try
  <2>4. alert' \in AlertRow
    BY <1>0, <2>1, <2>2, <2>3 DEF AlertRow
  <2>5. teller' \in TellerState
    BY <1>0, <1>2 DEF RecordDelivery, TellerState, TellerPlaces
  <2> QED
    BY <1>2, <2>4, <2>5 DEF RecordDelivery, AlertShape
<1>3. CASE EndAlertCycle
  BY <1>3, AlertConstants DEF EndAlertCycle, AlertShape
<1>4. ASSUME NEW c \in Channels, Send(c) PROVE AlertShape'
  <2>1. troubles' \in 0..MaxTroubles
    <3>1. troubles \in 0..MaxTroubles /\ MaxTroubles \in Nat
      BY AlertConstants DEF AlertShape
    <3>2. troubles' = troubles \/ (troubles < MaxTroubles /\ troubles' = troubles + 1)
      BY <1>4 DEF Send, Trouble
    <3> QED
      BY <3>1, <3>2
  <2>2. \E sent \in SUBSET Channels : teller' = [teller EXCEPT !.at = "record", !.todo = @ \ {c}, !.sent = sent]
    BY <1>4 DEF Send
  <2>3. PICK sent \in SUBSET Channels : teller' = [teller EXCEPT !.at = "record", !.todo = @ \ {c}, !.sent = sent]
    BY <2>2
  <2>4. teller' \in TellerState
    BY <1>0, <2>3 DEF TellerState, TellerPlaces
  <2> QED
    BY <1>4, <2>1, <2>4 DEF Send, AlertShape
<1> QED
  BY <1>1, <1>2, <1>3, <1>4

LEMMA AlertSteps == AlertShape /\ [AlertNext]_alertVars => AlertShape'
<1> SUFFICES ASSUME AlertShape, [AlertNext]_alertVars PROVE AlertShape'
  OBVIOUS
<1>1. CASE UNCHANGED alertVars
  BY <1>1 DEF alertVars, AlertShape
<1> QED
  BY <1>1, AlertWorld, AlertCycle, AlertDeliveries DEF AlertNext, TellerStep

LEMMA AlertTyped == AlertShape => AlertTypeOK
<1> SUFFICES ASSUME AlertShape PROVE AlertTypeOK
  OBVIOUS
<1>1. /\ alert.level \in 0..MaxLevel /\ alert.age \in Ages /\ alert.lastTry \in {Never} \cup Ages
      /\ alert.confirmed \subseteq Channels \X (0..MaxLevel)
  BY DEF AlertShape, AlertRow
<1>2. alert.open \in BOOLEAN /\ alert.acked \in BOOLEAN /\ alert.paused \in BOOLEAN
      /\ deadMan.paused \in BOOLEAN /\ deadMan.told \in BOOLEAN
  BY DEF AlertShape, AlertRow
<1>3. teller.todo \cup teller.sent \subseteq Channels
  BY DEF AlertShape, TellerState
<1>4. {condition, acknowledging, alert.open, alert.acked, alert.paused, deadMan.paused, deadMan.told} \subseteq BOOLEAN
  BY <1>2 DEF AlertShape
<1> QED
  BY <1>1, <1>3, <1>4 DEF AlertShape, AlertTypeOK, Ages

----------------------------------------------------------------------------
(* The types of the audit trail: no copy of the head is beyond the events.  *)

LedgerCounted ==
  /\ written \in 0..MaxEvents /\ Len(ledger) <= written /\ damaged <= Len(ledger) /\ damage <= Ttl /\ cache.age < Ttl
CopiesCounted ==
  /\ replica.line \in Points /\ cache.keyed \in Points
  /\ checker.head \in Points /\ checker.read \in Points /\ asker.keyed \in Points /\ asker.read \in Points
FlagsFit == recorded \in BOOLEAN /\ alarm \in BOOLEAN

AuditCounted == LedgerCounted /\ CopiesCounted /\ FlagsFit

LEMMA AuditConstants == Ttl \in Nat \ {0} /\ MaxEvents \in Nat \ {0} /\ MaxMishaps \in Nat /\ NoPoint \in Points
BY AuditAssumption DEF Points, NoPoint

LEMMA AuditRests ==
  /\ Between.head \in Points /\ Between.read \in Points /\ Quiet.keyed \in Points /\ Quiet.read \in Points
  /\ NoFile.line \in Points /\ NoVerdict.keyed \in Points /\ NoVerdict.age = 0
BY AuditConstants DEF Between, Quiet, NoFile, NoVerdict

LEMMA AuditCountedStarts == AuditInit => AuditCounted
<1> SUFFICES ASSUME AuditInit PROVE AuditCounted
  OBVIOUS
<1>1. /\ ledger = <<>> /\ damaged = 0 /\ damage = 0 /\ written = 0 /\ replica = NoFile /\ checker = Between
      /\ recorded = TRUE /\ alarm = FALSE /\ asker = Quiet /\ cache = NoVerdict
  BY DEF AuditInit
<1>2. Len(ledger) = 0
  BY <1>1
<1>3. LedgerCounted
  BY <1>1, <1>2, AuditConstants, AuditRests DEF LedgerCounted
<1>4. CopiesCounted
  BY <1>1, AuditRests DEF CopiesCounted
<1> QED
  BY <1>1, <1>3, <1>4 DEF AuditCounted, FlagsFit

LEMMA LedgerNumbers ==
  ASSUME AuditInv, LedgerCounted
  PROVE  /\ ledger \in Seq(Nat) /\ Len(ledger) \in Nat /\ written \in Nat /\ damaged \in Nat /\ damage \in Nat
         /\ cache.age \in Nat /\ Ttl \in Nat \ {0} /\ MaxEvents \in Nat
         /\ written <= MaxEvents /\ Len(ledger) <= written /\ damaged <= Len(ledger) /\ damage <= Ttl /\ cache.age < Ttl
         /\ HeadOf(ledger) \in Points
<1>1. /\ ledger \in Seq(Nat) /\ Len(ledger) \in Nat /\ written \in Nat /\ damaged \in Nat /\ damage \in Nat
      /\ cache.age \in Nat /\ Ttl \in Nat \ {0} /\ MaxEvents \in Nat
      /\ written <= MaxEvents /\ Len(ledger) <= written /\ damaged <= Len(ledger) /\ damage <= Ttl /\ cache.age < Ttl
  BY LedgerFits, AuditConstants DEF LedgerCounted
<1>2. CASE ledger = <<>>
  BY <1>1, <1>2, AuditConstants DEF HeadOf
<1>3. CASE ledger # <<>>
  <2>1. HeadOf(ledger) = [sequence |-> Len(ledger), hash |-> Last(ledger)] /\ Last(ledger) \in 1..written
    BY <1>3, HeadIsACopy
  <2>2. Len(ledger) \in 0..MaxEvents /\ Last(ledger) \in 0..MaxEvents
    BY <1>1, <2>1
  <2>3. \A n, h \in 0..MaxEvents : [sequence |-> n, hash |-> h] \in Points
    BY DEF Points
  <2> QED
    BY <1>1, <2>1, <2>2, <2>3
<1> QED
  BY <1>1, <1>2, <1>3

LEMMA CountedInStores ==
  ASSUME AuditInv, AuditCounted, WriteEvent \/ RestoreLedger \/ DamageRow \/ LoseReplica \/ TimeGoesBy
  PROVE  AuditCounted'
<1>0. LedgerCounted /\ CopiesCounted /\ FlagsFit
  BY DEF AuditCounted
<1>1. UNCHANGED <<checker, recorded, alarm>>
  BY DEF WriteEvent, RestoreLedger, DamageRow, LoseReplica, TimeGoesBy, InStores
<1>2. CASE WriteEvent
  <2>1. written' = written + 1 /\ written < MaxEvents /\ UNCHANGED <<damaged, damage, replica, asker, cache>>
    BY <1>2 DEF WriteEvent, InStores
  <2>2. Len(ledger') = Len(ledger) + 1
    BY <1>0, <1>2, LedgerNumbers DEF WriteEvent
  <2>3. LedgerCounted'
    BY <1>0, <2>1, <2>2, LedgerNumbers DEF LedgerCounted
  <2> QED
    BY <1>0, <1>1, <2>1, <2>3 DEF AuditCounted, CopiesCounted, FlagsFit
<1>3. CASE RestoreLedger
  <2>1. PICK n \in 0..(Len(ledger) - 1) :
          /\ ledger' = SubSeq(ledger, 1, n) /\ damaged' = (IF damaged > n THEN 0 ELSE damaged)
          /\ damage' = (IF damaged > n THEN 0 ELSE damage)
    BY <1>3 DEF RestoreLedger
  <2>2. Len(ledger') = n
    BY <1>0, <2>1, LedgerNumbers
  <2>3. UNCHANGED <<written, replica, cache>>
    BY <1>3 DEF RestoreLedger, InStores
  <2>a. damaged' <= n /\ damage' <= Ttl
    BY <1>0, <2>1, LedgerNumbers
  <2>b. n <= written
    BY <1>0, <2>1, LedgerNumbers
  <2>4. LedgerCounted'
    BY <1>0, <2>2, <2>3, <2>a, <2>b DEF LedgerCounted
  <2>5. asker'.keyed = asker.keyed /\ asker'.read = asker.read
    <3>1. asker \in Asking
      BY DEF AuditInv, AuditShape
    <3> QED
      BY <1>3, <3>1 DEF RestoreLedger, Losing, Asking
  <2> QED
    BY <1>0, <1>1, <2>3, <2>4, <2>5 DEF AuditCounted, CopiesCounted, FlagsFit
<1>4. CASE DamageRow
  <2>1. damaged' \in 1..Len(ledger) /\ damage' = 0 /\ UNCHANGED <<ledger, written, replica, asker, cache>>
    BY <1>4, LedgerFits DEF DamageRow, InStores
  <2>2. LedgerCounted'
    BY <1>0, <2>1, LedgerNumbers DEF LedgerCounted
  <2> QED
    BY <1>0, <1>1, <2>1, <2>2 DEF AuditCounted, CopiesCounted, FlagsFit
<1>5. CASE LoseReplica
  <2>1. UNCHANGED <<ledger, damaged, damage, written, cache>> /\ replica' = NoFile
    BY <1>5 DEF LoseReplica, InStores
  <2>2. asker'.keyed = asker.keyed /\ asker'.read = asker.read
    <3>1. asker \in Asking
      BY DEF AuditInv, AuditShape
    <3> QED
      BY <1>5, <3>1 DEF LoseReplica, Losing, Asking
  <2> QED
    BY <1>0, <1>1, <2>1, <2>2, AuditRests DEF AuditCounted, LedgerCounted, CopiesCounted, FlagsFit
<1>6. CASE TimeGoesBy
  <2>1. /\ damage' = IF damaged # 0 /\ damage < Ttl THEN damage + 1 ELSE damage
        /\ UNCHANGED <<ledger, damaged, written, replica, asker>>
    BY <1>6 DEF TimeGoesBy
  <2>2. cache'.keyed \in Points /\ cache'.age < Ttl
    <3>1. cache \in Cached
      BY DEF AuditInv, AuditShape
    <3>2. CASE Lives(cache.age + 1)
      BY <1>0, <1>6, <3>1, <3>2 DEF TimeGoesBy, Lives, CopiesCounted, Cached
    <3>3. CASE ~Lives(cache.age + 1)
      BY <1>6, <3>3, AuditRests, AuditConstants DEF TimeGoesBy
    <3> QED
      BY <3>2, <3>3
  <2>3. damage' <= Ttl
    BY <1>0, <2>1, LedgerNumbers
  <2>4. LedgerCounted'
    BY <1>0, <2>1, <2>2, <2>3 DEF LedgerCounted
  <2> QED
    BY <1>0, <1>1, <2>1, <2>2, <2>4 DEF AuditCounted, CopiesCounted, FlagsFit
<1> QED
  BY <1>2, <1>3, <1>4, <1>5, <1>6

\* Whatever is appended to the file, its last line is a copy of a head or none.
LEMMA LineCounted ==
  ASSUME CopiesCounted
  PROVE  AppendLine(checker.head).line \in Points
BY AuditConstants DEF CopiesCounted, AppendLine

LEMMA CountedInChecker ==
  ASSUME AuditInv, AuditCounted, CheckerStep \/ CheckerFails
  PROVE  AuditCounted'
<1>0. LedgerCounted /\ CopiesCounted /\ FlagsFit /\ checker \in Checking /\ HeadOf(ledger) \in Points
  BY LedgerNumbers DEF AuditCounted, AuditInv, AuditShape
<1>1. UNCHANGED <<ledger, damaged, damage, written, asker, cache>>
  BY DEF CheckerStep, CheckerFails, VerifyChain, ReadHead, Replicate, InsertCheckpoint, ReadReplica,
         CompareWithReplica, RecordVerification, SettleAlert, InChecker
<1>2. replica'.line \in Points
  <2>1. CASE CheckerStep
    BY <1>0, <2>1, LineCounted DEF CheckerStep, VerifyChain, ReadHead, Replicate, InsertCheckpoint, ReadReplica,
           CompareWithReplica, RecordVerification, SettleAlert, CopiesCounted
  <2>2. CASE CheckerFails
    <3>1. \/ UNCHANGED replica
          \/ \E whole \in BOOLEAN :
               replica' = [line |-> IF whole THEN AppendLine(checker.head).line ELSE NoPoint, torn |-> TRUE]
      BY <2>2 DEF CheckerFails
    <3>2. AppendLine(checker.head).line \in Points /\ NoPoint \in Points
      BY <1>0, LineCounted, AuditConstants
    <3> DEFINE l == AppendLine(checker.head).line
    <3>3. CASE UNCHANGED replica
      BY <1>0, <3>3 DEF CopiesCounted
    <3>4. ASSUME NEW whole \in BOOLEAN, replica' = [line |-> IF whole THEN l ELSE NoPoint, torn |-> TRUE]
          PROVE  replica'.line \in Points
      <4> HIDE DEF l
      <4>1. l \in Points
        BY <3>2 DEF l
      <4> QED
        BY <3>2, <3>4, <4>1
    <3> QED
      BY <3>1, <3>3, <3>4
  <2> QED
    BY <2>1, <2>2
<1>3. ASSUME NEW ok, Finds(ok) PROVE checker'.head \in Points /\ checker'.read \in Points
  BY <1>3, AuditConstants DEF Finds, Between
<1>4. ASSUME NEW step, CheckerTo(step) PROVE checker'.head \in Points /\ checker'.read \in Points
  BY <1>0, <1>4 DEF CheckerTo, Checking, CopiesCounted
<1>5. checker' = Between => checker'.head \in Points /\ checker'.read \in Points
  BY AuditRests
<1>6. checker'.head \in Points /\ checker'.read \in Points
  <2>1. CASE VerifyChain \/ Replicate \/ CompareWithReplica \/ RecordVerification
    <3>1. (\E ok : Finds(ok)) \/ \E step : CheckerTo(step)
      BY <2>1 DEF VerifyChain, Replicate, CompareWithReplica, RecordVerification
    <3> QED
      BY <1>3, <1>4, <3>1
  <2>2. CASE SettleAlert
    BY <1>5, <2>2 DEF SettleAlert
  <2>3. CASE ReadHead
    BY <1>0, <2>3 DEF ReadHead, Checking, CopiesCounted
  <2>4. CASE InsertCheckpoint
    <3>1. checker' = [Between EXCEPT !.at = "read"] \/ Finds(FALSE)
      BY <2>4 DEF InsertCheckpoint
    <3> QED
      BY <1>3, <3>1, AuditConstants DEF Between
  <2>5. CASE ReadReplica
    BY <1>0, <2>5 DEF ReadReplica, Checking, CopiesCounted
  <2>6. CASE CheckerFails
    BY <1>3, <1>5, <2>6 DEF CheckerFails
  <2> QED
    BY <2>1, <2>2, <2>3, <2>4, <2>5, <2>6 DEF CheckerStep
<1>7. FlagsFit'
  <2>1. checker.ok \in BOOLEAN
    BY <1>0 DEF Checking
  <2>2. recorded' \in {recorded, checker.ok} /\ alarm' \in {alarm, ~checker.ok}
    BY DEF CheckerStep, CheckerFails, VerifyChain, ReadHead, Replicate, InsertCheckpoint, ReadReplica,
           CompareWithReplica, RecordVerification, SettleAlert
  <2>3. recorded \in BOOLEAN /\ alarm \in BOOLEAN
    BY <1>0 DEF FlagsFit
  <2>4. recorded' \in BOOLEAN
    BY <2>1, <2>2, <2>3
  <2>5. alarm' \in BOOLEAN
    BY <2>1, <2>2, <2>3
  <2> QED
    BY <2>4, <2>5 DEF FlagsFit
<1> QED
  BY <1>0, <1>1, <1>2, <1>6, <1>7 DEF AuditCounted, LedgerCounted, CopiesCounted

LEMMA CountedInAsker ==
  ASSUME AuditInv, AuditCounted, AskHead \/ AskReplica \/ AskAgain \/ AskVerify \/ CallEnds \/ AuthorizerRestarts
  PROVE  AuditCounted'
<1>0. LedgerCounted /\ CopiesCounted /\ FlagsFit /\ asker \in Asking /\ Ttl \in Nat \ {0}
  BY LedgerNumbers DEF AuditCounted, AuditInv, AuditShape
<1>1. UNCHANGED <<ledger, damaged, damage, written, replica, checker, recorded, alarm>>
  BY DEF AskHead, AskReplica, AskAgain, AskVerify, CallEnds, AuthorizerRestarts, InAsker
<1>2. cache'.keyed \in Points /\ cache'.age < Ttl
  <2>1. CASE AskVerify
    BY <1>0, <2>1 DEF AskVerify, CopiesCounted
  <2>2. CASE cache' = cache \/ cache' = NoVerdict
    BY <1>0, <2>2, AuditRests DEF CopiesCounted, LedgerCounted
  <2> QED
    BY <2>1, <2>2 DEF AskHead, AskReplica, AskAgain, CallEnds, AuthorizerRestarts
<1>3. asker'.keyed \in Points /\ asker'.read \in Points
  <2>1. CASE AskHead
    BY <1>0, <2>1, AuditConstants DEF AskHead, Answered, Asking, CopiesCounted, Quiet
  <2>2. CASE AskReplica
    BY <1>0, <2>2 DEF AskReplica, Asking, CopiesCounted
  <2>3. CASE AskAgain
    BY <1>0, <2>3 DEF AskAgain, Asking, CopiesCounted
  <2>4. CASE AskVerify
    BY <1>0, <2>4 DEF AskVerify, Answered, Asking, CopiesCounted
  <2>5. CASE CallEnds \/ AuthorizerRestarts
    BY <2>5, AuditRests DEF CallEnds, AuthorizerRestarts
  <2> QED
    BY <2>1, <2>2, <2>3, <2>4, <2>5
<1> QED
  BY <1>0, <1>1, <1>2, <1>3 DEF AuditCounted, LedgerCounted, CopiesCounted, FlagsFit

LEMMA AuditCountedSteps == AuditInv /\ AuditCounted /\ [AuditNext]_auditVars => AuditCounted'
<1> SUFFICES ASSUME AuditInv, AuditCounted, [AuditNext]_auditVars PROVE AuditCounted'
  OBVIOUS
<1>1. CASE UNCHANGED auditVars
  BY <1>1 DEF auditVars, AuditCounted, LedgerCounted, CopiesCounted, FlagsFit
<1> QED
  BY <1>1, CountedInStores, CountedInChecker, CountedInAsker DEF AuditNext

LEMMA AuditTyped == AuditInv /\ AuditCounted => AuditTypeOK
<1> SUFFICES ASSUME AuditInv, AuditCounted PROVE AuditTypeOK
  OBVIOUS
<1>0. LedgerCounted /\ CopiesCounted /\ FlagsFit /\ checker \in Checking /\ asker \in Asking
      /\ replica \in [line : CopyLine, torn : BOOLEAN]
  BY DEF AuditCounted, AuditInv, AuditShape
<1>1. ledger \in Seq(1..written)
  <2>1. ledger \in Seq(Nat) /\ Len(ledger) \in Nat /\ DOMAIN ledger = 1..Len(ledger)
    BY LedgerFits
  <2>2. \A i \in 1..Len(ledger) : ledger[i] \in 1..written
    BY DEF AuditInv, Ascending
  <2> DEFINE S == 1..written
  <2>3. ledger \in [1..Len(ledger) -> S]
    BY <2>1, <2>2
  <2> HIDE DEF S
  <2>4. ledger \in Seq(S)
    BY <2>1, <2>3
  <2> QED
    BY <2>4 DEF S
<1>2. IsInjective(ledger)
  BY LedgerFits DEF IsInjective
<1>3. damaged \in 0..Len(ledger) /\ damage \in 0..Ttl /\ written \in 0..MaxEvents /\ cache.age \in 0..(Ttl - 1)
  BY <1>0, LedgerNumbers
<1>4. replica \in [line : Points, torn : BOOLEAN]
  BY <1>0 DEF CopiesCounted
<1>5. checker.at \in CheckPlaces /\ checker.ok \in BOOLEAN /\ asker.at \in AskPlaces /\ asker.ok \in BOOLEAN
  BY <1>0 DEF Checking, Asking
<1>6. {recorded, alarm} \subseteq BOOLEAN
  BY <1>0 DEF FlagsFit
<1> QED
  BY <1>0, <1>1, <1>2, <1>3, <1>4, <1>5, <1>6 DEF AuditTypeOK, CopiesCounted, CheckPlaces, AskPlaces

----------------------------------------------------------------------------
(* The six together.                                                        *)

LEMMA ProtocolsMove ==
  ASSUME [ProtocolsNext]_protocolVars
  PROVE  /\ [SessionNext]_sessionVars /\ [QueueNext]_queueVars /\ [LeaseNext]_leaseVars
         /\ [AlertNext]_alertVars /\ [AuditNext]_auditVars /\ [Next]_vars
BY DEF ProtocolsNext, protocolVars, InSession, InQueue, InLease, InAlerts, InAudit, InJournal

ProtocolsInv ==
  /\ SessionInv /\ QueueInv /\ QueueBounded /\ LeaseInv /\ AlertShape /\ AuditInv /\ AuditCounted /\ TypeOK

\* The rows, requests, messages, claims, leases, alerts, events and lines of the six protocols stay within their
\* types, for any parameters.
THEOREM ProtocolsTyped == ProtocolsSpec => []ProtocolsTypeOK
<1>1. ProtocolsInit => ProtocolsInv
  BY SessionStart, InitInv, QueueBoundedStarts, InitLeaseInv, AlertStarts, AuditStart, AuditCountedStarts,
     JournalTypeStarts DEF ProtocolsInit, ProtocolsInv
<1>2. ProtocolsInv /\ [ProtocolsNext]_protocolVars => ProtocolsInv'
  BY ProtocolsMove, SessionStep, StepInv, QueueBoundedSteps, NextKeepsLease, AlertSteps, AuditStep, AuditCountedSteps,
     JournalTypeSteps DEF ProtocolsInv
<1>3. ProtocolsInv => ProtocolsTypeOK
  BY SessionTyped, QueueTyped, AlertTyped, AuditTyped DEF ProtocolsInv, LeaseInv, ProtocolsTypeOK
<1> QED
  BY <1>1, <1>2, <1>3, PTL DEF ProtocolsSpec

====
