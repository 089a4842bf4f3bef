-------------------------- MODULE QueueProcessing --------------------------
(* Messages of a pgmq queue and the consumers that process them: leases as  *)
(* visibility timeouts, the idempotency claim and the handler's effect in   *)
(* one transaction, archive after the commit, retry with backoff and the    *)
(* dead letter (processMessage). A lease is time, so it can lapse at any    *)
(* step of its holder; any call can throw, a commit also after it took hold.*)
EXTENDS Integers, FiniteSets

CONSTANTS
  Msgs,          \* messages that are sent
  KeyOf,         \* message -> idempotency key (producers may send one twice)
  Refuses,       \* consumer -> messages its handler never sees: malformed, or of
                 \* another contract set than the consumer's release
  Consumers,
  MaxAttempts,   \* policy.maxAttempts
  MaxLost        \* bound: commits and archives that take hold and throw, deaths

ASSUME QueueAssumption ==
  MaxAttempts \in Nat \ {0} /\ MaxLost \in Nat /\ \A h \in Consumers : Refuses[h] \subseteq Msgs

\* claim tells a consumer from these two.
ASSUME ConsumerNames == {"free", "done"} \cap Consumers = {}

Keys == {KeyOf[m] : m \in Msgs}

VARIABLES
  mail,          \* message -> unsent, visible, leased or archived, and its read count
  claim,         \* key -> "free", the consumer whose transaction claims it, or "done"
  effects,       \* key -> committed effects of the handler (history)
  deadLetters,   \* message -> rows of ops.dead_letters
  consumer,      \* consumer -> its step and the message it holds
  lost

queueVars == <<mail, claim, effects, deadLetters, consumer, lost>>

Unoccupied == [at |-> "free"]
QueueInit ==
  /\ mail = [m \in Msgs |-> [place |-> "unsent", reads |-> 0]]
  /\ claim = [k \in Keys |-> "free"] /\ effects = [k \in Keys |-> 0]
  /\ deadLetters = [m \in Msgs |-> 0]
  /\ consumer = [h \in Consumers |-> Unoccupied] /\ lost = 0

Held(h) == consumer[h].msg
KeyHeld(h) == KeyOf[Held(h)]
Step(h, at) == consumer' = [consumer EXCEPT ![h].at = at]
Release(h) == consumer' = [consumer EXCEPT ![h] = Unoccupied]
Unclaim(h) == claim' = [k \in Keys |-> IF claim[k] = h THEN "free" ELSE claim[k]]
\* Only reads below the limit are told apart.
Counted(n) == IF n < MaxAttempts THEN n + 1 ELSE n

----------------------------------------------------------------------------
SendMessage(m) ==
  /\ mail[m].place = "unsent"
  /\ mail' = [mail EXCEPT ![m].place = "visible"]
  /\ UNCHANGED <<claim, effects, deadLetters, consumer, lost>>

ReadMessage(h, m) ==
  /\ consumer[h].at = "free" /\ mail[m].place = "visible"
  /\ mail' = [mail EXCEPT ![m] = [place |-> "leased", reads |-> Counted(@.reads)]]
  /\ consumer' = [consumer EXCEPT ![h] =
       [at |-> IF m \in Refuses[h] THEN "bury" ELSE "claim", msg |-> m,
        attempt |-> Counted(mail[m].reads)]]
  /\ UNCHANGED <<claim, effects, deadLetters, lost>>

\* The visibility timeout, or the backoff, is over: anyone may read it.
LeaseLapses(m) ==
  /\ mail[m].place = "leased"
  /\ mail' = [mail EXCEPT ![m].place = "visible"]
  /\ UNCHANGED <<claim, effects, deadLetters, consumer, lost>>

\* Mutant: a key whose work is done can be claimed again.
ClaimRedelivered(h) ==
  /\ consumer[h].at = "claim"
  /\ claim[KeyHeld(h)] \in {"free", "done"} /\ claim' = [claim EXCEPT ![KeyHeld(h)] = h] /\ Step(h, "handle")
  /\ UNCHANGED <<mail, effects, deadLetters, lost>>

\* insert ... on conflict do nothing: waits for a claim another transaction
\* holds, and finds a committed one to be a redelivery.
ClaimKey(h) ==
  /\ consumer[h].at = "claim"
  /\ \/ claim[KeyHeld(h)] = "free" /\ claim' = [claim EXCEPT ![KeyHeld(h)] = h] /\ Step(h, "handle")
     \/ claim[KeyHeld(h)] = "done" /\ Step(h, "archive") /\ UNCHANGED claim
  /\ UNCHANGED <<mail, effects, deadLetters, lost>>

\* The handler returns and the transaction commits.
Commit(h) ==
  /\ consumer[h].at = "handle"
  /\ claim' = [claim EXCEPT ![KeyHeld(h)] = "done"]
  /\ effects' = [effects EXCEPT ![KeyHeld(h)] = @ + 1]
  /\ \/ Step(h, "archive") /\ UNCHANGED lost
     \/ lost < MaxLost /\ lost' = lost + 1 /\ Step(h, "failed")
  /\ UNCHANGED <<mail, deadLetters>>

\* The handler throws: the claim is rolled back with whatever it wrote.
HandlerThrows(h) ==
  /\ consumer[h].at = "handle"
  /\ Unclaim(h) /\ Step(h, "failed")
  /\ UNCHANGED <<mail, effects, deadLetters, lost>>

\* archive is called inside the try: when it throws the message has failed.
Archive(h) ==
  /\ consumer[h].at \in {"archive", "interred"}
  /\ \/ /\ mail' = [mail EXCEPT ![Held(h)].place = "archived"]
        /\ Release(h) /\ UNCHANGED lost
     \/ /\ lost < MaxLost /\ lost' = lost + 1 /\ UNCHANGED mail
        /\ IF consumer[h].at = "archive" THEN Step(h, "failed") ELSE Release(h)
  /\ UNCHANGED <<claim, effects, deadLetters>>

\* Mutant: a message is retried however often it has failed.
RetryForever(h) ==
  /\ consumer[h].at = "failed"
  /\ mail' = [mail EXCEPT ![Held(h)].place = IF @ = "archived" THEN @ ELSE "leased"]
  /\ Release(h)
  /\ UNCHANGED <<claim, effects, deadLetters, lost>>

\* Back off with a longer lease, or give up.
Retry(h) ==
  /\ consumer[h].at = "failed"
  /\ IF consumer[h].attempt >= MaxAttempts THEN Step(h, "bury") /\ UNCHANGED mail
     ELSE /\ mail' = [mail EXCEPT ![Held(h)].place = IF @ = "archived" THEN @ ELSE "leased"]
          /\ Release(h)
  /\ UNCHANGED <<claim, effects, deadLetters, lost>>

\* Mutant: a message that is given up leaves no dead letter.
BuryUnrecorded(h) ==
  /\ consumer[h].at = "bury"
  /\ Step(h, "interred")
  /\ UNCHANGED <<mail, claim, effects, deadLetters, lost>>

\* The dead letter is written, then the message archived.
Bury(h) ==
  /\ consumer[h].at = "bury"
  /\ deadLetters' = [deadLetters EXCEPT ![Held(h)] = IF @ < 2 THEN @ + 1 ELSE @]
  /\ Step(h, "interred")
  /\ UNCHANGED <<mail, claim, effects, lost>>

ConsumerDies(h) ==
  /\ consumer[h].at # "free" /\ lost < MaxLost /\ lost' = lost + 1
  /\ Unclaim(h) /\ Release(h)
  /\ UNCHANGED <<mail, effects, deadLetters>>

ConsumerStep(h) == ClaimKey(h) \/ Commit(h) \/ HandlerThrows(h) \/ Archive(h) \/ Retry(h) \/ Bury(h)
Deliver(m) == \E h \in Consumers : ReadMessage(h, m)

QueueNext ==
  \/ \E h \in Consumers : ConsumerStep(h) \/ ConsumerDies(h)
  \/ \E m \in Msgs : SendMessage(m) \/ Deliver(m) \/ LeaseLapses(m)

QueueSpec == QueueInit /\ [][QueueNext]_queueVars
\* Consumers poll every queue, leases end, and a call that starts returns.
QueueFairness ==
  /\ \A h \in Consumers : WF_queueVars(ConsumerStep(h))
  /\ \A m \in Msgs : SF_queueVars(Deliver(m)) /\ WF_queueVars(LeaseLapses(m))
QueueFairSpec == QueueSpec /\ QueueFairness

----------------------------------------------------------------------------
QueueTypeOK ==
  /\ mail \in [Msgs -> [place : {"unsent", "visible", "leased", "archived"}, reads : 0..MaxAttempts]]
  /\ claim \in [Keys -> Consumers \cup {"free", "done"}]
  /\ effects \in [Keys -> Nat] /\ deadLetters \in [Msgs -> 0..2] /\ lost \in 0..MaxLost

(* However often a message is delivered, by whom, and wherever its consumer *)
(* died, the effect of its key is committed at most once.                   *)
EffectOnce == \A k \in Keys : effects[k] <= 1

(* No message is dropped: one that left the queue had its key's effect, or  *)
(* has a dead letter an operator sees.                                      *)
ArchivedIsAccounted ==
  \A m \in Msgs : mail[m].place = "archived" => effects[KeyOf[m]] = 1 \/ deadLetters[m] > 0

(* Every message that is sent leaves the queue: also one its handler keeps  *)
(* refusing, or that lost its consumer, once consumers stop dying.          *)
MessagesSettle == \A m \in Msgs : mail[m].place # "unsent" ~> mail[m].place = "archived"
=============================================================================
