---------------------------- MODULE IntentPromise ----------------------------
(***************************************************************************)
(* What the execution service promises the owner of an idempotency key     *)
(* (INV-04, INV-22, INV-23), without saying how: its intent takes effect   *)
(* on chain at most once, and once the service has told an outcome that    *)
(* outcome is the truth for good.                                          *)
(***************************************************************************)
CONSTANT Keys

VARIABLES
  effect,   \* per key: "none", "provisional" (on some fork), "final" or "never"
  told      \* per key: the outcomes the journal has recorded

Outcome == {"COMPLETED", "FAILED", "EXPIRED"}

Init ==
  /\ effect = [k \in Keys |-> "none"]
  /\ told = [k \in Keys |-> {}]

Becomes(k, from, to) ==
  /\ effect[k] = from
  /\ effect' = [effect EXCEPT ![k] = to]
  /\ UNCHANGED told

\* A fork may take the intent up and drop it again; a block that is final keeps it.
Chain(k) ==
  \/ Becomes(k, "none", "provisional") \/ Becomes(k, "provisional", "none")
  \/ Becomes(k, "provisional", "final") \/ Becomes(k, "none", "never")

TellCompleted(k) ==
  /\ effect[k] = "final"
  /\ told' = [told EXCEPT ![k] = {"COMPLETED"}]
  /\ UNCHANGED effect

\* Giving an intent up settles that it will never take effect.
TellNotExecuted(k) ==
  /\ effect[k] \in {"none", "never"}
  /\ \E o \in {"FAILED", "EXPIRED"} : told' = [told EXCEPT ![k] = @ \cup {o}]
  /\ effect' = [effect EXCEPT ![k] = "never"]

Next == \E k \in Keys : Chain(k) \/ TellCompleted(k) \/ TellNotExecuted(k)

Spec == Init /\ [][Next]_<<effect, told>>

=============================================================================
