---------------------------- MODULE FinalityViews ----------------------------
(***************************************************************************)
(* The proof that a transaction is dead (libs/execution/src/chain): with   *)
(* one view it is proveDead of observer.ts, with several it is             *)
(* proveDeadAcrossViews of quorum.ts.  Both first ask every view for the   *)
(* signature, and only then every view for its block height; blocks are    *)
(* produced and views advance in between, by how much nothing limits: the  *)
(* heights wait for the slowest of all the answers for the signature, and  *)
(* each of those for a second call (headSlot), ten seconds a call at most. *)
(*                                                                         *)
(* A view answers for the signature from the newest block it has           *)
(* processed, and for the height from its confirmed head, ConfLag blocks   *)
(* behind.  Forks are left to Executor.tla.                                *)
(***************************************************************************)
EXTENDS Integers

CONSTANTS
  Views,        \* the RPC views asked
  LastValid,    \* lastValidBlockHeight of the transaction
  ConfLag,      \* how far a view's confirmed head is behind the block it processed last
  MaxTip        \* bound: blocks produced

ASSUME ViewsAssumption ==
  /\ LastValid \in Nat /\ ConfLag \in Nat /\ MaxTip \in Nat
  /\ Views # {}

VARIABLES
  tip,        \* the newest block
  landed,     \* the block that holds the transaction, 0 while none does
  head,       \* per view: the newest block it has processed
  status,     \* per view: its answer for the signature, "unasked" before
  asked,      \* per view: its newest block when it answered for the signature
  height,     \* per view: its answer for the height, -1 before
  verdict     \* "open" while the proof is collected, then "dead" or "unproven"

vars == <<tip, landed, head, status, asked, height, verdict>>

TypeOK ==
  /\ tip \in Nat /\ landed \in Nat
  /\ head \in [Views -> Nat]
  /\ status \in [Views -> {"unasked", "missing", "found"}]
  /\ asked \in [Views -> Nat]
  /\ height \in [Views -> Int]
  /\ verdict \in {"open", "dead", "unproven"}

Init ==
  /\ tip = 0 /\ landed = 0
  /\ head = [v \in Views |-> 0]
  /\ status = [v \in Views |-> "unasked"]
  /\ asked = [v \in Views |-> 0]
  /\ height = [v \in Views |-> -1]
  /\ verdict = "open"

\* A block with or without the transaction; no block above its last valid height takes it.
Produce ==
  /\ tip < MaxTip
  /\ tip' = tip + 1
  /\ \/ landed = 0 /\ tip + 1 <= LastValid /\ landed' = tip + 1
     \/ UNCHANGED landed
  /\ UNCHANGED <<head, status, asked, height, verdict>>

Advance(v) ==
  /\ head[v] < tip
  /\ head' = [head EXCEPT ![v] = @ + 1]
  /\ UNCHANGED <<tip, landed, status, asked, height, verdict>>

Finds(v) == landed # 0 /\ landed <= head[v]

\* signatureStatus, asked of all views at once and answered in any order.
AskStatus(v) ==
  /\ verdict = "open" /\ status[v] = "unasked"
  /\ status' = [status EXCEPT ![v] = IF Finds(v) THEN "found" ELSE "missing"]
  /\ asked' = [asked EXCEPT ![v] = head[v]]
  /\ UNCHANGED <<tip, landed, head, height, verdict>>

\* Mutant: the heights are asked for without looking at the answers for the signature.
AllAnswered == \A v \in Views : status[v] # "unasked"

AllMissing == \A v \in Views : status[v] = "missing"

\* blockHeight, at commitment confirmed, of all views once every one has no record.
AskHeight(v) ==
  /\ verdict = "open" /\ AllMissing /\ height[v] = -1
  /\ height' = [height EXCEPT ![v] = IF head[v] >= ConfLag THEN head[v] - ConfLag ELSE 0]
  /\ UNCHANGED <<tip, landed, head, status, asked, verdict>>

Passed(h) == h > LastValid

Conclude ==
  /\ verdict = "open" /\ AllMissing /\ \A v \in Views : height[v] # -1
  /\ verdict' = IF \A v \in Views : Passed(height[v]) THEN "dead" ELSE "unproven"
  /\ UNCHANGED <<tip, landed, head, status, asked, height>>

\* A view has a record of the signature, or does not answer at all.
GiveUp ==
  /\ verdict = "open"
  /\ verdict' = "unproven"
  /\ UNCHANGED <<tip, landed, head, status, asked, height>>

\* The next pass asks again.
AskAgain ==
  /\ verdict = "unproven"
  /\ verdict' = "open"
  /\ status' = [v \in Views |-> "unasked"]
  /\ asked' = [v \in Views |-> 0]
  /\ height' = [v \in Views |-> -1]
  /\ UNCHANGED <<tip, landed, head>>

Next ==
  \/ Produce \/ Conclude \/ GiveUp \/ AskAgain
  \/ \E v \in Views : Advance(v) \/ AskStatus(v) \/ AskHeight(v)

Spec == Init /\ [][Next]_vars

-----------------------------------------------------------------------------

\* What a verdict of death rests on: the transaction cannot land any more, and if it did,
\* then in the gap of every view, after the block at which the view had no record of it and
\* below the height the view reported later. So death is certain as soon as one view had
\* processed the last valid block when it was asked for the signature.
DeadUnlessOutrun ==
  verdict = "dead" =>
    /\ tip > LastValid
    /\ landed # 0 => \A v \in Views : asked[v] < landed /\ landed < height[v]

\* What the source says of the verdict (observer.ts:92, quorum.ts:75, INV-23): a transaction
\* proven dead is on chain nowhere and can never get there. The executor releases its
\* exposure and calls the intent FAILED on the strength of it. It does not hold: a transaction
\* may land in the gap that DeadUnlessOutrun leaves.
DeadIsDead == verdict = "dead" => landed = 0 /\ tip >= LastValid

=============================================================================
