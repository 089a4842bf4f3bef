--------------------------- MODULE ReleaseArming ---------------------------
(* The role approvals on the life cycle of one Release: promotion, arming   *)
(* and retirement on an operator's requests. A handler loads the Release,   *)
(* reads its evidence, writes the rows of the attestation and the ceiling,  *)
(* moves the status if it still is what was loaded, and answers; each is a  *)
(* statement of its own. Two processes may handle the same request at once: *)
(* the lease of the role is asked between cycles only.                      *)
EXTENDS Integers, Sequences, FiniteSetsExt

CONSTANTS
  Approvers,       \* processes that run the role
  MaxPetitions,    \* bound: requests filed
  MaxMishaps       \* bound: calls that throw and processes that die

ASSUME ReleaseArmingAssumption == {MaxPetitions, MaxMishaps} \subseteq Nat

VARIABLES
  release,         \* research.releases.status
  attestations,    \* research.release_attestations: the request and the purpose
  ceilings,        \* ops.capital_attestations: the requests with a row
  petitions,       \* ops.control_requests of the role, in the order filed
  approver,        \* process -> its step, the requests listed, the one in hand
  mishaps

armingVars == <<release, attestations, ceilings, petitions, approver, mishaps>>

ReleaseStatus == {"DRAFT", "PAPER_VALIDATED", "ELIGIBLE_LIVE", "ARMED", "RETIRED"}
Purpose == [PROMOTE_RELEASE |-> "PROMOTE", ARM_RELEASE |-> "ARM"]
PetitionKinds == {"PROMOTE_RELEASE", "ARM_RELEASE", "RETIRE_RELEASE"}
Unhired == [at |-> "idle", todo |-> {}, seen |-> "DRAFT", answer |-> "PENDING"]

ArmingInit ==
  /\ release = "DRAFT" /\ attestations = {} /\ ceilings = {} /\ petitions = <<>>
  /\ approver = [a \in Approvers |-> Unhired] /\ mishaps = 0

FilePetition ==
  /\ Len(petitions) < MaxPetitions
  /\ \E k \in PetitionKinds : petitions' = Append(petitions, [kind |-> k, state |-> "PENDING"])
  /\ UNCHANGED <<release, attestations, ceilings, approver, mishaps>>

----------------------------------------------------------------------------
(* A cycle: the pending requests, oldest first.                             *)

Hand(a) == Min(approver[a].todo)
KindInHand(a) == petitions[Hand(a)].kind
Stage(a, at) == approver' = [approver EXCEPT ![a].at = at]
KeepRows == UNCHANGED <<release, attestations, ceilings, petitions, mishaps>>

ListPetitions(a) ==
  /\ approver[a].at = "idle"
  /\ LET pending == {i \in DOMAIN petitions : petitions[i].state = "PENDING"}
     IN  pending # {} /\ approver' = [approver EXCEPT ![a] = [Unhired EXCEPT !.at = "load", !.todo = pending]]
  /\ KeepRows

Answering(a, answer) == approver' = [approver EXCEPT ![a].at = "answer", ![a].answer = answer]

\* releaseTransition: the statuses an event starts from, and the one it leads to.
MayStart(kind) ==
  CASE kind = "PROMOTE_RELEASE" -> {"DRAFT", "PAPER_VALIDATED"}
    [] kind = "ARM_RELEASE" -> {"ELIGIBLE_LIVE", "ARMED"}
    [] kind = "RETIRE_RELEASE" -> ReleaseStatus \ {"RETIRED"}

Target == [PROMOTE_RELEASE |-> "ELIGIBLE_LIVE", ARM_RELEASE |-> "ARMED", RETIRE_RELEASE |-> "RETIRED"]

\* loadRelease; the role, step-up, paper evidence, sleeves and readiness that follow
\* refuse or pass, and change nothing.
LoadRelease(a) ==
  /\ approver[a].at = "load"
  /\ \/ Answering(a, "REJECTED")
     \/ /\ release \in MayStart(KindInHand(a))
        /\ approver' = [approver EXCEPT ![a].seen = release,
             ![a].at = CASE KindInHand(a) = "RETIRE_RELEASE" -> "move"
                         [] KindInHand(a) = "PROMOTE_RELEASE" /\ release = "DRAFT" -> "validate"
                         [] OTHER -> "attest"]
  /\ KeepRows

\* Mutant: the row moves whatever its status has become.
MoveAnyway(from, to) == release' = to

\* applyReleaseStatus: update ... where status = from.
ApplyReleaseStatus(from, to) == release = from /\ release' = to

\* A DRAFT is first validated on its paper evidence.
ValidateRelease(a) ==
  /\ approver[a].at = "validate"
  /\ \/ /\ ApplyReleaseStatus("DRAFT", "PAPER_VALIDATED")
        /\ approver' = [approver EXCEPT ![a].at = "attest", ![a].seen = "PAPER_VALIDATED"]
     \/ release # "DRAFT" /\ Answering(a, "REJECTED") /\ UNCHANGED release
  /\ UNCHANGED <<attestations, ceilings, petitions, mishaps>>

InsertAttestation(a) ==
  /\ approver[a].at = "attest"
  /\ attestations' = attestations \cup {[by |-> Hand(a), purpose |-> Purpose[KindInHand(a)]]}
  /\ Stage(a, IF KindInHand(a) = "ARM_RELEASE" THEN "ceiling" ELSE "move")
  /\ UNCHANGED <<release, ceilings, petitions, mishaps>>

InsertCapitalAttestation(a) ==
  /\ approver[a].at = "ceiling"
  /\ ceilings' = ceilings \cup {Hand(a)} /\ Stage(a, "move")
  /\ UNCHANGED <<release, attestations, petitions, mishaps>>

MoveRelease(a) ==
  /\ approver[a].at = "move"
  /\ \/ ApplyReleaseStatus(approver[a].seen, Target[KindInHand(a)]) /\ Answering(a, "ACCEPTED")
     \/ release # approver[a].seen /\ Answering(a, "REJECTED") /\ UNCHANGED release
  /\ UNCHANGED <<attestations, ceilings, petitions, mishaps>>

NextInList(a) ==
  LET rest == approver[a].todo \ {Hand(a)}
  IN  IF rest = {} THEN Unhired ELSE [Unhired EXCEPT !.at = "load", !.todo = rest]

\* resolveControlRequest: ... where state = 'PENDING'.
AnswerPetition(a) ==
  /\ approver[a].at = "answer"
  /\ petitions' = [petitions EXCEPT ![Hand(a)].state = IF @ = "PENDING" THEN approver[a].answer ELSE @]
  /\ approver' = [approver EXCEPT ![a] = NextInList(a)]
  /\ UNCHANGED <<release, attestations, ceilings, mishaps>>

\* The request stays pending, whatever was written for it; a throw goes on to the next.
PetitionFails(a) ==
  /\ approver[a].at # "idle" /\ mishaps < MaxMishaps /\ mishaps' = mishaps + 1
  /\ \E next \in {NextInList(a), Unhired} : approver' = [approver EXCEPT ![a] = next]
  /\ UNCHANGED <<release, attestations, ceilings, petitions>>

ArmingNext ==
  \/ FilePetition
  \/ \E a \in Approvers :
       \/ ListPetitions(a) \/ LoadRelease(a) \/ ValidateRelease(a) \/ InsertAttestation(a)
       \/ InsertCapitalAttestation(a) \/ MoveRelease(a) \/ AnswerPetition(a) \/ PetitionFails(a)

ArmingSpec == ArmingInit /\ [][ArmingNext]_armingVars

----------------------------------------------------------------------------
ArmingTypeOK ==
  /\ release \in ReleaseStatus /\ ceilings \subseteq DOMAIN petitions /\ mishaps \in 0..MaxMishaps
  /\ \A t \in attestations : t.by \in DOMAIN petitions /\ t.purpose \in {"PROMOTE", "ARM"}
  /\ \A i \in DOMAIN petitions : petitions[i].state \in {"PENDING", "ACCEPTED", "REJECTED"}
  /\ \A a \in Approvers : approver[a].todo \subseteq DOMAIN petitions

Beyond == [PROMOTE_RELEASE |-> {"ELIGIBLE_LIVE", "ARMED", "RETIRED"},
           ARM_RELEASE |-> {"ARMED", "RETIRED"}, RETIRE_RELEASE |-> {"RETIRED"}]

Attested(i, purpose) == [by |-> i, purpose |-> purpose] \in attestations

(* A Release is eligible or armed only with the attestations of requests of *)
(* that kind, armed only with a ceiling of the same request; and what an    *)
(* operator was told is done stays done: an accepted retirement is never    *)
(* undone by a process that loaded the Release before it.                   *)
ReleaseOnEvidence ==
  /\ release \in {"ELIGIBLE_LIVE", "ARMED"} => \E i \in DOMAIN petitions : Attested(i, "PROMOTE")
  /\ release = "ARMED" => \E i \in ceilings : Attested(i, "ARM")
  /\ \A i \in DOMAIN petitions : petitions[i].state = "ACCEPTED" => release \in Beyond[petitions[i].kind]

(* A refused request leaves no ceiling: the rows are written before the     *)
(* status is moved, and stay when it has changed underneath.                *)
RefusedLeavesNoCeiling ==
  \A i \in ceilings : petitions[i].state # "REJECTED"
=============================================================================
