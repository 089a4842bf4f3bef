------------------------------ MODULE RoleLease ------------------------------
(* One role of the worker run under its lease by several worker processes:  *)
(* loopUnderLease around runWithLease around the three lease functions of   *)
(* the database. A worker learns that it lost the lease only from the       *)
(* answer of a heartbeat, and looks at what it learned between two cycles,  *)
(* never inside one. Time passes in ticks, and nothing here keeps to it: a  *)
(* cycle lasts as long as it lasts, a timer fires late, a call is answered  *)
(* late or never, served without an answer, or lost.                        *)
EXTENDS Integers

CONSTANTS
  Workers,       \* worker processes (LeaseManager.holder)
  TTL,           \* ticks a lease lives after it was taken or renewed
  BeatEvery,     \* ticks between two heartbeats
  MaxBeats,      \* bound: heartbeats under way; one sent beyond it is neither served nor answered
  NoWorker

ASSUME LeaseAssumption == {TTL, BeatEvery, MaxBeats} \subseteq Nat /\ NoWorker \notin Workers

VARIABLES
  lease,         \* the row of ops.worker_leases: holder, ticks since it was renewed
  worker         \* each process: its step, whether it is fenced, ticks since its timer fired,
                 \* heartbeats the database has yet to serve, whether one came to nothing
                 \* and it has yet to hear so, whether one of an earlier run is still under
                 \* way, and ticks since the database granted or renewed the lease to it

leaseVars == <<lease, worker>>

Out == [at |-> "out", fenced |-> FALSE, beat |-> 0, sent |-> 0, failing |-> FALSE,
        stray |-> FALSE, unrenewed |-> 0]
AtWork(w) == worker[w].at \in {"between", "cycle"}
Lapsed == lease.age > TTL

\* Everything a run knew ends with it but the heartbeats it sent.
Left(w) == [Out EXCEPT !.stray = worker[w].stray \/ worker[w].sent > 0]

LeaseInit ==
  /\ lease = [holder |-> NoWorker, age |-> 0]
  /\ worker = [w \in Workers |-> Out]

----------------------------------------------------------------------------
(* The database: acquire_lease, heartbeat_lease and release_lease.          *)

ServeAcquire(w) ==
  /\ worker[w].at = "acquiring"
  /\ LET granted == lease.holder \in {NoWorker, w} \/ Lapsed
     IN  /\ lease' = IF granted THEN [holder |-> w, age |-> 0] ELSE lease
         /\ worker' = [worker EXCEPT ![w] =
           IF granted THEN [@ EXCEPT !.at = "granted", !.unrenewed = 0] ELSE Left(w)]

\* Mutant: the row is renewed for whoever asks.
RenewableByAll(w) == w \in Workers /\ ~Lapsed

Renewable(w) == lease.holder = w /\ ~Lapsed

\* A renewal is answered, or its answer is lost, which is a heartbeat that failed.
ServeBeat(w) ==
  /\ worker[w].sent > 0
  /\ lease' = IF Renewable(w) THEN [lease EXCEPT !.age = 0] ELSE lease
  /\ \E answered \in BOOLEAN :
       worker' = [worker EXCEPT ![w] = [@ EXCEPT
         !.sent = worker[w].sent - 1,
         !.failing = worker[w].failing \/ ~answered \/ ~Renewable(w),
         !.unrenewed = IF Renewable(w) THEN 0 ELSE worker[w].unrenewed]]

\* A heartbeat of a run that ended: nobody hears the answer.
ServeStray(w) ==
  /\ worker[w].stray
  /\ lease' = IF Renewable(w) THEN [lease EXCEPT !.age = 0] ELSE lease
  /\ worker' = [worker EXCEPT ![w] = [@ EXCEPT
       !.stray = FALSE, !.unrenewed = IF Renewable(w) THEN 0 ELSE worker[w].unrenewed]]

ServeRelease(w) ==
  /\ worker[w].at = "releasing"
  /\ lease' = IF lease.holder = w THEN [holder |-> NoWorker, age |-> 0] ELSE lease
  /\ worker' = [worker EXCEPT ![w] = Left(w)]

----------------------------------------------------------------------------
(* The worker.                                                              *)

Acquire(w) ==
  /\ worker[w].at = "out"
  /\ worker' = [worker EXCEPT ![w].at = "acquiring"]
  /\ UNCHANGED lease

HearGrant(w) ==
  /\ worker[w].at = "granted"
  /\ worker' = [worker EXCEPT ![w].at = "between"]
  /\ UNCHANGED lease

\* acquire() or release() throws, served or not, and the attempt ends.
CallFails(w) ==
  /\ worker[w].at \in {"acquiring", "granted", "releasing"}
  /\ worker' = [worker EXCEPT ![w] = Left(w)]
  /\ UNCHANGED lease

\* setInterval, while work runs.
Beat(w) ==
  /\ AtWork(w) /\ worker[w].beat = BeatEvery
  /\ worker' = [worker EXCEPT ![w] = [@ EXCEPT
       !.beat = 0,
       !.sent = worker[w].sent + IF worker[w].sent < MaxBeats THEN 1 ELSE 0]]
  /\ UNCHANGED lease

\* A heartbeat is lost on its way to the database.
BeatFails(w) ==
  /\ worker[w].sent > 0
  /\ worker' = [worker EXCEPT ![w] = [@ EXCEPT !.sent = worker[w].sent - 1, !.failing = TRUE]]
  /\ UNCHANGED lease

\* The handler of a heartbeat that was refused or failed runs.
HearFailure(w) ==
  /\ AtWork(w) /\ worker[w].failing
  /\ worker' = [worker EXCEPT ![w] = [@ EXCEPT !.failing = FALSE, !.fenced = TRUE]]
  /\ UNCHANGED lease

StartCycle(w) ==
  /\ worker[w].at = "between" /\ ~worker[w].fenced
  /\ worker' = [worker EXCEPT ![w].at = "cycle"]
  /\ UNCHANGED lease

\* The cycle ends, or throws and is logged.
EndCycle(w) ==
  /\ worker[w].at = "cycle"
  /\ worker' = [worker EXCEPT ![w].at = "between"]
  /\ UNCHANGED lease

\* A fenced worker leaves the lease as it is; a stopping one releases it.
LeaveWork(w) ==
  /\ worker[w].at = "between"
  /\ worker' = [worker EXCEPT ![w] =
       IF worker[w].fenced THEN Left(w) ELSE [Left(w) EXCEPT !.at = "releasing"]]
  /\ UNCHANGED lease

WorkerCrash(w) ==
  /\ worker[w].at # "out"
  /\ worker' = [worker EXCEPT ![w] = Left(w)]
  /\ UNCHANGED lease

\* Clocks stop where nothing more depends on them: the timer when it is due, the age of a
\* lease, and the time a worker went without it, once past TTL.
Tick ==
  /\ worker' = [w \in Workers |-> [worker[w] EXCEPT
       !.beat = IF AtWork(w) /\ @ < BeatEvery THEN @ + 1 ELSE @,
       !.unrenewed = IF (AtWork(w) \/ worker[w].at = "granted") /\ @ <= TTL THEN @ + 1 ELSE @]]
  /\ lease' = IF lease.holder = NoWorker \/ Lapsed THEN lease ELSE [lease EXCEPT !.age = @ + 1]

LeaseNext ==
  \/ \E w \in Workers :
       \/ ServeAcquire(w) \/ ServeBeat(w) \/ ServeStray(w) \/ ServeRelease(w)
       \/ Acquire(w) \/ HearGrant(w) \/ CallFails(w) \/ Beat(w) \/ BeatFails(w) \/ HearFailure(w)
       \/ StartCycle(w) \/ EndCycle(w) \/ LeaveWork(w) \/ WorkerCrash(w)
  \/ Tick

LeaseSpec == LeaseInit /\ [][LeaseNext]_leaseVars

----------------------------------------------------------------------------
LeaseTypeOK ==
  /\ lease \in [holder : Workers \cup {NoWorker}, age : 0..(TTL + 1)]
  /\ worker \in [Workers ->
       [at : {"out", "acquiring", "granted", "between", "cycle", "releasing"},
        fenced : BOOLEAN, beat : 0..BeatEvery, sent : 0..MaxBeats, failing : BOOLEAN,
        stray : BOOLEAN, unrenewed : 0..(TTL + 1)]]

(* Of two workers inside a cycle of the role at once, one has gone longer    *)
(* than TTL without the database granting or renewing the lease to it: the   *)
(* role doubles by a worker that outlives its lease, and by nothing else,    *)
(* whatever calls are lost or late, whoever stops, dies or comes back.       *)
RoleExclusive ==
  \A v, w \in Workers :
    v # w /\ worker[v].at = "cycle" /\ worker[w].at = "cycle"
      => worker[v].unrenewed > TTL \/ worker[w].unrenewed > TTL

(* What leases.ts:5 and :35 ask of the holder: a worker that learned its     *)
(* lease is gone acts for the role no more, so that it is not in a cycle     *)
(* along with the worker that took over. It does not hold: the loop looks at *)
(* isFenced between two cycles only.                                         *)
FencedStops ==
  \A v, w \in Workers :
    v # w /\ worker[v].at = "cycle" /\ worker[w].at = "cycle" => ~worker[v].fenced
=============================================================================
