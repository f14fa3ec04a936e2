----------------------------- MODULE WorkerLease -----------------------------
(***************************************************************************)
(* The processes that may spend the collector wallet, and the lease row    *)
(* that lets only one of them do so.  A payout worker waits for the row,   *)
(* starts its heartbeat, starts its payout services, advertises itself     *)
(* ready, and on the first exit of a task or on shutdown drains its        *)
(* payouts, then its heartbeat, and releases the row.  A wallet call that  *)
(* is in flight cannot be cancelled: it outlives the task that made it.    *)
(*                                                                         *)
(* Time is counted in ticks.  A tick waits for whatever the code does no   *)
(* later than a deadline, so a heartbeat is never late unless the database *)
(* refuses it, and a drain is never longer than its timeout.               *)
(***************************************************************************)
EXTENDS Naturals

CONSTANTS
    Worker,               \* payout worker processes
    Nobody, Orphan,       \* no lease row; a row of a process that is gone
    HeartbeatInterval, DrainTimeout, StopTimeout, LeaseDuration,
    RetryInterval, AcquireWait,
    CallLimit             \* bound: ticks a wallet call may take (external)

\* The compile-time assertions on the timeouts.
ASSUME TimeoutAssumption ==
    /\ {HeartbeatInterval, DrainTimeout, StopTimeout, LeaseDuration,
        RetryInterval, AcquireWait, CallLimit} \subseteq Nat \ {0}
    /\ StopTimeout > DrainTimeout
    /\ LeaseDuration > StopTimeout + HeartbeatInterval
    /\ AcquireWait >= LeaseDuration + RetryInterval
    /\ Nobody \notin Worker /\ Orphan \notin Worker /\ Nobody # Orphan

VARIABLES
    lease,                \* payout_worker_leases: owner, ready, and its age
    phase,                \* where each process is
    pause, left,          \* ticks to the next attempt, and of the wait left
    renewed,              \* someone took or renewed the lease during the wait
    busy, call,           \* a wallet call is in flight, and for how long
    beating,              \* the heartbeat task runs
    timer,                \* ticks since the process began to stop
    failure,              \* the first failure of the process
    served,               \* it stops from the serving phase
    hidden                \* its drain timeout came after another failure

vars == <<lease, phase, pause, left, renewed, busy, call, beating, timer,
          failure, served, hidden>>
process == <<pause, left, renewed, busy, call, beating, timer, failure,
             served, hidden>>

Expired == lease.age >= LeaseDuration

Owns(w) == lease.owner = w /\ ~Expired

Least(a, b) == IF a < b THEN a ELSE b

Enter(w, p) == phase' = [phase EXCEPT ![w] = p]

Init ==
    /\ lease = [owner |-> Nobody, ready |-> FALSE, age |-> 0]
    /\ phase = [w \in Worker |-> "off"]
    /\ pause = [w \in Worker |-> 0] /\ left = [w \in Worker |-> 0]
    /\ renewed = [w \in Worker |-> FALSE]
    /\ busy = [w \in Worker |-> FALSE] /\ call = [w \in Worker |-> 0]
    /\ beating = [w \in Worker |-> FALSE]
    /\ timer = [w \in Worker |-> 0]
    /\ failure = [w \in Worker |-> "none"]
    /\ served = [w \in Worker |-> FALSE]
    /\ hidden = [w \in Worker |-> FALSE]
-----------------------------------------------------------------------------
(* Waiting for the lease *)

\* run_payout_worker: a new process, with an instance identifier of its own.
Start(w) ==
    /\ phase[w] = "off"
    /\ Enter(w, "waiting")
    /\ left' = [left EXCEPT ![w] = AcquireWait]
    /\ pause' = [pause EXCEPT ![w] = 0]
    /\ renewed' = [renewed EXCEPT ![w] = FALSE]
    /\ failure' = [failure EXCEPT ![w] = "none"]
    /\ served' = [served EXCEPT ![w] = FALSE]
    /\ UNCHANGED <<lease, busy, call, beating, timer, hidden>>

RenewedFor(set) == renewed' = [w \in Worker |-> renewed[w] \/ w \in set]

Acquirable == lease.owner = Nobody \/ Expired

\* acquire_payout_worker won: the row is fresh and the heartbeat starts
\* before anything else.
Acquire(w) ==
    /\ phase[w] = "waiting" /\ pause[w] = 0
    /\ Acquirable
    /\ lease' = [owner |-> w, ready |-> FALSE, age |-> 0]
    /\ Enter(w, "starting")
    /\ beating' = [beating EXCEPT ![w] = TRUE]
    /\ RenewedFor({v \in Worker : phase[v] = "waiting"})
    /\ UNCHANGED <<pause, left, busy, call, timer, failure, served, hidden>>

\* acquire_payout_worker lost: the other worker's readiness is withdrawn, its
\* lease is not.  The wait goes on until its budget is spent.
TurnedAway(w) ==
    /\ phase[w] = "waiting" /\ pause[w] = 0
    /\ ~Acquirable
    /\ lease' = [lease EXCEPT !.ready = FALSE]
    /\ IF left[w] = 0
       THEN Enter(w, "off") /\ UNCHANGED <<pause, left>>
       ELSE /\ pause' = [pause EXCEPT ![w] = Least(RetryInterval, left[w])]
            /\ left' = [left EXCEPT ![w] = left[w] - pause'[w]]
            /\ UNCHANGED phase
    /\ UNCHANGED <<renewed, busy, call, beating, timer, failure, served,
                   hidden>>

StopWaiting(w) ==
    /\ phase[w] = "waiting"
    /\ Enter(w, "off")
    /\ UNCHANGED <<lease, process>>
-----------------------------------------------------------------------------
(* Serving *)

Alive == {"starting", "announcing", "serving", "stopping"}

\* heartbeat_payout_worker accepted: only the owner of an unexpired lease.
Beat(w) ==
    /\ beating[w] /\ phase[w] \in Alive
    /\ Owns(w)
    /\ lease' = [lease EXCEPT !.age = 0]
    /\ RenewedFor({v \in Worker : phase[v] = "waiting"})
    /\ UNCHANGED <<phase, pause, left, busy, call, beating, timer, failure,
                   served, hidden>>

\* The process begins to stop; the first failure is remembered.
Stop(w, why) ==
    /\ Enter(w, "stopping")
    /\ failure' = [failure EXCEPT ![w] = why]
    /\ served' = [served EXCEPT ![w] = phase[w] = "serving"]
    /\ timer' = [timer EXCEPT ![w] = 0]

\* mark_payout_worker_not_ready, on the way out of the serving phase.  It has
\* no effect on a row that is no longer this worker's, and the database may
\* refuse it.
Withdraw(w) ==
    \/ lease' = IF phase[w] = "serving" /\ lease.owner = w
                THEN [lease EXCEPT !.ready = FALSE] ELSE lease
    \/ phase[w] = "serving" /\ UNCHANGED lease

\* The heartbeat task ends: the lease is lost, or the database failed.
HeartbeatFails(w) ==
    /\ beating[w] /\ phase[w] \in Alive
    /\ beating' = [beating EXCEPT ![w] = FALSE]
    /\ IF phase[w] = "stopping"
       THEN UNCHANGED <<lease, phase, failure, served, timer>>
       ELSE Stop(w, "store") /\ Withdraw(w)
    /\ UNCHANGED <<pause, left, renewed, busy, call, hidden>>

\* A wallet or signer call of startup recovery or of a payout pass.
BeginCall(w) ==
    /\ phase[w] \in {"starting", "announcing", "serving"}
    /\ ~busy[w]
    /\ busy' = [busy EXCEPT ![w] = TRUE]
    /\ call' = [call EXCEPT ![w] = 0]
    /\ UNCHANGED <<lease, phase, pause, left, renewed, beating, timer, failure,
                   served, hidden>>

\* The row of a process that is gone without a release.
Abandoned(w) ==
    IF lease.owner = w THEN [lease EXCEPT !.owner = Orphan] ELSE lease

\* The call returns; a process that only waited for it ends.
EndCall(w) ==
    /\ busy[w]
    /\ busy' = [busy EXCEPT ![w] = FALSE]
    /\ IF phase[w] = "lingering"
       THEN /\ Enter(w, "off")
            /\ lease' = Abandoned(w)
            /\ hidden' = [hidden EXCEPT ![w] = FALSE]
       ELSE UNCHANGED <<phase, lease, hidden>>
    /\ UNCHANGED <<pause, left, renewed, call, beating, timer, failure, served>>

\* build_payout_services returns; the payout loop starts.
StartupDone(w) ==
    /\ phase[w] = "starting" /\ ~busy[w]
    /\ Enter(w, "announcing")
    /\ UNCHANGED <<lease, process>>

\* mark_payout_worker_ready, and the service manager is notified.
Announce(w) ==
    /\ phase[w] = "announcing"
    /\ Owns(w)
    /\ lease' = [lease EXCEPT !.ready = TRUE]
    /\ Enter(w, "serving")
    /\ UNCHANGED process

\* Shutdown is requested, a task ends by itself, or readiness cannot be
\* published (the lease is lost, or the service manager is not reached and
\* readiness is withdrawn again).
Exit(w) ==
    /\ phase[w] \in {"starting", "announcing", "serving"}
    /\ \/ Stop(w, "none")
       \/ ~busy[w] /\ Stop(w, "runtime")
       \/ phase[w] = "announcing" /\ Stop(w, "store")
    /\ Withdraw(w)
    /\ UNCHANGED <<pause, left, renewed, busy, call, beating, hidden>>
-----------------------------------------------------------------------------
(* Draining *)

\* release_payout_worker, without disturbing a successor.
Release(w) ==
    lease' = IF lease.owner = w
             THEN [lease EXCEPT !.owner = Nobody, !.ready = FALSE]
             ELSE lease

\* drain_service_tasks: the payouts are gone, so is the heartbeat.
Drained(w) ==
    /\ phase[w] = "stopping" /\ ~busy[w]
    /\ beating' = [beating EXCEPT ![w] = FALSE]
    /\ Release(w)
    /\ Enter(w, "off")
    /\ UNCHANGED <<pause, left, renewed, busy, call, timer, failure, served,
                   hidden>>

\* A plausible bug: a timed-out drain releases like any other exit.
NeverKept(w) == FALSE

\* payout_worker_lease_can_release, of the result that run_acquired_payout_
\* worker returns: the exit from serving reports the first failure only, the
\* earlier exits report both.
KeepsLease(w) == ~served[w] \/ failure[w] = "none"

\* drain_service_tasks times out with a call in flight: the task is aborted,
\* the call is not, and the process ends when it returns.
DrainTimesOut(w) ==
    /\ phase[w] = "stopping" /\ busy[w] /\ timer[w] = DrainTimeout
    /\ beating' = [beating EXCEPT ![w] = FALSE]
    /\ Enter(w, "lingering")
    /\ IF KeepsLease(w)
       THEN UNCHANGED <<lease, hidden>>
       ELSE Release(w) /\ hidden' = [hidden EXCEPT ![w] = failure[w] # "none"]
    /\ UNCHANGED <<pause, left, renewed, busy, call, timer, failure, served>>

\* External: the process is killed, with its wallet child.
Kill(w) ==
    /\ phase[w] # "off"
    /\ Enter(w, "off")
    /\ lease' = Abandoned(w)
    /\ beating' = [beating EXCEPT ![w] = FALSE]
    /\ busy' = [busy EXCEPT ![w] = FALSE]
    /\ hidden' = [hidden EXCEPT ![w] = FALSE]
    /\ UNCHANGED <<pause, left, renewed, call, timer, failure, served>>

\* No deadline of the process is due.
MayWait(w) ==
    /\ phase[w] = "waiting" => pause[w] > 0
    /\ beating[w] => lease.owner = w /\ lease.age < HeartbeatInterval
    /\ busy[w] => call[w] < CallLimit
    /\ phase[w] = "stopping" => timer[w] < DrainTimeout
    /\ phase[w] = "lingering" => timer[w] < StopTimeout

Tick ==
    /\ \A w \in Worker : MayWait(w)
    /\ \E w \in Worker : phase[w] # "off"
    /\ lease' = [lease EXCEPT !.age = Least(@ + 1, LeaseDuration)]
    /\ pause' = [w \in Worker |-> IF pause[w] > 0 THEN pause[w] - 1 ELSE 0]
    /\ call' = [w \in Worker |-> IF busy[w] THEN call[w] + 1 ELSE 0]
    /\ timer' = [w \in Worker |->
                    IF phase[w] \in {"stopping", "lingering"}
                    THEN timer[w] + 1 ELSE 0]
    /\ UNCHANGED <<phase, left, renewed, busy, beating, failure, served,
                   hidden>>
-----------------------------------------------------------------------------
Step(w) ==
    \/ Start(w) \/ Acquire(w) \/ TurnedAway(w) \/ StopWaiting(w)
    \/ Beat(w) \/ HeartbeatFails(w) \/ BeginCall(w) \/ EndCall(w)
    \/ StartupDone(w) \/ Announce(w) \/ Exit(w)
    \/ Drained(w) \/ DrainTimesOut(w) \/ Kill(w)

Next == Tick \/ \E w \in Worker : Step(w)

Spec == Init /\ [][Next]_vars

-----------------------------------------------------------------------------
\* Two processes never have a wallet call in flight at once, whatever
\* crashes, lost heartbeats, overrun drains and take-overs happen, unless a
\* drain timeout was hidden behind an earlier failure of the same process.
OneSpender ==
    \A v, w \in Worker :
        v # w /\ busy[v] /\ busy[w] => hidden[v] \/ hidden[w]

\* A standby process gives up only to a worker that is alive: when its wait is
\* spent and its last attempt comes, the lease can be taken, or was taken or
\* renewed while it waited.
OnlyALiveOwnerOutlasts ==
    \A w \in Worker :
        phase[w] = "waiting" /\ left[w] = 0 /\ pause[w] = 0 =>
            Acquirable \/ renewed[w]

\* "A Tokio task that exceeded the drain deadline may still own a
\* non-cancellable blocking wallet call.  Preserve the 35-minute DB takeover
\* fence": a process whose drain timed out never deletes its lease row.
TimedOutDrainKeepsLease ==
    [][\A w \in Worker :
          phase[w] = "stopping" /\ phase'[w] = "lingering"
              /\ lease.owner = w => lease'.owner = w]_vars

\* The lease does both of its jobs: it keeps two processes from spending at
\* once, and lets a successor in when the owner is gone.
LeaseIsSound == OneSpender /\ OnlyALiveOwnerOutlasts
=============================================================================
