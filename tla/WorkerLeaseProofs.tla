-------------------------- MODULE WorkerLeaseProofs --------------------------
(***************************************************************************)
(* Proofs about WorkerLease, for any number of payout workers and for all  *)
(* timeouts that the code's compile-time assertions allow: a process with  *)
(* a wallet call in flight holds the lease, so that there is one at most,  *)
(* and a standby process gives up only to a worker that is alive.          *)
(***************************************************************************)
EXTENDS WorkerLease, TLAPS

\* Where a process may be.
Phases == Alive \union {"off", "waiting", "lingering"}

Typed ==
    /\ lease \in [owner : Worker \union {Nobody, Orphan}, ready : BOOLEAN,
                  age : Nat]
    /\ phase \in [Worker -> Phases]
    /\ pause \in [Worker -> Nat] /\ left \in [Worker -> Nat]
    /\ renewed \in [Worker -> BOOLEAN]
    /\ busy \in [Worker -> BOOLEAN] /\ call \in [Worker -> Nat]
    /\ beating \in [Worker -> BOOLEAN] /\ timer \in [Worker -> Nat]
    /\ failure \in [Worker -> {"none", "store", "runtime"}]
    /\ served \in [Worker -> BOOLEAN] /\ hidden \in [Worker -> BOOLEAN]

\* The lease is w's, and no older than its last heartbeat and the time that w
\* has been stopping for.
Keeps(w, limit) ==
    /\ lease.owner = w /\ timer[w] <= limit
    /\ lease.age <= HeartbeatInterval + timer[w]

\* A process keeps its lease fresh until it stops, and the lease outlives the
\* stop, for the time that the service manager lets it take; the exception is
\* a process that released it too early.
Holds(w) ==
    /\ phase[w] \in {"off", "waiting"} => ~busy[w] /\ ~beating[w]
    /\ phase[w] \in {"starting", "announcing", "serving"} =>
        /\ beating[w] /\ lease.owner = w
    /\ phase[w] = "stopping" => Keeps(w, DrainTimeout)
    /\ phase[w] = "lingering" =>
        ~beating[w] /\ (hidden[w] \/ Keeps(w, StopTimeout))
    /\ beating[w] => lease.age <= HeartbeatInterval
    /\ hidden[w] => phase[w] = "lingering"

\* What a waiting process has waited for, and nobody renewed meanwhile, is the
\* age of the lease at least.
Waits(w) ==
    phase[w] = "waiting" =>
        \/ renewed[w] \/ lease.owner = Nobody \/ lease.age >= LeaseDuration
        \/ lease.age + left[w] + pause[w] >= AcquireWait

Inv == Typed /\ \A w \in Worker : Holds(w) /\ Waits(w)
-----------------------------------------------------------------------------
\* The beginning of a stop, of whatever cause.
LEMMA StopsTyped ==
    ASSUME Typed, NEW w \in Worker, NEW why \in {"none", "store", "runtime"},
           Stop(w, why), Withdraw(w)
    PROVE  /\ lease' \in [owner : Worker \union {Nobody, Orphan},
                          ready : BOOLEAN, age : Nat]
           /\ phase' \in [Worker -> Phases]
           /\ failure' \in [Worker -> {"none", "store", "runtime"}]
           /\ served' \in [Worker -> BOOLEAN]
           /\ timer' \in [Worker -> Nat]
<1>1. lease' \in [owner : Worker \union {Nobody, Orphan}, ready : BOOLEAN,
                 age : Nat]
  BY DEF Typed, Withdraw
<1>2. phase' \in [Worker -> Phases]
  BY DEF Typed, Stop, Enter, Phases, Alive
<1>3. (phase[w] = "serving") \in BOOLEAN
  OBVIOUS
<1>4. served' \in [Worker -> BOOLEAN]
  BY <1>3 DEF Typed, Stop
<1>5. failure' \in [Worker -> {"none", "store", "runtime"}]
      /\ timer' \in [Worker -> Nat]
  BY DEF Typed, Stop
<1> QED
  BY <1>1, <1>2, <1>4, <1>5

\* A process that starts to wait has its whole budget before it.
LEMMA StartKeeps ==
    ASSUME Inv, NEW w \in Worker, Start(w)
    PROVE  Inv'
<1>1. Typed'
  BY TimeoutAssumption DEF Inv, Typed, Start, Enter, Phases, Alive
<1>2. ASSUME NEW v \in Worker PROVE Holds(v)'
  BY DEF Inv, Typed, Start, Enter, Holds, Keeps
<1>3. ASSUME NEW v \in Worker PROVE Waits(v)'
  BY TimeoutAssumption DEF Inv, Typed, Start, Enter, Waits
<1> QED
  BY <1>1, <1>2, <1>3 DEF Inv

\* The lease changes hands only when nobody holds it or it has expired, which
\* the lease of a live process does not.
LEMMA AcquireKeeps ==
    ASSUME Inv, NEW w \in Worker, Acquire(w)
    PROVE  Inv'
<1>1. Typed'
  BY DEF Inv, Typed, Acquire, Acquirable, Expired, RenewedFor, Enter, Phases,
         Alive
<1>2. ASSUME NEW v \in Worker PROVE Holds(v)'
  BY TimeoutAssumption DEF Inv, Typed, Acquire, Acquirable, Expired,
         RenewedFor, Enter, Holds, Keeps
<1>3. ASSUME NEW v \in Worker PROVE Waits(v)'
  BY DEF Inv, Typed, Acquire, Acquirable, Expired, RenewedFor, Enter, Waits
<1> QED
  BY <1>1, <1>2, <1>3 DEF Inv

\* A failed attempt moves ticks from the budget to the pause.
LEMMA TurnedAwayKeeps ==
    ASSUME Inv, NEW w \in Worker, TurnedAway(w)
    PROVE  Inv'
<1>1. Typed'
  <2>1. lease' \in [owner : Worker \union {Nobody, Orphan}, ready : BOOLEAN,
                   age : Nat]
    BY DEF Inv, Typed, TurnedAway
  <2>2. phase' \in [Worker -> Phases]
    BY DEF Inv, Typed, TurnedAway, Enter, Phases
  <2>3. Least(RetryInterval, left[w]) \in Nat
        /\ left[w] - Least(RetryInterval, left[w]) \in Nat
    BY TimeoutAssumption DEF Inv, Typed, Least
  <2>4. pause' \in [Worker -> Nat]
    BY <2>3 DEF Inv, Typed, TurnedAway
  <2>5. left' \in [Worker -> Nat]
    BY <2>3 DEF Inv, Typed, TurnedAway
  <2> QED
    BY <2>1, <2>2, <2>4, <2>5 DEF Inv, Typed, TurnedAway
<1>2. ASSUME NEW v \in Worker PROVE Holds(v)'
  BY DEF Inv, Typed, TurnedAway, Acquirable, Expired, Least, Enter, Holds,
         Keeps
<1>3. ASSUME NEW v \in Worker PROVE Waits(v)'
  BY TimeoutAssumption DEF Inv, Typed, TurnedAway, Acquirable, Expired, Least,
         Enter, Waits
<1> QED
  BY <1>1, <1>2, <1>3 DEF Inv

\* A process that stops waiting has nothing in flight.
LEMMA StopWaitingKeeps ==
    ASSUME Inv, NEW w \in Worker, StopWaiting(w)
    PROVE  Inv'
<1>1. Typed'
  BY DEF Inv, Typed, StopWaiting, process, Enter, Phases, Alive
<1>2. ASSUME NEW v \in Worker PROVE Holds(v)'
  BY DEF Inv, Typed, StopWaiting, process, Enter, Holds, Keeps
<1>3. ASSUME NEW v \in Worker PROVE Waits(v)'
  BY DEF Inv, Typed, StopWaiting, process, Enter, Waits
<1> QED
  BY <1>1, <1>2, <1>3 DEF Inv

\* A heartbeat makes the lease young again, and every waiting process knows.
LEMMA BeatKeeps ==
    ASSUME Inv, NEW w \in Worker, Beat(w)
    PROVE  Inv'
<1>1. Typed'
  BY DEF Inv, Typed, Beat, Owns, Expired, RenewedFor, Alive, Enter, Phases
<1>2. ASSUME NEW v \in Worker PROVE Holds(v)'
  BY TimeoutAssumption DEF Inv, Typed, Beat, Owns, Expired, RenewedFor, Alive,
         Enter, Holds, Keeps
<1>3. ASSUME NEW v \in Worker PROVE Waits(v)'
  BY DEF Inv, Typed, Beat, Owns, Expired, RenewedFor, Enter, Waits
<1> QED
  BY <1>1, <1>2, <1>3 DEF Inv

\* A heartbeat that fails leaves a lease no older than one interval.
LEMMA HeartbeatFailsKeeps ==
    ASSUME Inv, NEW w \in Worker, HeartbeatFails(w)
    PROVE  Inv'
<1>1. Typed'
  <2>1. CASE phase[w] = "stopping"
    BY <2>1 DEF Inv, Typed, HeartbeatFails
  <2>2. CASE phase[w] # "stopping"
    BY <2>2, StopsTyped DEF Inv, Typed, HeartbeatFails
  <2> QED
    BY <2>1, <2>2
<1>2. ASSUME NEW v \in Worker PROVE Holds(v)'
  BY TimeoutAssumption DEF Inv, Typed, HeartbeatFails, Stop, Withdraw, Alive,
         Enter, Holds, Keeps
<1>3. ASSUME NEW v \in Worker PROVE Waits(v)'
  BY DEF Inv, Typed, HeartbeatFails, Stop, Withdraw, Enter, Waits
<1> QED
  BY <1>1, <1>2, <1>3 DEF Inv

\* A call begins only in a process that keeps the lease.
LEMMA BeginCallKeeps ==
    ASSUME Inv, NEW w \in Worker, BeginCall(w)
    PROVE  Inv'
<1>1. Typed'
  BY DEF Inv, Typed, BeginCall, Enter, Phases, Alive
<1>2. ASSUME NEW v \in Worker PROVE Holds(v)'
  BY DEF Inv, Typed, BeginCall, Enter, Holds, Keeps
<1>3. ASSUME NEW v \in Worker PROVE Waits(v)'
  BY DEF Inv, Typed, BeginCall, Enter, Waits
<1> QED
  BY <1>1, <1>2, <1>3 DEF Inv

\* A call that returns ends a lingering process, whose lease stays behind.
LEMMA EndCallKeeps ==
    ASSUME Inv, NEW w \in Worker, EndCall(w)
    PROVE  Inv'
<1>1. Typed'
  <2>1. lease' \in [owner : Worker \union {Nobody, Orphan}, ready : BOOLEAN,
                   age : Nat]
    BY DEF Inv, Typed, EndCall, Abandoned
  <2>2. phase' \in [Worker -> Phases]
    BY DEF Inv, Typed, EndCall, Enter, Phases
  <2>3. busy' \in [Worker -> BOOLEAN] /\ hidden' \in [Worker -> BOOLEAN]
    BY DEF Inv, Typed, EndCall
  <2> QED
    BY <2>1, <2>2, <2>3 DEF Inv, Typed, EndCall
<1>2. ASSUME NEW v \in Worker PROVE Holds(v)'
  BY DEF Inv, Typed, EndCall, Abandoned, Enter, Holds, Keeps
<1>3. ASSUME NEW v \in Worker PROVE Waits(v)'
  BY TimeoutAssumption DEF Inv, Typed, EndCall, Abandoned, Enter, Waits
<1> QED
  BY <1>1, <1>2, <1>3 DEF Inv

\* The end of startup leaves the lease alone.
LEMMA StartupDoneKeeps ==
    ASSUME Inv, NEW w \in Worker, StartupDone(w)
    PROVE  Inv'
<1>1. Typed'
  BY DEF Inv, Typed, StartupDone, process, Enter, Phases, Alive
<1>2. ASSUME NEW v \in Worker PROVE Holds(v)'
  BY DEF Inv, Typed, StartupDone, process, Enter, Holds, Keeps
<1>3. ASSUME NEW v \in Worker PROVE Waits(v)'
  BY DEF Inv, Typed, StartupDone, process, Enter, Waits
<1> QED
  BY <1>1, <1>2, <1>3 DEF Inv

\* Readiness leaves the owner and the age of the lease alone.
LEMMA AnnounceKeeps ==
    ASSUME Inv, NEW w \in Worker, Announce(w)
    PROVE  Inv'
<1>1. Typed'
  BY DEF Inv, Typed, Announce, Owns, Expired, process, Enter, Phases, Alive
<1>2. ASSUME NEW v \in Worker PROVE Holds(v)'
  BY DEF Inv, Typed, Announce, Owns, Expired, process, Enter, Holds, Keeps
<1>3. ASSUME NEW v \in Worker PROVE Waits(v)'
  BY DEF Inv, Typed, Announce, Owns, Expired, process, Enter, Waits
<1> QED
  BY <1>1, <1>2, <1>3 DEF Inv

\* A process begins to stop with a lease no older than one interval.
LEMMA ExitKeeps ==
    ASSUME Inv, NEW w \in Worker, Exit(w)
    PROVE  Inv'
<1>1. Typed'
  <2>1. \E why \in {"none", "store", "runtime"} : Stop(w, why)
    BY DEF Exit
  <2> QED
    BY <2>1, StopsTyped DEF Inv, Typed, Exit
<1>2. ASSUME NEW v \in Worker PROVE Holds(v)'
  BY TimeoutAssumption DEF Inv, Typed, Exit, Stop, Withdraw, Enter, Holds,
         Keeps
<1>3. ASSUME NEW v \in Worker PROVE Waits(v)'
  BY DEF Inv, Typed, Exit, Stop, Withdraw, Enter, Waits
<1> QED
  BY <1>1, <1>2, <1>3 DEF Inv

\* A drained process has no call in flight, so it may release the lease.
LEMMA DrainedKeeps ==
    ASSUME Inv, NEW w \in Worker, Drained(w)
    PROVE  Inv'
<1>1. Typed'
  BY DEF Inv, Typed, Drained, Release, Enter, Phases, Alive
<1>2. ASSUME NEW v \in Worker PROVE Holds(v)'
  BY DEF Inv, Typed, Drained, Release, Enter, Holds, Keeps
<1>3. ASSUME NEW v \in Worker PROVE Waits(v)'
  BY DEF Inv, Typed, Drained, Release, Enter, Waits
<1> QED
  BY <1>1, <1>2, <1>3 DEF Inv

\* A process that drained in vain keeps the lease, or is hidden.
LEMMA DrainTimesOutKeeps ==
    ASSUME Inv, NEW w \in Worker, DrainTimesOut(w)
    PROVE  Inv'
<1>1. Typed'
  <2>1. lease' \in [owner : Worker \union {Nobody, Orphan}, ready : BOOLEAN,
                   age : Nat]
    BY DEF Inv, Typed, DrainTimesOut, Release
  <2>2. phase' \in [Worker -> Phases]
    BY DEF Inv, Typed, DrainTimesOut, Enter, Phases
  <2>3. beating' \in [Worker -> BOOLEAN]
    BY DEF Inv, Typed, DrainTimesOut
  <2>4. hidden' \in [Worker -> BOOLEAN]
    <3>1. (failure[w] # "none") \in BOOLEAN
      OBVIOUS
    <3> QED
      BY <3>1 DEF Inv, Typed, DrainTimesOut
  <2> QED
    BY <2>1, <2>2, <2>3, <2>4 DEF Inv, Typed, DrainTimesOut
<1>2. ASSUME NEW v \in Worker PROVE Holds(v)'
  <2>1. Holds(w)'
    BY TimeoutAssumption DEF Inv, Typed, DrainTimesOut, KeepsLease, Release,
           Enter, Holds, Keeps
  <2>2. CASE v # w
    <3>1. /\ phase'[v] = phase[v] /\ beating'[v] = beating[v]
          /\ hidden'[v] = hidden[v] /\ timer'[v] = timer[v]
          /\ busy'[v] = busy[v]
      BY <2>2 DEF Inv, Typed, DrainTimesOut, Enter
    <3>2. lease' = lease \/ (lease.owner = w /\ lease'.age = lease.age)
      BY DEF Inv, Typed, DrainTimesOut, Release
    <3> QED
      BY <2>2, <3>1, <3>2 DEF Inv, Holds, Keeps
  <2> QED
    BY <2>1, <2>2
<1>3. ASSUME NEW v \in Worker PROVE Waits(v)'
  BY DEF Inv, Typed, DrainTimesOut, KeepsLease, Release, Enter, Waits
<1> QED
  BY <1>1, <1>2, <1>3 DEF Inv

\* A killed process has no call in flight; its lease has to expire.
LEMMA KillKeeps ==
    ASSUME Inv, NEW w \in Worker, Kill(w)
    PROVE  Inv'
<1>1. Typed'
  BY DEF Inv, Typed, Kill, Abandoned, Enter, Phases, Alive
<1>2. ASSUME NEW v \in Worker PROVE Holds(v)'
  BY DEF Inv, Typed, Kill, Abandoned, Enter, Holds, Keeps
<1>3. ASSUME NEW v \in Worker PROVE Waits(v)'
  BY TimeoutAssumption DEF Inv, Typed, Kill, Abandoned, Enter, Waits
<1> QED
  BY <1>1, <1>2, <1>3 DEF Inv

-----------------------------------------------------------------------------
(* Time *)

\* Time passes only as far as the deadlines of the processes allow.
LEMMA TickKeeps ==
    ASSUME Inv, Tick
    PROVE  Inv'
<1>1. Typed'
  BY TimeoutAssumption DEF Inv, Typed, Tick, Least
<1>2. ASSUME NEW v \in Worker PROVE Holds(v)'
  BY TimeoutAssumption DEF Inv, Typed, Tick, MayWait, Least, Holds, Keeps
<1>3. ASSUME NEW v \in Worker PROVE Waits(v)'
  BY TimeoutAssumption DEF Inv, Typed, Tick, MayWait, Least, Waits
<1> QED
  BY <1>1, <1>2, <1>3 DEF Inv
-----------------------------------------------------------------------------
\* The invariant holds of every behaviour of the workers.
LEMMA InvHolds == Spec => []Inv
<1>1. Init => Inv
  BY TimeoutAssumption DEF Init, Inv, Typed, Holds, Waits, Phases
<1>2. Inv /\ [Next]_vars => Inv'
  <2> SUFFICES ASSUME Inv, [Next]_vars PROVE Inv'
    OBVIOUS
  <2>1. CASE Tick
    BY <2>1, TickKeeps
  <2>2. ASSUME NEW w \in Worker, Step(w) PROVE Inv'
    BY <2>2, StartKeeps, AcquireKeeps, TurnedAwayKeeps, StopWaitingKeeps,
       BeatKeeps, HeartbeatFailsKeeps, BeginCallKeeps, EndCallKeeps,
       StartupDoneKeeps, AnnounceKeeps, ExitKeeps, DrainedKeeps,
       DrainTimesOutKeeps, KillKeeps
    DEF Step
  <2>3. CASE UNCHANGED vars
    BY <2>3 DEF vars, Inv, Typed, Holds, Keeps, Waits
  <2> QED
    BY <2>1, <2>2, <2>3 DEF Next
<1> QED
  BY <1>1, <1>2, PTL DEF Spec

\* For every choice of timeouts that the code's assertions admit and any number
\* of payout workers, no two processes have a wallet call in flight at once
\* (but for a drain timeout that an earlier failure hid), and a standby worker
\* gives up only to one that is alive.
THEOREM LeaseAlwaysSound == Spec => []LeaseIsSound
<1>1. Inv => LeaseIsSound
  <2> SUFFICES ASSUME Inv PROVE LeaseIsSound
    OBVIOUS
  <2>1. ASSUME NEW v \in Worker, NEW w \in Worker, v # w, busy[v], busy[w],
               ~hidden[v], ~hidden[w]
        PROVE  FALSE
    BY <2>1 DEF Inv, Typed, Holds, Keeps, Phases, Alive
  <2>2. OnlyALiveOwnerOutlasts
    BY TimeoutAssumption DEF Inv, Typed, Waits, OnlyALiveOwnerOutlasts,
           Acquirable, Expired
  <2> QED
    BY <2>1, <2>2 DEF LeaseIsSound, OneSpender
<1> QED
  BY <1>1, InvHolds, PTL
=============================================================================
