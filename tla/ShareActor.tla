----------------------------- MODULE ShareActor -----------------------------
(***************************************************************************)
(* The one actor that owns the live backend connection: miners' shares     *)
(* come through a bounded queue, health requests on a timer and after a    *)
(* recovered projection, and winning candidates that the backend deferred  *)
(* are tried again until their budget ends.  While the backend is          *)
(* unhealthy the job router is paused and a deadline runs; whatever ends   *)
(* the actor suspends the router.                                          *)
(*                                                                         *)
(* What an exchange with the backend brings is chosen freely: the exchange *)
(* itself and the drain of its events are the subject of JournalDelivery,  *)
(* the router's registry of JobRouter.  Time is counted in ticks and runs  *)
(* only while the actor awaits something.                                  *)
(***************************************************************************)
EXTENDS Naturals, Sequences, FiniteSets

CONSTANTS
    Miners,       \* producers, each with at most one share in the actor
    NoMiner,
    Marker,       \* SubmitCommand::Shutdown in the queue
    QueueSize,    \* queue_capacity
    MaxDeferred,  \* MAX_DEFERRED_CANDIDATES
    Budget,       \* CANDIDATE_RETRY_BUDGET, in ticks
    Retry,        \* CANDIDATE_RETRY_INTERVAL
    Grace,        \* BACKEND_HEALTH_GRACE
    Beat          \* heartbeat_interval

ActorAssumption ==
    /\ NoMiner \notin Miners /\ Marker \notin Miners
    /\ {QueueSize, MaxDeferred, Budget, Retry, Grace, Beat} \subseteq Nat \ {0}

VARIABLES
    phase,     \* where the actor is
    queue,     \* commands not yet received
    open,      \* the channel accepts commands
    hold,      \* the share in hand
    result,    \* what its response will be
    deferred,  \* DeferredCandidates
    share,     \* of each miner: kind of context, deadline, next_try, answer
    router,    \* "open", "paused", "recovery" (candidates only), "suspended"
    grace,     \* health_deadline, <<>> if none
    beat,      \* until the heartbeat
    barrier,   \* require_health_barrier
    prefer     \* prefer_command

vars == <<phase, queue, open, hold, result, deferred, share, router, grace,
          beat, barrier, prefer>>

Idle == [kind |-> "none", deadline |-> 0, next |-> 0, told |-> "none"]

\* spawn: events that were queued are drained first; if the projection had to
\* catch up meanwhile, the router is paused and a health barrier is due.
Init ==
    /\ phase = "select" /\ queue = <<>> /\ open = TRUE
    /\ hold = NoMiner /\ result = "none" /\ deferred = {}
    /\ share = [m \in Miners |-> Idle]
    /\ barrier \in BOOLEAN
    /\ router = IF barrier THEN "paused" ELSE "open"
    /\ beat = IF barrier THEN 0 ELSE Beat
    /\ grace = <<>> /\ prefer = FALSE

\* Only the answer of a share that is done matters.
Told(m, answer) == [share EXCEPT ![m] = [Idle EXCEPT !.told = answer]]

AllTold(ms) == [m \in Miners |->
    IF m \in ms THEN [Idle EXCEPT !.told = "unavailable"] ELSE share[m]]

Queued == {m \in Miners : \E i \in 1..Len(queue) : queue[i] = m}

Unavailable == "unavailable"
-----------------------------------------------------------------------------
(* The producers *)

\* ShareRouterHandle::submit.  The context was prepared when the router
\* admitted it, which may be before a pause.
Submit(m) ==
    /\ share[m].told # "waiting"
    /\ CASE ~open -> share' = Told(m, Unavailable) /\ UNCHANGED queue
         [] open /\ Len(queue) >= QueueSize ->
              share' = Told(m, "overloaded") /\ UNCHANGED queue
         [] OTHER ->
              /\ \E k \in {"ordinary", "candidate"} :
                   share' = [share EXCEPT ![m] =
                       [Idle EXCEPT !.kind = k, !.told = "waiting"]]
              /\ queue' = Append(queue, m)
    /\ UNCHANGED <<phase, open, hold, result, deferred, router, grace, beat,
                   barrier, prefer>>

\* ShareRouter::shutdown: the marker waits for room in the queue.
Shutdown ==
    /\ open /\ Len(queue) < QueueSize
    /\ \A i \in 1..Len(queue) : queue[i] # Marker
    /\ queue' = Append(queue, Marker)
    /\ UNCHANGED <<phase, open, hold, result, deferred, share, router, grace,
                   beat, barrier, prefer>>
-----------------------------------------------------------------------------
(* What to do next *)

Overdue == grace = <<0>>

DueIn(m) ==
    IF share[m].next < share[m].deadline THEN share[m].next
    ELSE share[m].deadline

Due == {m \in deferred : DueIn(m) = 0}

\* The heartbeat skips missed ticks, a forced barrier resets it.
StartHealth ==
    /\ phase = "select"
    /\ barrier \/ (~Overdue /\ beat = 0)
    /\ phase' = "health" /\ barrier' = FALSE
    /\ beat' \in IF barrier THEN {Beat} ELSE 1..Beat
    /\ UNCHANGED <<queue, open, hold, result, deferred, share, router, grace,
                   prefer>>

HealthDeadline ==
    /\ phase = "select" /\ ~barrier /\ Overdue
    /\ phase' = "suspend"
    /\ UNCHANGED <<queue, open, hold, result, deferred, share, router, grace,
                   beat, barrier, prefer>>

\* The timers come first.
Settled == phase = "select" /\ ~barrier /\ ~Overdue /\ beat > 0

\* take_due; of several that are due the code takes the earliest.
TakeCandidate ==
    /\ Settled /\ Due # {}
    /\ ~prefer \/ queue = <<>>
    /\ \E m \in Due :
         /\ hold' = m /\ deferred' = deferred \ {m}
    /\ prefer' = TRUE /\ phase' = "prepare"
    /\ UNCHANGED <<queue, open, result, share, router, grace, beat, barrier>>

\* A plausible bug: commands keep their turn.
TakeCommandGreedily ==
    /\ Settled /\ queue # <<>>
    /\ prefer \/ Due = {}
    /\ prefer' = TRUE /\ queue' = Tail(queue)
    /\ IF Head(queue) = Marker
       THEN phase' = "suspend" /\ UNCHANGED <<hold, share>>
       ELSE /\ phase' = "prepare" /\ hold' = Head(queue)
            /\ share' = [share EXCEPT ![Head(queue)].deadline = Budget]
    /\ UNCHANGED <<open, result, deferred, router, grace, beat, barrier>>

\* A command; the channel cannot be empty and closed here, since the owner
\* that aborts the actor also holds a sender.
TakeCommand ==
    /\ Settled /\ queue # <<>>
    /\ prefer \/ Due = {}
    /\ prefer' = FALSE /\ queue' = Tail(queue)
    /\ IF Head(queue) = Marker
       THEN phase' = "suspend" /\ UNCHANGED <<hold, share>>
       ELSE /\ phase' = "prepare" /\ hold' = Head(queue)
            /\ share' = [share EXCEPT ![Head(queue)].deadline = Budget]
    /\ UNCHANGED <<open, result, deferred, router, grace, beat, barrier>>
-----------------------------------------------------------------------------
(* Health *)

\* pump_health that succeeds: the router is paused by an unhealthy answer and
\* by a drain that waited for the projection; candidates may pass if the
\* backend says so and the drain did not wait.
Pumped(healthy, router2) ==
    \/ healthy /\ router2 = router
    \/ ~healthy /\ router2 \in {"paused", "recovery"}

\* How far the deadline is when it starts, if it is not running.
Started(left) == IF grace = <<>> THEN <<left>> ELSE grace

\* A failure of the request, of the drain or of the router ends the actor, as
\* does a health deadline that passed meanwhile.
FinishHealth ==
    /\ phase = "health"
    /\ \/ /\ phase' = "suspend" /\ UNCHANGED <<router, grace>>
       \/ /\ ~Overdue
          /\ \E healthy \in BOOLEAN, left \in 0..Grace :
               /\ IF healthy
                  THEN router' = "open" /\ grace' = <<>> /\ phase' = "select"
                  ELSE /\ Pumped(FALSE, router')
                       /\ grace' = Started(left)
                       /\ phase' = IF grace' = <<0>> THEN "suspend"
                                   ELSE "select"
    /\ UNCHANGED <<queue, open, hold, result, deferred, share, beat, barrier,
                   prefer>>
-----------------------------------------------------------------------------
(* One share *)

\* prepare_queued_paused_candidate: while paused only with permission; the
\* share passes as a candidate, or is stale, or the stream is unusable.
Qualified(outcome) ==
    \/ outcome = "candidate" /\ router \in {"open", "recovery"}
    \/ outcome = "rejected"
    \/ outcome = Unavailable /\ router # "paused"

Prepare ==
    /\ phase = "prepare"
    /\ IF grace # <<>> \/ share[hold].kind = "candidate"
       THEN \E outcome \in {"candidate", "rejected", Unavailable} :
              /\ Qualified(outcome)
              /\ IF outcome = "candidate"
                 THEN /\ share' = [share EXCEPT ![hold].kind = "candidate"]
                      /\ IF share[hold].deadline > 0
                         THEN phase' = "exchange" /\ UNCHANGED result
                         ELSE phase' = "respond" /\ result' = "deferred"
                 ELSE /\ result' = outcome /\ UNCHANGED share
                      /\ phase' = IF outcome = Unavailable THEN "suspend"
                                  ELSE "respond"
       ELSE phase' = "exchange" /\ UNCHANGED <<share, result>>
    /\ UNCHANGED <<queue, open, hold, deferred, router, grace, beat, barrier,
                   prefer>>

\* A plausible bug: the pause of a recovered projection has no deadline and
\* no barrier.
ExchangeForgetfully ==
    /\ phase = "exchange"
    /\ result' \in {"accepted", "rejected", "deferred", Unavailable}
    /\ \E recovered \in BOOLEAN :
         router' = IF recovered THEN "paused" ELSE router
    /\ phase' = IF /\ result' = "deferred" /\ share[hold].deadline > 0
                   /\ share[hold].kind = "ordinary"
                THEN "pump" ELSE "answer"
    /\ UNCHANGED <<queue, open, hold, deferred, share, grace, beat, barrier,
                   prefer>>

\* submit_context_and_drain: the backend's answer, or a terminal failure (a
\* candidate also times out); the drain may have had to wait.
Exchange ==
    /\ phase = "exchange"
    /\ result' \in {"accepted", "rejected", "deferred", Unavailable}
    /\ \E recovered \in BOOLEAN :
         /\ router' = IF recovered THEN "paused" ELSE router
         /\ grace' = IF recovered THEN Started(Grace) ELSE grace
         /\ barrier' = (barrier \/ recovered)
    /\ phase' = IF /\ result' = "deferred" /\ share[hold].deadline > 0
                   /\ share[hold].kind = "ordinary"
                THEN "pump" ELSE "answer"
    /\ UNCHANGED <<queue, open, hold, deferred, share, beat, prefer>>

\* A deferred ordinary share: one more health barrier, within the share's
\* deadline, then the check that it is a candidate.
Pump ==
    /\ phase = "pump"
    /\ \/ result' = Unavailable /\ UNCHANGED <<router, grace, share>>
       \/ \E healthy \in BOOLEAN, left \in 0..Grace :
            /\ IF healthy THEN router' = "open" /\ grace' = <<>>
               ELSE Pumped(FALSE, router') /\ grace' = Started(left)
            /\ \/ /\ router' # "paused"
                  /\ share' = [share EXCEPT ![hold].kind = "candidate"]
                  /\ UNCHANGED result
               \/ result' = "rejected" /\ UNCHANGED share
               \/ /\ router' # "paused"
                  /\ result' = Unavailable /\ UNCHANGED share
    /\ phase' = "answer"
    /\ UNCHANGED <<queue, open, hold, deferred, beat, barrier, prefer>>

\* A terminal result suspends before it is sent; a deferred candidate is kept
\* while its budget lasts and there is room.
Answer ==
    /\ phase = "answer"
    /\ IF result = "deferred" /\ share[hold].deadline > 0
       THEN IF Cardinality(deferred) < MaxDeferred
            THEN /\ deferred' = deferred \union {hold}
                 /\ share' = [share EXCEPT ![hold].next = Retry]
                 /\ phase' = "select" /\ hold' = NoMiner /\ result' = "none"
            ELSE /\ phase' = "respond" /\ result' = "overloaded"
                 /\ UNCHANGED <<deferred, share, hold>>
       ELSE /\ phase' = IF result = Unavailable THEN "suspend" ELSE "respond"
            /\ UNCHANGED <<deferred, share, hold, result>>
    /\ UNCHANGED <<queue, open, router, grace, beat, barrier, prefer>>
-----------------------------------------------------------------------------
(* The end *)

Suspend ==
    /\ phase = "suspend"
    /\ router' = "suspended"
    /\ phase' = IF hold = NoMiner THEN "close" ELSE "respond"
    /\ UNCHANGED <<queue, open, hold, result, deferred, share, grace, beat,
                   barrier, prefer>>

\* The response of the share in hand.
Respond ==
    /\ phase = "respond"
    /\ share' = Told(hold, result)
    /\ hold' = NoMiner /\ result' = "none"
    /\ phase' = IF result = Unavailable THEN "close" ELSE "select"
    /\ UNCHANGED <<queue, open, deferred, router, grace, beat, barrier, prefer>>

Close ==
    /\ phase = "close"
    /\ open' = FALSE /\ phase' = "fail"
    /\ UNCHANGED <<queue, hold, result, deferred, share, router, grace, beat,
                   barrier, prefer>>

\* fail_pending, one command at a time.
FailPending ==
    /\ phase = "fail"
    /\ IF queue = <<>> THEN phase' = "drop hold" /\ UNCHANGED <<queue, share>>
       ELSE /\ queue' = Tail(queue) /\ UNCHANGED phase
            /\ share' = IF Head(queue) = Marker THEN share
                        ELSE Told(Head(queue), Unavailable)
    /\ UNCHANGED <<open, hold, result, deferred, router, grace, beat, barrier,
                   prefer>>

\* ShareRouter is dropped: the task is aborted where it awaits.
Abort ==
    /\ phase \in {"select", "health", "exchange", "pump", "fail"}
    /\ phase' = "drop hold"
    /\ UNCHANGED <<queue, open, hold, result, deferred, share, router, grace,
                   beat, barrier, prefer>>

\* The locals go in reverse order: the armed ResponseSuspension before the
\* response it protects, ...
DropHold ==
    /\ phase = "drop hold"
    /\ router' = IF hold = NoMiner THEN router ELSE "suspended"
    /\ share' = AllTold({hold} \ {NoMiner})
    /\ hold' = NoMiner /\ result' = "none" /\ phase' = "drop deferred"
    /\ UNCHANGED <<queue, open, deferred, grace, beat, barrier, prefer>>

\* ... then the deferred candidates, which suspend first, ...
DropDeferred ==
    /\ phase = "drop deferred"
    /\ router' = IF deferred = {} THEN router ELSE "suspended"
    /\ share' = AllTold(deferred) /\ deferred' = {}
    /\ phase' = "drop guard"
    /\ UNCHANGED <<queue, open, hold, result, grace, beat, barrier, prefer>>

\* ... then SuspendOnDrop, ...
DropGuard ==
    /\ phase = "drop guard"
    /\ router' = "suspended" /\ phase' = "drop queue"
    /\ UNCHANGED <<queue, open, hold, result, deferred, share, grace, beat,
                   barrier, prefer>>

\* ... and the receiver with what is still queued.
DropQueue ==
    /\ phase = "drop queue"
    /\ share' = AllTold(Queued) /\ queue' = <<>> /\ open' = FALSE
    /\ phase' = "ended"
    /\ UNCHANGED <<hold, result, deferred, router, grace, beat, barrier, prefer>>
-----------------------------------------------------------------------------
Less(n) == IF n = 0 THEN 0 ELSE n - 1

\* Time passes while the actor awaits an exchange, or has nothing to do.
Tick ==
    /\ \/ phase \in {"health", "exchange", "pump"}
       \/ Settled /\ Due = {} /\ queue = <<>>
    /\ beat' = Less(beat)
    /\ grace' = IF grace = <<>> THEN grace ELSE <<Less(grace[1])>>
    /\ share' = [m \in Miners |->
         IF m \in deferred \union {hold}
         THEN [share[m] EXCEPT !.deadline = Less(share[m].deadline),
                               !.next = Less(share[m].next)]
         ELSE share[m]]
    /\ UNCHANGED <<phase, queue, open, hold, result, deferred, router,
                   barrier, prefer>>

Work ==
    \/ StartHealth \/ HealthDeadline \/ TakeCandidate \/ TakeCommand
    \/ FinishHealth \/ Prepare \/ Exchange \/ Pump \/ Answer
    \/ Suspend \/ Respond \/ Close \/ FailPending
    \/ DropHold \/ DropDeferred \/ DropGuard \/ DropQueue

Next ==
    \/ \E m \in Miners : Submit(m)
    \/ Shutdown \/ Abort \/ Tick \/ Work

Spec == Init /\ [][Next]_vars

\* The backend answers a health request before the next heartbeat is due.
PromptHealth == FinishHealth /\ beat > 0
-----------------------------------------------------------------------------
\* A miner never learns that the stream is gone (a terminal error, a closed
\* queue or a dropped response) while the job router still hands out work:
\* the router is suspended first, also when the actor is aborted in an await
\* with shares in hand, deferred and queued.
FailureFindsItSuspended ==
    \A m \in Miners : share[m].told = Unavailable => router = "suspended"

\* Shares that were queued before a pause do not slip through it: an ordinary
\* share is forwarded only while the router is open, and between two pieces of
\* work a paused router has a running deadline or a health barrier ahead.
PausedWorkIsRequalified ==
    /\ (phase = "exchange" /\ share[hold].kind = "ordinary") =>
           router = "open"
    /\ (phase = "select" /\ router \in {"paused", "recovery"}) =>
           barrier \/ grace # <<>>

\* Every share that entered the queue is answered: commands and deferred
\* candidates take turns and neither starves the other, a candidate's budget
\* ends, and every way the actor stops answers what it held.
EveryShareIsAnswered ==
    \A m \in Miners : (share[m].told = "waiting") ~> (share[m].told # "waiting")

\* A pause reaches every share, whether it is in hand, deferred or queued:
\* the actor ends only suspended, and what waited is qualified again.
PausesReachEveryShare == FailureFindsItSuspended /\ PausedWorkIsRequalified
=============================================================================
