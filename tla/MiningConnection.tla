-------------------------- MODULE MiningConnection --------------------------
(***************************************************************************)
(* One miner's connection (wcash-pool-edge): the actor of connection.rs,   *)
(* its session (session.rs) and the driver of stream.rs that feeds it the  *)
(* miner's requests, the router's job updates and the results it awaits.   *)
(* The job router runs beside it: the updates it broadcasts wait in a      *)
(* bounded queue, so that the connection learns late what the router has   *)
(* already left behind, and asks the router's present state in between.    *)
(*                                                                         *)
(* The driver flushes after every handler, so what a handler queues has    *)
(* been written when the next one runs, or the connection has ended.       *)
(* Variable difficulty is kept to its binding and its clock; module        *)
(* Vardiff has its arithmetic.  A target is a number, larger is easier.    *)
(***************************************************************************)
EXTENDS Naturals, Sequences, SequencesExt, FiniteSets

CONSTANTS
    Work,          \* jobs: their chain tips and the floor, the hardest share target
                   \* that the two networks' targets allow
    Easiest,       \* VardiffConfig::operator_easiest
    InitialTarget, \* MiningPolicy::initial_target
    Capacity,      \* of the broadcast of job updates
    MaxAnnounced,  \* ConnectionLimits::maximum_announced_jobs
    MaxRecovery,   \* MAX_ZCASH_WINNER_RECOVERY_JOBS
    MaxPending,    \* shares in flight: one for the driver, more for the actor's own contract
    MaxRecent,     \* superseded jobs that the backend keeps acceptable
    MaxJobs,       \* bound: jobs that the backend activates
    MaxTickets,    \* bound: shares and authorizations
    MaxEnds,       \* bound: expiries, retirements and pauses
    MaxTime,       \* bound: instants
    MaxRevision    \* bound: changes of the share target

ConnectionAssumption ==
    /\ {w.floor : w \in Work} \cup {InitialTarget} \subseteq 1 .. Easiest
    /\ MaxRecent < MaxAnnounced
    /\ {Capacity, MaxRecovery, MaxPending} \subseteq Nat \ {0}

VARIABLES
    router,      \* what the router answers: current, recent, winners, and its two flags
    work,        \* the work of each job that was activated
    updates,     \* broadcast and not yet received
    state,       \* SessionState
    ended,       \* why the connection ended
    handling,    \* <<>>, or the activation that passed the check of the current job
    assignments, \* JobId -> TargetBinding
    announced,   \* session.announced_jobs, with the binding of each assignment
    retired,     \* session.winner_recovery_jobs, newest first
    lineage,     \* advertised_lineage
    vardiff,     \* the controller: binding and last_now_ms
    pending,     \* ticket -> PendingShareState; told is history: the target the miner knew
    order,       \* timing_order
    tickets,     \* tickets issued
    clock,
    crossed,     \* history: a clean activation was received since the last notice
    miner        \* what the miner was told: its target, each job's target, the last notice

environment == <<router, work, updates, clock>>
session == <<assignments, announced, retired, lineage>>
shares == <<pending, order, tickets>>
vars == <<environment, state, ended, handling, session, vardiff, shares, crossed, miner>>

Job == 1 .. MaxJobs
NoJob == 0
NoTarget == 0

Keep(f, keys) == [k \in DOMAIN f \cap keys |-> f[k]]
Put(f, key, value) == [k \in DOMAIN f \cup {key} |-> IF k = key THEN value ELSE f[k]]
Open == state # "closed"

NoController == [revision |-> 0, target |-> NoTarget, floor |-> NoTarget, last |-> 0]
ToldNothing == [target |-> NoTarget, told |-> <<>>, clean |-> TRUE, crossed |-> FALSE]

Init ==
    /\ router = [current |-> NoJob, recent |-> {}, winners |-> {}, paused |-> FALSE,
                 force |-> FALSE, up |-> TRUE, ends |-> 0]
    /\ work = <<>> /\ updates = <<>>
    /\ state = "connected" /\ ended = "no" /\ handling = <<>>
    /\ assignments = <<>> /\ announced = <<>> /\ retired = <<>> /\ lineage = {}
    /\ vardiff = NoController
    /\ pending = <<>> /\ order = <<>> /\ tickets = 0
    /\ clock = 0
    /\ miner = ToldNothing
    /\ crossed = FALSE

-----------------------------------------------------------------------------
(* The router, as module JobRouter has it, and its broadcast.               *)

Retained == (router.recent \cup {router.current}) \ {NoJob}
CurrentGeneration == IF router.paused THEN NoJob ELSE router.current

\* broadcast::Sender::send: a receiver that falls behind is told it lagged.
Broadcast(update) ==
    updates' = IF ~Open THEN <<>>
               ELSE IF Len(updates) = Capacity THEN <<[kind |-> "lagged"]>>
               ELSE Append(updates, update)

\* RouterState::update_for an activation.
Activate(new) ==
    LET id == Len(work) + 1
        recent == Retained
        clean == router.force \/ \A prior \in recent : work[prior].tips # new.tips
    IN  /\ router.up /\ id \in Job
        /\ Cardinality(recent) <= MaxRecent
        /\ work' = Append(work, new)
        /\ router' = [router EXCEPT !.current = id, !.recent = recent,
                                    !.winners = {w \in @ : work[w].tips = new.tips} \cup {id},
                                    !.force = @ /\ router.paused]
        /\ IF router.paused
           THEN UNCHANGED updates
           ELSE Broadcast([kind |-> "activated", job |-> id, clean |-> clean])

\* A job's lifetime ends: no update tells the connections.
Expire(id) ==
    /\ id \in Retained /\ router.ends < MaxEnds
    /\ router' = [router EXCEPT !.current = IF @ = id THEN NoJob ELSE @, !.recent = @ \ {id},
                                !.ends = @ + 1]
    /\ UNCHANGED <<work, updates>>

\* A hard invalidation or a closed generation.
Retire(id) ==
    /\ id \in Retained \cup router.winners /\ router.ends < MaxEnds
    /\ \E barred \in BOOLEAN :
         router' = [router EXCEPT !.current = IF @ = id THEN NoJob ELSE @, !.recent = @ \ {id},
                                  !.winners = IF barred THEN @ \ {id} ELSE @, !.force = TRUE,
                                  !.ends = @ + 1]
    /\ Broadcast([kind |-> "retired", job |-> id])
    /\ UNCHANGED <<work>>

Pause ==
    /\ router.up /\ ~router.paused /\ router.ends < MaxEnds
    /\ router' = [router EXCEPT !.paused = TRUE, !.force = TRUE, !.ends = @ + 1]
    /\ UNCHANGED <<work, updates>>

Resume ==
    /\ router.paused
    /\ router' = [router EXCEPT !.paused = FALSE, !.force = (router.current = NoJob)]
    /\ IF router.current = NoJob
       THEN UNCHANGED updates
       ELSE Broadcast([kind |-> "activated", job |-> router.current, clean |-> TRUE])
    /\ UNCHANGED work

Suspend ==
    /\ router.up
    /\ router' = [router EXCEPT !.current = NoJob, !.recent = {}, !.winners = {}, !.up = FALSE]
    /\ Broadcast([kind |-> "suspended"])
    /\ UNCHANGED <<work>>

Environment ==
    /\ \/ \E new \in Work : Activate(new)
       \/ \E id \in Job : Expire(id) \/ Retire(id)
       \/ Pause
       \/ Resume
       \/ Suspend
    /\ Open
    /\ UNCHANGED <<clock, state, ended, handling, session, vardiff, shares, crossed, miner>>

Tick ==
    /\ Open /\ clock < MaxTime
    /\ clock' = clock + 1
    /\ UNCHANGED <<router, work, updates, state, ended, handling, session, vardiff,
                   shares, crossed, miner>>

-----------------------------------------------------------------------------
(* Target bindings, and the two calls that move the controller's clock.     *)

Clamp(target, floor) == IF target < floor THEN floor ELSE target

BindingOf(controller) ==
    [revision |-> controller.revision, target |-> controller.target, floor |-> controller.floor]

\* VardiffController::new for the first job, update_network_targets afterwards.
NetworkTargets(floor) ==
    IF vardiff.revision = 0
    THEN [vardiff EXCEPT !.revision = 1, !.target = Clamp(InitialTarget, floor), !.floor = floor]
    ELSE IF vardiff.floor # floor
    THEN [vardiff EXCEPT !.revision = @ + 1, !.target = Clamp(@, floor), !.floor = floor]
    ELSE vardiff

\* What a sample or a tick may make of the controller at a time it accepts.
Adjusted(controller, now, targets) ==
    {[controller EXCEPT !.last = now]} \cup
    {[controller EXCEPT !.last = now, !.revision = @ + 1, !.target = target] :
        target \in {t \in targets : /\ t # controller.target
                                    /\ t >= controller.floor
                                    /\ controller.revision < MaxRevision}}

\* Samples that are taken in the order in which the backend answers.
DrainAtOnce(controller, queue, waiting) ==
    LET done == {i \in DOMAIN queue : waiting[queue[i]].sample # "none"}
        first == CHOOSE i \in done : \A j \in done : i <= j
        share == waiting[queue[first]]
    IN  IF done = {} THEN {[controller |-> controller, queue |-> queue, ok |-> TRUE]}
        ELSE {[controller |-> next, queue |-> RemoveAt(queue, first),
               ok |-> share.sample = "no" \/ share.target # BindingOf(controller)
                      \/ share.at >= controller.last] :
              next \in IF share.sample = "yes" /\ share.target = BindingOf(controller)
                       THEN Adjusted(controller, share.at, 1 .. Easiest)
                       ELSE {controller}}

\* drain_completed_timing: samples are taken in the order of admission, up to
\* the first share that is still in flight; observe_share refuses a sample older
\* than what the controller has seen.
RECURSIVE Drain(_, _, _)
Drain(controller, queue, waiting) ==
    IF queue = <<>> \/ waiting[Head(queue)].sample = "none"
    THEN {[controller |-> controller, queue |-> queue, ok |-> TRUE]}
    ELSE LET share == waiting[Head(queue)]
         IN  IF share.sample = "no" \/ share.target # BindingOf(controller)
             THEN Drain(controller, Tail(queue), waiting)
             ELSE IF share.at < controller.last
             THEN {[controller |-> controller, queue |-> Tail(queue), ok |-> FALSE]}
             ELSE UNION {Drain(next, Tail(queue), waiting) :
                           next \in Adjusted(controller, share.at, 1 .. Easiest)}

-----------------------------------------------------------------------------
(* The end of the connection: ConnectionActor::close.                       *)

Close(why) ==
    /\ state' = "closed" /\ ended' = why
    /\ handling' = <<>>
    /\ assignments' = <<>> /\ announced' = <<>> /\ retired' = <<>> /\ lineage' = {}
    /\ pending' = <<>> /\ order' = <<>>
    /\ vardiff' = NoController /\ crossed' = FALSE /\ miner' = ToldNothing
    /\ UNCHANGED tickets

\* The driver's deadlines, a failed read or write, the peer, a shutdown, a refused
\* credential: nothing of these depends on the rest of the state.
Disconnect ==
    /\ Open
    /\ Close("driver")
    /\ UNCHANGED environment

-----------------------------------------------------------------------------
(* Job updates.                                                             *)

Ready == Open /\ handling = <<>> /\ state # "authorizing"

RetireAll(queue, gone) ==
    LET known == SetToSortSeq(gone \cap DOMAIN announced, >)
        front == [i \in DOMAIN known |-> [job |-> known[i], binding |-> announced[known[i]]]]
    IN  SubSeq(front \o queue, 1,
               IF Len(front \o queue) < MaxRecovery THEN Len(front \o queue) ELSE MaxRecovery)

StillWinners(queue) == SelectSeq(queue, LAMBDA entry : entry.job \in router.winners)

\* A late clean activation that leaves no trace.
ObserveActivatedForgetfully(update) ==
    /\ update.kind = "activated"
    /\ IF CurrentGeneration = update.job
       THEN handling' = <<update>>
       ELSE UNCHANGED handling
    /\ crossed' = (crossed \/ update.clean)
    /\ UNCHANGED <<state, ended, session, vardiff, shares, miner>>

\* apply_job_update, Activated: the router may have moved on meanwhile.
ObserveActivated(update) ==
    /\ update.kind = "activated"
    /\ IF CurrentGeneration = update.job
       THEN handling' = <<update>> /\ UNCHANGED lineage
       ELSE /\ lineage' = IF update.clean THEN {} ELSE lineage
            /\ UNCHANGED handling
    /\ crossed' = (crossed \/ update.clean)
    /\ UNCHANGED <<state, ended, assignments, announced, retired, vardiff, shares, miner>>

ObserveRetired(update) ==
    /\ update.kind = "retired"
    /\ assignments' = Keep(assignments, Job \ {update.job})
    /\ announced' = Keep(announced, Job \ {update.job})
    /\ lineage' = lineage \ {update.job}
    /\ retired' = StillWinners(RetireAll(retired, {update.job}))
    /\ UNCHANGED <<state, ended, handling, vardiff, shares, crossed, miner>>

ReceiveUpdate ==
    /\ Ready /\ updates # <<>>
    /\ updates' = Tail(updates)
    /\ \/ router.up /\ (ObserveActivated(Head(updates)) \/ ObserveRetired(Head(updates)))
       \/ (~router.up \/ Head(updates).kind = "lagged") /\ Close("jobs")
    /\ UNCHANGED <<router, work, clock>>

\* reconcile_jobs drops what the router no longer retains.
Reconciled ==
    [assignments |-> Keep(assignments, Retained),
     announced |-> Keep(announced, Job \ (DOMAIN assignments \ Retained)),
     retired |-> StillWinners(RetireAll(retired, DOMAIN assignments \ Retained)),
     lineage |-> lineage \cap Retained \cap DOMAIN assignments]

SendTarget(clean, assigned, binding) == clean \/ assigned # {binding.target}

\* current_assigned_target, as a set.
AssignedTarget(map) == {map[id].target : id \in {CurrentGeneration} \cap DOMAIN map}

\* The miner hears set_target, if it must be sent, and then notify.
Notified(id, clean, send, binding) ==
    LET target == IF send THEN binding.target ELSE miner.target
    IN  [target |-> target, told |-> Put(miner.told, id, target), clean |-> clean,
         crossed |-> crossed]

\* A job keeps the binding it was announced with.
BindingFor(id, kept) ==
    IF id \in DOMAIN kept THEN kept[id] ELSE NetworkTargets(work[id].floor)

\* announce_generation, once authorized.
Announce ==
    LET id == handling[1].job
        now == Reconciled
        clean == handling[1].clean \/ now.lineage = {}
        bound == BindingFor(id, now.assignments)
        binding == BindingOf(bound)
        conflict == \/ id \in DOMAIN now.announced /\ now.announced[id] # binding
                    \/ \E i \in DOMAIN now.retired :
                         now.retired[i].job = id /\ now.retired[i].binding # binding
        known == \/ id \in DOMAIN now.announced
                 \/ \E i \in DOMAIN now.retired : now.retired[i].job = id
    IN  /\ handling # <<>>
        /\ \/ /\ state # "authorized"
              /\ handling' = <<>>
              /\ UNCHANGED <<state, ended, session, vardiff, shares, crossed, miner>>
           \/ state = "authorized" /\ ~router.up /\ Close("jobs")
           \/ /\ state = "authorized" /\ router.up
              /\ ~clean /\ id \in DOMAIN now.assignments
              /\ handling' = <<>>
              /\ assignments' = now.assignments /\ announced' = now.announced
              /\ retired' = now.retired /\ lineage' = now.lineage
              /\ UNCHANGED <<state, ended, vardiff, shares, crossed, miner>>
           \/ /\ state = "authorized" /\ router.up
              /\ clean \/ id \notin DOMAIN now.assignments
              /\ \/ /\ conflict \/ (~known /\ Cardinality(DOMAIN now.announced) = MaxAnnounced)
                    /\ Close(IF id \in Retained THEN "assignment" ELSE "job ended")
                 \/ /\ ~conflict /\ (known \/ Cardinality(DOMAIN now.announced) < MaxAnnounced)
                    /\ handling' = <<>>
                    /\ vardiff' = IF id \in DOMAIN now.assignments THEN vardiff ELSE bound
                    /\ assignments' = Put(now.assignments, id, binding)
                    /\ announced' = IF known THEN now.announced ELSE Put(now.announced, id, binding)
                    /\ retired' = now.retired
                    /\ lineage' = (IF clean THEN {} ELSE now.lineage) \cup {id}
                    /\ miner' = Notified(id, clean, SendTarget(clean, AssignedTarget(now.assignments), binding),
                                         binding)
                    /\ crossed' = FALSE
                    /\ UNCHANGED <<state, ended, shares>>
        /\ UNCHANGED environment

-----------------------------------------------------------------------------
(* Requests.  Refusals that neither close the connection nor change it are  *)
(* left out, and those that close it are Disconnect.                        *)

Subscribe ==
    /\ Ready /\ state = "connected"
    /\ state' = "subscribed"
    /\ UNCHANGED <<environment, ended, handling, session, vardiff, shares, crossed, miner>>

\* The credential check is awaited inline, and no update is read meanwhile.
Authorize ==
    /\ Ready /\ state = "subscribed" /\ tickets < MaxTickets
    /\ state' = "authorizing" /\ tickets' = tickets + 1
    /\ UNCHANGED <<environment, ended, handling, session, vardiff, pending, order, crossed, miner>>

\* complete_authorization with a grant; any other result, and a router that is
\* suspended when asked for its current job, is a Disconnect.
Granted ==
    /\ state = "authorizing" /\ router.up
    /\ state' = "authorized"
    /\ handling' = IF CurrentGeneration = NoJob THEN <<>>
                   ELSE <<[kind |-> "activated", job |-> CurrentGeneration, clean |-> TRUE]>>
    /\ UNCHANGED <<environment, ended, session, vardiff, shares, crossed, miner>>

\* A suggestion is answered with the current job's target, or a provisional one.
SuggestTarget ==
    /\ Ready /\ state = "authorized" /\ router.up /\ pending = <<>>
    /\ miner' = [miner EXCEPT !.target =
         IF AssignedTarget(assignments) = {} THEN InitialTarget
         ELSE CHOOSE target \in AssignedTarget(assignments) : TRUE]
    /\ UNCHANGED <<environment, state, ended, handling, session, vardiff, shares, crossed>>

\* The session's own record of an assignment.
AnnouncedBinding(id) ==
    IF id \in DOMAIN announced THEN {announced[id]}
    ELSE {retired[i].binding : i \in {j \in DOMAIN retired : retired[j].job = id}}

\* prepare_submission admits accepted work, and otherwise a Zcash candidate.
Ordinary(id) == ~router.paused /\ id \in Retained
Candidate(id) ==
    /\ id \in router.winners /\ ~Ordinary(id)
    /\ router.paused \/ router.current # NoJob

\* begin_submission.
Submit(id) ==
    /\ Ready /\ state = "authorized"
    /\ Cardinality({t \in DOMAIN pending : pending[t].sample = "none"}) < MaxPending
    /\ tickets < MaxTickets
    /\ Ordinary(id) \/ Candidate(id)
    /\ \E binding \in AnnouncedBinding(id) :
         IF Ordinary(id) /\ (id \notin DOMAIN assignments \/ assignments[id] # binding)
         THEN Close("assignment")
         ELSE /\ tickets' = tickets + 1
              /\ pending' = Put(pending, tickets', [job |-> id, target |-> binding, at |-> clock,
                                                    sample |-> "none",
                                                    candidate |-> Candidate(id),
                                                    told |-> miner.told[id]])
              /\ order' = Append(order, tickets')
              /\ UNCHANGED <<state, ended, handling, session, vardiff, crossed, miner>>
    /\ UNCHANGED environment

\* complete_submission with a result that keeps the connection open; only a fresh
\* acceptance of ordinary work is a sample.
Complete(ticket, fresh) ==
    /\ Ready /\ ticket \in DOMAIN pending /\ pending[ticket].sample = "none"
    /\ \E drained \in Drain(vardiff, order,
           [pending EXCEPT ![ticket].sample =
              IF fresh /\ ~pending[ticket].candidate THEN "yes" ELSE "no"]) :
         IF drained.ok
         THEN /\ vardiff' = drained.controller
              /\ order' = drained.queue
              /\ pending' = Keep([pending EXCEPT ![ticket].sample =
                                    IF fresh /\ ~pending[ticket].candidate THEN "yes" ELSE "no"],
                                 ToSet(drained.queue))
              /\ UNCHANGED <<state, ended, handling, session, tickets, crossed, miner>>
         ELSE Close("clock")
    /\ UNCHANGED environment

\* tick_vardiff runs in the driver's outer loop, where no share is awaited.
TickVardiff ==
    /\ Ready /\ vardiff.revision # 0
    /\ pending = <<>>
    /\ IF clock < vardiff.last
       THEN Close("clock")
       ELSE /\ vardiff' \in Adjusted(vardiff, clock, vardiff.target .. Easiest)
            /\ UNCHANGED <<state, ended, handling, session, shares, crossed, miner>>
    /\ UNCHANGED environment

Next ==
    \/ Environment
    \/ Tick
    \/ Disconnect
    \/ ReceiveUpdate
    \/ Announce
    \/ Subscribe
    \/ Authorize
    \/ Granted
    \/ SuggestTarget
    \/ \E id \in Job : Submit(id)
    \/ \E ticket \in 1 .. MaxTickets, fresh \in BOOLEAN : Complete(ticket, fresh)
    \/ TickVardiff

Spec == Init /\ [][Next]_vars

-----------------------------------------------------------------------------
(* A notice that lets the miner go on with older work (clean_jobs false)    *)
(* comes from the same stretch of compatible work as the notice before it:  *)
(* no clean activation lies between them that the connection was too slow   *)
(* to pass on, whatever pauses, retirements and expiries came in between.   *)
CleanBoundaryIsKept == ~miner.clean => ~miner.crossed

(* A share is judged by the target that the miner was told for its job: the *)
(* binding that the connection holds for an announced or recoverable job,   *)
(* and the one that a share in flight carries to the backend, are those of  *)
(* the last set_target before the job's notify, however often difficulty    *)
(* changed, the job was announced again or retired since.                   *)
SharesUseTheToldTarget ==
    /\ \A id \in DOMAIN assignments : miner.told[id] = assignments[id].target
    /\ \A i \in DOMAIN retired : miner.told[retired[i].job] = retired[i].binding.target
    /\ \A t \in DOMAIN pending : pending[t].told = pending[t].target.target

(* The connection never ends over its own bookkeeping: results that arrive  *)
(* out of order do not move the difficulty clock backwards, and no live job *)
(* is announced twice with different targets, beyond the session's          *)
(* capacity, or admitted without the assignment it was announced with.  (A  *)
(* job that ends between the two reads of the router in apply_job_update    *)
(* may end the connection with it.)                                         *)
NeverEndsOverItsOwnBooks == ended \notin {"clock", "assignment"}

(* The connection's books are the miner's: shares are judged by what the    *)
(* miner was told, and the connection does not fall over the difference.    *)
ConnectionKeepsItsBooks == SharesUseTheToldTarget /\ NeverEndsOverItsOwnBooks
=============================================================================
