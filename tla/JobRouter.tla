----------------------------- MODULE JobRouter ------------------------------
(***************************************************************************)
(* The process-global generation authority (wcash-pool-edge, router.rs).   *)
(* It owns the registry, a health pause with a candidate-only exception,   *)
(* the binding to the backend connection whose snapshot it runs on, and a  *)
(* broadcast of lifecycle updates to the miner connections.  Every method  *)
(* is one critical section of the router's mutex and so one step here; the *)
(* one exception is a rejected event, after which apply_event_inner drops  *)
(* the lock and takes it again to suspend.                                 *)
(*                                                                         *)
(* External: the backend connection (its cursor, its received and not yet  *)
(* applied events) and the submission actors, one per connection, each of  *)
(* which holds a SuspendOnDrop guard until it ends.                        *)
(***************************************************************************)
EXTENDS GenerationRegistry

CONSTANTS
  Snapshots,   \* [current, recent] bodies a backend snapshot may carry
  Grace,       \* accept_for values of a superseded job
  Unhealthy,   \* whether the backend ever reports an unhealthy status
  MaxTime,     \* bound: the last instant of the timeline
  MaxSeq,      \* bound: the last journal sequence number
  MaxEpoch,    \* bound: backend connections opened
  MaxQueue,    \* bound: events received and not yet applied
  MaxInFlight  \* bound: unfinished ordinary submissions of one generation

VARIABLES
  registry,          \* RouterState.registry
  health_paused,     \* RouterState.health_paused
  recovery_only,     \* RouterState.recovery_only
  force_clean_jobs,  \* RouterState.force_clean_jobs
  binding,           \* RouterState.connection_binding, as the connection's number
  failing,           \* a rejected event whose apply_event_inner has yet to suspend
  published,         \* the update last broadcast
  clock,             \* MonotonicTimeline::now_ms
  cursor,            \* BackendClient::live_event_cursor of the bound connection
  armed,             \* connections whose actor still holds its SuspendOnDrop guard
  lease,             \* history: the earliest deadline the backend granted each job
  barred,            \* history: jobs the backend excluded from late-winner recovery
  disrupted          \* history: work was withdrawn since the last activation update

flags == <<health_paused, recovery_only, force_clean_jobs>>
environment == <<clock, cursor, armed>>
history == <<lease, barred>>
vars == <<registry, flags, binding, failing, published, environment, history, disrupted>>

Event ==
  [kind : {"activated"}, id : Job, descriptor : Descriptor]
    \cup [kind : {"invalidated"}, id : Job, reason : Reason \ {"superseded"}, accept_for : {0}]
    \cup [kind : {"invalidated"}, id : Job, reason : {"superseded"}, accept_for : Grace]
    \cup [kind : {"closed"}, id : Job]
    \cup [kind : {"journal"}]

ActorLives == binding \in armed /\ ~failing
CursorMatches == registry.last_event_seq = cursor

Publish(update) ==
  /\ published' = update
  /\ disrupted' = (update.kind # "activated")

PublishNothing == UNCHANGED <<published, disrupted>>

\* What the backend promised: an accepted delivery can only shorten a lease.
GrantedBySnapshot(s) ==
  LET jobs == s.current \o s.recent
  IN  [id \in Job |->
         IF \E j \in ToSet(jobs) : j.id = id
         THEN Least(lease[id], s.anchor + (CHOOSE j \in ToSet(jobs) : j.id = id).accept_for)
         ELSE IF id \in Known(registry) THEN 0 ELSE lease[id]]

GrantedByEvent(d) ==
  CASE d.event.kind = "activated" -> [lease EXCEPT ![d.event.id] = Least(@, d.anchor + MaxAge)]
    [] d.event.kind = "invalidated" /\ d.event.id \in Known(registry) ->
         [lease EXCEPT ![d.event.id] =
            IF Graced(d.event) THEN Least(@, d.anchor + d.event.accept_for) ELSE 0]
    [] d.event.kind = "closed" /\ d.event.id \in Known(registry) ->
         [lease EXCEPT ![d.event.id] = 0]
    [] OTHER -> lease

BarredByEvent(d) ==
  IF \/ d.event.kind = "closed"
     \/ d.event.kind = "invalidated" /\ d.event.reason = "zcash_tip_changed"
  THEN barred \cup ({d.event.id} \cap Known(registry))
  ELSE barred

Unbounded == MaxTime + MaxAge + 1  \* above every deadline of the model

\* JobRouter::from_snapshot, which fails the start of the process on a bad snapshot.
Init ==
  /\ \E body \in Snapshots :
       LET s == [seq |-> 0, anchor |-> 0, current |-> body.current, recent |-> body.recent]
           ids == ToSet(Ids(s.current \o s.recent))
       IN  /\ SnapshotFits(NewRegistry, s)
           /\ registry = ApplySnapshot(NewRegistry, s)
           /\ cursor = s.seq
           /\ lease = [id \in Job |-> IF id \in ids THEN registry.entries[id].accept_until
                                      ELSE Unbounded]
  /\ health_paused = FALSE
  /\ recovery_only = FALSE
  /\ force_clean_jobs = FALSE
  /\ binding = 1
  /\ failing = FALSE
  /\ published = [kind |-> "none"]
  /\ clock = 0
  /\ armed = {1}
  /\ barred = {}
  /\ disrupted = FALSE

-----------------------------------------------------------------------------
\* JobRouter::suspend.
SuspendRouter ==
  /\ registry' = Suspend(registry)
  /\ recovery_only' = FALSE
  /\ force_clean_jobs' = TRUE
  /\ Publish([kind |-> "suspended"])
  /\ UNCHANGED <<health_paused, binding, history>>

\* An actor ends and its guard calls suspend_if_bound with its own connection.
SuspendIfBound(epoch) ==
  IF epoch = binding THEN SuspendRouter
  ELSE UNCHANGED <<registry, flags, binding, history>> /\ PublishNothing

DropActor(epoch) ==
  /\ epoch \in armed
  /\ ~failing
  /\ armed' = armed \ {epoch}
  /\ SuspendIfBound(epoch)
  /\ UNCHANGED <<failing, clock, cursor>>

\* recover_from_snapshot, once the failed stream no longer applies events.
RecoverFromSnapshot ==
  /\ ~registry.synchronized
  /\ ~failing
  /\ binding < MaxEpoch
  /\ force_clean_jobs' = TRUE
  /\ recovery_only' = FALSE
  /\ \E body \in Snapshots, seq \in 0 .. MaxSeq, anchor \in 0 .. clock :
       LET s == [seq |-> seq, anchor |-> anchor, current |-> body.current, recent |-> body.recent]
       IN  /\ registry' = ApplySnapshot(registry, s)
           /\ \/ /\ SnapshotFits(registry, s)
                 /\ health_paused' = FALSE
                 /\ binding' = binding + 1
                 /\ armed' = armed \cup {binding + 1}
                 /\ cursor' = s.seq
                 /\ lease' = GrantedBySnapshot(s)
                 /\ barred' = barred \cup (Known(registry) \ ToSet(Ids(s.current \o s.recent)))
                 /\ PublishNothing
              \/ /\ ~SnapshotFits(registry, s)
                 /\ Publish([kind |-> "suspended"])
                 /\ UNCHANGED <<health_paused, binding, armed, cursor, history>>
  /\ UNCHANGED <<failing, clock>>

\* External: the bound connection receives the next event of the journal and
\* queues it; ApplyDelivered chooses what it was and when it arrived.
ReceiveEvent ==
  /\ ActorLives
  /\ cursor < Least(MaxSeq, registry.last_event_seq + MaxQueue)
  /\ cursor' = cursor + 1
  /\ UNCHANGED <<registry, flags, binding, failing, published, clock, armed, history, disrupted>>

HardRetirement(event) ==
  \/ event.kind = "closed"
  \/ event.kind = "invalidated" /\ ~Graced(event)

\* RouterState::update_for, on the registry x the event produced.
Advertised(x, event) == event.kind = "activated" /\ ~health_paused /\ x.current = event.id

PreservesPriorWork(x, event) ==
  \E id \in ToSet(x.recent) : x.entries[id].descriptor = event.descriptor

\* A hard retirement that does not force clean jobs.
AnnounceWithoutForce(x, event) ==
  \/ /\ Advertised(x, event)
     /\ Publish([kind |-> "activated",
                 clean |-> force_clean_jobs \/ ~PreservesPriorWork(x, event)])
     /\ force_clean_jobs' = FALSE
  \/ /\ HardRetirement(event)
     /\ Publish([kind |-> "retired"])
     /\ UNCHANGED force_clean_jobs
  \/ /\ ~Advertised(x, event) /\ ~HardRetirement(event)
     /\ PublishNothing
     /\ UNCHANGED force_clean_jobs

Announce(x, event) ==
  \/ /\ Advertised(x, event)
     /\ Publish([kind |-> "activated",
                 clean |-> force_clean_jobs \/ ~PreservesPriorWork(x, event)])
     /\ force_clean_jobs' = FALSE
  \/ /\ HardRetirement(event)
     /\ Publish([kind |-> "retired"])
     /\ force_clean_jobs' = TRUE
  \/ /\ ~Advertised(x, event) /\ ~HardRetirement(event)
     /\ PublishNothing
     /\ UNCHANGED force_clean_jobs

\* apply_event_inner for the oldest queued event of the bound connection.
ApplyDelivered ==
  /\ ActorLives
  /\ registry.last_event_seq < cursor
  /\ \E event \in Event, anchor \in registry.last_delivery_anchor .. clock :
       LET d == [seq |-> registry.last_event_seq + 1, event |-> event, anchor |-> anchor]
       IN  /\ registry' = ApplyEvent(registry, d, clock)
           /\ \/ /\ EventOk(registry, d, clock)
                 /\ Announce(registry', event)
                 /\ lease' = GrantedByEvent(d)
                 /\ barred' = BarredByEvent(d)
                 /\ UNCHANGED failing
              \/ /\ ~EventOk(registry, d, clock)
                 /\ failing' = TRUE
                 /\ PublishNothing
                 /\ UNCHANGED <<force_clean_jobs, history>>
  /\ UNCHANGED <<health_paused, recovery_only, binding, environment>>

FinishSuspension ==
  /\ failing
  /\ failing' = FALSE
  /\ SuspendRouter
  /\ UNCHANGED environment

-----------------------------------------------------------------------------
Observed == AdvanceClock(registry, clock)

\* pause_for_health: an unsynchronized registry refuses the pause.
PauseForHealth ==
  /\ ActorLives
  /\ Unhealthy
  /\ registry' = Observed
  /\ \/ /\ registry'.synchronized
        /\ recovery_only' = FALSE
        /\ health_paused' = TRUE
        /\ force_clean_jobs' = (force_clean_jobs \/ ~health_paused)
        /\ disrupted' = (disrupted \/ ~health_paused)
     \/ /\ ~registry'.synchronized
        /\ UNCHANGED <<flags, disrupted>>
  /\ UNCHANGED <<binding, failing, published, environment, history>>

\* resume_after_health: announces the current job again, if one is left.
ResumeAfterHealth ==
  /\ ActorLives
  /\ CursorMatches
  /\ registry' = Observed
  /\ recovery_only' = FALSE
  /\ health_paused' = FALSE
  /\ \/ /\ health_paused /\ CurrentAccepting(registry', clock)
        /\ Publish([kind |-> "activated", clean |-> TRUE])
        /\ force_clean_jobs' = FALSE
     \/ /\ ~(health_paused /\ CurrentAccepting(registry', clock))
        /\ PublishNothing
        /\ force_clean_jobs' = (force_clean_jobs \/ health_paused)
  /\ UNCHANGED <<binding, failing, environment, history>>

\* allow_recovery_only_after_health.
AllowRecoveryOnly ==
  /\ ActorLives
  /\ CursorMatches
  /\ health_paused
  /\ registry' = IF Observed.synchronized THEN PruneWinnerRecovery(Observed, clock) ELSE Observed
  /\ recovery_only' = (recovery_only \/ registry'.synchronized)
  /\ UNCHANGED <<health_paused, force_clean_jobs, binding, failing, published, environment,
                 history, disrupted>>

\* A candidate is a detached guard; asking for one only prunes the recovery queue.
CandidateFiltered(x) == IF x.synchronized THEN PruneWinnerRecovery(x, clock) ELSE x

\* prepare_submission of a job the session announced.
PrepareSubmission(id) ==
  /\ IF ~health_paused /\ CanAdmit(Observed, id, clock)
     THEN /\ registry.entries[id].in_flight < MaxInFlight
          /\ registry' = BeginAdmission(Observed, id)
     ELSE registry' = IF (health_paused => recovery_only) /\ id \in Known(registry)
                      THEN CandidateFiltered(Observed)
                      ELSE Observed
  /\ UNCHANGED <<flags, binding, failing, published, environment, history, disrupted>>

\* The backend exchange of an ordinary submission ends and its guard drops.
FinishSubmission(id) ==
  /\ id \in Known(registry)
  /\ registry.entries[id].in_flight > 0
  /\ registry' = DropAdmission(registry, id)
  /\ UNCHANGED <<flags, binding, failing, published, environment, history, disrupted>>

\* prepare_queued_paused_candidate: an ordinary guard is traded for a candidate's.
RefilterQueued(id) ==
  /\ ActorLives
  /\ id \in Known(registry)
  /\ registry.entries[id].in_flight > 0
  /\ registry' = DropAdmission(
       IF (health_paused => recovery_only) /\ CursorMatches
       THEN CandidateFiltered(Observed) ELSE registry, id)
  /\ UNCHANGED <<flags, binding, failing, published, environment, history, disrupted>>

\* current_generation, admissible_job_ids and retained_job_ids observe the time.
Query ==
  /\ registry' = Observed
  /\ UNCHANGED <<flags, binding, failing, published, environment, history, disrupted>>

WinnerRecoveryQuery ==
  /\ registry' = CandidateFiltered(Observed)
  /\ UNCHANGED <<flags, binding, failing, published, environment, history, disrupted>>

\* GenerationRegistry::collect_retired.
Collect ==
  /\ registry' = CollectRetired(registry, clock)
  /\ UNCHANGED <<flags, binding, failing, published, environment, history, disrupted>>

Tick ==
  /\ clock < MaxTime
  /\ clock' = clock + 1
  /\ UNCHANGED <<registry, flags, binding, failing, published, cursor, armed, history, disrupted>>

Next ==
  \/ \E epoch \in armed : DropActor(epoch)
  \/ RecoverFromSnapshot
  \/ ReceiveEvent
  \/ ApplyDelivered
  \/ FinishSuspension
  \/ PauseForHealth
  \/ ResumeAfterHealth
  \/ AllowRecoveryOnly
  \/ \E id \in Job : PrepareSubmission(id) \/ FinishSubmission(id) \/ RefilterQueued(id)
  \/ Query
  \/ WinnerRecoveryQuery
  \/ Collect
  \/ Tick

Spec == Init /\ [][Next]_vars

-----------------------------------------------------------------------------
(* The jobs a submission may be admitted to are exactly the current and the *)
(* recent ones the edge announces, through every expiry, supersession,      *)
(* rejected event and recovery.  An unsynchronized registry admits nothing, *)
(* announces nothing and forwards no late winner.  (begin_admission tests   *)
(* the entry, admissible_job_ids reports the roles: jobs.rs keeps both.)    *)
AdmissionMatchesRoles ==
  LET accepting == {id \in Known(registry) : registry.entries[id].state = "accepting"}
  IN  IF registry.synchronized
      THEN accepting = Roles(registry)
      ELSE accepting = {} /\ Roles(registry) = {} /\ registry.winner_recovery = <<>>

(* No job is accepted beyond the earliest deadline the backend ever granted *)
(* it, however often snapshots and supersessions describe it again, and     *)
(* never after the backend withdrew it or left it out of a snapshot.        *)
LeaseIsNeverExtended ==
  \A id \in Known(registry) :
    registry.entries[id].state = "accepting" => registry.entries[id].accept_until <= lease[id]

(* A job the backend closed, retired on a Zcash tip change, or omitted from *)
(* the snapshot that recovered the stream is never again forwarded as a     *)
(* late-winner candidate; and while current work exists every retained      *)
(* candidate builds on the same Zcash parent.                               *)
RecoveryExcludesBarredJobs ==
  \A id \in ToSet(registry.winner_recovery) :
    /\ id \notin barred
    /\ SameZcashParent(registry, id, clock)

(* The registry stays inside its configured bounds, no job holds two roles  *)
(* and no guard is given back twice, whatever the order of activations,     *)
(* supersessions, snapshots and submissions.                                *)
BoundsHold ==
  /\ \A id \in Known(registry) : registry.entries[id] \in Entry
  /\ Cardinality(Known(registry)) <= MaximumGenerations
  /\ Len(registry.recent) <= MaximumRecent
  /\ Len(registry.winner_recovery) <= MaxRecoveryJobs
  /\ Cardinality(Roles(registry)) =
       Len(registry.recent) + (IF registry.current = NoJob THEN 0 ELSE 1)

(* A generation with an unfinished submission keeps its live resources:     *)
(* collect_retired waits for the last guard, across suspensions, expiries   *)
(* and the snapshots that omit the generation.                              *)
GuardKeepsResources ==
  \A id \in Known(registry) :
    registry.entries[id].in_flight > 0 => registry.entries[id].storage = "live"

(* A known generation is never forgotten, rebound to other work or given a  *)
(* later deadline, and a terminal one never leaves its terminal state.      *)
HistoryIsMonotone ==
  [][\A id \in Known(registry) :
       /\ id \in Known(registry')
       /\ LET old == registry.entries[id]
              new == registry'.entries[id]
          IN  /\ new.descriptor = old.descriptor
              /\ new.accept_until <= old.accept_until
              /\ new.winner_recovery_until = old.winner_recovery_until
              /\ old.state \in Terminal => new.state \in Terminal
              /\ old.state = "closed" => new.state = "closed"
              /\ old.storage = "tombstone" => new.storage = "tombstone"]_vars

(* Candidate-only forwarding exists only inside a health pause of a         *)
(* synchronized stream; a suspension, a resume and a recovery all end it.   *)
RecoveryOnlyInsidePause ==
  recovery_only => health_paused /\ (registry.synchronized \/ failing)

(* Miners are told to abandon older work (clean_jobs) by the first          *)
(* activation after any withdrawal: a hard retirement, a suspension or a    *)
(* health pause, even when several of them overlap.                         *)
CleanAfterDisruption ==
  [][disrupted /\ ~disrupted' => published' = [kind |-> "activated", clean |-> TRUE]]_vars

(* A synchronized router is suspended only by the failure of the connection *)
(* it is bound to; the late end of an earlier connection's actor does not   *)
(* suspend the work of its replacement (suspend_if_bound).                  *)
OnlyOwnerSuspends ==
  [][registry.synchronized /\ ~registry'.synchronized => failing' \/ binding \notin armed']_vars

(* Admission is sound: what may be admitted is what is announced, inside its *)
(* lease and the registry's bounds, and no later event rewrites the history  *)
(* of a job.                                                                 *)
AdmissionIsSound ==
  /\ [](AdmissionMatchesRoles /\ LeaseIsNeverExtended /\ BoundsHold)
  /\ HistoryIsMonotone

(* Late-winner recovery stays inside its limits and takes no resource from   *)
(* under a submission: the three promises of the registry and the router     *)
(* about a job that is no longer announced.                                  *)
RecoveryIsBounded ==
  /\ RecoveryExcludesBarredJobs
  /\ RecoveryOnlyInsidePause
  /\ GuardKeepsResources

(* An interruption of the work comes from the connection that feeds it, and  *)
(* the miners hear of it with the next work they get.                        *)
DisruptionsAreOrderly == CleanAfterDisruption /\ OnlyOwnerSuspends
=============================================================================
