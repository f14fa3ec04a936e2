----------------------------- MODULE PoolService -----------------------------
(***************************************************************************)
(* The public process from start to end: migration binds the launch        *)
(* policies; the probe that the service manager runs first claims the      *)
(* nonce namespace and gives it back; the service replays the journal,     *)
(* claims the namespace, starts the share actor, checks its authorities,   *)
(* renews the claim and opens its listeners last.  Then it waits for a     *)
(* signal or for the first part that ends, drains the others, stops the    *)
(* actor, and releases the namespace last of all.                          *)
(*                                                                         *)
(* The replay is the subject of JournalDelivery, the ranges of prefixes of *)
(* NonceNamespace, the actor of ShareActor, the sessions of EdgeSessions.  *)
(* The service manager and the operator are external: they start programs  *)
(* and kill them.                                                          *)
(***************************************************************************)
EXTENDS Naturals

CONSTANTS
    Processes,
    NoProcess,
    Policies,   \* launch policies that an operator may configure
    Unbound,
    Tasks,      \* the tasks of run_started; "nonce" keeps the namespace
    Lease,      \* NONCE_NAMESPACE_LEASE_DURATION, in ticks
    Attempts,   \* PREFLIGHT_PAYOUT_AUTHORITY_ATTEMPTS
    MaxStarts   \* bound: programs started

ASSUME ServiceAssumption ==
    /\ NoProcess \notin Processes /\ Unbound \notin Policies
    /\ "nonce" \in Tasks
    /\ {Lease, Attempts, MaxStarts} \subseteq Nat \ {0}

VARIABLES
    bound,    \* the chain_policies of the deployment
    owner,    \* whose claim the namespace row holds
    left,     \* ticks until that claim expires
    stage,    \* where each process is
    program,  \* "preflight" or "run"
    config,   \* the policies each process is configured with
    tries,    \* attempts left of a probe
    holds,    \* the process knows the claim in the row as its own
    actor,    \* "none", "running", "finished": the share actor
    running,  \* tasks of the process
    starts

vars == <<bound, owner, left, stage, program, config, tries, holds, actor,
          running, starts>>

database == <<bound, owner, left>>

Init ==
    /\ bound = Unbound /\ owner = NoProcess /\ left = 0
    /\ stage = [p \in Processes |-> "down"]
    /\ program = [p \in Processes |-> "run"]
    /\ config = [p \in Processes |-> Unbound]
    /\ tries = [p \in Processes |-> 0]
    /\ holds = [p \in Processes |-> FALSE]
    /\ actor = [p \in Processes |-> "none"]
    /\ running = [p \in Processes |-> {}]
    /\ starts = 0

At(p, s) == stage[p] = s

Move(p, s) == stage' = [stage EXCEPT ![p] = s]

\* The process is gone, and with it everything it had in memory.
Gone(p) ==
    /\ Move(p, "down")
    /\ config' = [config EXCEPT ![p] = Unbound]
    /\ program' = [program EXCEPT ![p] = "run"]
    /\ tries' = [tries EXCEPT ![p] = 0]
    /\ holds' = [holds EXCEPT ![p] = FALSE]
    /\ actor' = [actor EXCEPT ![p] = "none"]
    /\ running' = [running EXCEPT ![p] = {}]

\* A step that only moves on.
Proceed(p, from, to) ==
    /\ At(p, from) /\ Move(p, to)
    /\ UNCHANGED <<database, program, config, tries, holds, actor, running,
                   starts>>
-----------------------------------------------------------------------------
(* The namespace row *)

Live == owner # NoProcess /\ left > 0

Owns(p) == holds[p] /\ owner = p /\ left > 0

\* claim_nonce_namespace
Claimed(p) ==
    /\ ~Live
    /\ owner' = p /\ left' = Lease
    /\ holds' = [holds EXCEPT ![p] = TRUE]

\* release_nonce_namespace; the database may fail, and a claim that is not in
\* force any more cannot be released.
Released(p) ==
    \/ Owns(p) /\ owner' = NoProcess /\ left' = 0
    \/ UNCHANGED <<owner, left>>
-----------------------------------------------------------------------------
(* Migration *)

\* chain_policy read and compared.
BoundTo(v) == bound = v

\* bind_zero_fee_launch_policies: insert if absent, then compare.
Migrate(v) ==
    /\ bound' = IF bound = Unbound THEN v ELSE bound
    /\ UNCHANGED <<owner, left, stage, program, config, tries, holds, actor,
                   running, starts>>

\* verify_zero_fee_launch_policies; an absent row is no match either.
Verified(p) == BoundTo(config[p])
-----------------------------------------------------------------------------
(* Start *)

\* External: the service manager starts a program.
Start(p, prog, v) ==
    /\ At(p, "down") /\ starts < MaxStarts
    /\ starts' = starts + 1
    /\ Move(p, "prepare")
    /\ program' = [program EXCEPT ![p] = prog]
    /\ config' = [config EXCEPT ![p] = v]
    /\ tries' = [tries EXCEPT ![p] = Attempts]
    /\ UNCHANGED <<database, holds, actor, running>>

\* prepare: database, identity and policies, replay, snapshot with a current
\* job, targets.  Any of them may fail.
Prepare(p) ==
    /\ Verified(p)
    /\ Proceed(p, "prepare",
               IF program[p] = "run" THEN "claim" ELSE "health")

\* prepare_readiness_attempt: a healthy backend and no event since the
\* snapshot, or the whole preparation again.
Health(p) == Proceed(p, "health", "claim") \/ Proceed(p, "health", "prepare")

Claim(p) ==
    /\ At(p, "claim")
    /\ Claimed(p)
    /\ Move(p, IF program[p] = "run" THEN "reserve" ELSE "unclaim")
    /\ UNCHANGED <<bound, program, config, tries, actor, running, starts>>

\* bootstrap::preflight gives the claim back before anything uses it.
Unclaim(p) ==
    /\ At(p, "unclaim")
    /\ Owns(p) /\ owner' = NoProcess /\ left' = 0
    /\ holds' = [holds EXCEPT ![p] = FALSE]
    /\ Move(p, "address")
    /\ UNCHANGED <<bound, program, config, tries, actor, running, starts>>

Reserve(p) == Owns(p) /\ Proceed(p, "reserve", "spawn")

\* fail_after_nonce_claim: a failed reservation or spawn releases the claim.
FailAfterClaim(p) ==
    /\ stage[p] \in {"reserve", "spawn"}
    /\ Released(p) /\ Gone(p)
    /\ UNCHANGED <<bound, starts>>

SpawnActor(p) ==
    /\ At(p, "spawn") /\ Move(p, "address")
    /\ actor' = [actor EXCEPT ![p] = "running"]
    /\ UNCHANGED <<database, program, config, tries, holds, running, starts>>

AddressAuthority(p) == Proceed(p, "address", "boundary")

\* validate_probe_only_payout_configuration
ValidateBoundary(p) == Proceed(p, "boundary", "tips")

\* build_probe_only_payout_boundary: both nodes' tips are those of the current
\* job; ...
Boundary(p) == Proceed(p, "tips", "portal")

\* ... verify_backend_authority finds that they moved meanwhile, ...
TipsMoved(p) == tries[p] > 1 /\ Proceed(p, "tips", "moved")

\* ... and everything is observed again, by a probe from the preparation on.
TryAgain(p) ==
    /\ At(p, "moved")
    /\ tries' = [tries EXCEPT ![p] = tries[p] - 1]
    /\ Move(p, IF program[p] = "run" THEN "boundary" ELSE "prepare")
    /\ UNCHANGED <<database, program, config, holds, actor, running, starts>>

\* The read model is refreshed and the portal composed; ...
ComposePortal(p) == program[p] = "run" /\ Proceed(p, "portal", "renew")

\* ... with that a probe is done.
ProbeDone(p) ==
    /\ program[p] = "preflight" /\ At(p, "portal")
    /\ Gone(p)
    /\ UNCHANGED <<database, starts>>

\* renew_nonce_namespace right before binding.
Renew(p) ==
    /\ At(p, "renew") /\ Owns(p)
    /\ left' = Lease
    /\ Move(p, "bind")
    /\ UNCHANGED <<bound, owner, program, config, tries, holds, actor,
                   running, starts>>

\* Both listeners, then the tasks.
Bind(p) ==
    /\ At(p, "bind") /\ Move(p, "serving")
    /\ running' = [running EXCEPT ![p] = Tasks]
    /\ UNCHANGED <<database, program, config, tries, holds, actor, starts>>

\* A start that fails: before the claim, and in every probe, the process just
\* ends; with the actor running it is shut down first.
FailStart(p) ==
    \/ /\ \/ stage[p] \in {"prepare", "health", "claim", "unclaim"}
          \/ /\ program[p] = "preflight"
             /\ stage[p] \in {"address", "boundary", "tips", "portal"}
       /\ Gone(p)
       /\ UNCHANGED <<database, starts>>
    \/ /\ program[p] = "run"
       /\ \E s \in {"address", "boundary", "tips", "portal", "renew", "bind"} :
            Proceed(p, s, "stop actor")
-----------------------------------------------------------------------------
(* Service *)

\* maintain_nonce_namespace renews, and ends when the claim is lost.
Maintain(p) ==
    /\ stage[p] = "serving" /\ "nonce" \in running[p]
    /\ IF Owns(p)
       THEN left' = Lease /\ UNCHANGED running
       ELSE /\ running' = [running EXCEPT ![p] = @ \ {"nonce"}]
            /\ UNCHANGED left
    /\ UNCHANGED <<bound, owner, stage, program, config, tries, holds, actor,
                   starts>>

\* A task ends by itself, with an error or not.
TaskEnds(p, t) ==
    /\ At(p, "serving") /\ t \in running[p]
    /\ running' = [running EXCEPT ![p] = @ \ {t}]
    /\ UNCHANGED <<database, stage, program, config, tries, holds, actor,
                   starts>>

\* The share actor ends: the backend is gone or not to be trusted.
ActorEnds(p) ==
    /\ actor[p] = "running"
    /\ actor' = [actor EXCEPT ![p] = "finished"]
    /\ UNCHANGED <<database, stage, program, config, tries, holds, running,
                   starts>>

\* A plausible bug: only the tasks of the set are awaited.
FirstExitOfTasks(p) ==
    /\ running[p] # Tasks
    /\ Proceed(p, "serving", "draining")

\* The select of run_started: a task ended, or the share router was seen
\* finished by the poll.
FirstExit(p) ==
    /\ running[p] # Tasks \/ actor[p] = "finished"
    /\ Proceed(p, "serving", "draining")

\* External: SIGTERM or SIGINT.
Signal(p) == Proceed(p, "serving", "draining")

\* Every task sees the shutdown flag; the edge drains its sessions first.
Drain(p, t) ==
    /\ At(p, "draining") /\ t \in running[p]
    /\ running' = [running EXCEPT ![p] = @ \ {t}]
    /\ UNCHANGED <<database, stage, program, config, tries, holds, actor,
                   starts>>

\* A plausible bug: what does not drain in time is left behind.
DrainEndsHoping(p) == Proceed(p, "draining", "stop actor")

\* All drained; or the time is up, and the rest is aborted and joined.
DrainEnds(p) ==
    /\ At(p, "draining") /\ Move(p, "stop actor")
    /\ running' = [running EXCEPT ![p] = {}]
    /\ UNCHANGED <<database, program, config, tries, holds, actor, starts>>

\* shutdown_bootstrap: the actor takes the marker after what was queued, or is
\* aborted when its time is up; ...
StopActor(p) ==
    /\ At(p, "stop actor") /\ Move(p, "release")
    /\ actor' = [actor EXCEPT ![p] = "finished"]
    /\ UNCHANGED <<database, program, config, tries, holds, running, starts>>

\* ... then the namespace is released, whatever came before.
Release(p) ==
    /\ At(p, "release")
    /\ Released(p) /\ Gone(p)
    /\ UNCHANGED <<bound, starts>>
-----------------------------------------------------------------------------
\* External: the process is killed.
Killed(p) ==
    /\ ~At(p, "down")
    /\ Gone(p)
    /\ UNCHANGED <<database, starts>>

Tick ==
    /\ left > 0
    /\ left' = left - 1
    /\ UNCHANGED <<bound, owner, stage, program, config, tries, holds, actor,
                   running, starts>>

\* The steps that a process takes by itself.
Goes(p) ==
    \/ Prepare(p) \/ Health(p) \/ Claim(p) \/ Unclaim(p) \/ Reserve(p)
    \/ FailAfterClaim(p) \/ SpawnActor(p) \/ AddressAuthority(p)
    \/ ValidateBoundary(p) \/ Boundary(p) \/ TipsMoved(p) \/ TryAgain(p)
    \/ ComposePortal(p) \/ ProbeDone(p)
    \/ Renew(p) \/ Bind(p) \/ FailStart(p)

\* The steps of the main task once it serves, all bounded by timeouts.
Stops(p) == FirstExit(p) \/ DrainEnds(p) \/ StopActor(p) \/ Release(p)

Next ==
    \/ \E v \in Policies : Migrate(v)
    \/ \E p \in Processes :
         \/ \E prog \in {"run", "preflight"}, v \in Policies : Start(p, prog, v)
         \/ Goes(p) \/ Stops(p) \/ Maintain(p) \/ ActorEnds(p)
         \/ \E t \in Tasks : TaskEnds(p, t) \/ Drain(p, t)
         \/ Signal(p) \/ Killed(p)
    \/ Tick

Spec == Init /\ [][Next]_vars
-----------------------------------------------------------------------------
\* The namespace is given back only by a silent process: when a release lets
\* a successor in at once (rather than after the lease), no task of the old
\* process runs, so no session of it can still hand out a prefix or submit a
\* share, and its share actor is not running.
ReleasedMeansSilent ==
    [][\A p \in Processes :
         (owner = p /\ owner' = NoProcess) =>
             (running[p] = {} /\ actor[p] # "running")]_vars

\* Whoever serves, or has started its actor, uses the policies that the
\* deployment is bound to, however migrations with different configurations
\* and starts interleave.
ServesTheBoundPolicies ==
    \A p \in Processes :
        (actor[p] # "none" \/ running[p] # {}) => config[p] = bound

Broken(p) ==
    At(p, "serving") /\ (running[p] # Tasks \/ actor[p] = "finished")

\* No part of the service dies alone: when a task or the share actor of a
\* serving process ends, the whole process ends.
BrokenServiceStops ==
    \A p \in Processes : Broken(p) ~> At(p, "down")

\* A process serves only under the bound policies, and gives the namespace back
\* only when it is silent.
ServesByRight == []ServesTheBoundPolicies /\ ReleasedMeansSilent
=============================================================================
