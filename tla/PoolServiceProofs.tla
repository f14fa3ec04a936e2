-------------------------- MODULE PoolServiceProofs --------------------------
(***************************************************************************)
(* Proofs about PoolService, for every set of processes, policies and      *)
(* tasks and any number of starts: a process with an actor or a task uses  *)
(* the policies of the deployment, and the namespace is given back only by *)
(* a silent process.                                                       *)
(***************************************************************************)
EXTENDS PoolService, TLAPS

\* The stages before there is an actor, and those where there may be one.
Early == {"down", "prepare", "health", "claim", "unclaim", "reserve", "spawn"}

Late == {"address", "boundary", "tips", "moved", "portal", "renew", "bind",
         "serving", "draining", "stop actor", "release"}

\* The stages that a probe never reaches.
OfRun == {"reserve", "spawn", "renew", "bind", "serving", "draining",
          "stop actor", "release"}

\* The variables that the argument is about keep their types.
Typed ==
    /\ bound \in Policies \union {Unbound}
    /\ stage \in [Processes -> Early \union Late]
    /\ program \in [Processes -> {"run", "preflight"}]
    /\ config \in [Processes -> Policies \union {Unbound}]
    /\ actor \in [Processes -> {"none", "running", "finished"}]
    /\ running \in [Processes -> SUBSET Tasks]

\* What the stage of a process says about the rest of it: beyond the
\* preparation its policies are those of the deployment, an actor comes after
\* the claim and only in the service itself, tasks run only in service and
\* while it drains, and a process that is about to release is silent.
Fits(p) ==
    /\ stage[p] # "down" => config[p] # Unbound
    /\ stage[p] \notin {"down", "prepare"} => config[p] = bound
    /\ actor[p] # "none" => stage[p] \in Late /\ program[p] = "run"
    /\ running[p] # {} => stage[p] \in {"serving", "draining"}
    /\ stage[p] = "release" => actor[p] # "running"
    /\ stage[p] \in OfRun => program[p] = "run"

Inv == Typed /\ \A p \in Processes : Fits(p)

\* A step of one process does not touch the others.
Elsewhere(p) ==
    \A q \in Processes \ {p} :
        /\ stage'[q] = stage[q] /\ program'[q] = program[q]
        /\ config'[q] = config[q] /\ actor'[q] = actor[q]
        /\ running'[q] = running[q]

\* A step of one process leaves the others as they are.
LEMMA OneMoves ==
    ASSUME Inv, NEW p \in Processes, Typed', Elsewhere(p), UNCHANGED bound,
           Fits(p)'
    PROVE  Inv'
  BY DEF Inv, Fits, Elsewhere

\* The process ends.
LEMMA GoneKeeps ==
    ASSUME Inv, NEW p \in Processes, Gone(p), UNCHANGED bound
    PROVE  Inv'
<1>1. Typed' /\ Elsewhere(p)
  BY DEF Inv, Typed, Gone, Move, Elsewhere, Early
<1>2. Fits(p)'
  BY DEF Inv, Typed, Fits, Gone, Move, OfRun
<1> QED
  BY <1>1, <1>2, OneMoves

\* The process only moves on.
LEMMA ProceedKeeps ==
    ASSUME Inv, NEW p \in Processes, NEW from, NEW to \in Early \union Late,
           Proceed(p, from, to),
           to # "down", config[p] # Unbound,
           to # "prepare" => config[p] = bound,
           actor[p] # "none" => to \in Late,
           running[p] # {} => to \in {"serving", "draining"},
           to = "release" => actor[p] # "running",
           to \in OfRun => program[p] = "run"
    PROVE  Inv'
<1>1. Typed' /\ Elsewhere(p) /\ UNCHANGED bound
  BY DEF Inv, Typed, Proceed, Move, Elsewhere, database
<1>2. Fits(p)'
  BY DEF Inv, Typed, Fits, Proceed, Move, database
<1> QED
  BY <1>1, <1>2, OneMoves

\* The steps of a start.
LEMMA GoesKeeps ==
    ASSUME Inv, NEW p \in Processes, Goes(p)
    PROVE  Inv'
<1> USE DEF At
<1>f. Fits(p) /\ Typed
  BY DEF Inv
<1>1. CASE Prepare(p)
  <2>1. stage[p] = "prepare" /\ config[p] = bound
    BY <1>1 DEF Prepare, Proceed, Verified, BoundTo
  <2>2. actor[p] = "none" /\ running[p] = {} /\ config[p] # Unbound
    BY <1>f, <2>1 DEF Fits, Late, OfRun
  <2> QED
    BY <1>1, <2>1, <2>2, ProceedKeeps DEF Prepare, Early, OfRun
<1>2. CASE Health(p)
  <2>1. stage[p] = "health"
    BY <1>2 DEF Health, Proceed
  <2>2. actor[p] = "none" /\ running[p] = {} /\ config[p] # Unbound
        /\ config[p] = bound
    BY <1>f, <2>1 DEF Fits, Late, OfRun
  <2> QED
    BY <1>2, <2>2, ProceedKeeps DEF Health, Early, OfRun
<1>3. CASE Claim(p)
  <2>1. stage[p] = "claim"
    BY <1>3 DEF Claim
  <2>2. Typed' /\ Elsewhere(p) /\ UNCHANGED bound
    BY <1>3, <1>f DEF Claim, Typed, Elsewhere, Move, Early
  <2>3. Fits(p)'
    BY <1>3, <1>f, <2>1 DEF Claim, Typed, Fits, Move, Late, OfRun
  <2> QED
    BY <2>2, <2>3, OneMoves
<1>4. CASE Unclaim(p)
  <2>1. stage[p] = "unclaim"
    BY <1>4 DEF Unclaim
  <2>2. Typed' /\ Elsewhere(p) /\ UNCHANGED bound
    BY <1>4, <1>f DEF Unclaim, Typed, Elsewhere, Move, Late
  <2>3. Fits(p)'
    BY <1>4, <1>f, <2>1 DEF Unclaim, Typed, Fits, Move, Late, OfRun
  <2> QED
    BY <2>2, <2>3, OneMoves
<1>5. CASE Reserve(p)
  <2>1. stage[p] = "reserve"
    BY <1>5 DEF Reserve, Proceed
  <2>2. actor[p] = "none" /\ running[p] = {} /\ config[p] # Unbound
        /\ config[p] = bound /\ program[p] = "run"
    BY <1>f, <2>1 DEF Fits, Late, OfRun
  <2> QED
    BY <1>5, <2>2, ProceedKeeps DEF Reserve, Early, OfRun
<1>6. CASE FailAfterClaim(p) \/ ProbeDone(p)
  BY <1>6, GoneKeeps DEF FailAfterClaim, ProbeDone, database
<1>7. CASE SpawnActor(p)
  <2>1. stage[p] = "spawn"
    BY <1>7 DEF SpawnActor
  <2>2. Typed' /\ Elsewhere(p) /\ UNCHANGED bound
    BY <1>7, <1>f DEF SpawnActor, Typed, Elsewhere, Move, Late, database
  <2>3. Fits(p)'
    BY <1>7, <1>f, <2>1 DEF SpawnActor, Typed, Fits, Move, Late, OfRun, database
  <2> QED
    BY <2>2, <2>3, OneMoves
<1>8. ASSUME NEW from \in Late \ {"serving", "draining"},
             NEW to \in Late \ {"release"}, Proceed(p, from, to),
             to \in OfRun => program[p] = "run"
      PROVE  Inv'
  <2>1. stage[p] = from
    BY <1>8 DEF Proceed
  <2>2. running[p] = {} /\ config[p] # Unbound /\ config[p] = bound
    BY <1>f, <2>1 DEF Fits, Late, OfRun
  <2> QED
    BY <1>8, <2>2, ProceedKeeps DEF Late
<1>9. CASE \/ AddressAuthority(p) \/ ValidateBoundary(p) \/ Boundary(p)
           \/ TipsMoved(p) \/ ComposePortal(p)
  BY <1>8, <1>9 DEF AddressAuthority, ValidateBoundary, Boundary, TipsMoved,
                    ComposePortal, Late, OfRun
<1>10. CASE TryAgain(p)
  <2>1. stage[p] = "moved"
    BY <1>10 DEF TryAgain
  <2>2. Typed' /\ Elsewhere(p) /\ UNCHANGED bound
    BY <1>10, <1>f DEF TryAgain, Typed, Elsewhere, Move, Early, Late, database
  <2>3. Fits(p)'
    BY <1>10, <1>f, <2>1 DEF TryAgain, Typed, Fits, Move, Late, OfRun, database
  <2> QED
    BY <2>2, <2>3, OneMoves
<1>11. CASE Renew(p)
  <2>1. stage[p] = "renew"
    BY <1>11 DEF Renew
  <2>2. Typed' /\ Elsewhere(p) /\ UNCHANGED bound
    BY <1>11, <1>f DEF Renew, Typed, Elsewhere, Move, Late
  <2>3. Fits(p)'
    BY <1>11, <1>f, <2>1 DEF Renew, Typed, Fits, Move, Late, OfRun
  <2> QED
    BY <2>2, <2>3, OneMoves
<1>12. CASE Bind(p)
  <2>1. stage[p] = "bind"
    BY <1>12 DEF Bind
  <2>2. Typed' /\ Elsewhere(p) /\ UNCHANGED bound
    BY <1>12, <1>f DEF Bind, Typed, Elsewhere, Move, Late, database
  <2>3. Fits(p)'
    BY <1>12, <1>f, <2>1 DEF Bind, Typed, Fits, Move, Late, OfRun, database
  <2> QED
    BY <2>2, <2>3, OneMoves
<1>13. CASE FailStart(p)
  BY <1>8, <1>13, GoneKeeps DEF FailStart, Late, database
<1> QED
  BY <1>1, <1>2, <1>3, <1>4, <1>5, <1>6, <1>7, <1>9, <1>10, <1>11, <1>12, <1>13
     DEF Goes

\* The steps of a service, and what others do to a process.
LEMMA ServesKeeps ==
    ASSUME Inv, NEW p \in Processes,
           \/ Stops(p) \/ Maintain(p) \/ ActorEnds(p) \/ Signal(p) \/ Killed(p)
           \/ \E t \in Tasks : TaskEnds(p, t) \/ Drain(p, t)
           \/ \E prog \in {"run", "preflight"}, v \in Policies : Start(p, prog, v)
    PROVE  Inv'
<1> USE DEF At
<1>f. Fits(p) /\ Typed
  BY DEF Inv
<1>1. CASE FirstExit(p) \/ Signal(p)
  <2>1. stage[p] = "serving" /\ Proceed(p, "serving", "draining")
    BY <1>1 DEF FirstExit, Signal, Proceed
  <2>2. config[p] # Unbound /\ config[p] = bound /\ program[p] = "run"
    BY <1>f, <2>1 DEF Fits, OfRun
  <2> QED
    BY <2>1, <2>2, ProceedKeeps DEF Late
<1>2. CASE DrainEnds(p)
  <2>1. stage[p] = "draining"
    BY <1>2 DEF DrainEnds
  <2>2. Typed' /\ Elsewhere(p) /\ UNCHANGED bound
    BY <1>2, <1>f DEF DrainEnds, Typed, Elsewhere, Move, Late, database
  <2>3. Fits(p)'
    BY <1>2, <1>f, <2>1 DEF DrainEnds, Typed, Fits, Move, Late, OfRun, database
  <2> QED
    BY <2>2, <2>3, OneMoves
<1>3. CASE StopActor(p)
  <2>1. stage[p] = "stop actor"
    BY <1>3 DEF StopActor
  <2>2. Typed' /\ Elsewhere(p) /\ UNCHANGED bound
    BY <1>3, <1>f DEF StopActor, Typed, Elsewhere, Move, Late, database
  <2>3. program[p] = "run"
    BY <1>f, <2>1 DEF Fits, OfRun
  <2>4. Fits(p)'
    BY <1>3, <1>f, <2>1, <2>3 DEF StopActor, Typed, Fits, Move, Late, OfRun, database
  <2> QED
    BY <2>2, <2>4, OneMoves
<1>4. CASE Release(p) \/ Killed(p)
  BY <1>4, GoneKeeps DEF Release, Killed, database
<1>5. CASE Maintain(p) \/ \E t \in Tasks : TaskEnds(p, t) \/ Drain(p, t)
  <2>1. PICK t : running' = [running EXCEPT ![p] = running[p] \ {t}]
                 \/ UNCHANGED running
    BY <1>5 DEF Maintain, TaskEnds, Drain
  <2>2. UNCHANGED <<bound, stage, program, config, actor>>
        /\ running[p] # {}
    BY <1>5 DEF Maintain, TaskEnds, Drain, database
  <2>3. Typed' /\ Elsewhere(p)
    BY <1>f, <2>1, <2>2 DEF Typed, Elsewhere
  <2>4. Fits(p)'
    BY <1>f, <2>2 DEF Fits
  <2> QED
    BY <2>2, <2>3, <2>4, OneMoves
<1>6. CASE ActorEnds(p)
  <2>1. /\ UNCHANGED <<bound, stage, program, config, running>>
        /\ actor[p] = "running" /\ actor' = [actor EXCEPT ![p] = "finished"]
    BY <1>6 DEF ActorEnds, database
  <2>2. Typed' /\ Elsewhere(p)
    BY <1>f, <2>1 DEF Typed, Elsewhere
  <2>3. Fits(p)'
    BY <1>f, <2>1 DEF Typed, Fits
  <2> QED
    BY <2>1, <2>2, <2>3, OneMoves
<1>7. ASSUME NEW prog \in {"run", "preflight"}, NEW v \in Policies,
             Start(p, prog, v)
      PROVE  Inv'
  <2>1. stage[p] = "down"
    BY <1>7 DEF Start
  <2>2. Typed' /\ Elsewhere(p) /\ UNCHANGED bound
    BY <1>7, <1>f DEF Start, Typed, Elsewhere, Move, Early, database
  <2>3. Fits(p)'
    BY <1>7, <1>f, <2>1, ServiceAssumption
       DEF Start, Typed, Fits, Move, Late, OfRun, database
  <2> QED
    BY <2>2, <2>3, OneMoves
<1> QED
  BY <1>1, <1>2, <1>3, <1>4, <1>5, <1>6, <1>7 DEF Stops
-----------------------------------------------------------------------------
(* The theorems *)

\* No process runs at first.
LEMMA InitImpliesInv == Init => Inv
  BY DEF Init, Inv, Typed, Fits, Early, OfRun

\* Every step of the service keeps the invariant.
LEMMA InvIsInductive == Inv /\ [Next]_vars => Inv'
<1> SUFFICES ASSUME Inv, [Next]_vars PROVE Inv'
  OBVIOUS
<1>1. ASSUME NEW v \in Policies, Migrate(v) PROVE Inv'
  <2>1. /\ UNCHANGED <<stage, program, config, actor, running>>
        /\ bound' = IF bound = Unbound THEN v ELSE bound
    BY <1>1 DEF Migrate
  <2>2. Typed'
    BY <2>1 DEF Inv, Typed
  <2>3. ASSUME NEW p \in Processes PROVE Fits(p)'
    <3>1. Fits(p)
      BY DEF Inv
    <3>2. stage[p] \notin {"down", "prepare"} => bound # Unbound
      BY <3>1 DEF Fits
    <3> QED
      BY <2>1, <3>1, <3>2 DEF Fits
  <2> QED
    BY <2>2, <2>3 DEF Inv
<1>2. CASE Tick \/ UNCHANGED vars
  <2>1. UNCHANGED <<bound, stage, program, config, actor, running>>
    BY <1>2 DEF Tick, vars
  <2> QED
    BY <2>1 DEF Inv, Typed, Fits
<1>3. ASSUME NEW p \in Processes,
             \/ \E prog \in {"run", "preflight"}, v \in Policies : Start(p, prog, v)
             \/ Goes(p) \/ Stops(p) \/ Maintain(p) \/ ActorEnds(p)
             \/ \E t \in Tasks : TaskEnds(p, t) \/ Drain(p, t)
             \/ Signal(p) \/ Killed(p)
      PROVE  Inv'
  BY <1>3, GoesKeeps, ServesKeeps
<1> QED
  BY <1>1, <1>2, <1>3 DEF Next

\* A process whose invariant holds serves under the bound policies.
LEMMA InvImpliesBound == Inv => ServesTheBoundPolicies
  BY DEF Inv, Fits, ServesTheBoundPolicies, Late

\* Whoever gives the namespace back has neither tasks nor a running actor: it
\* has not spawned one yet, or is a probe, or has stopped it.
LEMMA ReleaseIsSilent ==
    ASSUME Inv, [Next]_vars, NEW p \in Processes, owner = p,
           owner' = NoProcess
    PROVE  running[p] = {} /\ actor[p] # "running"
<1>1. owner # NoProcess /\ owner' # owner
  BY ServiceAssumption
<1>2. \A q \in Processes : owner' # q
  BY ServiceAssumption
<1>3. Fits(p)
  BY DEF Inv
<1>4. PICK q \in Processes :
        \/ Unclaim(q) \/ FailAfterClaim(q) \/ Release(q)
  <2>1. ASSUME NEW q \in Processes, Goes(q)
        PROVE  Unclaim(q) \/ FailAfterClaim(q)
    BY <1>1, <1>2, <2>1
       DEF Goes, Prepare, Health, Claim, Claimed, Reserve, SpawnActor,
           AddressAuthority, ValidateBoundary, Boundary, TipsMoved, TryAgain,
           ComposePortal, ProbeDone, Renew, Bind, FailStart, Proceed, database
  <2>2. ASSUME NEW q \in Processes, Stops(q) PROVE Release(q)
    BY <1>1, <2>2 DEF Stops, FirstExit, DrainEnds, StopActor, Proceed, database
  <2>3. ASSUME NEW q \in Processes,
               \/ \E prog \in {"run", "preflight"}, v \in Policies : Start(q, prog, v)
               \/ Maintain(q) \/ ActorEnds(q)
               \/ \E t \in Tasks : TaskEnds(q, t) \/ Drain(q, t)
               \/ Signal(q) \/ Killed(q)
        PROVE  FALSE
    BY <1>1, <2>3 DEF Start, Maintain, ActorEnds, TaskEnds, Drain, Signal,
                      Killed, Proceed, database
  <2>4. ~(\E v \in Policies : Migrate(v)) /\ ~Tick /\ ~UNCHANGED vars
    BY <1>1 DEF Migrate, Tick, vars
  <2> QED
    BY <2>1, <2>2, <2>3, <2>4 DEF Next
<1>5. q = p
  BY <1>1, <1>4 DEF Unclaim, FailAfterClaim, Release, Released, Owns
<1>6. stage[p] \in {"unclaim", "reserve", "spawn", "release"}
  BY <1>4, <1>5 DEF Unclaim, FailAfterClaim, Release, At
<1> QED
  BY <1>3, <1>6 DEF Fits, Late

\* A service is one by right (ServesByRight): whatever migrations, probes,
\* starts, kills and expiries of the claim interleave, a process with a share
\* actor or a task uses the policies that the deployment is bound to, and the
\* namespace is given back only by a process whose tasks have ended and whose
\* share actor does not run.
THEOREM ServiceIsByRight == Spec => ServesByRight
<1>1. Inv /\ [Next]_vars =>
        [\A p \in Processes :
           (owner = p /\ owner' = NoProcess) =>
               (running[p] = {} /\ actor[p] # "running")]_vars
  BY ReleaseIsSilent
<1>2. Spec => []Inv
  BY InitImpliesInv, InvIsInductive, PTL DEF Spec
<1>3. Spec => []ServesTheBoundPolicies
  BY <1>2, InvImpliesBound, PTL
<1>4. Spec => ReleasedMeansSilent
  BY <1>1, <1>2, PTL DEF Spec, ReleasedMeansSilent
<1> QED
  BY <1>3, <1>4 DEF ServesByRight
=============================================================================
