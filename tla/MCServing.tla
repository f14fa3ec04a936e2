----------------------------- MODULE MCServing ------------------------------
(***************************************************************************)
(* What the serving process must get done in the end, on small instances:  *)
(* stop when a part of it has died, cut off revoked miners, and settle a   *)
(* miner's difficulty.  The parts have no state in common, so a behaviour  *)
(* is one of one part, and the other parts stay at an initial state.       *)
(***************************************************************************)
EXTENDS PoolService

CONSTANTS p1, p2, c1, c2, a1

VARIABLES
    part,
    mode, enabled, pc, source, claim, grant, buffer, due, free, counts,
    hashing, tracked, connections, stopping,
    target, window, observed, announced, current, power, since

\* Two connections from one address, two workers, two requests in one read.
Edge == INSTANCE EdgeSessions WITH
    Conns <- {c1, c2}, Sources <- {a1}, Workers <- 1 .. 2, MaxMiners <- 2,
    MaxPerSource <- 2, MaxTracked <- 3, Slots <- 1, Burst <- 2

\* A share is wanted every eight ticks, jobs come at least every ten; one
\* miner exceeds the pace at the hardest target, and one has a fitting target
\* in between.
Difficulty == INSTANCE Vardiff WITH
    SampleIntervals <- 4, Window <- 32, Hysteresis <- 25, BasisPoints <- 100,
    Factor <- 4, Hardest <- 4, Easiest <- 64, Initial <- {4, 64},
    Powers <- {8, 160}, TickEvery <- 8, JobEvery <- 10

ASSUME InstancesAssumption ==
    /\ Edge!EdgeAssumption
    /\ Difficulty!VardiffAssumption

edgeVars == <<mode, enabled, pc, source, claim, grant, buffer, due, free,
              counts, hashing, tracked, connections, stopping>>
difficultyVars == <<target, window, observed, announced, current, power, since>>

allVars == <<part, vars, edgeVars, difficultyVars>>

InitAll ==
    /\ part \in {"service", "edge", "difficulty"}
    /\ Init /\ Edge!Init /\ Difficulty!Init
    /\ part # "edge" => mode = "token"
    /\ part # "difficulty" => target = 4 /\ power = 8

\* Steps of one part.
OfService(Step) ==
    part = "service" /\ Step /\ UNCHANGED <<part, edgeVars, difficultyVars>>
OfEdge(Step) ==
    part = "edge" /\ Step /\ UNCHANGED <<part, vars, difficultyVars>>
OfDifficulty(Step) ==
    part = "difficulty" /\ Step /\ UNCHANGED <<part, vars, edgeVars>>

NextAll ==
    OfService(Next) \/ OfEdge(Edge!Next) \/ OfDifficulty(Difficulty!Next)

\* The main task of a service runs: its polls, its drain timeout and its
\* shutdown timeouts come.  At the edge a timer fires, the store answers or its
\* deadline passes, a share is answered or its deadline passes; nothing makes a
\* miner connect or leave.  For the difficulty, time goes on, the driver's
\* timer fires, and the backend keeps issuing jobs.  A behaviour is one of one
\* part, so one condition may serve several parts.
FairnessAll ==
    /\ \A i \in 1 .. 2 :
        LET p == <<p1, p2>>[i]
            c == <<c1, c2>>[i]
        IN  /\ WF_allVars(OfService(Stops(p)) \/ OfEdge(Edge!RevalidationDue(c)))
            /\ WF_allVars(OfEdge(Edge!Revalidate(c)))
            /\ WF_allVars(OfEdge(Edge!Share(c)))
            /\ WF_allVars(OfEdge(Edge!ShareDone(c)))
    /\ WF_allVars(OfDifficulty(Difficulty!Share))
    /\ WF_allVars(OfDifficulty(Difficulty!Tick))
    /\ WF_allVars(OfDifficulty(Difficulty!Pass))
    /\ WF_allVars(OfDifficulty(Difficulty!NewJob /\ since.job = 10))

SpecAll == InitAll /\ [][NextAll]_allVars /\ FairnessAll
-----------------------------------------------------------------------------
\* EdgeSessions: a miner mining as a revoked worker is cut off.
RevokedIsCutOff == Edge!RevokedIsCutOff

\* Vardiff: a miner of steady power ends up with one fitting target.
SteadyMinerSettles == Difficulty!SteadyMinerSettles
=============================================================================
