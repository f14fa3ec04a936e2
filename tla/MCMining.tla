------------------------------ MODULE MCMining ------------------------------
(***************************************************************************)
(* What a miner meets at the edge, on small instances: one Stratum         *)
(* connection with its work and shares, the sessions of the listener, and  *)
(* the arithmetic of share targets.  They have no state in common, so a    *)
(* behaviour is one of one part, and the other parts stay at an initial    *)
(* state.                                                                  *)
(***************************************************************************)
EXTENDS MiningConnection, TLC

CONSTANTS c1, c2, c3, a1, a2

VARIABLES
    part,
    mode, enabled, pc, source, claim, grant, buffer, due, free, counts,
    hashing, tracked, connections, stopping,
    target, multiplier, divisor, product, carry, bit, remainder, quotient,
    overflow, result

\* The hardest allowed share target moves with the tips.
MovingWork == {[tips |-> 1, floor |-> 1], [tips |-> 2, floor |-> 2]}

\* Three connections from two addresses against two permits; four workers
\* against three tracked ones, so that the table evicts.
Edge == INSTANCE EdgeSessions WITH
    Conns <- {c1, c2, c3}, Sources <- {a1, a2}, Workers <- 1 .. 4,
    MaxMiners <- 2, MaxPerSource <- 1, MaxTracked <- 3, Slots <- 1, Burst <- 1

\* Limbs of two bits: every input fits.
Scaling == INSTANCE TargetScaling WITH LimbBits <- 2

ASSUME InstancesAssumption ==
    ConnectionAssumption /\ Edge!EdgeAssumption /\ Scaling!LimbAssumption

edgeVars == <<mode, enabled, pc, source, claim, grant, buffer, due, free,
              counts, hashing, tracked, connections, stopping>>
scalingVars == <<target, multiplier, divisor, product, carry, bit, remainder,
                 quotient, overflow, result>>

allVars == <<part, vars, edgeVars, scalingVars>>

InitAll ==
    /\ part \in {"connection", "edge", "scaling"}
    /\ Init /\ Edge!Init /\ Scaling!Init
    /\ part # "edge" => mode = "token"
    /\ part # "scaling" => target = 1 /\ multiplier = 0 /\ divisor = 1

NextAll ==
    \/ /\ part = "connection" /\ Next
       /\ UNCHANGED <<part, edgeVars, scalingVars>>
    \/ /\ part = "edge" /\ Edge!Next
       /\ UNCHANGED <<part, vars, scalingVars>>
    \/ /\ part = "scaling" /\ Scaling!Next
       /\ UNCHANGED <<part, vars, edgeVars>>

SpecAll == InitAll /\ [][NextAll]_allVars

Interchangeable == Permutations({c1, c2, c3}) \union Permutations({a1, a2})
-----------------------------------------------------------------------------
\* EdgeSessions: permits, counts and telemetry match the live sessions.
BooksMatchSessions == Edge!BooksMatchSessions

\* TargetScaling: the limb and bit loops compute the exact quotient.
ScalingIsExact == Scaling!ScalingIsExact
=============================================================================
