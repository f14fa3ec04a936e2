----------------------------- MODULE MCDelivery -----------------------------
(***************************************************************************)
(* How a share and its event travel, on small instances: the journal and   *)
(* its projections, and the actor that forwards the shares.  They have no  *)
(* state in common, so a behaviour is one of one part, and the other part  *)
(* stays at its initial state.                                             *)
(***************************************************************************)
EXTENDS JournalDelivery

CONSTANTS w1, w2, s1, m1, m2

VARIABLES
    part,
    phase, queue, open, hold, outcome, deferred, share, gate, grace, beat,
    barrier, prefer

\* Two miners: one can refill the queue for ever, the other is deferred.
Actor == INSTANCE ShareActor WITH
    Miners <- {m1, m2}, NoMiner <- "none", Marker <- "marker",
    QueueSize <- 1, MaxDeferred <- 1, Budget <- 2, Retry <- 1, Grace <- 2,
    Beat <- 2, router <- gate, result <- outcome

ASSUME InstancesAssumption == Actor!ActorAssumption

actorVars == <<phase, queue, open, hold, outcome, deferred, share, gate, grace,
               beat, barrier, prefer>>

allVars == <<part, vars, actorVars>>

InitAll ==
    /\ part \in {"journal", "actor"}
    /\ Init /\ Actor!Init
    /\ part # "actor" => barrier

\* Steps of one part.
OfJournal(Step) == part = "journal" /\ Step /\ UNCHANGED <<part, actorVars>>
OfActor(Step) == part = "actor" /\ Step /\ UNCHANGED <<part, vars>>

NextAll == OfJournal(Next) \/ OfActor(Actor!Next)

\* The service manager restarts processes; the server keeps running, and of the
\* projectors one or the other.  The runtime polls the actor, its exchanges have
\* timeouts, and time passes; the backend answers a health request before the
\* next heartbeat is due, not always but again and again.  Nothing is assumed of
\* the miners, of the journal's growth, of the backend's other answers or of the
\* absence of faults.  A behaviour is one of one part, so one condition may
\* serve both.
FairnessAll ==
    /\ WF_allVars(\/ OfJournal(Advance(Server) \/ Verify \/ Submit)
                  \/ OfActor(Actor!Work))
    /\ WF_allVars(\E w \in Writers : OfJournal(Advance(w) \/ ProjectOne(w)))
    /\ SF_allVars(OfActor(Actor!Tick))
    /\ SF_allVars(OfActor(Actor!PromptHealth))

SpecAll == InitAll /\ [][NextAll]_allVars /\ FairnessAll
-----------------------------------------------------------------------------
\* ShareActor: a pause reaches every share, in hand, deferred or queued.
PausesReachEveryShare == Actor!PausesReachEveryShare

\* ShareActor: every share that entered the queue is answered.
EveryShareIsAnswered == Actor!EveryShareIsAnswered
=============================================================================
