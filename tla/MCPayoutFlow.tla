---------------------------- MODULE MCPayoutFlow ----------------------------
(***************************************************************************)
(* How payouts make progress, on small instances: the worker's rounds over *)
(* the batches of a chain, the turns that accounts take in batches, and    *)
(* the calls of the wallet program.  They have no state in common, so a    *)
(* behaviour is one of one part, and the other parts stay at their initial *)
(* state.                                                                  *)
(***************************************************************************)
EXTENDS PayoutRounds

VARIABLES
    part,
    rows, due, owed, paid, lock, draft, batch, before,
    pinned, callLock, at, op, child, signed, sent, behind, outcome

\* Two accounts of either receiver kind, and one output in a batch.
Turns == INSTANCE PayoutDestinations WITH
    Accounts <- 1 .. 2, MaxRevisions <- 1, MaxOutputs <- 1,
    Transparent <- TRUE,
    Preferences <- [kind : {"ironwood", "transparent"}, automatic : {TRUE}]

Wallet == INSTANCE WalletTransport WITH lock <- callLock, batch <- outcome

Caller == <<"payer", "observer">>

ASSUME InstancesAssumption ==
    /\ Turns!DestinationsAssumption
    /\ Wallet!Callers = {Caller[1], Caller[2]}

turnsVars == <<rows, due, owed, paid, lock, draft, batch, before>>
walletVars == <<pinned, callLock, at, op, child, signed, sent, behind, outcome>>

allVars == <<part, vars, turnsVars, walletVars>>

InitAll ==
    /\ part \in {"rounds", "turns", "wallet"}
    /\ Init /\ Turns!Init /\ Wallet!Init

\* Steps of one part.
OfRounds(Step) ==
    part = "rounds" /\ Step /\ UNCHANGED <<part, turnsVars, walletVars>>
OfTurns(Step) ==
    part = "turns" /\ Step /\ UNCHANGED <<part, vars, walletVars>>
OfWallet(Step) ==
    part = "wallet" /\ Step /\ UNCHANGED <<part, vars, turnsVars>>

NextAll ==
    OfRounds(Next) \/ OfTurns(Turns!Next) \/ OfWallet(Wallet!Next)

\* The worker drafts, sends and confirms until something interrupts it: a
\* check fails, the draw defers, a batch expires.
Drafting ==
    Turns!Begin \/ Turns!Select \/ Turns!Insert \/ Turns!Send \/ Turns!Confirm
Interrupted == Turns!RollBack \/ Turns!Defer \/ Turns!Expire

\* The service manager restarts the worker, the worker polls, the chain grows
\* and the node forgets orphaned blocks.  The drafting worker goes on, and from
\* some time on nothing interrupts it.  The transport's own thread runs, and
\* its clock reaches the deadline.  A behaviour is one of one part, so one
\* condition may serve several parts.
FairnessAll ==
    /\ WF_allVars(OfRounds(WorkerStep) \/ OfTurns(Drafting))
    /\ \A i \in Batch :
        WF_allVars(\/ OfRounds(Grow(i) \/ Prune(i))
                   \/ OfWallet(Wallet!Runs(Caller[i])))
    /\ <>[][~Interrupted]_turnsVars

SpecAll == InitAll /\ [][NextAll]_allVars /\ FairnessAll
-----------------------------------------------------------------------------
\* PayoutDestinations: an account that stays eligible is paid.
NobodyIsPassedOver == Turns!NobodyIsPassedOver

\* WalletTransport: every call ends, none with a refusal that is not final.
CallsEndInTheTruth == Wallet!CallsEndInTheTruth
=============================================================================
