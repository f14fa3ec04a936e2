------------------------------ MODULE MCPortal ------------------------------
(***************************************************************************)
(* What a miner meets in the portal, on small instances: access to the     *)
(* account, the pages and figures it shows, and the payout settings that a *)
(* draft must use.  The parts have no state in common, so a behaviour is   *)
(* one of one part, and the other parts stay at their initial state.       *)
(***************************************************************************)
EXTENDS PortalAccess, TLC

CONSTANTS r1, r2, t1, t2

VARIABLES
    part,
    rows, walk, now, refresh, overview, activity,
    settings, due, owed, paid, lock, draft, batch, before

\* Three rows of three kinds, one to a page; buckets of two ticks, a day of
\* three, and time enough for a sample to leave the chart.
Views == INSTANCE PortalViews WITH
    MaxRows <- 3, Limit <- 1, Bucket <- 2, Day <- 3, MaxTime <- 4

\* Two accounts, each with up to two revisions, two outputs in a batch.
Payouts == INSTANCE PayoutDestinations WITH
    rows <- settings, Accounts <- 1 .. 2, MaxRevisions <- 2, MaxOutputs <- 2,
    Transparent <- TRUE,
    Preferences <- [kind : {"ironwood", "transparent"}, automatic : BOOLEAN]

ASSUME InstancesAssumption ==
    Views!ViewsAssumption /\ Payouts!DestinationsAssumption

viewsVars == <<rows, walk, now, refresh, overview, activity>>
payoutsVars == <<settings, due, owed, paid, lock, draft, batch, before>>

InitAll ==
    /\ part \in {"access", "views", "payouts"}
    /\ Init /\ Views!Init /\ Payouts!Init

NextAll ==
    \/ part = "access" /\ Next /\ UNCHANGED <<part, viewsVars, payoutsVars>>
    \/ part = "views" /\ Views!Next /\ UNCHANGED <<part, vars, payoutsVars>>
    \/ part = "payouts" /\ Payouts!Next /\ UNCHANGED <<part, vars, viewsVars>>

SpecAll == InitAll /\ [][NextAll]_<<part, vars, viewsVars, payoutsVars>>

\* Requests and session tokens are only compared.
Interchangeable == Permutations(Requests) \cup Permutations(Tokens)
-----------------------------------------------------------------------------
\* PortalViews: pages and figures are complete.
ViewsAreComplete == Views!ViewsAreComplete

\* PayoutDestinations: a draft pays to the newest settings that apply.
DraftsUseTheNewest == Payouts!DraftsUseTheNewest
=============================================================================
