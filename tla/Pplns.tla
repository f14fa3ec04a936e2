------------------------------- MODULE Pplns -------------------------------
(***************************************************************************)
(* `allocate_pplns` of wcash-pool-store: the newest shares are taken until *)
(* the work window is full, the last one only in part, and the reward that *)
(* the pool fee leaves is apportioned over the accounts by the work taken  *)
(* from each.  A share is [account, work]; sequences are newest first.     *)
(* The apportionment is the one of FeeSplit: floors, then the left-over    *)
(* zat by descending remainder, ties by account identifier.                *)
(***************************************************************************)
EXTENDS FeeSplit, Sequences

BasisPoints == 10000

\* What one turn of the selection loop takes of a share.
Take(work, remaining) == Smaller(work, remaining)

\* by_account when the loop ends: left[i] of the window remains after the
\* first i shares.
SelectedWork(newestFirst, window) ==
    LET left[i \in 0..Len(newestFirst)] ==
            IF i = 0 THEN window
            ELSE LET before == left[i - 1]
                 IN  before - Smaller(newestFirst[i].work, before)
        taken == [i \in DOMAIN newestFirst |->
                    Take(newestFirst[i].work, left[i - 1])]
        Of(a) == {i \in DOMAIN newestFirst :
                    newestFirst[i].account = a /\ taken[i] > 0}
        selected == {newestFirst[i].account :
                        i \in {j \in DOMAIN newestFirst : taken[j] > 0}}
    IN  [a \in selected |-> MapThenSumSet(LAMBDA i: taken[i], Of(a))]

\* The fee is rounded down; the miners get all the rest.
RewardParts(reward, bps) ==
    LET fee == (reward * bps) \div BasisPoints
    IN  [fee |-> fee, miners |-> reward - fee]

\* A plausible bug: left-over zat go by account identifier alone.
ApportionByAccount(quantity, work) ==
    LET floors == Floored(quantity, work)
        leftover == quantity - Total(floors)
    IN  [a \in DOMAIN work |->
            floors[a] + IF Cardinality({k \in DOMAIN work : k < a}) < leftover
                        THEN 1 ELSE 0]

Apportion(quantity, work) == LargestRemainder(quantity, work)

\* The allocation plan of one reward; newestFirst is not empty.
AllocatePplns(newestFirst, window, reward, bps) ==
    LET parts == RewardParts(reward, bps)
    IN  [fee |-> parts.fee,
         amount |-> Apportion(parts.miners, SelectedWork(newestFirst, window))]
=============================================================================
