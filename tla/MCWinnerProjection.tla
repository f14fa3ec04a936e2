------------------------- MODULE MCWinnerProjection -------------------------
(***************************************************************************)
(* Rewards on small instances.  A behaviour is one of two parts: "events", *)
(* where the store projects what the backend reports; and "allocation",    *)
(* which is allocate_pplns over bounded inputs: a state is one input, and  *)
(* a step puts one more share behind the oldest one, as a longer share     *)
(* history would.                                                          *)
(***************************************************************************)
EXTENDS WinnerProjection

CONSTANTS
    j1, s1, s2, w1, z1,
    Accounts, MaxWork, MaxShares, MaxWindow, MaxReward, FeeRates

VARIABLES
    part,
    history, window, reward, bps,     \* one input
    work, plan                        \* what the loop selects, and the plan

TwoAccounts == {1, 2}
OneJob == s1 :> j1 @@ s2 :> j1
Miners == s1 :> 1 @@ s2 :> 2
Works == s1 :> 1 @@ s2 :> 2

\* Both shares are witnesses of one Wcash block, and one of them wins a Zcash
\* block too.
BothChains == s1 :> {w1} @@ s2 :> {w1, z1}
TwoRewards == w1 :> 3 @@ z1 :> 20

inputVars == <<history, window, reward, bps, work, plan>>

ShareOf == [account : Accounts, work : 1 .. MaxWork]

InitInput ==
    /\ \E share \in ShareOf : history = <<share>>
    /\ window \in 1 .. MaxWindow
    /\ reward \in 1 .. MaxReward
    /\ bps \in FeeRates
    /\ work = SelectedWork(history, window)
    /\ plan = AllocatePplns(history, window, reward, bps)

LongerHistory ==
    /\ Len(history) < MaxShares
    /\ \E share \in ShareOf : history' = Append(history, share)
    /\ work' = SelectedWork(history', window)
    /\ plan' = AllocatePplns(history', window, reward, bps)
    /\ UNCHANGED <<window, reward, bps>>

InitAll ==
    /\ part \in {"events", "allocation"}
    /\ Init /\ InitInput
    /\ part = "events" =>
        /\ history = <<[account |-> 1, work |-> 1]>>
        /\ window = 1 /\ reward = 1 /\ bps = 0

NextAll ==
    \/ part = "events" /\ Next /\ UNCHANGED <<part, inputVars>>
    \/ part = "allocation" /\ LongerHistory /\ UNCHANGED <<part, vars>>

SpecAll == InitAll /\ [][NextAll]_<<part, vars, inputVars>>
-----------------------------------------------------------------------------
\* The part of share i that lies inside the window, told from the total work
\* in front of it.
InWindow(i) ==
    LET before == MapThenSumSet(LAMBDA j: history[j].work, 1 .. (i - 1))
        room == IF before < window THEN window - before ELSE 0
    IN  Smaller(history[i].work, room)

\* The selection loop takes from every account exactly the part of its work
\* that lies inside the window, and lists no account without such work.
SelectionIsTheWindow ==
    LET Of(a) == MapThenSumSet(InWindow,
                    {i \in DOMAIN history : history[i].account = a})
    IN  work = [a \in {x \in Accounts : Of(x) > 0} |-> Of(a)]

\* Every zat of the reward goes to the fee or to a miner, and no miner is a
\* whole zat away from its exact proportional part: the fee rounds for the
\* miners, the largest remainders for each other.
RewardIsConserved ==
    /\ Total(plan.amount) + plan.fee = reward
    /\ \A a \in DOMAIN work :
        LET exact == (reward - plan.fee) * work[a]
            paid == plan.amount[a] * Total(work)
        IN  paid - exact < Total(work) /\ exact - paid < Total(work)

\* An account with more work in the window never gets less than one with
\* less work, however the left-over zat fall.
MoreWorkEarnsNoLess ==
    \A a, b \in DOMAIN work :
        work[a] > work[b] => plan.amount[a] >= plan.amount[b]

\* Once the window is full, older shares change nobody's allocation: where
\* the store cuts the share history (MAX_PPLNS_SHARES) does not matter as
\* long as the window fits.
OlderWorkIsIgnored ==
    [][MapThenSumSet(LAMBDA i: history[i].work, DOMAIN history) >= window
        => plan' = plan]_inputVars

\* The allocation is fair: the window selects the work, the whole reward goes
\* out in proportion to it, and neither ranks nor older work change that.
AllocationIsFair ==
    /\ [](SelectionIsTheWindow /\ RewardIsConserved /\ MoreWorkEarnsNoLess)
    /\ OlderWorkIsIgnored
=============================================================================
