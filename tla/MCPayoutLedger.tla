--------------------------- MODULE MCPayoutLedger ---------------------------
(***************************************************************************)
(* The payout books on small instances.  A behaviour is one of four parts: *)
(* "books", where two miners are paid by the configured constants;         *)
(* "audit", where one miner is paid and the wallet may disagree with the   *)
(* books; "chain", where one miner is paid on a chain that rolls back,     *)
(* deep enough for expiry to become final; and "split", the fee            *)
(* apportionment over bounded inputs.                                      *)
(***************************************************************************)
EXTENDS PayoutLedger, TLC

CONSTANTS w1, Miners, MaxLiability, AbsoluteCaps, FeeRates

VARIABLES
    part,
    owed,                 \* what each paid miner is owed
    reserve, outputs,     \* the batch made from it
    cost, refunds         \* the transaction's fee and what it leaves

TwoMiners == {1, 2}
TwoRewards == w1 :> (1 :> 4 @@ 2 :> 3)
OneFee == w1 :> 1

Audit == INSTANCE PayoutLedger WITH
    Miner <- {1}, Reward <- w1 :> (1 :> 4), MaximumOutputs <- 1,
    MaxMismatches <- 1

Chain == INSTANCE PayoutLedger WITH
    Miner <- {1}, Reward <- w1 :> (1 :> 3), PoolFee <- w1 :> 0,
    OpeningSurplus <- 0, MaximumOutputs <- 1, AbsoluteFee <- 1,
    FinalityDepth <- 2, RollbackWindow <- 2,
    MaxHeight <- 5, LastSigning <- 2

splitVars == <<owed, reserve, outputs, cost, refunds>>

\* One set of liabilities with its fee caps, and the most its transaction may
\* cost.
InitSplit ==
    /\ \E paid \in SUBSET Miners \ {{}} : owed \in [paid -> 2 .. MaxLiability]
    /\ \E absolute \in AbsoluteCaps, bps \in FeeRates :
        reserve = FeeReserve(owed, absolute, bps)
    /\ reserve > 0
    /\ outputs = Outputs(owed, reserve)
    /\ cost = reserve
    /\ refunds = Refunds(owed, outputs, cost)

\* The transaction is cheaper than that.
Cheaper ==
    /\ cost > 1
    /\ cost' = cost - 1
    /\ refunds' = Refunds(owed, outputs, cost - 1)
    /\ UNCHANGED <<owed, reserve, outputs>>

\* The apportionment of the other parts, which never changes.
RestingSplit ==
    /\ owed = (1 :> 2) /\ reserve = 1
    /\ outputs = Outputs(owed, reserve)
    /\ cost = 1 /\ refunds = Refunds(owed, outputs, cost)

InitAll ==
    \/ part = "books" /\ Init /\ RestingSplit
    \/ part = "audit" /\ Audit!Init /\ RestingSplit
    \/ part = "chain" /\ Chain!Init /\ RestingSplit
    \/ part = "split" /\ Init /\ InitSplit

NextAll ==
    \/ part = "books" /\ Next /\ UNCHANGED <<part, splitVars>>
    \/ part = "audit" /\ Audit!Next /\ UNCHANGED <<part, splitVars>>
    \/ part = "chain" /\ Chain!Next /\ UNCHANGED <<part, splitVars>>
    \/ part = "split" /\ Cheaper /\ UNCHANGED <<part, vars>>

SpecAll == InitAll /\ [][NextAll]_<<part, vars, splitVars>>

Interchangeable == Permutations(Batch)
-----------------------------------------------------------------------------
\* PayoutLedger: the accounts balance, of either set of miners.
BooksBalance ==
    CASE part = "chain" -> Chain!BooksAreSound
      [] part = "audit" -> Audit!BooksAreSound
      [] OTHER -> BooksAreSound

\* Every output of a batch pays something, none pays more than was owed, and
\* together with the fee reserve they are what was owed.
OutputsAreFunded ==
    /\ \A m \in DOMAIN owed : outputs[m] \in 1 .. owed[m]
    /\ Total(outputs) + reserve = Total(owed)

\* What the transaction did not cost goes back, all of it, and nobody gets
\* back more than was set aside from that miner or pays more than that.
RefundsCloseTheReserve ==
    /\ \A m \in DOMAIN owed : refunds[m] \in 0 .. (owed[m] - outputs[m])
    /\ Total(refunds) + cost = reserve

\* The fee stays proportional: no miner's part of it is a whole zat away from
\* the exact proportion of what was set aside.
FeeIsProportional ==
    \A m \in DOMAIN owed :
        LET aside == owed[m] - outputs[m]
            gap == (aside - refunds[m]) * reserve - cost * aside
        IN  gap < reserve /\ -gap < reserve

\* The fee is split exactly: out of what was owed, in proportion, and with
\* what the transaction did not cost given back.
SplitIsExact == OutputsAreFunded /\ RefundsCloseTheReserve /\ FeeIsProportional
=============================================================================
