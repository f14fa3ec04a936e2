------------------------------ MODULE FeeSplit ------------------------------
(***************************************************************************)
(* The integer apportionment that every payout fee goes through:           *)
(* `deduct_network_fee_reserve` and `allocate_actual_network_fee` of       *)
(* wcash-pool-store.  Both divide a whole number of zat over miners in     *)
(* proportion to a weight (the gross liability, or the fee reserved from   *)
(* it), give everyone the floor of the exact share and hand the left-over  *)
(* zat out one each by descending remainder, ties by ascending account     *)
(* identifier.  Accounts are numbered by that identifier.                  *)
(***************************************************************************)
EXTENDS Integers, FiniteSets, FiniteSetsExt

Smaller(a, b) == IF a < b THEN a ELSE b

Total(f) == MapThenSumSet(LAMBDA m: f[m], DOMAIN f)

Floored(quantity, weight) ==
    [m \in DOMAIN weight |-> (quantity * weight[m]) \div Total(weight)]

Remainder(quantity, weight, m) == (quantity * weight[m]) % Total(weight)

\* The position of m in `remainder_order`, counted from 0.
RemainderRank(quantity, weight, m) ==
    Cardinality({k \in DOMAIN weight :
        \/ Remainder(quantity, weight, k) > Remainder(quantity, weight, m)
        \/ /\ Remainder(quantity, weight, k) = Remainder(quantity, weight, m)
           /\ k < m})

LargestRemainder(quantity, weight) ==
    LET floors == Floored(quantity, weight)
        leftover == quantity - Total(floors)
    IN  [m \in DOMAIN weight |->
            floors[m] + IF RemainderRank(quantity, weight, m) < leftover
                        THEN 1 ELSE 0]

\* The most a batch of these liabilities may set aside for its network fee:
\* create_payout_batch caps it absolutely, relatively, and below the
\* smallest liability so that every output stays nonzero.
FeeReserve(liability, absolute, bps) ==
    Smaller(Smaller(absolute, (Total(liability) * bps) \div 10000),
            Min({liability[m] : m \in DOMAIN liability}) - 1)

\* The chain outputs of a batch: every liability less its share of the fee
\* reserve.
Outputs(liability, reserve) ==
    LET share == LargestRemainder(reserve, liability)
    IN  [m \in DOMAIN liability |-> liability[m] - share[m]]

\* A plausible bug: the left-over zat of the fee are charged to nobody.
RefundsFloored(liability, amount, fee) ==
    LET reserve == [m \in DOMAIN liability |-> liability[m] - amount[m]]
        charged == Floored(fee, reserve)
    IN  [m \in DOMAIN liability |-> reserve[m] - charged[m]]

\* What each miner gets back of its fee reserve when the transaction cost
\* only `fee`.
Refunds(liability, amount, fee) ==
    LET reserve == [m \in DOMAIN liability |-> liability[m] - amount[m]]
        charged == LargestRemainder(fee, reserve)
    IN  [m \in DOMAIN liability |-> reserve[m] - charged[m]]
=============================================================================
