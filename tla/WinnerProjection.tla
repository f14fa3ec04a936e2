-------------------------- MODULE WinnerProjection --------------------------
(***************************************************************************)
(* The accounting projection of backend events: `project_one` of           *)
(* wcash-pool-store.  Each event is one PostgreSQL transaction that writes *)
(* the event, its effect on jobs, shares, winners, witnesses and ledger,   *)
(* and the cursor; an event the code refuses leaves everything unchanged   *)
(* and is not a step here.  Events are numbered by the cursor.             *)
(*                                                                         *)
(* The backend (external) may report anything `BackendEvent::validate`     *)
(* lets through.  A Wcash block identifier does not cover the witness that *)
(* proves it, so several shares may prove one Wcash block: each has its    *)
(* own proof state, and they share one economic winner.  Confirmations are *)
(* told apart only as deep (the required number or more) or shallow; the   *)
(* number a job advertises is the chain policy's, or the job is refused.   *)
(*                                                                         *)
(* A ledger row is addressed by <<ledger account, owner>>, where Pool      *)
(* stands for rows without an account identifier; debits are positive.     *)
(***************************************************************************)
EXTENDS Pplns, TLC

CONSTANTS
    Account,              \* accounts, numbered in identifier order
    Job,
    Share,                \* share identifiers
    Block,                \* block hashes of either chain
    Zcash,                \* those of them on the Zcash chain
    AccountOf, WorkOf,    \* worker attribution and target work of a share
    JobOf,                \* the generation of a share
    Proves,               \* the blocks that a share's proof wins
    RewardOf,             \* reward of each block
    WindowWork, FeeBps,   \* chain_policies
    MaxPplnsShares,       \* MAX_PPLNS_SHARES
    MaxEvents             \* bound: events

ASSUME ProjectionAssumption ==
    /\ Account \subseteq Nat \ {0}
    /\ Zcash \subseteq Block
    /\ \A s \in Share : AccountOf[s] \in Account /\ JobOf[s] \in Job
    /\ \A s \in Share : WorkOf[s] \in Nat \ {0} /\ Proves[s] \subseteq Block
    /\ \A b \in Block : RewardOf[b] \in Nat \ {0}
    /\ WindowWork \in Nat \ {0} /\ FeeBps \in 0..1000
    /\ MaxPplnsShares \in Nat \ {0} /\ MaxEvents \in Nat

VARIABLES
    cursor,               \* backend_cursors.last_event_seq
    jobs,                 \* activated generations
    committed,            \* shares.event_seq, 0 for shares not committed
    winners,              \* the winners row of a block
    proofs,               \* winner_proofs.state per block and share
    allocations,          \* winner_allocations: event sequence to plan
    ledger,               \* the sealed ledger transactions
    exposed,              \* chains with a payout batch that is not cancelled
    frozen                \* chains whose payouts are frozen

vars == <<cursor, jobs, committed, winners, proofs, allocations, ledger,
          exposed, frozen>>

ChainOf(b) == IF b \in Zcash THEN "zcash" ELSE "wcash"

Chains == {ChainOf(b) : b \in Block}

Pool == 0

None == 0

NoWinner == [state |-> "none", share |-> {}, active |-> {},
             observation |-> None, maturity |-> None]

Init ==
    /\ cursor = 0
    /\ jobs = {}
    /\ committed = [s \in Share |-> 0]
    /\ winners = [b \in Block |-> NoWinner]
    /\ proofs = [b \in Block |-> [s \in Share |-> "none"]]
    /\ allocations = [b \in Block |-> <<>>]
    /\ ledger = {}
    /\ exposed = {}
    /\ frozen = {}

seq == cursor + 1

\* The cursor moves by one, in the transaction of the event.
Advance == cursor < MaxEvents /\ cursor' = seq
-----------------------------------------------------------------------------
(* Ledger transactions *)

\* The three rows that place the reward of b: the collector's asset, what it
\* owes the miners and what it owes the pool.  Rows of zero are left out.
Placed(b, plan, asset, owed, fee) ==
    (<<asset, Pool>> :> RewardOf[b])
    @@ [row \in {<<owed, a>> : a \in {x \in DOMAIN plan.amount :
                                        plan.amount[x] > 0}}
            |-> -plan.amount[row[2]]]
    @@ IF plan.fee > 0 THEN <<fee, Pool>> :> -plan.fee ELSE <<>>

Immature(b, plan) ==
    Placed(b, plan, "collector_immature_asset", "miner_immature",
           "pool_fee_unearned")

Spendable(b, plan) ==
    Placed(b, plan, "collector_spendable_asset", "miner_payable", "pool_equity")

Opposite(entries) == [row \in DOMAIN entries |-> -entries[row]]

\* The check of insert_owned_ledger_transaction.
Balanced(entries) ==
    /\ DOMAIN entries # {}
    /\ \A row \in DOMAIN entries : entries[row] # 0
    /\ Total(entries) = 0

Posted(kind, b, entries) ==
    [seq |-> seq, kind |-> kind, block |-> b, entries |-> entries]

AmountIn(transaction, row) ==
    IF row \in DOMAIN transaction.entries THEN transaction.entries[row] ELSE 0

\* All rows of the given transactions, added up.
Sum(transactions) ==
    LET rows == UNION {DOMAIN t.entries : t \in transactions}
        total == [row \in rows |->
                    MapThenSumSet(LAMBDA t: AmountIn(t, row), transactions)]
    IN  [row \in {r \in rows : total[r] # 0} |-> total[row]]

\* The ledger transaction of one event and kind.
Recorded(event, kind) == {t \in ledger : t.seq = event /\ t.kind = kind}
-----------------------------------------------------------------------------
(* Winner rows *)

\* update_winner_state: an economic state without credit has no active proof.
Row(w, state, observation, maturity) ==
    [w EXCEPT !.state = state, !.observation = observation,
              !.maturity = maturity,
              !.active = IF state \in {"observed", "matured"} THEN @ ELSE {}]

\* select_winner_proof
Select(w, s) == [w EXCEPT !.active = {s}]

Proved(b, s, state) == proofs' = [proofs EXCEPT ![b][s] = state]

\* Shares in front of the winning share, newest first, as far as the query
\* goes.
PplnsShares(event) ==
    LET eligible == {s \in Share : committed[s] \in 1..event}
        Rank(s) == Cardinality({k \in eligible : committed[k] >= committed[s]})
        nth(i) == CHOOSE s \in eligible : Rank(s) = i
        length == Smaller(Cardinality(eligible), MaxPplnsShares)
    IN  [i \in 1..length |-> [account |-> AccountOf[nth(i)],
                              work |-> WorkOf[nth(i)]]]

\* The event after which a share no longer counts for a winner: that of the
\* share that first won it.
Cutoff(w) == committed[CHOOSE s \in w.share : TRUE]

\* The query limit hides shares that the window still needs.
WindowTooLarge(shares) ==
    /\ Len(shares) = MaxPplnsShares
    /\ MapThenSumSet(LAMBDA i: shares[i].work, DOMAIN shares) < WindowWork

First(b) == allocations[b][Min(DOMAIN allocations[b])]

\* winner_allocation_plan: the first allocation of the block if there is one.
AllocationPlan(b) ==
    IF DOMAIN allocations[b] # {} THEN First(b)
    ELSE AllocatePplns(PplnsShares(Cutoff(winners[b])), WindowWork,
                       RewardOf[b], FeeBps)

\* The plan can be computed: there is a recorded one, or the window fits.
Allocatable(b) ==
    \/ DOMAIN allocations[b] # {}
    \/ ~WindowTooLarge(PplnsShares(Cutoff(winners[b])))

\* Losing a matured reward freezes payouts of an exposed chain.
FreezeIfExposed(b) ==
    frozen' = frozen \union ({ChainOf(b)} \cap exposed)
-----------------------------------------------------------------------------
(* Events *)

\* JobActivated
ActivateJob(j) ==
    /\ Advance
    /\ j \notin jobs
    /\ jobs' = jobs \union {j}
    /\ UNCHANGED <<committed, winners, proofs, allocations, ledger, exposed,
                   frozen>>

\* JobInvalidated and GenerationClosed: recorded, no effect on accounting.
RetireJob ==
    /\ Advance
    /\ jobs # {}
    /\ UNCHANGED <<jobs, committed, winners, proofs, allocations, ledger,
                   exposed, frozen>>

\* insert_winner for each block that the proof of s wins: a new economic
\* winner, or one more witness of the one there is.
InsertWinners(s) ==
    /\ \A b \in Proves[s] : winners[b].state # "none" => b \notin Zcash
    /\ winners' = [b \in Block |->
                    IF b \in Proves[s] /\ winners[b].state = "none"
                    THEN [NoWinner EXCEPT !.state = "submitted", !.share = {s}]
                    ELSE winners[b]]
    /\ proofs' = [b \in Block |->
                    IF b \in Proves[s]
                    THEN [proofs[b] EXCEPT ![s] = "submitted"]
                    ELSE proofs[b]]

\* ShareCommitted
CommitShare(s) ==
    /\ Advance
    /\ committed[s] = 0
    /\ JobOf[s] \in jobs
    /\ committed' = [committed EXCEPT ![s] = seq]
    /\ InsertWinners(s)
    /\ UNCHANGED <<jobs, allocations, ledger, exposed, frozen>>

\* Only Zcash blocks are monitored on side chains.
HasSideChains(b) == b \in Zcash

\* WinnerSideChain
SideChain(b, s) ==
    /\ Advance
    /\ HasSideChains(b)
    /\ proofs[b][s] = "submitted"
    /\ winners[b].state = "submitted" /\ winners[b].active = {}
    /\ Proved(b, s, "side_chain")
    /\ winners' = [winners EXCEPT ![b] = Row(@, "side_chain", None, None)]
    /\ UNCHANGED <<jobs, committed, allocations, ledger, exposed, frozen>>

\* What demature_winner reverses.
MaturityTransactions(w) == Recorded(w.maturity, "winner_matured")

\* demature_winner
DematureWinner(b, s) ==
    LET w == winners[b]
    IN  /\ FreezeIfExposed(b)
        /\ ledger' = ledger \union
            {Posted("winner_dematured", b,
                    Opposite(Sum(MaturityTransactions(w))))}
        /\ winners' = [winners EXCEPT ![b] =
                        Select(Row(@, "observed", w.observation, None), s)]
        /\ UNCHANGED allocations

Credited(w) == w.observation # None

\* The states from which a first or a renewed observation credits a block.
Creditable(w) ==
    /\ w.state \in {"submitted", "side_chain", "requeued", "orphaned",
                    "quarantined"}
    /\ w.observation = None /\ w.maturity = None

\* observe_economic_winner of a block without credit.
CreditWinner(b, s) ==
    LET plan == AllocationPlan(b)
    IN  /\ Allocatable(b)
        /\ Balanced(Immature(b, plan))
        /\ allocations' = [allocations EXCEPT ![b] = @ @@ (seq :> plan)]
        /\ ledger' = ledger \union
            {Posted("winner_observed", b, Immature(b, plan))}
        /\ winners' = [winners EXCEPT ![b] =
                        Select(Row(@, "observed", seq, None), s)]
        /\ UNCHANGED frozen

\* WinnerObserved with `deep` telling whether the block has the confirmations
\* that maturity takes.
ObserveWinner(b, s, deep) ==
    LET w == winners[b]
    IN  /\ Advance
        /\ proofs[b][s] # "none"
        /\ ~(proofs[b][s] = "matured" /\ deep)
        /\ \/ /\ w.state = "observed" \/ (w.state = "matured" /\ deep)
              /\ winners' = [winners EXCEPT ![b] = Select(@, s)]
              /\ UNCHANGED <<allocations, ledger, frozen>>
           \/ w.state = "matured" /\ ~deep /\ DematureWinner(b, s)
           \/ Creditable(w) /\ CreditWinner(b, s)
        /\ Proved(b, s, "observed")
        /\ UNCHANGED <<jobs, committed, exposed>>

Maturation(b, plan) == Opposite(Immature(b, plan)) @@ Spendable(b, plan)

\* mature_economic_winner of an observed block, credited in event
\* `observation` with `plan`.
MatureEconomicWinner(b, s, observation, plan, posted) ==
    /\ Balanced(Maturation(b, plan))
    /\ ledger' = ledger \union posted
                 \union {Posted("winner_matured", b, Maturation(b, plan))}
    /\ winners' = [winners EXCEPT ![b] =
                    Select(Row(@, "matured", observation, seq), s)]

\* WinnerMatured: a block that another witness took out of credit is credited
\* again in the same transaction.
MatureWinner(b, s) ==
    LET w == winners[b]
    IN  /\ Advance
        /\ proofs[b][s] = "observed"
        /\ \/ /\ w.state = "matured"
              /\ winners' = [winners EXCEPT ![b] = Select(@, s)]
              /\ UNCHANGED <<allocations, ledger>>
           \/ /\ w.state = "observed"
              /\ MatureEconomicWinner(b, s, w.observation,
                    allocations[b][w.observation], {})
              /\ UNCHANGED allocations
           \/ /\ Creditable(w) /\ Allocatable(b)
              /\ allocations' = [allocations EXCEPT ![b] =
                                    @ @@ (seq :> AllocationPlan(b))]
              /\ MatureEconomicWinner(b, s, seq, AllocationPlan(b),
                    {Posted("winner_observed", b,
                            Immature(b, AllocationPlan(b)))})
        /\ Proved(b, s, "matured")
        /\ UNCHANGED <<jobs, committed, exposed, frozen>>

\* A plausible bug: only the observation is reversed.
ObservationTransactions(w) == Recorded(w.observation, "winner_observed")

\* What reverse_winner reverses.
CreditTransactions(w) ==
    Recorded(w.observation, "winner_observed")
    \union Recorded(w.maturity, "winner_matured")

\* A plausible bug: a quarantined reward does not freeze payouts.
UncreditUnfrozen(b, state) ==
    LET w == winners[b]
    IN  /\ IF w.maturity # None /\ state = "orphaned" THEN FreezeIfExposed(b)
           ELSE UNCHANGED frozen
        /\ ledger' = IF Credited(w)
                     THEN ledger \union
                        {Posted("winner_" \o state, b,
                                Opposite(Sum(CreditTransactions(w))))}
                     ELSE ledger
        /\ winners' = [winners EXCEPT ![b] = Row(@, state, None, None)]

\* The economic half of reverse_winner.
Uncredit(b, state) ==
    LET w == winners[b]
    IN  /\ IF w.maturity # None THEN FreezeIfExposed(b) ELSE UNCHANGED frozen
        /\ ledger' = IF Credited(w)
                     THEN ledger \union
                        {Posted("winner_" \o state, b,
                                Opposite(Sum(CreditTransactions(w))))}
                     ELSE ledger
        /\ winners' = [winners EXCEPT ![b] = Row(@, state, None, None)]

\* WinnerOrphaned
OrphanWinner(b, s) ==
    /\ Advance
    /\ proofs[b][s] \in {"observed", "matured"}
    /\ Proved(b, s, "orphaned")
    /\ Uncredit(b, "orphaned")
    /\ UNCHANGED <<jobs, committed, allocations, exposed>>

\* A plausible bug: a conflict about any witness takes the credit away.
SelectedElsewhereNever(w, s) == FALSE

\* Another witness is the selected positive observation.
SelectedElsewhere(w, s) == w.active # {} /\ w.active # {s}

\* WinnerQuarantined
QuarantineWinner(b, s) ==
    /\ Advance
    /\ b \notin Zcash
    /\ proofs[b][s] \notin {"none", "quarantined"}
    /\ Proved(b, s, "quarantined")
    /\ IF SelectedElsewhere(winners[b], s)
       THEN UNCHANGED <<winners, ledger, frozen>>
       ELSE Uncredit(b, "quarantined")
    /\ UNCHANGED <<jobs, committed, allocations, exposed>>

\* WinnerRequeued
RequeueWinner(b, s) ==
    /\ Advance
    /\ proofs[b][s] = "quarantined"
    /\ Proved(b, s, "requeued")
    /\ winners' = [winners EXCEPT ![b] =
                    IF @.active = {} /\ @.state = "quarantined"
                    THEN Row(@, "requeued", None, None) ELSE @]
    /\ UNCHANGED <<jobs, committed, allocations, ledger, exposed, frozen>>

\* External to the projector: a payout batch is created on a chain that is
\* not frozen, or the only one is cancelled.
ChangeExposure(c) ==
    /\ \/ c \in exposed /\ exposed' = exposed \ {c}
       \/ c \notin exposed \union frozen /\ exposed' = exposed \union {c}
    /\ UNCHANGED <<cursor, jobs, committed, winners, proofs, allocations,
                   ledger, frozen>>
-----------------------------------------------------------------------------
WitnessEvent(b, s) ==
    \/ SideChain(b, s)
    \/ \E deep \in BOOLEAN : ObserveWinner(b, s, deep)
    \/ MatureWinner(b, s)
    \/ OrphanWinner(b, s)
    \/ QuarantineWinner(b, s)
    \/ RequeueWinner(b, s)

Next ==
    \/ \E j \in Job : ActivateJob(j)
    \/ RetireJob
    \/ \E s \in Share : CommitShare(s)
    \/ \E b \in Block, s \in Share : WitnessEvent(b, s)
    \/ \E c \in Chains : ChangeExposure(c)

Spec == Init /\ [][Next]_vars
-----------------------------------------------------------------------------
\* Every variable keeps its type: the columns of winners, winner_proofs,
\* winner_allocations and ledger_transactions.
TypeOK ==
    /\ cursor \in 0..MaxEvents
    /\ jobs \subseteq Job
    /\ committed \in [Share -> 0..cursor]
    /\ \A b \in Block :
        /\ winners[b].state \in {"none", "submitted", "side_chain", "observed",
                                "matured", "quarantined", "requeued", "orphaned"}
        /\ winners[b].state = "side_chain" => b \in Zcash
        /\ winners[b].share \subseteq Share /\ winners[b].active \subseteq Share
        /\ winners[b].observation \in 0..cursor
        /\ winners[b].maturity \in 0..cursor
        /\ DOMAIN allocations[b] \subseteq 1..cursor
    /\ \A t \in ledger : Balanced(t.entries)
    /\ exposed \subseteq Chains /\ frozen \subseteq Chains

\* The net effect on the books of everything posted for a block.
Net(b) == Sum({t \in ledger : t.block = b})

\* However often a block is observed, matured, dematured, orphaned,
\* quarantined, requeued and restored, and by whichever witness, the ledger
\* holds its reward once or not at all: immature while it is observed,
\* spendable while it is matured, and always as first allocated.
BooksFollowTheWinner ==
    \A b \in Block :
        Net(b) = CASE winners[b].state = "observed" -> Immature(b, First(b))
                   [] winners[b].state = "matured" -> Spendable(b, First(b))
                   [] OTHER -> <<>>

\* A winner is credited exactly while it has a selected witness, and that
\* witness stands: it was last observed or matured, not orphaned or
\* quarantined since.
SelectedWitnessStands ==
    \A b \in Block :
        /\ (winners[b].state \in {"observed", "matured"}) <=>
                winners[b].active # {}
        /\ \A s \in winners[b].active : proofs[b][s] \in {"observed", "matured"}

\* Work committed after the share that won a block earns nothing from it,
\* however late the block is observed and whichever witness is observed.
LateWorkEarnsNothing ==
    \A b \in Block : DOMAIN allocations[b] # {} =>
        \A a \in DOMAIN First(b).amount :
            \E s \in Share, first \in winners[b].share :
                AccountOf[s] = a /\ committed[s] \in 1..committed[first]

\* A block loses its credit only when one of its witnesses is orphaned or the
\* selected one is quarantined: a conflict about another witness does not
\* touch the reward.
CreditLostForCause ==
    [][\A b \in Block :
        winners[b].active # {} /\ winners'[b].active = {} =>
            \E s \in Share :
                \/ proofs[b][s] # "orphaned" /\ proofs'[b][s] = "orphaned"
                \/ winners[b].active = {s} /\ proofs'[b][s] = "quarantined"]_vars

\* When the reward of a matured block stops being spendable on a chain with
\* payout exposure, payouts of that chain are frozen in the same step.
LostMaturityFreezes ==
    [][\A b \in Block :
        /\ winners[b].state = "matured" /\ winners'[b].state # "matured"
        /\ ChainOf(b) \in exposed
        => ChainOf(b) \in frozen']_vars

\* What the ledger owes account a for block b in a ledger account.
Owed(kind, b, a) ==
    -MapThenSumSet(LAMBDA t: AmountIn(t, <<kind, a>>),
                   {t \in ledger : t.block = b})

Books(kind) == [b \in Block |-> [a \in Account |-> Owed(kind, b, a)]]

Rewards == INSTANCE RewardLedger WITH
    Ceiling <- Max({RewardOf[b] : b \in Block}),
    immature <- Books("miner_immature"),
    payable <- Books("miner_payable"),
    promised <- [b \in Block |->
        IF DOMAIN allocations[b] = {} THEN {}
        ELSE {[a \in Account |->
                IF a \in DOMAIN First(b).amount THEN First(b).amount[a]
                ELSE 0]}]

\* Read off the ledger, the miners' balances behave as promised: the first
\* allocation of a block is kept for ever, and its amounts are nowhere, all
\* immature, or all payable.
ImplementsRewardLedger == Rewards!Spec

\* A reward is in the books while a witness of its block stands, as it was
\* allocated by the work in front of the winning share, and it is lost for no
\* other cause.
CreditIsSound ==
    /\ [](BooksFollowTheWinner /\ SelectedWitnessStands /\ LateWorkEarnsNothing)
    /\ CreditLostForCause
=============================================================================
