---------------------------- MODULE PayoutLedger ----------------------------
(***************************************************************************)
(* The payout side of the accounting store for one chain: the double-entry *)
(* balances, the payout batches and their states, wallet reconciliation,   *)
(* the safety freeze, and the recovery of expired transactions.  Every     *)
(* action of the store is one PostgreSQL transaction; it is modelled as    *)
(* one step that any caller may take at any time.                          *)
(*                                                                         *)
(* Around the store stand three external parties.  The chain grows, rolls  *)
(* back by at most RollbackWindow blocks, and may include the signed       *)
(* transaction of a batch any number of steps after the store authorised   *)
(* its broadcast, up to the transaction's expiry height.  The wallet holds *)
(* what the chain says it holds.  The validator snapshot is what the       *)
(* worker last saw of both; the store acts on it however old it is.        *)
(*                                                                         *)
(* A liability is a positive number here and a credit in the SQL ledger.   *)
(* The ledger root is represented by the number of ledger transactions,    *)
(* which changes exactly when the root does.                               *)
(***************************************************************************)
EXTENDS FeeSplit

CONSTANTS
    Miner,                \* accounts, numbered in account-identifier order
    Winner,               \* block rewards the backend reports
    Batch,                \* payout batch identifiers
    Reward,               \* Reward[w][m]: what winner w allocates to miner m
    PoolFee,              \* PoolFee[w]: what winner w leaves to pool equity
    OpeningSurplus,       \* wcash_opening_pool_equity_zat
    MinimumPayout, MaximumPayout, MaximumOutputs,      \* chain_policies
    AbsoluteFee, FeeBps, PayoutConfirmations,
    FinalityDepth,        \* PAYOUT_EXPIRY_FINALITY_DEPTH
    RollbackWindow,       \* the node never rolls back further (external)
    Validity,             \* expiry height minus the height of signing
    MaxHeight,            \* bound: blocks
    LastSigning,          \* bound: height after which nothing is signed
    MaxBranch,            \* bound: rollbacks
    MaxTransactions,      \* bound: ledger transactions
    MaxMismatches         \* bound: distinct mismatch rows

ASSUME PayoutAssumption ==
    /\ Miner \subseteq Nat
    /\ RollbackWindow \in Nat /\ FinalityDepth \in Nat
    /\ FinalityDepth >= RollbackWindow
    /\ Validity \in Nat
    /\ PayoutConfirmations \in Nat \ {0}
    /\ MaxHeight \in Nat /\ LastSigning \in Nat
    /\ MaxBranch \in Nat /\ MaxTransactions \in Nat
    /\ MaxMismatches \in Nat

VARIABLES
    payable, pending,     \* miner_payable and payout_pending, per miner
    asset, equity,        \* collector_spendable_asset and pool_equity
    version,              \* ledger transactions so far
    opened,               \* the operator_capital_funded entry exists
    winner,               \* economic state of each winner
    frozen,               \* chain_safety_state.payouts_frozen
    reconciliation,       \* the newest matched wallet_reconciliations row
    mismatches,           \* the mismatch rows: ledger version and balance
    state,                \* payout_batches.state
    liability, amount,    \* payout_items, per batch and miner
    fee,                  \* payout_batches.network_fee_zat
    expiry,               \* expiry height of the signed transaction
    checkpoint,           \* tip of the reconciliation a batch was made from
    lapsed,               \* drafts whose reconciliation is past valid_until
    block,                \* the confirmation block of a batch
    held,                 \* tip of the `held` expiry evidence
    authorized,           \* batches whose broadcast was ever authorised
    tip, peak, branch,    \* best chain: height, highest ever, rollbacks
    mined,                \* the best-chain block holding a batch
    funded,               \* winners whose reward is in the collector wallet
    snapshot              \* the last validator and wallet observation

ledger == <<payable, pending, asset, equity, version>>
facts == <<liability, amount, fee, expiry, checkpoint, block, held>>
chain == <<tip, peak, branch, mined, funded>>
safety == <<frozen, reconciliation, mismatches>>
vars == <<ledger, opened, winner, safety, state, facts, lapsed, authorized, chain,
          snapshot>>

States == {"none", "draft", "signing", "signed", "broadcasting", "broadcast",
           "expiry_pending", "confirmed", "reorged", "cancelled", "expired"}

\* States in which the liabilities of a batch sit in payout_pending.
Reserving == {"draft", "signing", "signed", "broadcasting", "broadcast",
              "expiry_pending"}

\* States whose effect on the wallet is not known to the ledger.
Ambiguous == {"signing", "signed", "broadcasting", "broadcast", "reorged"}

Settled == {"confirmed", "reorged"}

Released == {"cancelled", "expired"}

NoBlock == [height |-> 0, branch |-> 0]

Zero == [m \in Miner |-> 0]

At(f, m) == IF m \in DOMAIN f THEN f[m] ELSE 0

Spread(f) == [m \in Miner |-> At(f, m)]

Negated(f) == [m \in DOMAIN f |-> -f[m]]

Cost(b) == Total(amount[b]) + fee[b]

Gross(w) == Total(Reward[w]) + PoolFee[w]

Wallet ==
    OpeningSurplus + MapThenSumSet(Gross, funded)
    - MapThenSumSet(Cost, {b \in Batch : mined[b] # NoBlock})

Init ==
    /\ payable = Zero /\ pending = Zero /\ asset = 0 /\ equity = 0
    /\ version = 0 /\ opened = FALSE
    /\ winner = [w \in Winner |-> "observed"]
    /\ frozen = FALSE
    /\ reconciliation = [version |-> -1, tip |-> 0]
    /\ mismatches = {}
    /\ state = [b \in Batch |-> "none"]
    /\ liability = [b \in Batch |-> Zero]
    /\ amount = [b \in Batch |-> Zero]
    /\ fee = [b \in Batch |-> 0]
    /\ expiry = [b \in Batch |-> 0]
    /\ checkpoint = [b \in Batch |-> 0]
    /\ lapsed = {}
    /\ block = [b \in Batch |-> NoBlock]
    /\ held = [b \in Batch |-> 0]
    /\ authorized = {}
    /\ tip = 1 /\ peak = 1 /\ branch = 0
    /\ mined = [b \in Batch |-> NoBlock]
    /\ funded = {}
    /\ snapshot = [tip |-> 0, mined |-> mined, spendable |-> 0]
-----------------------------------------------------------------------------
(* The ledger *)

\* insert_owned_ledger_transaction: the given changes are one sealed
\* transaction.
Post(toPayable, toPending, toAsset, toEquity) ==
    /\ version < MaxTransactions
    /\ version' = version + 1
    /\ payable' = [m \in Miner |-> payable[m] + At(toPayable, m)]
    /\ pending' = [m \in Miner |-> pending[m] + At(toPending, m)]
    /\ asset' = asset + toAsset
    /\ equity' = equity + toEquity

\* The `payout_released` transaction of cancelled and expired batches.
ReleaseReserve(b) == Post(liability[b], Negated(liability[b]), 0, 0)

\* A plausible bug: the fee that was not needed is never given back.
SettleWithoutRefund(b) ==
    Post(Zero, Negated(liability[b]), -Cost(b), 0)

\* The `payout_confirmed` transaction.
SettleReserve(b) ==
    Post(Refunds(liability[b], amount[b], fee[b]), Negated(liability[b]),
         -Cost(b), 0)

Enter(b, s) == state' = [state EXCEPT ![b] = s]

Outstanding == Total(payable) + Total(pending)

Exposed == \E b \in Batch : state[b] \notin {"none", "cancelled"}

\* The operator's capital becomes pool equity once, before the first
\* reconciliation row and the first batch.
RecordOpeningPoolEquity ==
    /\ OpeningSurplus # 0
    /\ snapshot.tip > 0
    /\ ~opened /\ opened' = TRUE
    /\ reconciliation.version = -1 /\ mismatches = {}
    /\ \A b \in Batch : state[b] = "none"
    /\ snapshot.spendable - asset = OpeningSurplus
    /\ Post(Zero, Zero, OpeningSurplus, OpeningSurplus)
    /\ UNCHANGED <<winner, safety, state, facts, lapsed, authorized, chain,
                   snapshot>>

\* mature_economic_winner: the reward becomes spendable and payable.
MatureWinner(w) ==
    /\ winner[w] = "observed" /\ w \in funded
    /\ winner' = [winner EXCEPT ![w] = "matured"]
    /\ Post(Reward[w], Zero, Gross(w), PoolFee[w])
    /\ UNCHANGED <<opened, safety, state, facts, lapsed, authorized, chain,
                   snapshot>>

\* demature_winner, and reverse_winner of a matured winner: the entries are
\* negated, and payouts freeze if any batch but a cancelled one exists.
DematureWinner(w) ==
    /\ winner[w] = "matured" /\ w \notin funded
    /\ winner' = [winner EXCEPT ![w] = "observed"]
    /\ Post(Negated(Reward[w]), Zero, -Gross(w), -PoolFee[w])
    /\ frozen' = (frozen \/ Exposed)
    /\ UNCHANGED <<opened, reconciliation, mismatches, state, facts, lapsed,
                   authorized, chain, snapshot>>
-----------------------------------------------------------------------------
(* Reconciliation and the payout batch *)

\* ensure_held_payouts_expired_at
HeldExpiredAt(height) ==
    \A b \in Batch : state[b] = "expiry_pending" => expiry[b] < height

\* record_wallet_reconciliation: a matched row permits one batch; a mismatch
\* is recorded, and freezes the chain when an aged row shows the same one.
RecordWalletReconciliation ==
    /\ snapshot.tip > 0
    /\ \A b \in Batch : state[b] \notin Ambiguous
    /\ HeldExpiredAt(snapshot.tip)
    /\ IF snapshot.spendable = asset
       THEN /\ reconciliation' = [version |-> version, tip |-> snapshot.tip]
            /\ UNCHANGED <<frozen, mismatches>>
       ELSE LET row == <<version, snapshot.spendable>>
            IN  \E aged \in BOOLEAN :
                    /\ mismatches' = mismatches \union {row}
                    /\ Cardinality(mismatches') <= MaxMismatches
                    /\ frozen' = (frozen \/ (aged /\ row \in mismatches))
                    /\ UNCHANGED reconciliation
    /\ UNCHANGED <<ledger, opened, winner, state, facts, lapsed, authorized,
                   chain, snapshot>>

\* create_payout_batch: the accounts paid are any that have reached the
\* minimum (their thresholds, destinations and payment order are not
\* modelled), each up to a randomly drawn cap.
CreatePayoutBatch(b) ==
    /\ state[b] = "none"
    /\ ~frozen
    /\ reconciliation.version = version
    /\ HeldExpiredAt(reconciliation.tip)
    /\ \E paid \in SUBSET {m \in Miner : payable[m] >= MinimumPayout},
          cap \in MinimumPayout..MaximumPayout :
        /\ paid # {} /\ Cardinality(paid) <= MaximumOutputs
        /\ LET owed == [m \in paid |-> Smaller(payable[m], cap)]
               reserve == FeeReserve(owed, AbsoluteFee, FeeBps)
           IN  /\ reserve > 0
               /\ liability' = [liability EXCEPT ![b] = Spread(owed)]
               /\ amount' = [amount EXCEPT ![b] =
                                Spread(Outputs(owed, reserve))]
               /\ Post(Negated(owed), owed, 0, 0)
    /\ checkpoint' = [checkpoint EXCEPT ![b] = reconciliation.tip]
    /\ Enter(b, "draft")
    /\ UNCHANGED <<opened, winner, safety, fee, expiry, block, held, lapsed,
                   authorized, chain, snapshot>>

\* valid_until of the reconciliation passes while the batch is a draft.
Lapse(b) ==
    /\ state[b] = "draft" /\ b \notin lapsed
    /\ lapsed' = lapsed \union {b}
    /\ UNCHANGED <<ledger, opened, winner, safety, state, facts, authorized,
                   chain, snapshot>>

AuthorizePayoutSigning(b) ==
    /\ state[b] = "draft"
    /\ ~frozen
    /\ b \notin lapsed
    /\ HeldExpiredAt(checkpoint[b])
    /\ Enter(b, "signing")
    /\ UNCHANGED <<ledger, opened, winner, safety, facts, lapsed, authorized,
                   chain, snapshot>>

\* mark_payout_signed: the signer fixed the fee, within the reserve, and the
\* expiry height; the chain may have moved since it signed.
MarkPayoutSigned(b) ==
    /\ state[b] = "signing" /\ tip <= LastSigning
    /\ \E cost \in 1..(Total(liability[b]) - Total(amount[b])),
          height \in tip..(tip + Validity) :
        /\ fee' = [fee EXCEPT ![b] = cost]
        /\ expiry' = [expiry EXCEPT ![b] = height]
    /\ Enter(b, "signed")
    /\ UNCHANGED <<ledger, opened, winner, safety, liability, amount,
                   checkpoint, block, held, lapsed, authorized, chain,
                   snapshot>>

\* cancel_payout_draft, and cancel_rejected_payout_signing when the signer
\* refused the request before signing.
CancelPayout(b) ==
    /\ state[b] \in {"draft", "signing"}
    /\ ReleaseReserve(b)
    /\ Enter(b, "cancelled")
    /\ lapsed' = lapsed \ {b}
    /\ UNCHANGED <<opened, winner, safety, facts, authorized, chain, snapshot>>

AuthorizePayoutBroadcast(b) ==
    /\ state[b] = "signed"
    /\ ~frozen
    /\ Enter(b, "broadcasting")
    /\ authorized' = authorized \union {b}
    /\ UNCHANGED <<ledger, opened, winner, safety, facts, lapsed, chain,
                   snapshot>>

MarkPayoutBroadcast(b) ==
    /\ state[b] = "broadcasting"
    /\ Enter(b, "broadcast")
    /\ UNCHANGED <<ledger, opened, winner, safety, facts, lapsed, authorized,
                   chain, snapshot>>
-----------------------------------------------------------------------------
(* Evidence from the chain *)

\* validate_payout_expiry_evidence, for a snapshot that does not show the
\* transaction of b.
ExpiryEvidence(b) ==
    /\ snapshot.mined[b] = NoBlock
    /\ snapshot.tip > expiry[b]

HoldExpiredPayout(b) ==
    /\ state[b] \in {"signed", "broadcasting", "broadcast"}
    /\ ExpiryEvidence(b)
    /\ held' = [held EXCEPT ![b] = snapshot.tip]
    /\ Enter(b, "expiry_pending")
    /\ UNCHANGED <<ledger, opened, winner, safety, liability, amount, fee,
                   expiry, checkpoint, block, lapsed, authorized, chain,
                   snapshot>>

\* A plausible bug: one absence above the expiry height is enough.
FinalWithoutDepth(b) ==
    /\ ExpiryEvidence(b)
    /\ snapshot.tip >= held[b]

\* The extra conditions under which expire_held_payout accepts an absence.
FinalEvidence(b) ==
    /\ ExpiryEvidence(b)
    /\ snapshot.tip >= held[b]
    /\ snapshot.tip >= expiry[b] + FinalityDepth

ExpireHeldPayout(b) ==
    /\ state[b] = "expiry_pending"
    /\ FinalEvidence(b)
    /\ ReleaseReserve(b)
    /\ Enter(b, "expired")
    /\ UNCHANGED <<opened, winner, safety, facts, lapsed, authorized, chain,
                   snapshot>>

Confirmable == {"broadcast", "expiry_pending"}

\* confirm_payout: not stopped by a freeze, but by books that do not cover
\* what is owed.
ConfirmPayout(b) ==
    /\ state[b] \in Confirmable
    /\ snapshot.mined[b] # NoBlock
    /\ snapshot.tip - snapshot.mined[b].height + 1 >= PayoutConfirmations
    /\ Outstanding >= 0
    /\ asset >= Outstanding
    /\ asset >= Cost(b)
    /\ SettleReserve(b)
    /\ block' = [block EXCEPT ![b] = snapshot.mined[b]]
    /\ Enter(b, "confirmed")
    /\ UNCHANGED <<opened, winner, safety, liability, amount, fee, expiry,
                   checkpoint, held, lapsed, authorized, chain, snapshot>>

\* mark_confirmed_payout_reorged: the confirmation block is no longer the
\* transaction's block.  No liability is recreated; the chain freezes.
MarkConfirmedPayoutReorged(b) ==
    /\ state[b] = "confirmed"
    /\ snapshot.mined[b] # block[b]
    /\ Enter(b, "reorged")
    /\ frozen' = TRUE
    /\ UNCHANGED <<ledger, opened, winner, reconciliation, mismatches, facts,
                   lapsed, authorized, chain, snapshot>>
-----------------------------------------------------------------------------
(* External: the chain, the collector wallet, and the observation of both *)

Minable(b) ==
    b \in authorized /\ mined[b] = NoBlock /\ tip + 1 <= expiry[b]

MineBlock ==
    /\ tip < MaxHeight
    /\ tip' = tip + 1
    /\ peak' = IF tip + 1 > peak THEN tip + 1 ELSE peak
    /\ \E included \in SUBSET {b \in Batch : Minable(b)} :
        /\ MapThenSumSet(Cost, included) <= Wallet
        /\ mined' = [b \in Batch |->
                        IF b \in included
                        THEN [height |-> tip + 1, branch |-> branch]
                        ELSE mined[b]]
    /\ UNCHANGED <<ledger, opened, winner, safety, state, facts, lapsed,
                   authorized, branch, funded, snapshot>>

Rollback ==
    /\ branch < MaxBranch
    /\ \E height \in 1..(tip - 1) :
        /\ height >= peak - RollbackWindow
        /\ tip' = height
        /\ mined' = [b \in Batch |->
                        IF mined[b].height > height THEN NoBlock
                        ELSE mined[b]]
    /\ branch' = branch + 1
    /\ UNCHANGED <<ledger, opened, winner, safety, state, facts, lapsed,
                   authorized, peak, funded, snapshot>>

\* The collector receives a mature reward, or loses it to a rollback (as
\* long as it was not spent).
ReceiveReward(w) ==
    /\ w \notin funded
    /\ funded' = funded \union {w}
    /\ UNCHANGED <<ledger, opened, winner, safety, state, facts, lapsed,
                   authorized, tip, peak, branch, mined, snapshot>>

LoseReward(w) ==
    /\ w \in funded /\ branch < MaxBranch
    /\ Wallet >= Gross(w)
    /\ funded' = funded \ {w}
    /\ branch' = branch + 1
    /\ UNCHANGED <<ledger, opened, winner, safety, state, facts, lapsed,
                   authorized, tip, peak, mined, snapshot>>

Observe ==
    /\ snapshot' = [tip |-> tip, mined |-> mined, spendable |-> Wallet]
    /\ UNCHANGED <<ledger, opened, winner, safety, state, facts, lapsed,
                   authorized, chain>>
-----------------------------------------------------------------------------
StoreStep(b) ==
    \/ CreatePayoutBatch(b)
    \/ Lapse(b)
    \/ AuthorizePayoutSigning(b)
    \/ MarkPayoutSigned(b)
    \/ CancelPayout(b)
    \/ AuthorizePayoutBroadcast(b)
    \/ MarkPayoutBroadcast(b)
    \/ HoldExpiredPayout(b)
    \/ ExpireHeldPayout(b)
    \/ ConfirmPayout(b)
    \/ MarkConfirmedPayoutReorged(b)

Next ==
    \/ RecordOpeningPoolEquity
    \/ RecordWalletReconciliation
    \/ \E b \in Batch : StoreStep(b)
    \/ \E w \in Winner : MatureWinner(w) \/ DematureWinner(w)
    \/ \E w \in Winner : ReceiveReward(w) \/ LoseReward(w)
    \/ MineBlock
    \/ Rollback
    \/ Observe

Spec == Init /\ [][Next]_vars

-----------------------------------------------------------------------------
\* Every variable keeps its type: the columns of payout_batches and
\* payout_items, the balances of the ledger, and the chain's heights.
TypeOK ==
    /\ payable \in [Miner -> Int] /\ pending \in [Miner -> Nat]
    /\ asset \in Int /\ equity \in Nat /\ version \in 0..MaxTransactions
    /\ opened \in BOOLEAN /\ frozen \in BOOLEAN
    /\ winner \in [Winner -> {"observed", "matured"}]
    /\ reconciliation.version \in -1..version
    /\ reconciliation.tip \in 0..MaxHeight
    /\ \A row \in mismatches : row[1] \in 0..version
    /\ state \in [Batch -> States]
    /\ liability \in [Batch -> [Miner -> Nat]]
    /\ amount \in [Batch -> [Miner -> Nat]]
    /\ fee \in [Batch -> Nat] /\ expiry \in [Batch -> Nat]
    /\ checkpoint \in [Batch -> Nat] /\ held \in [Batch -> Nat]
    /\ lapsed \subseteq Batch /\ authorized \subseteq Batch
    /\ tip \in 1..MaxHeight /\ peak \in tip..MaxHeight
    /\ branch \in 0..MaxBranch
    /\ \A b \in Batch : mined[b].height \in 0..tip
    /\ funded \subseteq Winner
    /\ snapshot.tip \in 0..peak

SumOver(Amount(_), set) == MapThenSumSet(Amount, set)

InState(set) == {b \in Batch : state[b] \in set}

\* payout_pending is exactly the gross liability of the batches that still
\* reserve it.  A second release, a confirmation after a release, or a
\* release that misses an output would break it.
PendingIsReserved ==
    \A m \in Miner :
        pending[m] = SumOver(LAMBDA b: liability[b][m], InState(Reserving))

Credited(m) ==
    SumOver(LAMBDA w: Reward[w][m], {w \in Winner : winner[w] = "matured"})

Charged(b, m) ==
    amount[b][m] + LargestRemainder(fee[b],
        [k \in Miner |-> liability[b][k] - amount[b][k]])[m]

\* Every miner's books close: what matured winners credited is payable,
\* reserved, or was paid out with the fee share that the payment cost, and
\* the spendable asset is what came in less what confirmed payouts cost.
BooksClose ==
    /\ \A m \in Miner :
        Credited(m) = payable[m] + pending[m]
                      + SumOver(LAMBDA b: Charged(b, m), InState(Settled))
    /\ asset = equity + Outstanding

\* A liability that went back to a miner's payable balance is never also paid
\* by the transaction that was signed for it: a batch whose reserve was
\* released, by cancellation or by expiry, is not in the best chain, whatever
\* rollbacks and late inclusions happen.
ReleasedNeverPaid ==
    \A b \in Batch : state[b] \in Released => mined[b] = NoBlock

\* A chain that owes more than its books can carry, because a paid reward
\* was lost or a confirmed payment left the chain, is frozen.
DebtFreezes ==
    \/ frozen
    \/ /\ \A m \in Miner : payable[m] >= 0
       /\ InState({"reorged"}) = {}

\* Once frozen, a chain stays frozen and no batch gains the authority to be
\* signed or broadcast; transactions already authorised may still settle.
FreezeFences ==
    [][frozen => /\ frozen'
                 /\ authorized' = authorized
                 /\ \A b \in Batch :
                        state[b] \in {"none", "draft"} =>
                            state'[b] \notin {"signing", "signed"}]_vars

\* The books are sound: they close for every miner, what is pending is what
\* open batches reserve, and a debt has frozen the chain.
BooksAreSound == PendingIsReserved /\ BooksClose /\ DebtFreezes
=============================================================================
