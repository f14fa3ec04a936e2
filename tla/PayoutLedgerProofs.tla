------------------------- MODULE PayoutLedgerProofs -------------------------
(***************************************************************************)
(* Proofs about the payout books, for every set of batches, miners and     *)
(* winners and every choice of the policy constants.                       *)
(*                                                                         *)
(* ReleasedNeverPaid is not inductive: expire_held_payout releases on the  *)
(* strength of an old snapshot, and the chain may still roll back and grow *)
(* afterwards.  SafeInv adds what makes the release final.  The best chain *)
(* never falls more than RollbackWindow below its peak; an absence seen    *)
(* FinalityDepth above the expiry height therefore means that the chain    *)
(* stays at or above the expiry height, where the transaction can no       *)
(* longer be included.  A batch that may still be cancelled was never      *)
(* authorised, and the chain holds authorised transactions only.           *)
(***************************************************************************)
EXTENDS PayoutLedger, TLAPS

Place == [height : Nat, branch : Nat]

\* The part of the type invariant that the proofs rest on.
ChainTyped ==
    /\ state \in [Batch -> States]
    /\ expiry \in [Batch -> Nat]
    /\ tip \in Nat /\ peak \in Nat /\ branch \in Nat
    /\ mined \in [Batch -> Place]
    /\ snapshot.tip \in Nat /\ snapshot.mined \in [Batch -> Place]

\* The best chain stays within the rollback window of its peak, which no
\* snapshot is above.
NearPeak ==
    /\ tip <= peak /\ peak <= tip + RollbackWindow
    /\ snapshot.tip <= peak

\* A batch that can still be cancelled, or was, is not authorised.
UnsignedUnauthorized ==
    \A b \in Batch :
        state[b] \in {"none", "draft", "signing", "signed", "cancelled"} =>
            b \notin authorized

MinedWasAuthorized ==
    \A b \in Batch : mined[b] # NoBlock => b \in authorized

\* An absence observed FinalityDepth above the expiry height is for ever.
DeepAbsenceIsFinal ==
    \A b \in Batch :
        snapshot.mined[b] = NoBlock /\ snapshot.tip >= expiry[b] + FinalityDepth
            => mined[b] = NoBlock

\* An expired batch is off the chain, and the chain is past its expiry.
ExpiredIsFinal ==
    \A b \in Batch :
        state[b] = "expired" =>
            mined[b] = NoBlock /\ peak >= expiry[b] + FinalityDepth

SafeInv ==
    /\ ChainTyped
    /\ NearPeak
    /\ UnsignedUnauthorized
    /\ MinedWasAuthorized
    /\ DeepAbsenceIsFinal
    /\ ExpiredIsFinal
-----------------------------------------------------------------------------
(* Steps that move one batch to another state and leave the chain alone *)

\* What the proofs look at besides state and authorized.
seen == <<expiry, tip, peak, branch, mined, snapshot>>

\* A batch may enter any state, if it is not authorised when the state is one
\* before broadcast, and is final when it expires.
LEMMA StateMove ==
    ASSUME SafeInv,
           NEW b \in Batch, NEW s \in States,
           state' = [state EXCEPT ![b] = s],
           authorized' = authorized, seen' = seen,
           s \in {"none", "draft", "signing", "signed", "cancelled"} =>
                b \notin authorized,
           s = "expired" =>
                mined[b] = NoBlock /\ peak >= expiry[b] + FinalityDepth
    PROVE  SafeInv'
<1>1. ChainTyped' /\ NearPeak' /\ MinedWasAuthorized' /\ DeepAbsenceIsFinal'
  BY DEF SafeInv, ChainTyped, NearPeak, MinedWasAuthorized,
         DeepAbsenceIsFinal, seen, NoBlock
<1>2. \A c \in Batch : state'[c] = IF c = b THEN s ELSE state[c]
  BY DEF SafeInv, ChainTyped
<1>3. UnsignedUnauthorized'
  BY <1>2 DEF SafeInv, UnsignedUnauthorized
<1>4. ExpiredIsFinal'
  BY <1>2 DEF SafeInv, ExpiredIsFinal, seen, NoBlock
<1> QED
  BY <1>1, <1>3, <1>4 DEF SafeInv

\* Steps that touch none of the variables the invariant reads.
LEMMA ElsewhereMove ==
    ASSUME SafeInv, state' = state, authorized' = authorized, seen' = seen
    PROVE  SafeInv'
  BY DEF SafeInv, ChainTyped, NearPeak, UnsignedUnauthorized,
         MinedWasAuthorized, DeepAbsenceIsFinal, ExpiredIsFinal, seen, NoBlock

\* Every step of the store on one batch keeps the invariant.
LEMMA StoreStepSafe ==
    ASSUME SafeInv, NEW b \in Batch, StoreStep(b)
    PROVE  SafeInv'
<1> USE DEF Enter
<1>0. state[b] \in {"none", "draft", "signing", "signed", "cancelled"} =>
        b \notin authorized
  BY DEF SafeInv, UnsignedUnauthorized
<1>1. CASE CreatePayoutBatch(b)
  <2>1. /\ state[b] = "none" /\ state' = [state EXCEPT ![b] = "draft"]
        /\ authorized' = authorized /\ seen' = seen
    BY <1>1 DEF CreatePayoutBatch, chain, seen
  <2> QED
    BY <2>1, <1>0, StateMove DEF States
<1>2. CASE Lapse(b)
  BY <1>2, ElsewhereMove DEF Lapse, facts, chain, seen
<1>3. CASE AuthorizePayoutSigning(b)
  <2>1. /\ state[b] = "draft" /\ state' = [state EXCEPT ![b] = "signing"]
        /\ authorized' = authorized /\ seen' = seen
    BY <1>3 DEF AuthorizePayoutSigning, facts, chain, seen
  <2> QED
    BY <2>1, <1>0, StateMove DEF States
<1>4. CASE MarkPayoutSigned(b)
  <2>1. PICK height \in tip..(tip + Validity) :
            expiry' = [expiry EXCEPT ![b] = height]
    BY <1>4 DEF MarkPayoutSigned
  <2>2. /\ state[b] = "signing" /\ state' = [state EXCEPT ![b] = "signed"]
        /\ authorized' = authorized
        /\ <<tip, peak, branch, mined, snapshot>>'
                = <<tip, peak, branch, mined, snapshot>>
    BY <1>4 DEF MarkPayoutSigned, chain
  <2>3. height \in Nat
    BY <2>1, PayoutAssumption DEF SafeInv, ChainTyped
  <2>4. \A c \in Batch : /\ state'[c] = IF c = b THEN "signed" ELSE state[c]
                         /\ expiry'[c] = IF c = b THEN height ELSE expiry[c]
    BY <2>1, <2>2 DEF SafeInv, ChainTyped
  <2>5. mined[b] = NoBlock
    BY <2>2, <1>0 DEF SafeInv, MinedWasAuthorized
  <2>6. ChainTyped'
    BY <2>1, <2>2, <2>3 DEF SafeInv, ChainTyped, States
  <2>7. NearPeak'
    BY <2>2 DEF SafeInv, NearPeak
  <2>8. UnsignedUnauthorized'
    BY <2>2, <2>4, <1>0 DEF SafeInv, UnsignedUnauthorized
  <2>9. MinedWasAuthorized'
    BY <2>2 DEF SafeInv, MinedWasAuthorized, NoBlock
  <2>10. DeepAbsenceIsFinal'
    BY <2>2, <2>4, <2>5 DEF SafeInv, DeepAbsenceIsFinal, NoBlock
  <2>11. ExpiredIsFinal'
    BY <2>2, <2>4 DEF SafeInv, ExpiredIsFinal, NoBlock
  <2> QED
    BY <2>6, <2>7, <2>8, <2>9, <2>10, <2>11 DEF SafeInv
<1>5. CASE CancelPayout(b)
  <2>1. /\ state[b] \in {"draft", "signing"}
        /\ state' = [state EXCEPT ![b] = "cancelled"]
        /\ authorized' = authorized /\ seen' = seen
    BY <1>5 DEF CancelPayout, facts, chain, seen
  <2> QED
    BY <2>1, <1>0, StateMove DEF States
<1>6. CASE AuthorizePayoutBroadcast(b)
  <2>1. /\ state' = [state EXCEPT ![b] = "broadcasting"]
        /\ authorized' = authorized \union {b} /\ seen' = seen
    BY <1>6 DEF AuthorizePayoutBroadcast, facts, chain, seen
  <2>2. \A c \in Batch :
            state'[c] = IF c = b THEN "broadcasting" ELSE state[c]
    BY <2>1 DEF SafeInv, ChainTyped
  <2>3. ChainTyped' /\ NearPeak' /\ DeepAbsenceIsFinal'
    BY <2>1 DEF SafeInv, ChainTyped, NearPeak, DeepAbsenceIsFinal, seen,
                NoBlock, States
  <2>4. UnsignedUnauthorized' /\ MinedWasAuthorized' /\ ExpiredIsFinal'
    <3>1. UnsignedUnauthorized'
      BY <2>1, <2>2 DEF SafeInv, UnsignedUnauthorized
    <3>2. MinedWasAuthorized'
      BY <2>1 DEF SafeInv, MinedWasAuthorized, seen, NoBlock
    <3>3. ExpiredIsFinal'
      BY <2>1, <2>2 DEF SafeInv, ExpiredIsFinal, seen, NoBlock
    <3> QED
      BY <3>1, <3>2, <3>3
  <2> QED
    BY <2>3, <2>4 DEF SafeInv
<1>7. CASE MarkPayoutBroadcast(b)
  <2>1. /\ state' = [state EXCEPT ![b] = "broadcast"]
        /\ authorized' = authorized /\ seen' = seen
    BY <1>7 DEF MarkPayoutBroadcast, facts, chain, seen
  <2> QED
    BY <2>1, StateMove DEF States
<1>8. CASE HoldExpiredPayout(b)
  <2>1. /\ state' = [state EXCEPT ![b] = "expiry_pending"]
        /\ authorized' = authorized /\ seen' = seen
    BY <1>8 DEF HoldExpiredPayout, chain, seen
  <2> QED
    BY <2>1, StateMove DEF States
<1>9. CASE ExpireHeldPayout(b)
  <2>1. /\ state' = [state EXCEPT ![b] = "expired"]
        /\ authorized' = authorized /\ seen' = seen
        /\ snapshot.mined[b] = NoBlock
        /\ snapshot.tip >= expiry[b] + FinalityDepth
    BY <1>9 DEF ExpireHeldPayout, FinalEvidence, ExpiryEvidence, facts, chain,
                seen
  <2>2. mined[b] = NoBlock
    BY <2>1 DEF SafeInv, DeepAbsenceIsFinal
  <2>3. peak >= expiry[b] + FinalityDepth
    BY <2>1, PayoutAssumption DEF SafeInv, NearPeak, ChainTyped
  <2> QED
    BY <2>1, <2>2, <2>3, StateMove DEF States
<1>10. CASE ConfirmPayout(b)
  <2>1. /\ state' = [state EXCEPT ![b] = "confirmed"]
        /\ authorized' = authorized /\ seen' = seen
    BY <1>10 DEF ConfirmPayout, chain, seen
  <2> QED
    BY <2>1, StateMove DEF States
<1>11. CASE MarkConfirmedPayoutReorged(b)
  <2>1. /\ state' = [state EXCEPT ![b] = "reorged"]
        /\ authorized' = authorized /\ seen' = seen
    BY <1>11 DEF MarkConfirmedPayoutReorged, facts, chain, seen
  <2> QED
    BY <2>1, StateMove DEF States
<1> QED
  BY <1>1, <1>2, <1>3, <1>4, <1>5, <1>6, <1>7, <1>8, <1>9, <1>10, <1>11
  DEF StoreStep
-----------------------------------------------------------------------------
(* Steps of the chain and of the observer *)

\* A block may include only batches that are authorised and not past their
\* expiry height, hence none whose absence is final.
LEMMA MineBlockSafe ==
    ASSUME SafeInv, MineBlock
    PROVE  SafeInv'
<1>1. PICK included \in SUBSET {b \in Batch : Minable(b)} :
        mined' = [b \in Batch |->
                    IF b \in included
                    THEN [height |-> tip + 1, branch |-> branch]
                    ELSE mined[b]]
  BY DEF MineBlock
<1>2. /\ tip' = tip + 1 /\ peak' = IF tip + 1 > peak THEN tip + 1 ELSE peak
      /\ state' = state /\ expiry' = expiry /\ authorized' = authorized
      /\ branch' = branch /\ snapshot' = snapshot
  BY DEF MineBlock, facts
<1>3. \A b \in Batch : mined'[b] # mined[b] =>
                            b \in authorized /\ tip + 1 <= expiry[b]
  BY <1>1 DEF Minable
<1>4. \A b \in Batch : peak >= expiry[b] + FinalityDepth => mined'[b] = mined[b]
  BY <1>3, PayoutAssumption DEF SafeInv, ChainTyped, NearPeak
<1>5. ChainTyped'
  BY <1>1, <1>2 DEF SafeInv, ChainTyped, Place
<1>6. NearPeak'
  BY <1>2, PayoutAssumption DEF SafeInv, ChainTyped, NearPeak
<1>7. UnsignedUnauthorized' /\ MinedWasAuthorized'
  BY <1>2, <1>3 DEF SafeInv, UnsignedUnauthorized, MinedWasAuthorized, NoBlock
<1>8. DeepAbsenceIsFinal'
  <2> SUFFICES ASSUME NEW b \in Batch, snapshot.mined[b] = NoBlock,
                      snapshot.tip >= expiry[b] + FinalityDepth
               PROVE  mined'[b] = NoBlock
    BY <1>2 DEF DeepAbsenceIsFinal, NoBlock
  <2>1. peak >= expiry[b] + FinalityDepth
    BY PayoutAssumption DEF SafeInv, ChainTyped, NearPeak
  <2> QED
    BY <1>4, <2>1 DEF SafeInv, DeepAbsenceIsFinal
<1>9. ExpiredIsFinal'
  <2> SUFFICES ASSUME NEW b \in Batch, state[b] = "expired"
               PROVE  mined'[b] = NoBlock /\ peak' >= expiry[b] + FinalityDepth
    BY <1>2 DEF ExpiredIsFinal, NoBlock
  <2>1. mined[b] = NoBlock /\ peak >= expiry[b] + FinalityDepth
    BY DEF SafeInv, ExpiredIsFinal
  <2>2. expiry[b] \in Nat /\ peak \in Nat /\ tip \in Nat
    BY DEF SafeInv, ChainTyped
  <2> QED
    BY <1>2, <1>4, <2>1, <2>2, PayoutAssumption
<1> QED
  BY <1>5, <1>6, <1>7, <1>8, <1>9 DEF SafeInv

\* A rollback only takes transactions off the chain, and not too far down.
LEMMA RollbackSafe ==
    ASSUME SafeInv, Rollback
    PROVE  SafeInv'
<1>1. PICK height \in 1..(tip - 1) :
        /\ height >= peak - RollbackWindow
        /\ tip' = height
        /\ mined' = [b \in Batch |-> IF mined[b].height > height THEN NoBlock
                                     ELSE mined[b]]
  BY DEF Rollback
<1>2. /\ state' = state /\ expiry' = expiry /\ authorized' = authorized
      /\ branch' = branch + 1 /\ snapshot' = snapshot /\ peak' = peak
  BY DEF Rollback, facts
<1>3. \A b \in Batch : mined'[b] \in {NoBlock, mined[b]}
  BY <1>1
<1>4. ChainTyped'
  BY <1>1, <1>2 DEF SafeInv, ChainTyped, Place, NoBlock
<1>5. NearPeak'
  <2>1. /\ tip \in Nat /\ peak \in Nat /\ RollbackWindow \in Nat
        /\ tip <= peak /\ snapshot.tip <= peak
    BY PayoutAssumption DEF SafeInv, ChainTyped, NearPeak
  <2>2. tip' <= peak /\ peak <= tip' + RollbackWindow
    BY <1>1, <2>1
  <2> QED
    BY <1>2, <2>1, <2>2 DEF NearPeak
<1>6. UnsignedUnauthorized' /\ MinedWasAuthorized'
  BY <1>2, <1>3 DEF SafeInv, UnsignedUnauthorized, MinedWasAuthorized, NoBlock
<1>7. DeepAbsenceIsFinal' /\ ExpiredIsFinal'
  BY <1>2, <1>3 DEF SafeInv, DeepAbsenceIsFinal, ExpiredIsFinal, NoBlock
<1> QED
  BY <1>4, <1>5, <1>6, <1>7 DEF SafeInv

\* A new snapshot shows the chain as it is.
LEMMA ObserveSafe ==
    ASSUME SafeInv, Observe
    PROVE  SafeInv'
<1>1. /\ snapshot'.tip = tip /\ snapshot'.mined = mined
      /\ state' = state /\ expiry' = expiry /\ authorized' = authorized
      /\ tip' = tip /\ peak' = peak /\ branch' = branch /\ mined' = mined
  BY DEF Observe, facts, chain
<1> QED
  BY <1>1 DEF SafeInv, ChainTyped, NearPeak, UnsignedUnauthorized,
              MinedWasAuthorized, DeepAbsenceIsFinal, ExpiredIsFinal, NoBlock
-----------------------------------------------------------------------------
\* The empty ledger satisfies the invariant.
LEMMA SafeInvInitially ==
    ASSUME Init
    PROVE  SafeInv
<1>1. \A b \in Batch : /\ state[b] = "none" /\ mined[b] = NoBlock
                       /\ expiry[b] = 0
  BY DEF Init
<1>2. ChainTyped
  BY DEF Init, ChainTyped, Place, NoBlock, States
<1>3. NearPeak /\ UnsignedUnauthorized
  <2>1. NearPeak
    BY PayoutAssumption DEF Init, NearPeak
  <2>2. UnsignedUnauthorized
    BY DEF Init, UnsignedUnauthorized
  <2> QED
    BY <2>1, <2>2
<1>4. MinedWasAuthorized /\ DeepAbsenceIsFinal /\ ExpiredIsFinal
  BY <1>1 DEF MinedWasAuthorized, DeepAbsenceIsFinal, ExpiredIsFinal
<1> QED
  BY <1>2, <1>3, <1>4 DEF SafeInv

\* Every operation on the ledger keeps the invariant.
LEMMA SafeInvKept ==
    ASSUME SafeInv, [Next]_vars
    PROVE  SafeInv'
<1>1. CASE RecordOpeningPoolEquity
  BY <1>1, ElsewhereMove DEF RecordOpeningPoolEquity, facts, chain, seen
<1>2. CASE RecordWalletReconciliation
  BY <1>2, ElsewhereMove DEF RecordWalletReconciliation, facts, chain, seen
<1>3. ASSUME NEW b \in Batch, StoreStep(b)
      PROVE  SafeInv'
  BY <1>3, StoreStepSafe
<1>4. ASSUME NEW w \in Winner, MatureWinner(w) \/ DematureWinner(w)
      PROVE  SafeInv'
  BY <1>4, ElsewhereMove DEF MatureWinner, DematureWinner, facts, chain, seen
<1>5. ASSUME NEW w \in Winner, ReceiveReward(w)
      PROVE  SafeInv'
  BY <1>5, ElsewhereMove DEF ReceiveReward, facts, seen
<1>6. ASSUME NEW w \in Winner, LoseReward(w)
      PROVE  SafeInv'
  <2>1. /\ branch' = branch + 1 /\ state' = state /\ authorized' = authorized
        /\ <<expiry, tip, peak, mined, snapshot>>'
                = <<expiry, tip, peak, mined, snapshot>>
    BY <1>6 DEF LoseReward, facts
  <2>2. ChainTyped' /\ NearPeak'
    BY <2>1 DEF SafeInv, ChainTyped, NearPeak
  <2>3. UnsignedUnauthorized' /\ MinedWasAuthorized'
    BY <2>1 DEF SafeInv, UnsignedUnauthorized, MinedWasAuthorized, NoBlock
  <2>4. DeepAbsenceIsFinal' /\ ExpiredIsFinal'
    BY <2>1 DEF SafeInv, DeepAbsenceIsFinal, ExpiredIsFinal, NoBlock
  <2> QED
    BY <2>2, <2>3, <2>4 DEF SafeInv
<1>7. CASE MineBlock
  BY <1>7, MineBlockSafe
<1>8. CASE Rollback
  BY <1>8, RollbackSafe
<1>9. CASE Observe
  BY <1>9, ObserveSafe
<1>10. CASE UNCHANGED vars
  BY <1>10, ElsewhereMove DEF vars, facts, chain, seen
<1> QED
  BY <1>1, <1>2, <1>3, <1>4, <1>5, <1>6, <1>7, <1>8, <1>9, <1>10 DEF Next

\* The invariant behind the theorems holds in every reachable state.
THEOREM SafeInvIsInvariant == Spec => []SafeInv
<1>1. Init => SafeInv
  BY SafeInvInitially
<1>2. SafeInv /\ [Next]_vars => SafeInv'
  BY SafeInvKept
<1> QED
  BY <1>1, <1>2, PTL DEF Spec

\* A liability that cancel_payout_draft, cancel_rejected_payout_signing or
\* expire_held_payout gave back to its miner is never also paid on chain,
\* however stale the snapshot it was released on, as long as the finality
\* depth is not below the depth of the rollbacks.
THEOREM ReleasedLiabilitiesStayUnpaid == Spec => []ReleasedNeverPaid
<1>1. SafeInv => ReleasedNeverPaid
  BY DEF SafeInv, UnsignedUnauthorized, MinedWasAuthorized, ExpiredIsFinal,
         ReleasedNeverPaid, Released
<1> QED
  BY <1>1, SafeInvIsInvariant, PTL
-----------------------------------------------------------------------------
\* A frozen chain does not thaw and hands out no authority to sign or to
\* broadcast: authorize_payout_signing, authorize_payout_broadcast and
\* create_payout_batch all refuse it, and nothing else grants any.
THEOREM FreezeIsAFence == Spec => FreezeFences
<1> DEFINE Fenced ==
        frozen => /\ frozen'
                  /\ authorized' = authorized
                  /\ \A b \in Batch :
                        state[b] \in {"none", "draft"} =>
                            state'[b] \notin {"signing", "signed"}
<1>1. ASSUME SafeInv, [Next]_vars, frozen
      PROVE  /\ frozen' /\ authorized' = authorized
             /\ \A b \in Batch : state[b] \in {"none", "draft"} =>
                                    state'[b] \notin {"signing", "signed"}
  <2>1. ASSUME NEW c \in Batch, StoreStep(c)
        PROVE  /\ frozen' /\ authorized' = authorized
               /\ \A b \in Batch : state[b] \in {"none", "draft"} =>
                                    state'[b] \notin {"signing", "signed"}
    <3>0. state \in [Batch -> States]
      BY <1>1 DEF SafeInv, ChainTyped
    <3>1. CASE Lapse(c)
      BY <1>1, <3>1 DEF Lapse, safety
    <3>2. CASE MarkPayoutSigned(c)
      BY <1>1, <3>0, <3>2 DEF MarkPayoutSigned, Enter, safety
    <3>3. CASE CancelPayout(c)
      BY <1>1, <3>0, <3>3 DEF CancelPayout, Enter, safety
    <3>4. CASE MarkPayoutBroadcast(c)
      BY <1>1, <3>0, <3>4 DEF MarkPayoutBroadcast, Enter, safety
    <3>5. CASE HoldExpiredPayout(c)
      BY <1>1, <3>0, <3>5 DEF HoldExpiredPayout, Enter, safety
    <3>6. CASE ExpireHeldPayout(c)
      BY <1>1, <3>0, <3>6 DEF ExpireHeldPayout, Enter, safety
    <3>7. CASE ConfirmPayout(c)
      BY <1>1, <3>0, <3>7 DEF ConfirmPayout, Enter, safety
    <3>8. CASE MarkConfirmedPayoutReorged(c)
      BY <1>1, <3>0, <3>8 DEF MarkConfirmedPayoutReorged, Enter
    <3> QED
      BY <1>1, <2>1, <3>1, <3>2, <3>3, <3>4, <3>5, <3>6, <3>7, <3>8
      DEF StoreStep, CreatePayoutBatch, AuthorizePayoutSigning,
          AuthorizePayoutBroadcast
  <2>2. CASE RecordOpeningPoolEquity
    BY <1>1, <2>2 DEF RecordOpeningPoolEquity, safety
  <2>3. CASE RecordWalletReconciliation
    BY <1>1, <2>3 DEF RecordWalletReconciliation
  <2>4. ASSUME NEW w \in Winner, MatureWinner(w) \/ DematureWinner(w)
        PROVE  frozen' /\ authorized' = authorized /\ state' = state
    BY <1>1, <2>4 DEF MatureWinner, DematureWinner, safety
  <2>5. ASSUME NEW w \in Winner, ReceiveReward(w) \/ LoseReward(w)
        PROVE  frozen' /\ authorized' = authorized /\ state' = state
    BY <1>1, <2>5 DEF ReceiveReward, LoseReward, safety
  <2>6. CASE MineBlock \/ Rollback \/ Observe
    BY <1>1, <2>6 DEF MineBlock, Rollback, Observe, safety
  <2>7. CASE UNCHANGED vars
    BY <1>1, <2>7 DEF vars, safety
  <2> QED
    BY <1>1, <2>1, <2>2, <2>3, <2>4, <2>5, <2>6, <2>7 DEF Next
<1>2. SafeInv /\ [Next]_vars => [Fenced]_vars
  BY <1>1
<1> QED
  BY <1>2, SafeInvIsInvariant, PTL DEF Spec, FreezeFences
=============================================================================
