----------------------- MODULE WinnerProjectionProofs -----------------------
(***************************************************************************)
(* Proofs about which witness carries the credit of a winning block, for   *)
(* every set of shares, blocks and accounts and every number of events.    *)
(*                                                                         *)
(* SelectedWitnessStands is not inductive: a quarantine leaves the credit  *)
(* alone when another witness is selected, which is right only if at most  *)
(* one is selected, and a newly committed share must not already be one.   *)
(* WitnessInv adds both, and that a matured winner names its maturity,     *)
(* which is what reverse_winner goes by when it freezes payouts.           *)
(***************************************************************************)
EXTENDS WinnerProjection, TLAPS

Credit == {"observed", "matured"}

WinnerStates == {"none", "submitted", "side_chain", "observed", "matured",
                 "quarantined", "requeued", "orphaned"}

WinnerRow == [state : WinnerStates, share : SUBSET Share,
              active : SUBSET Share, observation : Nat, maturity : Nat]

\* A winner w whose witnesses have the proof states p is consistent.
Consistent(w, p) ==
    /\ (w.state \in Credit) <=> w.active # {}
    /\ \A s \in w.active : p[s] \in Credit
    /\ \A s, t \in w.active : s = t
    /\ w.state = "matured" => w.maturity # None

\* The part of the type invariant that the proofs rest on.
RowsTyped ==
    /\ cursor \in Nat
    /\ committed \in [Share -> Nat]
    /\ winners \in [Block -> WinnerRow]
    /\ proofs \in [Block -> [Share -> WinnerStates]]

\* A share that is not committed has no proof row.
NoProofBeforeCommit ==
    \A s \in Share : committed[s] = 0 => \A b \in Block : proofs[b][s] = "none"

WitnessInv ==
    /\ RowsTyped
    /\ NoProofBeforeCommit
    /\ \A b \in Block : Consistent(winners[b], proofs[b])
-----------------------------------------------------------------------------
\* update_winner_state clears the selection exactly when the credit goes.
LEMMA RowFacts ==
    ASSUME NEW w \in WinnerRow, NEW st \in WinnerStates,
           NEW o \in Nat, NEW m \in Nat
    PROVE  /\ Row(w, st, o, m) \in WinnerRow
           /\ Row(w, st, o, m).state = st
           /\ Row(w, st, o, m).maturity = m
           /\ Row(w, st, o, m).active = IF st \in Credit THEN w.active ELSE {}
  BY DEF Row, WinnerRow, Credit

\* select_winner_proof changes the selection and nothing else.
LEMMA SelectFacts ==
    ASSUME NEW w \in WinnerRow, NEW s \in Share
    PROVE  /\ Select(w, s) \in WinnerRow
           /\ Select(w, s).state = w.state
           /\ Select(w, s).maturity = w.maturity
           /\ Select(w, s).active = {s}
  BY DEF Select, WinnerRow

\* Crediting a block through witness s leaves it consistent.
LEMMA SelectedIsConsistent ==
    ASSUME NEW w \in WinnerRow, NEW s \in Share, w.state \in Credit,
           w.state = "matured" => w.maturity # None,
           NEW p \in [Share -> WinnerStates], p[s] \in Credit
    PROVE  Select(w, s) \in WinnerRow /\ Consistent(Select(w, s), p)
  <1>1. /\ Select(w, s) \in WinnerRow
        /\ Select(w, s).state = w.state
        /\ Select(w, s).maturity = w.maturity
        /\ Select(w, s).active = {s}
    BY SelectFacts
  <1> QED
    BY <1>1 DEF Consistent

\* Taking the credit away leaves a block consistent, whatever its witnesses.
LEMMA UncreditedIsConsistent ==
    ASSUME NEW w \in WinnerRow, NEW st \in WinnerStates \ Credit,
           NEW p \in [Share -> WinnerStates]
    PROVE  Row(w, st, None, None) \in WinnerRow
           /\ Consistent(Row(w, st, None, None), p)
  <1>1. None \in Nat
    BY DEF None
  <1>2. /\ Row(w, st, None, None) \in WinnerRow
        /\ Row(w, st, None, None).state = st
        /\ Row(w, st, None, None).active = {}
    BY <1>1, RowFacts
  <1> QED
    BY <1>2 DEF Consistent, Credit

\* An event about one witness of one block keeps the invariant when it leaves
\* that block consistent.
LEMMA WitnessMove ==
    ASSUME WitnessInv,
           NEW b \in Block, NEW s \in Share, proofs[b][s] # "none",
           NEW w \in WinnerRow, NEW st \in WinnerStates,
           winners' = [winners EXCEPT ![b] = w], Proved(b, s, st),
           committed' = committed, cursor' \in Nat,
           Consistent(w, [proofs[b] EXCEPT ![s] = st])
    PROVE  WitnessInv'
<1>1. /\ proofs' = [proofs EXCEPT ![b] = [proofs[b] EXCEPT ![s] = st]]
      /\ proofs[b] \in [Share -> WinnerStates]
  BY DEF Proved, WitnessInv, RowsTyped
<1>2. RowsTyped'
  BY <1>1 DEF WitnessInv, RowsTyped
<1>3. \A c \in Block :
        /\ winners'[c] = IF c = b THEN w ELSE winners[c]
        /\ proofs'[c] = IF c = b THEN [proofs[b] EXCEPT ![s] = st] ELSE proofs[c]
  BY <1>1 DEF WitnessInv, RowsTyped
<1>4. \A c \in Block : Consistent(winners'[c], proofs'[c])
  BY <1>3 DEF WitnessInv
<1>5. committed[s] # 0
  BY DEF WitnessInv, NoProofBeforeCommit
<1>6. NoProofBeforeCommit'
  BY <1>1, <1>3, <1>5 DEF WitnessInv, NoProofBeforeCommit
<1>7. (\A c \in Block : Consistent(winners[c], proofs[c]))'
  BY <1>4 DEF Consistent
<1> QED
  BY <1>2, <1>6, <1>7 DEF WitnessInv
-----------------------------------------------------------------------------
\* Crediting block b through witness s, whatever economic row it gets, keeps
\* the invariant: the shape of WinnerObserved and WinnerMatured.
LEMMA CreditMove ==
    ASSUME WitnessInv, Advance,
           NEW b \in Block, NEW s \in Share, proofs[b][s] # "none",
           NEW w \in WinnerRow, w.state \in Credit,
           w.state = "matured" => w.maturity # None,
           NEW st \in Credit,
           winners' = [winners EXCEPT ![b] = Select(w, s)], Proved(b, s, st),
           committed' = committed
    PROVE  WitnessInv' /\ winners'[b].active = {s}
<1> DEFINE p == [proofs[b] EXCEPT ![s] = st]
<1>1. st \in WinnerStates /\ cursor' \in Nat
  BY DEF Credit, WinnerStates, WitnessInv, RowsTyped, Advance, seq
<1>2. p \in [Share -> WinnerStates] /\ p[s] = st
  BY <1>1 DEF WitnessInv, RowsTyped
<1>3. Select(w, s) \in WinnerRow /\ Consistent(Select(w, s), p)
  BY <1>2, SelectedIsConsistent
<1>4. winners'[b].active = {s}
  BY SelectFacts DEF WitnessInv, RowsTyped
<1> QED
  BY <1>1, <1>3, <1>4, WitnessMove

\* The same when update_winner_state wrote the economic row.
LEMMA CreditRowMove ==
    ASSUME WitnessInv, Advance,
           NEW b \in Block, NEW s \in Share, proofs[b][s] # "none",
           NEW st \in Credit, NEW o \in Nat, NEW m \in Nat,
           st = "matured" => m # None,
           winners' = [winners EXCEPT ![b] =
                        Select(Row(winners[b], st, o, m), s)],
           Proved(b, s, st), committed' = committed
    PROVE  WitnessInv' /\ winners'[b].active = {s}
<1> DEFINE w == Row(winners[b], st, o, m)
<1>1. winners[b] \in WinnerRow /\ st \in WinnerStates
  BY DEF WitnessInv, RowsTyped, Credit, WinnerStates
<1>2. w \in WinnerRow /\ w.state = st /\ w.maturity = m
  BY <1>1, RowFacts
<1>3. winners' = [winners EXCEPT ![b] = Select(w, s)]
  OBVIOUS
<1> HIDE DEF w
<1> QED
  BY <1>2, <1>3, CreditMove

\* Taking the credit of block b away on an event about witness s keeps the
\* invariant: the shape of reverse_winner.
LEMMA UncreditMove ==
    ASSUME WitnessInv, Advance,
           NEW b \in Block, NEW s \in Share, proofs[b][s] # "none",
           NEW st \in WinnerStates \ Credit,
           winners' = [winners EXCEPT ![b] = Row(winners[b], st, None, None)],
           Proved(b, s, st), committed' = committed
    PROVE  WitnessInv'
<1> DEFINE p == [proofs[b] EXCEPT ![s] = st]
<1>1. cursor' \in Nat
  BY DEF WitnessInv, RowsTyped, Advance, seq
<1>2. p \in [Share -> WinnerStates] /\ winners[b] \in WinnerRow
  BY DEF WitnessInv, RowsTyped
<1>3. /\ Row(winners[b], st, None, None) \in WinnerRow
      /\ Consistent(Row(winners[b], st, None, None), p)
  BY <1>2, UncreditedIsConsistent
<1> QED
  BY <1>1, <1>3, WitnessMove

\* An event about a witness that is not selected may leave the economic row as
\* it is.
LEMMA BystanderMove ==
    ASSUME WitnessInv, Advance,
           NEW b \in Block, NEW s \in Share, proofs[b][s] # "none",
           s \notin winners[b].active, NEW st \in WinnerStates,
           winners' = winners, Proved(b, s, st), committed' = committed
    PROVE  WitnessInv'
<1> DEFINE p == [proofs[b] EXCEPT ![s] = st]
<1>1. cursor' \in Nat
  BY DEF WitnessInv, RowsTyped, Advance, seq
<1>2. /\ winners[b] \in WinnerRow
      /\ winners' = [winners EXCEPT ![b] = winners[b]]
  BY DEF WitnessInv, RowsTyped
<1>3. \A t \in winners[b].active : p[t] = proofs[b][t]
  <2>1. winners[b].active \subseteq Share
    BY <1>2 DEF WinnerRow
  <2> QED
    BY <2>1 DEF WitnessInv, RowsTyped
<1>4. Consistent(winners[b], p)
  BY <1>3 DEF WitnessInv, Consistent
<1> QED
  BY <1>1, <1>2, <1>4, WitnessMove
-----------------------------------------------------------------------------
\* No block has a winner at the start.
LEMMA WitnessInvInitially == Init => WitnessInv
<1> SUFFICES ASSUME Init PROVE WitnessInv
  OBVIOUS
<1>1. NoWinner \in WinnerRow /\ NoWinner.state = "none" /\ NoWinner.active = {}
  BY DEF NoWinner, WinnerRow, WinnerStates, None
<1>2. RowsTyped
  BY <1>1 DEF Init, RowsTyped, WinnerStates
<1>3. NoProofBeforeCommit
  BY DEF Init, NoProofBeforeCommit
<1>4. \A b \in Block : Consistent(winners[b], proofs[b])
  BY <1>1 DEF Init, Consistent, Credit
<1> QED
  BY <1>2, <1>3, <1>4 DEF WitnessInv

\* ShareCommitted adds witnesses that nothing has selected.
LEMMA CommitShareWitness ==
    ASSUME WitnessInv, NEW s \in Share, CommitShare(s)
    PROVE  WitnessInv'
<1> DEFINE fresh == [NoWinner EXCEPT !.state = "submitted", !.share = {s}]
<1>1. /\ fresh \in WinnerRow
      /\ fresh.state = "submitted" /\ fresh.active = {}
  BY DEF NoWinner, WinnerRow, WinnerStates, None
<1>2. \A b \in Block :
        winners'[b] = IF b \in Proves[s] /\ winners[b].state = "none"
                      THEN fresh ELSE winners[b]
  BY DEF CommitShare, InsertWinners
<1>3. \A b \in Block, t \in Share :
        proofs'[b][t] = IF b \in Proves[s] /\ t = s
                        THEN "submitted" ELSE proofs[b][t]
  BY DEF CommitShare, InsertWinners, WitnessInv, RowsTyped
<1>4. committed' = [committed EXCEPT ![s] = seq] /\ seq \in Nat /\ seq # 0
  BY DEF CommitShare, seq, WitnessInv, RowsTyped
<1>5. RowsTyped'
  <2>1. cursor' \in Nat /\ committed' \in [Share -> Nat]
    BY <1>4 DEF CommitShare, Advance, WitnessInv, RowsTyped
  <2>2. winners' \in [Block -> WinnerRow]
    BY <1>1 DEF CommitShare, InsertWinners, WitnessInv, RowsTyped
  <2>3. proofs' \in [Block -> [Share -> WinnerStates]]
    BY DEF CommitShare, InsertWinners, WitnessInv, RowsTyped, WinnerStates
  <2> QED
    BY <2>1, <2>2, <2>3 DEF RowsTyped
<1>6. NoProofBeforeCommit'
  BY <1>3, <1>4 DEF WitnessInv, NoProofBeforeCommit, RowsTyped
<1>7. ASSUME NEW b \in Block
      PROVE  Consistent(winners[b], proofs[b])'
  <2>1. Consistent(winners[b], proofs[b]) /\ winners[b] \in WinnerRow
    BY DEF WitnessInv, RowsTyped
  <2>2. CASE winners'[b] = fresh
    BY <1>1, <2>2 DEF Consistent, Credit
  <2>3. CASE winners'[b] = winners[b]
    <3>1. proofs[b][s] = "none"
      BY DEF CommitShare, WitnessInv, NoProofBeforeCommit
    <3>2. s \notin winners[b].active
      BY <2>1, <3>1 DEF Consistent, Credit
    <3>3. \A t \in winners[b].active : proofs'[b][t] = proofs[b][t]
      BY <1>3, <2>1, <3>2 DEF WinnerRow
    <3> QED
      BY <2>1, <2>3, <3>3 DEF Consistent
  <2> QED
    BY <1>2, <2>2, <2>3
<1> QED
  BY <1>5, <1>6, <1>7 DEF WitnessInv

\* WinnerObserved: a block keeps its credit, loses its maturity or is credited,
\* and in each case the observed witness is the selected one.
LEMMA ObserveWinnerWitness ==
    ASSUME WitnessInv, NEW b \in Block, NEW s \in Share, NEW deep \in BOOLEAN,
           ObserveWinner(b, s, deep)
    PROVE  WitnessInv' /\ winners'[b].active = {s}
<1>1. /\ winners[b] \in WinnerRow /\ Consistent(winners[b], proofs[b])
      /\ seq \in Nat /\ winners[b].observation \in Nat /\ None \in Nat
  BY DEF WitnessInv, RowsTyped, WinnerRow, seq, None
<1>2. /\ Advance /\ proofs[b][s] # "none" /\ Proved(b, s, "observed")
      /\ committed' = committed
  BY DEF ObserveWinner
<1>3. "observed" \in Credit /\ "observed" \in WinnerStates
  BY DEF Credit, WinnerStates
<1>4. ASSUME NEW o \in Nat,
             winners' = [winners EXCEPT ![b] =
                            Select(Row(winners[b], "observed", o, None), s)]
      PROVE  WitnessInv' /\ winners'[b].active = {s}
  BY <1>1, <1>2, <1>3, <1>4, CreditRowMove
<1>5. CASE /\ winners[b].state \in Credit
           /\ winners' = [winners EXCEPT ![b] = Select(winners[b], s)]
  BY <1>1, <1>2, <1>3, <1>5, CreditMove DEF Consistent
<1>6. CASE DematureWinner(b, s)
  BY <1>1, <1>4, <1>6 DEF DematureWinner
<1>7. CASE CreditWinner(b, s)
  BY <1>1, <1>4, <1>7 DEF CreditWinner
<1> QED
  BY <1>5, <1>6, <1>7 DEF ObserveWinner, Credit

\* WinnerMatured: the economic row names the event of its maturity.
LEMMA MatureWinnerWitness ==
    ASSUME WitnessInv, NEW b \in Block, NEW s \in Share, MatureWinner(b, s)
    PROVE  WitnessInv' /\ winners'[b].active = {s}
<1>1. /\ winners[b] \in WinnerRow /\ Consistent(winners[b], proofs[b])
      /\ seq \in Nat /\ seq # None /\ winners[b].observation \in Nat
  BY DEF WitnessInv, RowsTyped, WinnerRow, seq, None
<1>2. /\ Advance /\ proofs[b][s] # "none" /\ Proved(b, s, "matured")
      /\ committed' = committed
  BY DEF MatureWinner
<1>3. "matured" \in Credit /\ "matured" \in WinnerStates
  BY DEF Credit, WinnerStates
<1>4. ASSUME NEW o \in Nat,
             winners' = [winners EXCEPT ![b] =
                            Select(Row(winners[b], "matured", o, seq), s)]
      PROVE  WitnessInv' /\ winners'[b].active = {s}
  BY <1>1, <1>2, <1>3, <1>4, CreditRowMove
<1>5. CASE /\ winners[b].state = "matured"
           /\ winners' = [winners EXCEPT ![b] = Select(winners[b], s)]
  BY <1>1, <1>2, <1>3, <1>5, CreditMove DEF Consistent
<1>6. CASE \E o \in Nat : winners' = [winners EXCEPT ![b] =
                            Select(Row(winners[b], "matured", o, seq), s)]
  BY <1>4, <1>6
<1> QED
  BY <1>1, <1>5, <1>6 DEF MatureWinner, MatureEconomicWinner

\* WinnerQuarantined: the credit stays exactly when another witness holds it.
LEMMA QuarantineWinnerWitness ==
    ASSUME WitnessInv, NEW b \in Block, NEW s \in Share, QuarantineWinner(b, s)
    PROVE  WitnessInv'
<1>1. /\ Advance /\ proofs[b][s] # "none" /\ Proved(b, s, "quarantined")
      /\ committed' = committed
  BY DEF QuarantineWinner
<1>2. "quarantined" \in WinnerStates \ Credit /\ "quarantined" \in WinnerStates
  BY DEF Credit, WinnerStates
<1>3. CASE SelectedElsewhere(winners[b], s)
  <2>1. winners' = winners
    BY <1>3 DEF QuarantineWinner
  <2>2. s \notin winners[b].active
    BY <1>3 DEF SelectedElsewhere, WitnessInv, Consistent
  <2> QED
    BY <1>1, <1>2, <2>1, <2>2, BystanderMove
<1>4. CASE ~SelectedElsewhere(winners[b], s)
  <2>1. winners' = [winners EXCEPT ![b] =
                        Row(winners[b], "quarantined", None, None)]
    BY <1>4 DEF QuarantineWinner, Uncredit
  <2> QED
    BY <1>1, <1>2, <2>1, UncreditMove
<1> QED
  BY <1>3, <1>4

\* WinnerRequeued: a quarantined witness is never the selected one.
LEMMA RequeueWinnerWitness ==
    ASSUME WitnessInv, NEW b \in Block, NEW s \in Share, RequeueWinner(b, s)
    PROVE  WitnessInv'
<1>1. /\ Advance /\ proofs[b][s] = "quarantined" /\ Proved(b, s, "requeued")
      /\ committed' = committed
  BY DEF RequeueWinner
<1>2. "requeued" \in WinnerStates \ Credit /\ "requeued" \in WinnerStates
  BY DEF Credit, WinnerStates
<1>3. s \notin winners[b].active
  BY <1>1 DEF WitnessInv, Consistent, Credit
<1>4. CASE winners[b].active = {} /\ winners[b].state = "quarantined"
  <2>1. winners' = [winners EXCEPT ![b] =
                        Row(winners[b], "requeued", None, None)]
    BY <1>4 DEF RequeueWinner
  <2> QED
    BY <1>1, <1>2, <2>1, UncreditMove
<1>5. CASE ~(winners[b].active = {} /\ winners[b].state = "quarantined")
  <2>1. winners' = winners
    BY <1>5 DEF RequeueWinner, WitnessInv, RowsTyped
  <2> QED
    BY <1>1, <1>2, <1>3, <2>1, BystanderMove
<1> QED
  BY <1>4, <1>5

\* Every event keeps the invariant.
LEMMA WitnessInvKept ==
    ASSUME WitnessInv, [Next]_vars
    PROVE  WitnessInv'
<1>1. ASSUME winners' = winners, proofs' = proofs, committed' = committed,
             cursor' \in Nat
      PROVE  WitnessInv'
  BY <1>1 DEF WitnessInv, RowsTyped, NoProofBeforeCommit, Consistent
<1>2. ASSUME NEW j \in Job, ActivateJob(j) PROVE WitnessInv'
  BY <1>1, <1>2 DEF ActivateJob, Advance, seq, WitnessInv, RowsTyped
<1>3. CASE RetireJob
  BY <1>1, <1>3 DEF RetireJob, Advance, seq, WitnessInv, RowsTyped
<1>4. ASSUME NEW s \in Share, CommitShare(s) PROVE WitnessInv'
  BY <1>4, CommitShareWitness
<1>5. ASSUME NEW b \in Block, NEW s \in Share, SideChain(b, s) PROVE WitnessInv'
  <2>1. /\ Advance /\ proofs[b][s] # "none" /\ Proved(b, s, "side_chain")
        /\ committed' = committed
        /\ winners' = [winners EXCEPT ![b] =
                        Row(winners[b], "side_chain", None, None)]
    BY <1>5 DEF SideChain
  <2>2. "side_chain" \in WinnerStates \ Credit
    BY DEF Credit, WinnerStates
  <2> QED
    BY <2>1, <2>2, UncreditMove
<1>6. ASSUME NEW b \in Block, NEW s \in Share, OrphanWinner(b, s)
      PROVE  WitnessInv'
  <2>1. /\ Advance /\ proofs[b][s] # "none" /\ Proved(b, s, "orphaned")
        /\ committed' = committed
        /\ winners' = [winners EXCEPT ![b] =
                        Row(winners[b], "orphaned", None, None)]
    BY <1>6 DEF OrphanWinner, Uncredit
  <2>2. "orphaned" \in WinnerStates \ Credit
    BY DEF Credit, WinnerStates
  <2> QED
    BY <2>1, <2>2, UncreditMove
<1>7. ASSUME NEW b \in Block, NEW s \in Share, WitnessEvent(b, s)
      PROVE  WitnessInv'
  BY <1>5, <1>6, <1>7, ObserveWinnerWitness, MatureWinnerWitness,
     QuarantineWinnerWitness, RequeueWinnerWitness DEF WitnessEvent
<1>8. ASSUME NEW c \in Chains, ChangeExposure(c) PROVE WitnessInv'
  BY <1>1, <1>8 DEF ChangeExposure, WitnessInv, RowsTyped
<1>9. CASE UNCHANGED vars
  BY <1>1, <1>9 DEF vars, WitnessInv, RowsTyped
<1> QED
  BY <1>2, <1>3, <1>4, <1>7, <1>8, <1>9 DEF Next

\* The inductive invariant of the projection.
THEOREM WitnessInvIsInvariant == Spec => []WitnessInv
<1>1. Init => WitnessInv
  BY WitnessInvInitially
<1>2. WitnessInv /\ [Next]_vars => WitnessInv'
  BY WitnessInvKept
<1> QED
  BY <1>1, <1>2, PTL DEF Spec

\* A winner is credited exactly while a witness is selected, and the selected
\* witness stands: for any number of witnesses, blocks and events.
THEOREM CreditRestsOnAWitness == Spec => []SelectedWitnessStands
<1>1. WitnessInv => SelectedWitnessStands
  BY DEF WitnessInv, Consistent, Credit, SelectedWitnessStands
<1> QED
  BY <1>1, WitnessInvIsInvariant, PTL
-----------------------------------------------------------------------------
\* An event about block c leaves the winners of other blocks alone.
LEMMA OtherWinnersStay ==
    ASSUME WitnessInv, NEW b \in Block, NEW c \in Block, NEW s \in Share,
           WitnessEvent(c, s), b # c
    PROVE  winners'[b] = winners[b]
<1>1. ASSUME NEW w, winners' = [winners EXCEPT ![c] = w]
      PROVE  winners'[b] = winners[b]
  BY <1>1 DEF WitnessInv, RowsTyped
<1>2. CASE SideChain(c, s)
  BY <1>1, <1>2 DEF SideChain
<1>3. ASSUME NEW deep \in BOOLEAN, ObserveWinner(c, s, deep)
      PROVE  winners'[b] = winners[b]
  BY <1>1, <1>3 DEF ObserveWinner, DematureWinner, CreditWinner
<1>4. CASE MatureWinner(c, s)
  BY <1>1, <1>4 DEF MatureWinner, MatureEconomicWinner
<1>5. CASE OrphanWinner(c, s)
  BY <1>1, <1>5 DEF OrphanWinner, Uncredit
<1>6. CASE QuarantineWinner(c, s)
  BY <1>1, <1>6 DEF QuarantineWinner, Uncredit
<1>7. CASE RequeueWinner(c, s)
  BY <1>1, <1>7 DEF RequeueWinner
<1> QED
  BY <1>2, <1>3, <1>4, <1>5, <1>6, <1>7 DEF WitnessEvent

\* Only an event about a witness of block b changes a credited winner of b.
LEMMA CreditedChange ==
    ASSUME WitnessInv, [Next]_vars, NEW b \in Block,
           winners[b].state \in Credit, winners'[b] # winners[b]
    PROVE  \E s \in Share : WitnessEvent(b, s)
<1>1. ASSUME NEW s \in Share, CommitShare(s) PROVE FALSE
  BY <1>1 DEF CommitShare, InsertWinners, Credit
<1>2. ASSUME NEW j \in Job, ActivateJob(j) PROVE FALSE
  BY <1>2 DEF ActivateJob
<1>3. ASSUME NEW c \in Chains, ChangeExposure(c) PROVE FALSE
  BY <1>3 DEF ChangeExposure
<1>4. ~RetireJob /\ ~UNCHANGED vars
  BY DEF RetireJob, vars
<1>5. PICK c \in Block, s \in Share : WitnessEvent(c, s)
  BY <1>1, <1>2, <1>3, <1>4 DEF Next
<1> QED
  BY <1>5, OtherWinnersStay

\* A credited block that loses its selected witness lost one to the chain, or
\* the selected one to a conflict.
LEMMA CreditLossStep ==
    ASSUME WitnessInv, [Next]_vars, NEW b \in Block,
           winners[b].active # {}, winners'[b].active = {}
    PROVE  \E s \in Share :
              \/ proofs[b][s] # "orphaned" /\ proofs'[b][s] = "orphaned"
              \/ winners[b].active = {s} /\ proofs'[b][s] = "quarantined"
<1>1. winners[b].state \in Credit /\ winners'[b] # winners[b]
  BY DEF WitnessInv, Consistent
<1>2. PICK s \in Share : WitnessEvent(b, s)
  BY <1>1, CreditedChange
<1>3. ASSUME NEW st, Proved(b, s, st) PROVE proofs'[b][s] = st
  BY <1>3 DEF Proved, WitnessInv, RowsTyped
<1>4. ~SideChain(b, s)
  BY DEF SideChain
<1>5. ASSUME NEW deep \in BOOLEAN, ObserveWinner(b, s, deep) PROVE FALSE
  BY <1>5, ObserveWinnerWitness
<1>6. ~MatureWinner(b, s)
  BY MatureWinnerWitness
<1>7. ~RequeueWinner(b, s)
  BY <1>1 DEF RequeueWinner, WitnessInv, RowsTyped
<1>8. CASE OrphanWinner(b, s)
  <2>1. proofs[b][s] # "orphaned" /\ proofs'[b][s] = "orphaned"
    BY <1>3, <1>8 DEF OrphanWinner
  <2> QED
    BY <2>1
<1>9. CASE QuarantineWinner(b, s)
  <2>1. winners[b].active = {s}
    BY <1>1, <1>9 DEF QuarantineWinner, SelectedElsewhere
  <2>2. proofs'[b][s] = "quarantined"
    BY <1>3, <1>9 DEF QuarantineWinner
  <2> QED
    BY <2>1, <2>2
<1> QED
  BY <1>2, <1>4, <1>5, <1>6, <1>7, <1>8, <1>9 DEF WitnessEvent

\* A conflict about a witness that is not selected never costs a block its
\* credit, whatever the other events in between.
THEOREM ConflictsElsewhereAreHarmless == Spec => CreditLostForCause
<1>1. ASSUME WitnessInv, [Next]_vars
      PROVE  [\A b \in Block :
                winners[b].active # {} /\ winners'[b].active = {} =>
                    \E s \in Share :
                        \/ proofs[b][s] # "orphaned" /\ proofs'[b][s] = "orphaned"
                        \/ winners[b].active = {s}
                           /\ proofs'[b][s] = "quarantined"]_vars
  BY <1>1, CreditLossStep
<1> QED
  BY <1>1, WitnessInvIsInvariant, PTL DEF Spec, CreditLostForCause

\* A step that takes a reward out of maturity freezes an exposed chain.
LEMMA MaturityLossStep ==
    ASSUME WitnessInv, [Next]_vars, NEW b \in Block,
           winners[b].state = "matured", winners'[b].state # "matured",
           ChainOf(b) \in exposed
    PROVE  ChainOf(b) \in frozen'
<1>1. /\ winners[b] \in WinnerRow /\ winners[b].maturity # None
      /\ winners[b].state \in Credit /\ winners'[b] # winners[b]
  BY DEF WitnessInv, RowsTyped, Consistent, Credit
<1>2. PICK s \in Share : WitnessEvent(b, s)
  BY <1>1, CreditedChange
<1>3. FreezeIfExposed(b) => ChainOf(b) \in frozen'
  BY DEF FreezeIfExposed
<1>4. winners' # [winners EXCEPT ![b] = Select(winners[b], s)]
  BY <1>1, SelectFacts DEF WitnessInv, RowsTyped
<1>5. ~SideChain(b, s)
  BY DEF SideChain
<1>6. ASSUME NEW deep \in BOOLEAN, ObserveWinner(b, s, deep)
      PROVE  FreezeIfExposed(b)
  BY <1>4, <1>6 DEF ObserveWinner, DematureWinner, Creditable
<1>7. ~MatureWinner(b, s)
  BY <1>4 DEF MatureWinner, Creditable
<1>8. ~RequeueWinner(b, s)
  BY <1>1 DEF RequeueWinner, WitnessInv, RowsTyped
<1>9. OrphanWinner(b, s) => FreezeIfExposed(b)
  BY <1>1 DEF OrphanWinner, Uncredit
<1>10. QuarantineWinner(b, s) => FreezeIfExposed(b)
  BY <1>1 DEF QuarantineWinner, Uncredit
<1> QED
  BY <1>2, <1>3, <1>5, <1>6, <1>7, <1>8, <1>9, <1>10 DEF WitnessEvent

\* Whichever event takes a spendable reward back, payouts of an exposed chain
\* are frozen in the same transaction.
THEOREM LostRewardsFreezePayouts == Spec => LostMaturityFreezes
<1>1. ASSUME WitnessInv, [Next]_vars
      PROVE  [\A b \in Block :
                /\ winners[b].state = "matured" /\ winners'[b].state # "matured"
                /\ ChainOf(b) \in exposed
                => ChainOf(b) \in frozen']_vars
  BY <1>1, MaturityLossStep
<1> QED
  BY <1>1, WitnessInvIsInvariant, PTL DEF Spec, LostMaturityFreezes
=============================================================================
