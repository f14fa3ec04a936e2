------------------------- MODULE PayoutRoundsProofs -------------------------
(***************************************************************************)
(* Proofs about PayoutRounds, for every set of batches, all limits, and    *)
(* any number of faults and rollbacks: at most one batch is in flight, and *)
(* nothing outside the database comes before the database allowed it.      *)
(***************************************************************************)
EXTENDS PayoutRounds, FiniteSetTheorems, WellFoundedInduction, TLAPS

States == InFlight \union {"none", "cancelled", "expiry_pending", "expired",
                           "confirmed", "reorged"}

\* The fields of the poll's memory that the argument is about.
Typed ==
    /\ state \in [Batch -> States] /\ queue \in Seq(Batch)
    /\ journal \subseteq Batch
    /\ net \in [Batch -> {"unknown", "pooled", "mined", "orphaned"}]
    /\ depth \in [Batch -> 0 .. 2]
    /\ {"batch", "view"} \subseteq DOMAIN job

\* Everything that was created is in the queue, so that what can be resumed is
\* found there.
Queued ==
    \A b \in Batch : state[b] # "none" => \E i \in 1 .. Len(queue) : queue[i] = b

\* At most one batch is in flight.
Single ==
    \A a, b \in Batch :
        state[a] \in InFlight /\ state[b] \in InFlight => a = b

\* What the next call of the worker rests on.  Nobody else moves its batch.
CallRests ==
    /\ pc \in {"prepare", "mark_signed", "cancel", "authorize", "submit",
               "mark_broadcast"} => job.batch \in Batch
    /\ pc \in {"prepare", "mark_signed", "cancel"} => state[job.batch] = "signing"
    /\ pc = "cancel" => job.batch \notin journal
    /\ pc = "authorize" => state[job.batch] = "signed"
    /\ pc = "submit" => state[job.batch] \in {"broadcasting", "broadcast"}
    /\ pc = "mark_broadcast" => state[job.batch] = "broadcasting"
    /\ pc \in {"wallet", "create"} => \A b \in Batch : state[b] \notin Resumable

\* An absence that was seen to be final stays: the node never takes such a
\* transaction again.
AbsenceStays ==
    pc = "recover" =>
        \A b \in Batch :
            job.view[b][1] = "final" => net[b] = "unknown" /\ depth[b] = 2

Inv == Typed /\ Queued /\ Single /\ CallRests /\ AbsenceStays
       /\ EffectsFollowFences
-----------------------------------------------------------------------------
(* The oldest open batch *)

\* A set of numbers that is not empty has a least element.
LEMMA LeastExists ==
    ASSUME NEW S, S \subseteq Nat, S # {}
    PROVE  Min(S) \in S
<1>1. \E x \in S : \A y \in S : ~(<<y, x>> \in OpToRel(<, Nat))
  BY NatLessThanWellFounded, WFMin
<1>2. PICK x \in S : \A y \in S : ~(<<y, x>> \in OpToRel(<, Nat))
  BY <1>1
<1>3. \A y \in S : ~(y < x)
  BY <1>2 DEF OpToRel
<1>4. \A y \in S : x <= y
  BY <1>3
<1> QED
  BY <1>4 DEF Min

\* What oldest_resumable finds can be resumed, and it finds nothing only if
\* there is nothing.
LEMMA OldestIsOpen ==
    ASSUME Typed, Queued
    PROVE  /\ Oldest # 0 => Oldest \in Batch /\ state[Oldest] \in Resumable
           /\ Oldest = 0 => \A b \in Batch : state[b] \notin Resumable
<1> DEFINE open == {i \in DOMAIN queue : state[queue[i]] \in Resumable}
<1>1. queue \in Seq(Batch) /\ DOMAIN queue = 1 .. Len(queue)
      /\ Len(queue) \in Nat
  BY DEF Typed
<1>2. CASE open = {}
  <2>1. Oldest = 0
    BY <1>2 DEF Oldest
  <2>2. ASSUME NEW b \in Batch, state[b] \in Resumable PROVE FALSE
    <3>1. state[b] # "none"
      BY <2>2 DEF Resumable, InFlight
    <3>2. PICK i \in 1 .. Len(queue) : queue[i] = b
      BY <3>1 DEF Queued
    <3>3. i \in open
      BY <1>1, <2>2, <3>2
    <3> QED
      BY <1>2, <3>3
  <2> QED
    BY <2>1, <2>2
<1>3. CASE open # {}
  <2>1. Oldest = queue[Min(open)]
    BY <1>3 DEF Oldest
  <2>2. open \subseteq Nat
    BY <1>1
  <2>3. Min(open) \in open
    BY <1>3, <2>2, LeastExists
  <2>4. Oldest \in Batch /\ state[Oldest] \in Resumable
    BY <1>1, <2>1, <2>3
  <2>5. 0 \notin Batch
    BY RoundsAssumption
  <2> QED
    BY <2>4, <2>5
<1> QED
  BY <1>2, <1>3
-----------------------------------------------------------------------------
(* What steps have in common *)

\* The calls that rest on nothing.
Free == {"down", "list", "gate", "opening", "watches", "apply", "resume"}

Shaped == {"batch", "view"} \subseteq DOMAIN job

\* A call that rests on nothing asks nothing of the stores.
LEMMA FreeCalls ==
    ASSUME pc' \in Free
    PROVE  CallRests' /\ AbsenceStays'
  BY DEF Free, CallRests, AbsenceStays

\* The fields of an empty memory, and of one with other fields set.
LEMMA NoJobShape ==
    /\ {"batch", "view"} \subseteq DOMAIN NoJob
    /\ DOMAIN NoJob = {"page", "rest", "held", "view", "ready", "batch", "fresh"}
  BY DEF NoJob

\* The ends of a poll or of the process.
LEMMA EndsAreFree ==
    ASSUME EndTick \/ Down \/ Retry
    PROVE  pc' \in Free /\ Shaped'
  BY NoJobShape DEF EndTick, Down, Retry, Call, Free, Shaped

\* A call about a batch has that batch in its memory.
LEMMA TakeTakes ==
    ASSUME Inv, NEW step, NEW b, Take(step, b)
    PROVE  pc' = step /\ Shaped' /\ job'.batch = b
  BY DEF Inv, Typed, Take, Call, Shaped

\* A call that goes on keeps the memory of the one before.
LEMMA GoGoes ==
    ASSUME Inv, NEW step, Go(step)
    PROVE  pc' = step /\ Shaped' /\ job' = job
  BY DEF Inv, Typed, Go, Call, Shaped

\* A step that changes only what the worker does next.
LEMMA CallKeeps ==
    ASSUME Inv, UNCHANGED <<state, queue, journal, net, depth>>, Shaped',
           CallRests', AbsenceStays'
    PROVE  Inv'
<1>1. Typed'
  BY DEF Inv, Typed, Shaped
<1>2. Queued' /\ Single' /\ EffectsFollowFences'
  BY DEF Inv, Queued, Single, EffectsFollowFences
<1> QED
  BY <1>1, <1>2 DEF Inv

\* A step to a call that rests on nothing, with the stores left alone.
LEMMA FreeKeeps ==
    ASSUME Inv, UNCHANGED <<state, queue, journal, net, depth>>, Shaped',
           pc' \in Free
    PROVE  Inv'
  BY FreeCalls, CallKeeps

Fenced == {"broadcasting", "broadcast", "expiry_pending", "confirmed", "reorged"}

\* A step that moves one batch.
LEMMA EnterKeeps ==
    ASSUME Inv, NEW b \in Batch, NEW s \in States, Enter(b, s),
           UNCHANGED <<queue, journal, net, depth>>, state[b] # "none",
           s \in InFlight => state[b] \in InFlight,
           net[b] # "unknown" => s \in Fenced,
           b \in journal => s \notin {"none", "draft", "cancelled"},
           Shaped', CallRests', AbsenceStays'
    PROVE  Inv'
<1>1. Typed'
  BY DEF Inv, Typed, Shaped, Enter
<1>2. \A c \in Batch : state'[c] = IF c = b THEN s ELSE state[c]
  BY DEF Inv, Typed, Enter
<1>3. Queued'
  BY <1>2 DEF Inv, Queued
<1>4. Single'
  BY <1>2 DEF Inv, Single
<1>5. EffectsFollowFences'
  BY <1>2 DEF Inv, EffectsFollowFences, Fenced
<1> QED
  BY <1>1, <1>3, <1>4, <1>5 DEF Inv
-----------------------------------------------------------------------------
(* Recovery of expired payouts, and payouts on the chain *)

\* Recovery of one expired batch moves it only as its evidence allows.
LEMMA RecoverOneKeeps ==
    ASSUME Inv, RecoverOne
    PROVE  Inv'
<1> DEFINE b == Head(job.rest)
<1>1. /\ pc = "recover" /\ pc' = "recover"
      /\ UNCHANGED <<queue, journal, net, depth>>
      /\ Enter(b, Recovery(b))
      /\ Recovery(b) # state[b] => state[b] \in LeftFor(Recovery(b))
      /\ job' = [job EXCEPT !.rest = Tail(job.rest),
                            !.ready = job.ready /\ ~Blocks(b)]
  BY DEF RecoverOne, chain
<1>2. Shaped' /\ job'.view = job.view
  BY <1>1 DEF Inv, Typed, Shaped
<1> HIDE DEF b
<1>3. CallRests' /\ AbsenceStays'
  BY <1>1, <1>2 DEF Inv, CallRests, AbsenceStays
<1>4. CASE b \notin Batch \/ Recovery(b) = state[b]
  <2>1. state' = state
    BY <1>1, <1>4 DEF Inv, Typed, Enter
  <2> QED
    BY <1>1, <1>2, <1>3, <2>1, CallKeeps
<1>5. CASE b \in Batch /\ Recovery(b) # state[b]
  <2>1. state[b] \in LeftFor(Recovery(b))
    BY <1>1, <1>5
  <2>2. state[b] # "none"
    BY <2>1 DEF LeftFor
  <2>3. Recovery(b) \in {"expiry_pending", "expired", "confirmed"}
    BY <1>5 DEF Recovery
  <2>4. Recovery(b) = "expired" => job.view[b][1] = "final"
    BY <1>5 DEF Recovery
  <2>5. Recovery(b) = "expired" => net[b] = "unknown"
    BY <1>1, <1>5, <2>4 DEF Inv, AbsenceStays
  <2>6. Recovery(b) \in States /\ Recovery(b) \notin InFlight
        /\ Recovery(b) \notin {"none", "draft", "cancelled"}
    BY <2>3 DEF States, InFlight
  <2>7. net[b] # "unknown" => Recovery(b) \in Fenced
    BY <2>3, <2>5 DEF Fenced
  <2> HIDE DEF b
  <2> QED
    BY <1>1, <1>2, <1>3, <1>5, <2>2, <2>6, <2>7, EnterKeeps
<1> QED
  BY <1>4, <1>5

\* The steps of a pass that only read keep the invariant.
LEMMA PassKeeps ==
    ASSUME Inv,
           \/ Start \/ NothingToRecover \/ InspectCandidates \/ FinishRecovery
           \/ ObserveWatches \/ FinishWatches
    PROVE  Inv'
<1>1. UNCHANGED <<state, queue, journal, net, depth>>
  BY DEF Start, NothingToRecover, InspectCandidates, FinishRecovery,
         ObserveWatches, FinishWatches, store, chain
<1>2. pc' \in Free
  BY DEF Start, NothingToRecover, InspectCandidates, FinishRecovery,
         ObserveWatches, FinishWatches, Call, AfterRecovery, Free
<1>3. Shaped'
  BY NoJobShape
  DEF Start, NothingToRecover, InspectCandidates, FinishRecovery,
      ObserveWatches, FinishWatches, Call, Shaped
<1> QED
  BY <1>1, <1>2, <1>3, FreeKeeps

\* What is observed of an expired batch is remembered with its view.
LEMMA ObserveExpiryKeeps ==
    ASSUME Inv, ObserveExpiry
    PROVE  Inv'
<1>1. /\ UNCHANGED <<state, queue, journal, net, depth>> /\ pc' = "recover"
      /\ Shaped'
      /\ job'.view = [b \in Batch |-> IF b \in Range(Candidates)
                                      THEN <<ExpiryView(b), depth[b], block[b]>>
                                      ELSE NotAsked]
  BY NoJobShape DEF ObserveExpiry, store, chain, Call, Shaped
<1>2. ASSUME NEW b \in Batch, job'.view[b][1] = "final"
      PROVE  net[b] = "unknown" /\ depth[b] = 2
  <2>1. ExpiryView(b) = "final"
    BY <1>1, <1>2 DEF NotAsked
  <2>2. net[b] \notin {"mined", "pooled", "orphaned"} /\ depth[b] \notin {0, 1}
    BY <2>1 DEF ExpiryView
  <2> QED
    BY <2>2 DEF Inv, Typed
<1>3. CallRests' /\ AbsenceStays'
  BY <1>1, <1>2 DEF CallRests, AbsenceStays
<1> QED
  BY <1>1, <1>3, CallKeeps

\* A chain observation moves only a batch whose fence is behind it.
LEMMA ApplyOneKeeps ==
    ASSUME Inv, ApplyOne
    PROVE  Inv'
<1> DEFINE b == Head(job.rest)
<1>1. UNCHANGED <<queue, journal, net, depth>>
  BY DEF ApplyOne, chain
<1>2. \/ state[b] \in {"confirmed", "broadcast"} /\ \E s \in {"reorged", "confirmed"} : Enter(b, s)
      \/ UNCHANGED state
  BY DEF ApplyOne
<1>3. Down \/ Call("apply", mode, [job EXCEPT !.rest = Tail(job.rest)])
  BY DEF ApplyOne
<1>4. pc' \in Free /\ Shaped'
  BY <1>3, EndsAreFree DEF Call, Free, Shaped, Inv, Typed
<1> HIDE DEF b
<1>5. CallRests' /\ AbsenceStays'
  BY <1>4, FreeCalls
<1>6. CASE UNCHANGED state
  BY <1>1, <1>4, <1>6, FreeKeeps
<1>7. ASSUME state[b] \in {"confirmed", "broadcast"}, NEW s \in {"reorged", "confirmed"},
             Enter(b, s)
      PROVE  Inv'
  <2>1. CASE b \in Batch
    <3>1. s \in States /\ s \notin InFlight /\ s \in Fenced
          /\ s \notin {"none", "draft", "cancelled"}
      BY <1>7 DEF States, InFlight, Fenced
    <3> QED
      BY <1>1, <1>4, <1>5, <1>7, <2>1, <3>1, EnterKeeps
  <2>2. CASE b \notin Batch
    <3>1. UNCHANGED state
      BY <1>7, <2>2 DEF Enter, Inv, Typed
    <3> QED
      BY <1>6, <3>1
  <2> QED
    BY <2>1, <2>2
<1> QED
  BY <1>2, <1>6, <1>7
-----------------------------------------------------------------------------
(* Settlement of the oldest open batch *)

\* The worker turns to the oldest open batch, as its state demands.
LEMMA TakeOldestKeeps ==
    ASSUME Inv, UNCHANGED <<state, queue, journal, net, depth>>, Oldest # 0,
           \/ /\ state[Oldest] = "signing"
              /\ \/ Take("prepare", Oldest)
                 \/ Oldest \in journal /\ Take("mark_signed", Oldest)
           \/ state[Oldest] = "signed" /\ Take("authorize", Oldest)
           \/ state[Oldest] \in {"broadcasting", "broadcast"} /\ Take("submit", Oldest)
    PROVE  Inv'
<1>1. Oldest \in Batch
  BY OldestIsOpen DEF Inv
<1>2. \/ state[Oldest] = "signing" /\ pc' \in {"prepare", "mark_signed"}
      \/ state[Oldest] = "signed" /\ pc' = "authorize"
      \/ state[Oldest] \in {"broadcasting", "broadcast"} /\ pc' = "submit"
  BY TakeTakes
<1>3. Shaped' /\ job'.batch = Oldest
  BY TakeTakes
<1>4. CallRests' /\ AbsenceStays'
  BY <1>1, <1>2, <1>3 DEF CallRests, AbsenceStays
<1> QED
  BY <1>3, <1>4, CallKeeps

\* The gate before a payout lets the worker go on or ends the poll.
LEMMA GateKeeps ==
    ASSUME Inv, Gate
    PROVE  Inv'
<1>1. UNCHANGED <<state, queue, journal, net, depth>>
  BY DEF Gate, store, chain
<1>2. CASE Go("opening")
  BY <1>1, <1>2, GoGoes, FreeKeeps DEF Free
<1>3. CASE EndTick \/ Down
  BY <1>1, <1>3, EndsAreFree, FreeKeeps
<1>4. CASE /\ Oldest # 0 /\ state[Oldest] = "signing"
           /\ Take(IF Recovered(Oldest) THEN "mark_signed" ELSE "prepare", Oldest)
  BY <1>1, <1>4, TakeOldestKeeps DEF Recovered
<1>5. CASE Oldest # 0 /\ state[Oldest] = "broadcasting" /\ Take("submit", Oldest)
  BY <1>1, <1>5, TakeOldestKeeps
<1> QED
  BY <1>2, <1>3, <1>4, <1>5 DEF Gate

\* The opening reconciliation lets the worker settle what is open, or ends it.
LEMMA OpeningKeeps ==
    ASSUME Inv, Opening
    PROVE  Inv'
<1>1. UNCHANGED <<state, queue, journal, net, depth>>
  BY DEF Opening, store, chain
<1>2. CASE Down
  BY <1>1, <1>2, EndsAreFree, FreeKeeps
<1>3. CASE Call("resume", "settle", NoJob)
  <2>1. pc' \in Free /\ Shaped'
    BY <1>3, NoJobShape DEF Call, Free, Shaped
  <2> QED
    BY <1>1, <2>1, FreeKeeps
<1> QED
  BY <1>2, <1>3 DEF Opening

\* Only when no batch is open does the worker turn to a new one.
LEMMA ResumeIdleKeeps ==
    ASSUME Inv, ResumeIdle
    PROVE  Inv'
<1>1. UNCHANGED <<state, queue, journal, net, depth>> /\ Oldest = 0
  BY DEF ResumeIdle, store, chain
<1>2. CASE EndTick
  BY <1>1, <1>2, EndsAreFree, FreeKeeps
<1>3. CASE Go("wallet")
  <2>1. pc' = "wallet" /\ Shaped'
    BY <1>3, GoGoes
  <2>2. \A b \in Batch : state[b] \notin Resumable
    BY <1>1, OldestIsOpen DEF Inv
  <2>3. CallRests' /\ AbsenceStays'
    BY <1>1, <2>1, <2>2 DEF CallRests, AbsenceStays
  <2> QED
    BY <1>1, <2>1, <2>3, CallKeeps
<1> QED
  BY <1>2, <1>3 DEF ResumeIdle

\* A drafted batch goes to the signer, which need not have seen it.
LEMMA ResumeDraftKeeps ==
    ASSUME Inv, ResumeDraft
    PROVE  Inv'
<1>1. UNCHANGED <<queue, journal, net, depth>> /\ state[Oldest] = "draft"
      /\ Oldest # 0
  BY DEF ResumeDraft, chain
<1>2. CASE Retry /\ UNCHANGED state
  BY <1>1, <1>2, EndsAreFree, FreeKeeps
<1>3. CASE Enter(Oldest, "signing") /\ Take("prepare", Oldest)
  <2>1. Oldest \in Batch
    BY <1>1, OldestIsOpen DEF Inv
  <2>2. pc' = "prepare" /\ Shaped' /\ job'.batch = Oldest
    BY <1>3, TakeTakes
  <2>3. state'[Oldest] = "signing"
    BY <1>3, <2>1 DEF Enter, Inv, Typed
  <2>4. CallRests' /\ AbsenceStays'
    BY <2>1, <2>2, <2>3 DEF CallRests, AbsenceStays
  <2>5. net[Oldest] = "unknown" /\ Oldest \notin journal
    BY <1>1, <2>1 DEF Inv, EffectsFollowFences
  <2>6. "signing" \in States /\ "draft" \in InFlight
    BY DEF States, InFlight
  <2> QED
    BY <1>1, <1>3, <2>1, <2>2, <2>4, <2>5, <2>6, EnterKeeps
<1> QED
  BY <1>2, <1>3 DEF ResumeDraft

\* A batch past its signature resumes at the effect its state names.
LEMMA ResumeRestKeeps ==
    ASSUME Inv, ResumeEffect \/ ResumeReorged
    PROVE  Inv'
<1>1. UNCHANGED <<state, queue, journal, net, depth>>
  BY DEF ResumeEffect, ResumeReorged, store, chain
<1>2. CASE ResumeReorged
  BY <1>1, <1>2, EndsAreFree, FreeKeeps DEF ResumeReorged
<1>3. CASE ResumeEffect
  BY <1>1, <1>3, TakeOldestKeeps DEF ResumeEffect
<1> QED
  BY <1>2, <1>3

\* The signer journals before it answers.
LEMMA SignerKeeps ==
    ASSUME Inv, SignerSigns \/ SignerRejects
    PROVE  Inv'
<1>1. UNCHANGED <<state, queue, net, depth>> /\ pc = "prepare"
  BY DEF SignerSigns, SignerRejects, store, chain
<1>2. job.batch \in Batch /\ state[job.batch] = "signing"
  BY <1>1 DEF Inv, CallRests
<1>3. CASE SignerSigns
  <2>1. pc' = "mark_signed" /\ Shaped' /\ job' = job
        /\ journal' = journal \union {job.batch}
    BY <1>3, GoGoes DEF SignerSigns
  <2>2. Typed'
    BY <1>1, <1>2, <2>1 DEF Inv, Typed, Shaped
  <2>3. CallRests' /\ AbsenceStays'
    BY <1>1, <1>2, <2>1 DEF CallRests, AbsenceStays
  <2>4. Queued' /\ Single'
    BY <1>1 DEF Inv, Queued, Single
  <2>5. EffectsFollowFences'
    BY <1>1, <1>2, <2>1 DEF Inv, EffectsFollowFences
  <2> QED
    BY <2>2, <2>3, <2>4, <2>5 DEF Inv
<1>4. CASE SignerRejects
  <2>1. pc' = "cancel" /\ Shaped' /\ job' = job /\ UNCHANGED journal
        /\ job.batch \notin journal
    BY <1>4, GoGoes DEF SignerRejects
  <2>2. CallRests' /\ AbsenceStays'
    BY <1>1, <1>2, <2>1 DEF CallRests, AbsenceStays
  <2> QED
    BY <1>1, <2>1, <2>2, CallKeeps
<1> QED
  BY <1>3, <1>4

\* Only a batch that the signer rejected is cancelled.
LEMMA CancelRejectedKeeps ==
    ASSUME Inv, CancelRejected
    PROVE  Inv'
<1>1. /\ UNCHANGED <<queue, journal, net, depth>> /\ pc = "cancel"
      /\ Enter(job.batch, "cancelled")
  BY DEF CancelRejected, chain
<1>2. Go("opening") \/ EndTick \/ Down
  BY DEF CancelRejected
<1>3. pc' \in Free /\ Shaped'
  BY <1>2, GoGoes, EndsAreFree DEF Free
<1>4. job.batch \in Batch /\ state[job.batch] = "signing"
      /\ job.batch \notin journal
  BY <1>1 DEF Inv, CallRests
<1>5. net[job.batch] = "unknown"
  BY <1>4 DEF Inv, EffectsFollowFences
<1>6. "cancelled" \in States /\ "cancelled" \notin InFlight
  BY DEF States, InFlight
<1> QED
  BY <1>1, <1>3, <1>4, <1>5, <1>6, FreeCalls, EnterKeeps

\* A batch is marked signed only after the signer journalled it.
LEMMA MarkSignedKeeps ==
    ASSUME Inv, MarkSigned
    PROVE  Inv'
<1>1. /\ UNCHANGED <<queue, journal, net, depth>> /\ pc = "mark_signed"
      /\ Enter(job.batch, "signed")
  BY DEF MarkSigned, chain
<1>2. job.batch \in Batch /\ state[job.batch] = "signing"
  BY <1>1 DEF Inv, CallRests
<1>3. net[job.batch] = "unknown"
  BY <1>2 DEF Inv, EffectsFollowFences
<1>4. state'[job.batch] = "signed"
  BY <1>1, <1>2 DEF Enter, Inv, Typed
<1>5. "signed" \in States /\ "signing" \in InFlight
  BY DEF States, InFlight
<1>6. Shaped' /\ CallRests' /\ AbsenceStays'
  <2>1. CASE EndTick
    BY <2>1, EndsAreFree, FreeCalls
  <2>2. CASE Go("authorize")
    <3>1. pc' = "authorize" /\ Shaped' /\ job' = job
      BY <2>2, GoGoes
    <3> QED
      BY <1>2, <1>4, <3>1 DEF CallRests, AbsenceStays
  <2> QED
    BY <2>1, <2>2 DEF MarkSigned
<1> QED
  BY <1>1, <1>2, <1>3, <1>5, <1>6, EnterKeeps

\* The broadcast fence is set before the network sees the batch.
LEMMA AuthorizeBroadcastKeeps ==
    ASSUME Inv, AuthorizeBroadcast
    PROVE  Inv'
<1>1. UNCHANGED <<queue, journal, net, depth>> /\ pc = "authorize"
  BY DEF AuthorizeBroadcast, chain
<1>2. job.batch \in Batch /\ state[job.batch] = "signed"
  BY <1>1 DEF Inv, CallRests
<1>3. CASE Retry /\ UNCHANGED state
  BY <1>1, <1>3, EndsAreFree, FreeKeeps
<1>4. CASE Enter(job.batch, "broadcasting") /\ Go("submit")
  <2>1. pc' = "submit" /\ Shaped' /\ job' = job
    BY <1>4, GoGoes
  <2>2. state'[job.batch] = "broadcasting"
    BY <1>2, <1>4 DEF Enter, Inv, Typed
  <2>3. CallRests' /\ AbsenceStays'
    BY <1>2, <2>1, <2>2 DEF CallRests, AbsenceStays
  <2>4. "broadcasting" \in States /\ "signed" \in InFlight
        /\ "broadcasting" \in Fenced
    BY DEF States, InFlight, Fenced
  <2> QED
    BY <1>1, <1>2, <1>4, <2>1, <2>3, <2>4, EnterKeeps
<1> QED
  BY <1>3, <1>4 DEF AuthorizeBroadcast

\* The network is given a batch only behind its fence.
LEMMA SubmitKeeps ==
    ASSUME Inv, Submit
    PROVE  Inv'
<1>1. UNCHANGED <<state, queue, journal, depth>> /\ pc = "submit"
  BY DEF Submit, store
<1>2. job.batch \in Batch /\ state[job.batch] \in {"broadcasting", "broadcast"}
  BY <1>1 DEF Inv, CallRests
<1>3. net' = net \/ net' = [net EXCEPT ![job.batch] = "pooled"]
  BY DEF Submit
<1>4. \/ Go("mark_broadcast") /\ state[job.batch] = "broadcasting"
      \/ EndTick \/ Retry \/ Down
  BY DEF Submit
<1>5. Shaped' /\ CallRests' /\ AbsenceStays'
  <2>1. CASE EndTick \/ Retry \/ Down
    BY <2>1, EndsAreFree, FreeCalls
  <2>2. CASE Go("mark_broadcast") /\ state[job.batch] = "broadcasting"
    <3>1. pc' = "mark_broadcast" /\ Shaped' /\ job' = job
      BY <2>2, GoGoes
    <3> QED
      BY <1>1, <1>2, <2>2, <3>1 DEF CallRests, AbsenceStays
  <2> QED
    BY <1>4, <2>1, <2>2
<1>6. Typed'
  BY <1>1, <1>2, <1>3, <1>5 DEF Inv, Typed, Shaped
<1>7. Queued' /\ Single'
  BY <1>1 DEF Inv, Queued, Single
<1>8. \A b \in Batch : net'[b] = net[b] \/ b = job.batch
  BY <1>3 DEF Inv, Typed
<1>9. EffectsFollowFences'
  BY <1>1, <1>2, <1>8 DEF Inv, EffectsFollowFences
<1> QED
  BY <1>5, <1>6, <1>7, <1>9 DEF Inv

\* A batch is marked broadcast only after its fence.
LEMMA MarkBroadcastKeeps ==
    ASSUME Inv, MarkBroadcast
    PROVE  Inv'
<1>1. /\ UNCHANGED <<queue, journal, net, depth>> /\ pc = "mark_broadcast"
      /\ Enter(job.batch, "broadcast") /\ EndTick
  BY DEF MarkBroadcast, chain
<1>2. job.batch \in Batch /\ state[job.batch] = "broadcasting"
  BY <1>1 DEF Inv, CallRests
<1>3. "broadcast" \in States /\ "broadcasting" \in InFlight
      /\ "broadcast" \in Fenced
  BY DEF States, InFlight, Fenced
<1> QED
  BY <1>1, <1>2, <1>3, EndsAreFree, FreeCalls, EnterKeeps
-----------------------------------------------------------------------------
(* The next batch, failures and the chain *)

\* Reconciliation of a batch changes no store of the effects.
LEMMA ReconcileKeeps ==
    ASSUME Inv, Reconcile
    PROVE  Inv'
<1>1. UNCHANGED <<state, queue, journal, net, depth>> /\ pc = "wallet"
  BY DEF Reconcile, store, chain
<1>2. CASE EndTick
  BY <1>1, <1>2, EndsAreFree, FreeKeeps
<1>3. CASE Go("create")
  <2>1. pc' = "create" /\ Shaped'
    BY <1>3, GoGoes
  <2>2. \A b \in Batch : state[b] \notin Resumable
    BY <1>1 DEF Inv, CallRests
  <2>3. CallRests' /\ AbsenceStays'
    BY <1>1, <2>1, <2>2 DEF CallRests, AbsenceStays
  <2> QED
    BY <1>1, <2>1, <2>3, CallKeeps
<1> QED
  BY <1>2, <1>3 DEF Reconcile

\* A batch is created, at the end of the queue, when none is in flight.
LEMMA CreateBatchKeeps ==
    ASSUME Inv, CreateBatch
    PROVE  Inv'
<1>1. UNCHANGED <<journal, net, depth>> /\ pc = "create"
  BY DEF CreateBatch, chain
<1>2. \A b \in Batch : state[b] \notin Resumable
  BY <1>1 DEF Inv, CallRests
<1>3. CASE (EndTick \/ Down) /\ UNCHANGED <<state, queue>>
  BY <1>1, <1>3, EndsAreFree, FreeKeeps
<1>4. ASSUME NEW b \in In({"none"}), Enter(b, "draft"), queue' = Append(queue, b),
             Call("resume", mode, [NoJob EXCEPT !.fresh = TRUE])
      PROVE  Inv'
  <2>1. pc' \in Free /\ Shaped'
    BY <1>4, NoJobShape DEF Call, Free, Shaped
  <2>2. CallRests' /\ AbsenceStays'
    BY <2>1, FreeCalls
  <2>3. b \in Batch /\ state[b] = "none"
    BY DEF In
  <2>4. \A c \in Batch : state'[c] = IF c = b THEN "draft" ELSE state[c]
    BY <1>4 DEF Enter, Inv, Typed
  <2>5. queue \in Seq(Batch) /\ queue' \in Seq(Batch)
    BY <1>4, <2>3 DEF Inv, Typed
  <2>6. Typed'
    <3>1. state' \in [Batch -> States]
      BY <1>4 DEF Enter, Inv, Typed, States, InFlight
    <3> QED
      BY <1>1, <2>1, <2>5, <3>1 DEF Inv, Typed, Shaped
  <2>7. Queued'
    <3>1. Len(queue') = Len(queue) + 1 /\ queue'[Len(queue) + 1] = b
          /\ Len(queue) \in Nat
          /\ \A i \in 1 .. Len(queue) : queue'[i] = queue[i]
      BY <1>4, <2>3, <2>5
    <3>2. ASSUME NEW c \in Batch, state'[c] # "none"
          PROVE  \E i \in 1 .. Len(queue') : queue'[i] = c
      <4>1. CASE c = b
        <5>1. Len(queue) + 1 \in 1 .. Len(queue')
          BY <3>1
        <5> QED
          BY <3>1, <4>1, <5>1
      <4>2. CASE c # b
        <5>1. state[c] # "none"
          BY <2>4, <3>2, <4>2
        <5>2. PICK i \in 1 .. Len(queue) : queue[i] = c
          BY <5>1 DEF Inv, Queued
        <5>3. i \in 1 .. Len(queue')
          BY <3>1
        <5> QED
          BY <3>1, <5>2, <5>3
      <4> QED
        BY <4>1, <4>2
    <3> QED
      BY <3>2 DEF Queued
  <2>8. Single'
    BY <1>2, <2>4 DEF Single, Resumable
  <2>9. net[b] = "unknown" /\ b \notin journal
    BY <2>3 DEF Inv, EffectsFollowFences
  <2>10. EffectsFollowFences'
    BY <1>1, <2>4, <2>9 DEF Inv, EffectsFollowFences
  <2> QED
    BY <2>2, <2>6, <2>7, <2>8, <2>10 DEF Inv
<1> QED
  BY <1>3, <1>4 DEF CreateBatch

\* Failures, lapses and freezes move no batch.
LEMMA AsideKeeps ==
    ASSUME Inv, Fail \/ Lapse \/ FreezeElsewhere
    PROVE  Inv'
<1>1. UNCHANGED <<state, queue, journal, net, depth>>
  BY DEF Fail, Lapse, FreezeElsewhere, store, chain
<1>2. CASE Fail
  BY <1>1, <1>2, EndsAreFree, FreeKeeps DEF Fail
<1>3. CASE Lapse \/ FreezeElsewhere
  <2>1. UNCHANGED <<pc, job>>
    BY <1>3 DEF Lapse, FreezeElsewhere
  <2>2. Shaped' /\ CallRests' /\ AbsenceStays'
    BY <1>1, <2>1 DEF Inv, Typed, Shaped, CallRests, AbsenceStays
  <2> QED
    BY <1>1, <2>2, CallKeeps
<1> QED
  BY <1>2, <1>3

\* The chain moves only what the network was given.
LEMMA ChainStepKeeps ==
    ASSUME Inv, NEW b \in Batch, ChainStep(b)
    PROVE  Inv'
<1>1. UNCHANGED <<state, queue, journal, pc, job>>
  BY DEF ChainStep, Grow, Followed, store
<1>0. /\ net \in [Batch -> {"unknown", "pooled", "mined", "orphaned"}]
      /\ depth \in [Batch -> 0 .. 2]
  BY DEF Inv, Typed
<1>2. /\ net' \in [Batch -> {"unknown", "pooled", "mined", "orphaned"}]
      /\ depth' \in [Batch -> 0 .. 2]
  <2>1. CASE Mine(b) \/ Forget(b)
    BY <1>0, <2>1 DEF Mine, Forget
  <2>2. CASE Deepen(b)
    <3>1. depth[b] + 1 \in 0 .. 2
      BY <1>0, <2>2 DEF Deepen
    <3> QED
      BY <1>0, <2>2, <3>1 DEF Deepen
  <2>3. CASE RollBack(b)
    BY <1>0, <2>3 DEF RollBack
  <2> QED
    BY <2>1, <2>2, <2>3 DEF ChainStep, Grow
<1>3. ASSUME NEW c \in Batch
      PROVE  /\ net'[c] # "unknown" => net[c] # "unknown"
             /\ net[c] = "unknown" /\ depth[c] = 2 =>
                    net'[c] = "unknown" /\ depth'[c] = 2
  <2>1. CASE Mine(b) \/ Forget(b)
    BY <1>0, <2>1 DEF Mine, Forget
  <2>2. CASE Deepen(b)
    BY <1>0, <2>2 DEF Deepen
  <2>3. CASE RollBack(b)
    BY <1>0, <2>3 DEF RollBack
  <2> QED
    BY <2>1, <2>2, <2>3 DEF ChainStep, Grow
<1>4. Typed'
  BY <1>1, <1>2 DEF Inv, Typed
<1>5. Queued' /\ Single'
  BY <1>1 DEF Inv, Queued, Single
<1>6. CallRests'
  BY <1>1 DEF Inv, CallRests
<1>7. AbsenceStays'
  BY <1>1, <1>3 DEF Inv, AbsenceStays
<1>8. EffectsFollowFences'
  BY <1>1, <1>3 DEF Inv, EffectsFollowFences
<1> QED
  BY <1>4, <1>5, <1>6, <1>7, <1>8 DEF Inv
-----------------------------------------------------------------------------
\* The invariant holds of every behaviour of the payout worker.
LEMMA InvHolds == Spec => []Inv
<1>1. Init => Inv
  <2> SUFFICES ASSUME Init PROVE Inv
    OBVIOUS
  <2>1. Typed
    BY NoJobShape DEF Init, Typed, States
  <2>2. Queued /\ EffectsFollowFences
    BY DEF Init, Queued, EffectsFollowFences
  <2>3. Single
    BY DEF Init, Single, InFlight
  <2>4. CallRests /\ AbsenceStays
    BY DEF Init, CallRests, AbsenceStays
  <2> QED
    BY <2>1, <2>2, <2>3, <2>4 DEF Inv
<1>2. Inv /\ [Next]_vars => Inv'
  <2> SUFFICES ASSUME Inv, [Next]_vars PROVE Inv'
    OBVIOUS
  <2>1. CASE WorkerStep
    BY <2>1, PassKeeps, ObserveExpiryKeeps, RecoverOneKeeps, ApplyOneKeeps,
       GateKeeps, OpeningKeeps, ResumeIdleKeeps, ResumeDraftKeeps,
       ResumeRestKeeps, SignerKeeps, CancelRejectedKeeps, MarkSignedKeeps,
       AuthorizeBroadcastKeeps, SubmitKeeps, MarkBroadcastKeeps,
       ReconcileKeeps, CreateBatchKeeps
    DEF WorkerStep
  <2>2. CASE Fail \/ Lapse \/ FreezeElsewhere
    BY <2>2, AsideKeeps
  <2>3. CASE \E b \in Batch : ChainStep(b)
    BY <2>3, ChainStepKeeps
  <2>4. CASE UNCHANGED vars
    <3>1. UNCHANGED <<state, queue, journal, net, depth, pc, job>>
      BY <2>4 DEF vars, store, chain
    <3>2. Shaped' /\ CallRests' /\ AbsenceStays'
      BY <3>1 DEF Inv, Typed, Shaped, CallRests, AbsenceStays
    <3> QED
      BY <3>1, <3>2, CallKeeps
  <2> QED
    BY <2>1, <2>2, <2>3, <2>4 DEF Next
<1> QED
  BY <1>1, <1>2, PTL DEF Spec

\* Whatever the crashes, the failed calls, the expiries and the rollbacks, the
\* worker never opens a batch beside one that is open.
THEOREM OneBatchAtATime == Spec => []OneInFlight
<1>1. Inv => OneInFlight
  <2> SUFFICES ASSUME Inv PROVE OneInFlight
    OBVIOUS
  <2>1. CASE In(InFlight) = {}
    BY <2>1, FS_EmptySet DEF OneInFlight
  <2>2. CASE In(InFlight) # {}
    <3>1. PICK b : b \in In(InFlight)
      BY <2>2
    <3>2. In(InFlight) = {b}
      BY <3>1 DEF Inv, Single, In
    <3> QED
      BY <3>2, FS_Singleton DEF OneInFlight
  <2> QED
    BY <2>1, <2>2
<1> QED
  BY <1>1, InvHolds, PTL

\* The node never knows a transaction whose broadcast the database did not
\* authorise, and the signer never keeps bytes of a batch whose signing it did
\* not authorise or has cancelled.
THEOREM FencesComeFirst == Spec => []EffectsFollowFences
<1>1. Inv => EffectsFollowFences
  BY DEF Inv
<1> QED
  BY <1>1, InvHolds, PTL
=============================================================================
