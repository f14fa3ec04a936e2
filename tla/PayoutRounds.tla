---------------------------- MODULE PayoutRounds ----------------------------
(***************************************************************************)
(* The payout worker of the Wcash chain, one step per call that leaves the *)
(* process: startup recovery, and then polls that each recover expired     *)
(* payouts, check the payouts on the chain, carry the oldest open batch    *)
(* one journey further, and only when nothing is open reconcile the wallet *)
(* and create the next batch.  The process may stop between any two calls  *)
(* and starts again with an empty memory.  That no second process runs is  *)
(* the business of WorkerLease; what each store transaction does to the    *)
(* books is that of PayoutLedger, whose batch states are used here.        *)
(*                                                                         *)
(* The chain is seen per batch: whether its transaction is in the node's   *)
(* memory pool, in a block of the best chain, kept from an orphaned block, *)
(* or unknown, and how deep.  For a mined transaction depth 1 means enough *)
(* confirmations and 2 that it can no longer leave the chain; for one that *)
(* is not mined depth 1 means that the tip is above its expiry height and  *)
(* 2 that this can no longer be undone.                                    *)
(***************************************************************************)
EXTENDS Naturals, Sequences, FiniteSets, FiniteSetsExt

CONSTANTS
    Batch,                \* batch identifiers, numbers in their order
    MaxExpiryCandidates,  \* MAX_EXPIRY_CANDIDATES
    MaxWatches,           \* maximum_confirmation_watches
    MaxFailures,          \* maximum_consecutive_failures
    MaxFaults,            \* bound: crashes and failed calls
    MaxMoves              \* bound: times a block leaves the best chain

ASSUME RoundsAssumption ==
    /\ Batch \subseteq Nat \ {0}
    /\ {MaxExpiryCandidates, MaxWatches, MaxFailures} \subseteq Nat \ {0}
    /\ {MaxFaults, MaxMoves} \subseteq Nat

VARIABLES
    state, queue,         \* payout_batches.state, and the order of creation
    lapsed,               \* the open draft's reconciliation is too old
    frozen,               \* chain_safety_state.payouts_frozen
    seen,                 \* the block a confirmed batch was seen in
    watched,              \* payout_watch_cursors.last_confirmed_batch_id
    journal,              \* batches whose signed bytes the signer keeps
    pc, mode, failures,   \* the worker: next call, startup or poll, failures
    after, inspected,     \* RecoveryProgress: after_held and the cache
    job,                  \* what the current poll has read
    net, depth, block,    \* the chain, per batch; block counts its blocks
    moves, faults

store == <<state, queue, lapsed, frozen, seen, watched>>
memory == <<after, inspected>>
chain == <<net, depth, block, moves>>
vars == <<store, journal, pc, mode, failures, memory, job, chain, faults>>

InFlight == {"draft", "signing", "signed", "broadcasting", "broadcast"}

\* A plausible bug: a batch whose broadcast was cut off is not taken up again.
ResumableQuietly == (InFlight \ {"broadcasting"}) \union {"reorged"}

\* list_resumable_payout_batches
Resumable == InFlight \union {"reorged"}

NoJob == [page |-> <<>>, rest |-> <<>>, held |-> {}, view |-> <<>>,
          ready |-> TRUE, batch |-> 0, fresh |-> FALSE]

Init ==
    /\ state = [b \in Batch |-> "none"] /\ queue = <<>>
    /\ lapsed = FALSE /\ frozen = FALSE
    /\ seen = [b \in Batch |-> 0] /\ watched = 0
    /\ journal = {}
    /\ pc = "down" /\ mode = "startup" /\ failures = 0
    /\ after = 0 /\ inspected = {} /\ job = NoJob
    /\ net = [b \in Batch |-> "unknown"]
    /\ depth = [b \in Batch |-> 0] /\ block = [b \in Batch |-> 0]
    /\ moves = 0 /\ faults = 0

In(set) == {b \in Batch : state[b] \in set}

\* The batches in their order.
Ordered ==
    [i \in 1 .. Cardinality(Batch) |->
        CHOOSE b \in Batch : Cardinality({c \in Batch : c < b}) = i - 1]

Lasting(s, set) == SelectSeq(s, LAMBDA b: b \in set)

Sorted(set) == Lasting(Ordered, set)

Prefix(s, n) == SubSeq(s, 1, IF Len(s) < n THEN Len(s) ELSE n)

\* The identifiers after the cursor, then the others.
Rotated(set, cursor) ==
    Sorted({b \in set : b > cursor}) \o Sorted({b \in set : b <= cursor})

\* oldest_resumable: 0 when there is none.
Oldest ==
    LET open == {i \in DOMAIN queue : state[queue[i]] \in Resumable}
    IN  IF open = {} THEN 0 ELSE queue[Min(open)]

Enter(b, s) == state' = [state EXCEPT ![b] = s]

Call(step, kind, j) == pc' = step /\ mode' = kind /\ job' = j

\* A poll, or the startup, ends well; the next poll begins with the expiry
\* pass.  Shutdown is obeyed here and is not told apart from a crash.
EndTick == Call("list", "tick", NoJob) /\ failures' = 0 /\ UNCHANGED memory

\* The process ends and its memory is gone.
Down ==
    /\ Call("down", "startup", NoJob)
    /\ failures' = 0 /\ after' = 0 /\ inspected' = {}

\* AutomaticPayoutRuntime::run, of a retryable failure.
Retry ==
    IF mode # "tick" \/ failures + 1 >= MaxFailures THEN Down
    ELSE /\ Call("list", "tick", NoJob)
         /\ failures' = failures + 1
         /\ UNCHANGED memory

Go(step) == Call(step, mode, job) /\ UNCHANGED <<failures, memory>>

Take(step, b) ==
    Call(step, mode, [job EXCEPT !.batch = b]) /\ UNCHANGED <<failures, memory>>
-----------------------------------------------------------------------------
(* Recovery of expired payouts *)

Start ==
    /\ pc = "down"
    /\ Call("list", "startup", NoJob)
    /\ UNCHANGED <<store, journal, failures, memory, chain, faults>>

\* list_payout_expiry_candidates_page
Candidates ==
    LET active == Sorted(In({"signed", "broadcasting", "broadcast"}))
    IN  active \o Prefix(Rotated(In({"expiry_pending"}), after),
                         MaxExpiryCandidates - Len(active))

AfterRecovery == IF mode = "startup" THEN "gate" ELSE "watches"

NothingToRecover ==
    /\ pc = "list" /\ Candidates = <<>>
    /\ Call(AfterRecovery, mode, NoJob)
    /\ after' = 0 /\ inspected' = {}
    /\ UNCHANGED <<store, journal, failures, chain, faults>>

\* A pass that finds a candidate it has not inspected does only that.
InspectCandidates ==
    /\ pc = "list" /\ Candidates # <<>>
    /\ ~(Range(Candidates) \subseteq inspected)
    /\ Call("list", "tick", NoJob) /\ failures' = 0
    /\ inspected' = Range(Candidates)
    /\ UNCHANGED <<store, journal, after, chain, faults>>

\* expiry_snapshot, of one candidate.
ExpiryView(b) ==
    CASE net[b] = "mined" -> "mined"
      [] net[b] = "pooled" -> "unresolved"
      [] depth[b] = 0 -> "unresolved"
      [] net[b] = "orphaned" -> "missing"
      [] depth[b] = 1 -> "missing"
      [] OTHER -> "final"

NotAsked == <<"none", 0, 0>>

\* The chain is asked about every candidate at one tip.
ObserveExpiry ==
    /\ pc = "list" /\ Candidates # <<>>
    /\ Range(Candidates) \subseteq inspected
    /\ Call("recover", mode,
            [NoJob EXCEPT !.page = Candidates, !.rest = Candidates,
                          !.held = In({"expiry_pending"}),
                          !.view = [b \in Batch |->
                              IF b \in Range(Candidates)
                              THEN <<ExpiryView(b), depth[b], block[b]>>
                              ELSE NotAsked]])
    /\ inspected' = Range(Candidates)
    /\ UNCHANGED <<store, journal, failures, after, chain, faults>>

\* A plausible bug: a held payout whose absence is final is only kept.
RecoveryKeeping(b) ==
    LET kind == job.view[b][1]
    IN  CASE b \notin job.held /\ kind \in {"missing", "final"} -> "expiry_pending"
          [] b \in job.held /\ kind = "mined" /\ job.view[b][2] >= 1 -> "confirmed"
          [] OTHER -> state[b]

\* The store transition that an observation calls for, if any.
Recovery(b) ==
    LET kind == job.view[b][1]
    IN  CASE b \notin job.held /\ kind \in {"missing", "final"} -> "expiry_pending"
          [] b \in job.held /\ kind = "final" -> "expired"
          [] b \in job.held /\ kind = "mined" /\ job.view[b][2] >= 1 -> "confirmed"
          [] OTHER -> state[b]

\* The observation keeps this poll from settling anything.
Blocks(b) ==
    LET kind == job.view[b][1]
    IN  IF b \in job.held THEN kind \in {"mined", "unresolved", "final"}
        ELSE kind \in {"missing", "final"}

\* The states that the store lets a payout leave for an expiry state or, here,
\* for a confirmation; it refuses any other.
LeftFor(s) ==
    IF s = "expiry_pending" THEN {"signed", "broadcasting", "broadcast"}
    ELSE {"expiry_pending"}

RecoverOne ==
    /\ pc = "recover" /\ job.rest # <<>>
    /\ LET b == Head(job.rest)
       IN  /\ Recovery(b) # state[b] => state[b] \in LeftFor(Recovery(b))
           /\ Enter(b, Recovery(b))
           /\ seen' = [seen EXCEPT ![b] = IF Recovery(b) = "confirmed"
                                          THEN job.view[b][3] ELSE @]
           /\ job' = [job EXCEPT !.rest = Tail(@),
                                 !.ready = @ /\ ~Blocks(b)]
    /\ UNCHANGED <<queue, lapsed, frozen, watched, journal, pc, mode, failures,
                   memory, chain, faults>>

LastOf(s) == IF s = <<>> THEN 0 ELSE s[Len(s)]

\* The cursor moves only when the whole page was dealt with.
FinishRecovery ==
    /\ pc = "recover" /\ job.rest = <<>>
    /\ after' = LastOf(Lasting(job.page, job.held))
    /\ IF job.ready
       THEN Call(AfterRecovery, mode, NoJob) /\ UNCHANGED failures
       ELSE Call("list", "tick", NoJob) /\ failures' = 0
    /\ UNCHANGED <<store, journal, inspected, chain, faults>>
-----------------------------------------------------------------------------
(* Payouts on the chain *)

\* A plausible bug: the page of confirmed payouts starts at the first one.
FirstConfirmed == Prefix(Sorted(In({"confirmed"})), MaxWatches)

\* list_payout_watches: the confirmed payouts of this poll.
ConfirmedPage == Prefix(Rotated(In({"confirmed"}), watched), MaxWatches)

\* observe_watch
WatchView(b) ==
    CASE net[b] # "mined" -> IF state[b] = "confirmed" THEN "reorged"
                             ELSE "pending"
      [] state[b] = "confirmed" /\ block[b] # seen[b] -> "reorged"
      [] OTHER -> "mined"

\* The broadcast payouts of this poll, then the confirmed ones.
WatchPage ==
    Prefix(Lasting(queue, In({"broadcast"})), MaxWatches) \o ConfirmedPage

\* validate_watch_page
SoundPage(page) ==
    /\ \A i, j \in DOMAIN page :
        i < j /\ state[page[j]] = "broadcast" => state[page[i]] = "broadcast"
    /\ \A s \in {"broadcast", "confirmed"} :
        Len(SelectSeq(page, LAMBDA b: state[b] = s)) <= MaxWatches
    /\ Range(page) \subseteq In({"broadcast", "confirmed"})

\* validate_authority_snapshot: an answer for each payout of the page that its
\* state allows.
SoundView(page) ==
    \A b \in Range(page) :
        CASE WatchView(b) = "pending" -> state[b] = "broadcast"
          [] WatchView(b) = "reorged" -> state[b] = "confirmed"
          [] OTHER -> state[b] = "confirmed" => block[b] = seen[b]

ObserveWatches ==
    /\ pc = "watches"
    /\ SoundPage(WatchPage) /\ SoundView(WatchPage)
    /\ Call("apply", mode,
            [NoJob EXCEPT !.page = WatchPage, !.rest = WatchPage,
                          !.view = [b \in Range(WatchPage) |->
                              <<WatchView(b), depth[b], block[b]>>]])
    /\ UNCHANGED <<store, journal, failures, memory, chain, faults>>

\* apply_snapshot: a broadcast payout is confirmed when it is deep enough; a
\* confirmed one that moved freezes the chain and ends the worker.
ApplyOne ==
    /\ pc = "apply" /\ job.rest # <<>>
    /\ LET b == Head(job.rest)
           kind == job.view[b][1]
           rest == [job EXCEPT !.rest = Tail(@)]
       IN  \/ /\ state[b] = "confirmed" /\ kind = "reorged"
              /\ Enter(b, "reorged") /\ frozen' = TRUE
              /\ Down
              /\ UNCHANGED seen
           \/ /\ state[b] = "broadcast" /\ kind = "mined"
              /\ job.view[b][2] >= 1
              /\ Enter(b, "confirmed")
              /\ seen' = [seen EXCEPT ![b] = job.view[b][3]]
              /\ Call(pc, mode, rest) /\ UNCHANGED <<frozen, failures, memory>>
           \/ /\ kind # "reorged"
              /\ ~(state[b] = "broadcast" /\ kind = "mined"
                       /\ job.view[b][2] >= 1)
              /\ Call(pc, mode, rest)
              /\ UNCHANGED <<state, seen, frozen, failures, memory>>
    /\ UNCHANGED <<queue, lapsed, watched, journal, chain, faults>>

\* advance_confirmed_payout_watch_cursor, with the last confirmed payout of
\* the page; those confirmed just now were not part of it.
FinishWatches ==
    /\ pc = "apply" /\ job.rest = <<>>
    /\ watched' = LET checked == Lasting(job.page,
                                     {b \in Range(job.page) :
                                         job.view[b][1] = "mined" /\ state[b] = "confirmed"})
                  IN  IF ConfirmedPage = <<>> \/ checked = <<>> THEN watched
                      ELSE LastOf(checked)
    /\ Call("resume", mode, NoJob)
    /\ UNCHANGED <<state, queue, lapsed, frozen, seen, journal, failures,
                   memory, chain, faults>>
-----------------------------------------------------------------------------
(* Settlement of the oldest open batch *)

\* recover_exact: the signer's journal holds the batch's bytes.
Recovered(b) == b \in journal

\* recover_before_wallet_reconciliation, once at startup.
Gate ==
    /\ pc = "gate"
    /\ LET b == Oldest
       IN  \/ (b = 0 \/ (b # 0 /\ state[b] = "draft")) /\ Go("opening")
           \/ /\ b # 0 /\ state[b] = "signing"
              /\ Take(IF Recovered(b) THEN "mark_signed" ELSE "prepare", b)
           \/ b # 0 /\ state[b] \in {"signed", "broadcast"} /\ EndTick
           \/ b # 0 /\ state[b] = "broadcasting" /\ Take("submit", b)
           \/ b # 0 /\ state[b] = "reorged" /\ Down
    /\ UNCHANGED <<store, journal, chain, faults>>

\* ensure_held_payouts_expired_at
HeldUnexpired ==
    \E b \in In({"expiry_pending"}) : net[b] # "mined" /\ depth[b] = 0

\* record_startup_reconciliation, which may wait for the projector but not for
\* a held payout.
StartupReconciled == ~HeldUnexpired

\* The opening entry and the first reconciliation of this process.
Opening ==
    /\ pc = "opening"
    /\ IF ~StartupReconciled THEN Down
       ELSE Call("resume", "settle", NoJob) /\ UNCHANGED <<failures, memory>>
    /\ UNCHANGED <<store, journal, chain, faults>>

\* resume_next finds nothing open.
ResumeIdle ==
    /\ pc = "resume" /\ Oldest = 0
    /\ IF mode = "settle" THEN EndTick ELSE Go("wallet")
    /\ UNCHANGED <<store, journal, chain, faults>>

\* resume_draft: authorize_payout_signing refuses a frozen chain and a stale
\* reconciliation, and nothing in the worker cancels the draft.
ResumeDraft ==
    /\ pc = "resume" /\ Oldest # 0
    /\ state[Oldest] = "draft"
    /\ IF frozen \/ lapsed
       THEN Retry /\ UNCHANGED state
       ELSE Enter(Oldest, "signing") /\ Take("prepare", Oldest)
    /\ UNCHANGED <<queue, lapsed, frozen, seen, watched, journal, chain,
                   faults>>

\* resume_signing, resume_broadcasting, and the rebroadcast of a batch that
\* is already marked as broadcast.
ResumeEffect ==
    /\ pc = "resume" /\ Oldest # 0
    /\ \/ state[Oldest] = "signing" /\ Take("prepare", Oldest)
       \/ state[Oldest] = "signed" /\ Take("authorize", Oldest)
       \/ state[Oldest] \in {"broadcasting", "broadcast"}
          /\ Take("submit", Oldest)
    /\ UNCHANGED <<store, journal, chain, faults>>

ResumeReorged ==
    /\ pc = "resume" /\ Oldest # 0
    /\ state[Oldest] = "reorged"
    /\ Down
    /\ UNCHANGED <<store, journal, chain, faults>>

\* prepare_exact: the signer signs the request, or finds what it signed.
SignerSigns ==
    /\ pc = "prepare"
    /\ journal' = journal \union {job.batch}
    /\ Go("mark_signed")
    /\ UNCHANGED <<store, chain, faults>>

\* prepare_exact: the signer refused before any bytes existed.
SignerRejects ==
    /\ pc = "prepare" /\ job.batch \notin journal
    /\ Go("cancel")
    /\ UNCHANGED <<store, journal, chain, faults>>

\* cancel_rejected_signing.  Startup goes on with a clean slate; a poll goes
\* on only if it created the batch itself.
CancelRejected ==
    /\ pc = "cancel"
    /\ Enter(job.batch, "cancelled")
    /\ CASE mode = "startup" -> Go("opening")
         [] mode = "tick" /\ job.fresh -> EndTick
         [] OTHER -> Down
    /\ UNCHANGED <<queue, lapsed, frozen, seen, watched, journal, chain,
                   faults>>

MarkSigned ==
    /\ pc = "mark_signed"
    /\ Enter(job.batch, "signed")
    /\ IF mode = "startup" THEN EndTick ELSE Go("authorize")
    /\ UNCHANGED <<queue, lapsed, frozen, seen, watched, journal, chain,
                   faults>>

\* A plausible bug: the transaction is sent and the fence recorded afterwards.
AuthorizeNothing ==
    /\ pc = "authorize"
    /\ IF frozen THEN Retry ELSE Go("submit")
    /\ UNCHANGED <<store, journal, chain, faults>>

\* resume_signed: authorize_payout_broadcast refuses a frozen chain.
AuthorizeBroadcast ==
    /\ pc = "authorize"
    /\ IF frozen THEN Retry /\ UNCHANGED state
       ELSE Enter(job.batch, "broadcasting") /\ Go("submit")
    /\ UNCHANGED <<queue, lapsed, frozen, seen, watched, journal, chain,
                   faults>>

Live(b) == net[b] \in {"pooled", "mined"}

\* RpcExactBroadcaster::submit finds the transaction live, or makes it so;
\* the answer may be lost, and an expired one is refused.
Submit ==
    /\ pc = "submit"
    /\ LET b == job.batch
           sent == ~Live(b) /\ depth[b] = 0
       IN  /\ net' = IF sent THEN [net EXCEPT ![b] = "pooled"] ELSE net
           /\ \/ /\ Live(b) \/ sent
                 /\ IF state[b] = "broadcasting" THEN Go("mark_broadcast")
                    ELSE EndTick
                 /\ UNCHANGED faults
              \/ sent /\ Retry /\ faults < MaxFaults /\ faults' = faults + 1
              \/ ~Live(b) /\ ~sent /\ Down /\ UNCHANGED faults
    /\ UNCHANGED <<store, journal, depth, block, moves>>

MarkBroadcast ==
    /\ pc = "mark_broadcast"
    /\ Enter(job.batch, "broadcast")
    /\ EndTick
    /\ UNCHANGED <<queue, lapsed, frozen, seen, watched, journal, chain,
                   faults>>
-----------------------------------------------------------------------------
(* The next batch *)

\* The wallet is observed at the snapshot's tip and reconciled; a held payout
\* that may still be mined, or books that do not match yet, defer the rest.
Reconcile ==
    /\ pc = "wallet"
    /\ \/ ~HeldUnexpired /\ Go("create")
       \/ EndTick
    /\ UNCHANGED <<store, journal, chain, faults>>

\* create_batch: nothing is payable, the chain is frozen, or a draft exists.
CreateBatch ==
    /\ pc = "create"
    /\ \/ EndTick /\ UNCHANGED <<state, queue, lapsed>>
       \/ frozen /\ Down /\ UNCHANGED <<state, queue, lapsed>>
       \/ /\ ~frozen
          /\ \E b \in In({"none"}) :
              /\ Enter(b, "draft")
              /\ queue' = Append(queue, b)
          /\ lapsed' = FALSE
          /\ Call("resume", mode, [NoJob EXCEPT !.fresh = TRUE])
          /\ UNCHANGED <<failures, memory>>
    /\ UNCHANGED <<frozen, seen, watched, journal, chain, faults>>

Lapse ==
    /\ In({"draft"}) # {} /\ ~lapsed
    /\ lapsed' = TRUE
    /\ UNCHANGED <<state, queue, frozen, seen, watched, journal, pc, mode,
                   failures, memory, job, chain, faults>>

\* The projector found a reward that was lost after it was paid out.
FreezeElsewhere ==
    /\ ~frozen /\ faults < MaxFaults /\ faults' = faults + 1
    /\ frozen' = TRUE
    /\ UNCHANGED <<state, queue, lapsed, seen, watched, journal, pc, mode,
                   failures, memory, job, chain>>

\* A call fails and is retried, or the process dies.
Fail ==
    /\ pc # "down"
    /\ faults < MaxFaults /\ faults' = faults + 1
    /\ Retry \/ Down
    /\ UNCHANGED <<store, journal, chain>>
-----------------------------------------------------------------------------
(* External: the chain *)

Mine(b) ==
    /\ net[b] = "pooled"
    /\ net' = [net EXCEPT ![b] = "mined"]
    /\ block' = [block EXCEPT ![b] = @ + 1]
    /\ UNCHANGED <<depth, moves>>

\* More blocks: a mined transaction is buried, another one expires and is
\* dropped from the memory pool, and its expiry becomes final.
Deepen(b) ==
    /\ depth[b] < 2
    /\ depth' = [depth EXCEPT ![b] = @ + 1]
    /\ net' = [net EXCEPT ![b] = IF @ = "pooled" THEN "unknown" ELSE @]
    /\ UNCHANGED <<block, moves>>

\* A rollback within the node's window: the transaction leaves its block and
\* may return to the memory pool, or its expiry is undone.
RollBack(b) ==
    /\ depth[b] < 2 /\ moves < MaxMoves
    /\ moves' = moves + 1
    /\ \/ /\ net[b] = "mined"
          /\ \E n \in {"pooled", "orphaned"} : net' = [net EXCEPT ![b] = n]
       \/ net[b] # "mined" /\ depth[b] = 1 /\ UNCHANGED net
    /\ depth' = [depth EXCEPT ![b] = 0]
    /\ UNCHANGED block

\* The node forgets an orphaned copy, or the memory pool drops it.
Forget(b) ==
    /\ net[b] = "orphaned" \/ (net[b] = "pooled" /\ faults < MaxFaults)
    /\ net' = [net EXCEPT ![b] = "unknown"]
    /\ UNCHANGED <<depth, block, moves>>

\* The chain is followed while something depends on it.
Followed(b) ==
    /\ state[b] \in {"signed", "broadcasting", "broadcast", "expiry_pending",
                    "confirmed"}
    /\ UNCHANGED <<store, journal, pc, mode, failures, memory, job, faults>>

Grow(b) == Followed(b) /\ Deepen(b)

Prune(b) == Followed(b) /\ net[b] = "orphaned" /\ Forget(b)

ChainStep(b) ==
    \/ Grow(b)
    \/ Followed(b) /\ (Mine(b) \/ RollBack(b) \/ Forget(b))

WorkerStep ==
    \/ Start \/ NothingToRecover \/ InspectCandidates \/ ObserveExpiry
    \/ RecoverOne \/ FinishRecovery \/ ObserveWatches \/ ApplyOne
    \/ FinishWatches \/ Gate \/ Opening \/ ResumeIdle \/ ResumeDraft
    \/ ResumeEffect \/ ResumeReorged \/ SignerSigns \/ SignerRejects
    \/ CancelRejected \/ MarkSigned \/ AuthorizeBroadcast \/ Submit
    \/ MarkBroadcast \/ Reconcile \/ CreateBatch

Next ==
    \/ WorkerStep \/ Fail \/ Lapse \/ FreezeElsewhere
    \/ \E b \in Batch : ChainStep(b)

Spec == Init /\ [][Next]_vars
-----------------------------------------------------------------------------
\* "Keeping a single in-flight batch per chain prevents a later payout from
\* overtaking an ambiguous or reorged transaction": no crash, failed call or
\* expiry makes the worker open a second batch beside one that is open.
OneInFlight == Cardinality(In(InFlight)) <= 1

\* What is outside the database was allowed by it first: a transaction that
\* the node knows was authorised for broadcast, and the signer holds bytes
\* only of a batch that was authorised for signing and never cancelled.
EffectsFollowFences ==
    \A b \in Batch :
        /\ net[b] # "unknown" =>
            state[b] \in {"broadcasting", "broadcast", "expiry_pending",
                          "confirmed", "reorged"}
        /\ b \in journal => state[b] \notin {"none", "draft", "cancelled"}

\* Payouts that were held because they expired do not wait for ever: the
\* worker's polls come back to them until each is confirmed or released.
HeldIsSettled == In({"expiry_pending"}) # {} ~> In({"expiry_pending"}) = {}

Moved(b) == state[b] = "confirmed" /\ (net[b] # "mined" \/ block[b] # seen[b])

\* A confirmed payout that leaves its block is found to be reorganised, or
\* another one is (list_payout_watches goes round all confirmations), unless a
\* draft cannot be signed because its reconciliation is too old or the chain
\* is frozen: startup fails on such a draft before the first poll, and no poll
\* checks the payout.
MovedIsNoticed ==
    (\E b \in Batch : Moved(b)) ~>
        \/ In({"reorged"}) # {}
        \/ (lapsed \/ frozen) /\ In({"draft"}) # {}
=============================================================================
