------------------------- MODULE GenerationRegistry -------------------------
(***************************************************************************)
(* The registry of backend job generations (wcash-pool-core, jobs.rs): the *)
(* policy value that decides which generation a miner submission may still *)
(* use.  Every method of GenerationRegistry is an operator that takes a    *)
(* registry value and returns the next one.  The job router owns the only  *)
(* registry of a process and holds a mutex around every call, so module    *)
(* JobRouter turns these operators into atomic steps.                      *)
(*                                                                         *)
(* Times are the milliseconds of the process's monotonic timeline.  An     *)
(* absent Option<u64> time is 0, which no comparison of the code tells     *)
(* apart, and an absent last_event_seq is -1.                              *)
(***************************************************************************)
EXTENDS Integers, FiniteSets, SequencesExt

CONSTANTS
  Job,                 \* generation identifiers
  NoJob,               \* the absent generation
  Descriptor,          \* immutable work: records with fields wcash and zcash, its two chain tips
  MaximumRecent,       \* GenerationRegistryConfig.maximum_recent
  MaximumGenerations,  \* GenerationRegistryConfig.maximum_generations
  MaxAge,              \* JobDescriptor.max_age_ms
  RecoveryTail,        \* ZCASH_WINNER_RECOVERY_TAIL_MS
  MaxRecoveryJobs      \* MAX_ZCASH_WINNER_RECOVERY_JOBS

ASSUME RegistryAssumption ==
  /\ NoJob \notin Job
  /\ MaximumRecent \in Nat \ {0}
  /\ MaximumGenerations \in Nat
  /\ MaximumGenerations > MaximumRecent
  /\ MaxAge \in Nat \ {0}
  /\ RecoveryTail \in Nat
  /\ MaxRecoveryJobs \in Nat \ {0}

NoSeq == -1

AdmissionState == {"accepting", "suspended", "invalidated", "closed"}
Terminal == {"invalidated", "closed"}

Entry == [descriptor : Descriptor, storage : {"live", "tombstone"}, in_flight : Nat,
          accept_until : Nat, winner_recovery_until : Nat, state : AdmissionState]

NewRegistry ==
  [entries |-> <<>>, current |-> NoJob, recent |-> <<>>, winner_recovery |-> <<>>,
   watermark_current |-> NoJob, watermark_recent |-> <<>>, last_event_seq |-> NoSeq,
   last_delivery_anchor |-> 0, last_monotonic |-> 0, synchronized |-> FALSE]

Known(r) == DOMAIN r.entries
Roles(r) == (ToSet(r.recent) \cup {r.current}) \ {NoJob}
Keep(id, Test(_)) == IF id # NoJob /\ Test(id) THEN id ELSE NoJob

\* RegistryEntry::accepting and RegistryEntry::retained_at_watermark.
Accepting(entries, id, now) ==
  /\ id \in DOMAIN entries
  /\ entries[id].state = "accepting"
  /\ entries[id].storage = "live"
  /\ now < entries[id].accept_until

RetainedAtWatermark(entries, id, now) ==
  /\ id \in DOMAIN entries
  /\ entries[id].state \notin Terminal
  /\ entries[id].storage = "live"
  /\ now < entries[id].accept_until

Suspend(r) ==
  [r EXCEPT
     !.entries = [id \in Known(r) |->
        IF @[id].state = "accepting" THEN [@[id] EXCEPT !.state = "suspended"] ELSE @[id]],
     !.current = NoJob, !.recent = <<>>, !.winner_recovery = <<>>, !.synchronized = FALSE]

ExpireAt(r, now) ==
  LET entries == [id \in Known(r) |->
        IF r.entries[id].state \notin Terminal /\ now >= r.entries[id].accept_until
        THEN [r.entries[id] EXCEPT !.state = "invalidated"]
        ELSE r.entries[id]]
      accepting(id) == Accepting(entries, id, now)
      retained(id) == RetainedAtWatermark(entries, id, now)
  IN  [r EXCEPT
         !.entries = entries,
         !.current = Keep(@, accepting),
         !.recent = SelectSeq(@, accepting),
         !.watermark_current = Keep(@, retained),
         !.watermark_recent = SelectSeq(@, retained)]

\* A caller whose time precedes an observed one suspends the registry.
AdvanceClock(r, now) ==
  IF now < r.last_monotonic
  THEN Suspend(r)
  ELSE [ExpireAt(r, now) EXCEPT !.last_monotonic = now]

CurrentAccepting(r, now) == r.current # NoJob /\ Accepting(r.entries, r.current, now)

\* Late-winner work shares the Zcash parent of the current job, if there is one.
SameZcashParent(r, id, now) ==
  CurrentAccepting(r, now) =>
    r.entries[id].descriptor.zcash = r.entries[r.current].descriptor.zcash

Recoverable(r, id, now) ==
  /\ id \in Known(r)
  /\ r.entries[id].state # "closed"
  /\ now < r.entries[id].winner_recovery_until
  /\ SameZcashParent(r, id, now)

PruneWinnerRecovery(r, now) ==
  LET recoverable(id) == Recoverable(r, id, now)
  IN  [r EXCEPT !.winner_recovery = SelectSeq(@, recoverable)]

RememberWinnerRecovery(queue, id) ==
  IF id \in ToSet(queue) THEN queue
  ELSE Append(IF Len(queue) = MaxRecoveryJobs THEN Tail(queue) ELSE queue, id)

RemoveId(s, id) == SelectSeq(s, LAMBDA other : other # id)

-----------------------------------------------------------------------------
(* Snapshots.  A snapshot is [seq, current, recent, anchor]; current is     *)
(* <<>> or one acceptable job, recent a sequence of them, and an acceptable *)
(* job is [id, descriptor, accept_for].                                     *)

NewEntry(descriptor, until) ==
  [descriptor |-> descriptor, storage |-> "live", in_flight |-> 0, accept_until |-> until,
   winner_recovery_until |-> until + RecoveryTail, state |-> "accepting"]

Least(a, b) == IF a < b THEN a ELSE b
Latest(a, b) == IF a > b THEN a ELSE b

\* A snapshot that renews the lease of a job already observed.
FreshDeadline(r, job, anchor) == anchor + job.accept_for

\* prepare_acceptable: an observed job keeps its earliest deadline.
AcceptedDeadline(r, job, anchor) ==
  IF job.id \in Known(r)
  THEN Least(r.entries[job.id].accept_until, anchor + job.accept_for)
  ELSE anchor + job.accept_for

CanAccept(r, job, anchor) ==
  /\ job.accept_for \in 1 .. MaxAge
  /\ job.id \in Known(r) =>
       /\ r.entries[job.id].descriptor = job.descriptor
       /\ r.entries[job.id].state \notin Terminal
       /\ r.entries[job.id].storage = "live"
       /\ AcceptedDeadline(r, job, anchor) > anchor

AcceptedEntry(r, job, anchor) ==
  IF job.id \in Known(r)
  THEN [r.entries[job.id] EXCEPT !.accept_until = AcceptedDeadline(r, job, anchor),
                                 !.state = "accepting"]
  ELSE NewEntry(job.descriptor, anchor + job.accept_for)

Ids(jobs) == [i \in DOMAIN jobs |-> jobs[i].id]
OnlyId(jobs) == IF jobs = <<>> THEN NoJob ELSE jobs[1].id

\* prepare_snapshot: every check that makes the registry reject a snapshot.
SnapshotFits(r, s) ==
  LET jobs == s.current \o s.recent
  IN  /\ s.anchor >= r.last_delivery_anchor
      /\ s.seq >= r.last_event_seq
      /\ Len(s.recent) <= MaximumRecent
      /\ \A i \in DOMAIN jobs : CanAccept(r, jobs[i], s.anchor)
      /\ Cardinality(ToSet(Ids(jobs))) = Len(jobs)
      /\ s.seq = r.last_event_seq =>
           /\ OnlyId(s.current) = r.watermark_current
           /\ Ids(s.recent) = r.watermark_recent
      /\ Cardinality(Known(r) \cup ToSet(Ids(jobs))) <= MaximumGenerations

SnapshotEntries(r, s) ==
  LET jobs == s.current \o s.recent
      accepted == ToSet(Ids(jobs))
      job(id) == CHOOSE j \in ToSet(jobs) : j.id = id
  IN  [id \in Known(r) \cup accepted |->
         IF id \in accepted THEN AcceptedEntry(r, job(id), s.anchor)
         ELSE IF r.entries[id].state = "closed" THEN r.entries[id]
         ELSE [r.entries[id] EXCEPT !.state = "invalidated"]]

ApplySnapshot(r, s) ==
  LET now == Latest(r.last_monotonic, s.anchor)
      installed == ExpireAt(
        [r EXCEPT !.entries = SnapshotEntries(r, s),
                  !.current = OnlyId(s.current), !.recent = Ids(s.recent),
                  !.watermark_current = OnlyId(s.current), !.watermark_recent = Ids(s.recent),
                  !.last_event_seq = s.seq, !.last_delivery_anchor = s.anchor,
                  !.last_monotonic = now, !.synchronized = TRUE], now)
      roles == (IF installed.current = NoJob THEN <<>> ELSE <<installed.current>>) \o installed.recent
  IN  IF SnapshotFits(r, s)
      THEN PruneWinnerRecovery(
             [installed EXCEPT !.winner_recovery = FoldLeft(RememberWinnerRecovery, @, roles)], now)
      ELSE Suspend(r)

-----------------------------------------------------------------------------
(* Live events.  A delivery is [seq, event, anchor] and an event one of     *)
(*   [kind |-> "activated", id, descriptor]                                 *)
(*   [kind |-> "invalidated", id, reason, accept_for]                       *)
(*   [kind |-> "closed", id]                                                *)
(*   [kind |-> "journal"], the share and winner events, that only advance.  *)

Reason == {"superseded", "zcash_tip_changed", "wcash_tip_changed", "age"}

\* BackendEvent::validate: only superseded work keeps a grace period.
Graced(e) == e.reason = "superseded"

PriorCurrent(r, anchor) == IF CurrentAccepting(r, anchor) THEN <<r.current>> ELSE <<>>

CanActivate(r, e, anchor) ==
  /\ e.id \notin Known(r)
  /\ Len(PriorCurrent(r, anchor) \o r.recent) <= MaximumRecent
  /\ Cardinality(Known(r)) < MaximumGenerations

Activate(r, e, anchor) ==
  PruneWinnerRecovery(
    [r EXCEPT !.entries = (e.id :> NewEntry(e.descriptor, anchor + MaxAge)) @@ @,
              !.current = e.id,
              !.recent = PriorCurrent(r, anchor) \o @,
              !.winner_recovery = RememberWinnerRecovery(@, e.id)], anchor)

StillAccepting(r, id) == id \in Known(r) /\ r.entries[id].state = "accepting"

CanInvalidate(r, e) ==
  StillAccepting(r, e.id) /\ Graced(e) /\ ~Contains(r.recent, e.id)
    => Len(r.recent) < MaximumRecent

InvalidatedEntry(entry, e, anchor) ==
  LET until == Least(entry.accept_until, anchor + e.accept_for)
  IN  IF ~Graced(e) THEN [entry EXCEPT !.state = "invalidated"]
      ELSE [entry EXCEPT !.accept_until = until,
                         !.state = IF until > anchor THEN "accepting" ELSE "invalidated"]

Invalidate(r, e, anchor) ==
  LET entries == IF StillAccepting(r, e.id)
                 THEN [r.entries EXCEPT ![e.id] = InvalidatedEntry(@, e, anchor)]
                 ELSE r.entries
      graced == StillAccepting(r, e.id) /\ Accepting(entries, e.id, anchor)
  IN  [r EXCEPT
         !.entries = entries,
         !.current = Keep(@, LAMBDA id : id # e.id),
         !.recent = IF ~graced THEN RemoveId(@, e.id)
                    ELSE IF Contains(@, e.id) THEN @ ELSE <<e.id>> \o @,
         !.winner_recovery = IF e.reason = "zcash_tip_changed" THEN RemoveId(@, e.id) ELSE @]

\* A close that leaves the job in the recovery queue.
CloseKeepsRecovery(r, e) ==
  IF e.id \notin Known(r) THEN r
  ELSE [r EXCEPT !.entries[e.id].state = "closed",
                 !.current = Keep(@, LAMBDA id : id # e.id),
                 !.recent = RemoveId(@, e.id)]

Close(r, e) ==
  IF e.id \notin Known(r) THEN r
  ELSE [r EXCEPT !.entries[e.id].state = "closed",
                 !.current = Keep(@, LAMBDA id : id # e.id),
                 !.recent = RemoveId(@, e.id),
                 !.winner_recovery = RemoveId(@, e.id)]

\* try_apply_event up to the first state change.
Deliverable(r, d, now) ==
  /\ r.synchronized
  /\ d.anchor >= r.last_delivery_anchor
  /\ now >= r.last_monotonic
  /\ now >= d.anchor
  /\ d.seq = r.last_event_seq + 1

EventFits(r, d) ==
  CASE d.event.kind = "activated" -> CanActivate(r, d.event, d.anchor)
    [] d.event.kind = "invalidated" -> CanInvalidate(r, d.event)
    [] OTHER -> TRUE

EventEffect(r, d) ==
  CASE d.event.kind = "activated" -> Activate(r, d.event, d.anchor)
    [] d.event.kind = "invalidated" -> Invalidate(r, d.event, d.anchor)
    [] d.event.kind = "closed" -> Close(r, d.event)
    [] d.event.kind = "journal" -> r

EventOk(r, d, now) == Deliverable(r, d, now) /\ EventFits(ExpireAt(r, now), d)

Applied(r, d, now) ==
  LET x == ExpireAt(EventEffect(ExpireAt(r, now), d), now)
  IN  [x EXCEPT !.last_event_seq = d.seq,
                !.watermark_current = x.current, !.watermark_recent = x.recent,
                !.last_delivery_anchor = d.anchor, !.last_monotonic = now]

\* apply_event_at: a rejected event suspends what expiry left.
ApplyEvent(r, d, now) ==
  IF EventOk(r, d, now) THEN Applied(r, d, now)
  ELSE IF Deliverable(r, d, now) THEN Suspend(ExpireAt(r, now))
  ELSE Suspend(r)

-----------------------------------------------------------------------------
(* Admission.  Each operation first advances the clock, whatever it answers. *)

CanAdmit(r, id, now) == r.synchronized /\ Accepting(r.entries, id, now)

BeginAdmission(r, id) == [r EXCEPT !.entries[id].in_flight = @ + 1]

DropAdmission(r, id) == [r EXCEPT !.entries[id].in_flight = @ - 1]

CollectRetired(r, now) ==
  LET x == AdvanceClock(r, now)
      retired == {id \in Known(x) \ Roles(x) :
                    x.entries[id].state \in Terminal /\ x.entries[id].in_flight = 0}
  IN  [x EXCEPT !.entries = [id \in Known(x) |->
         IF id \in retired THEN [@[id] EXCEPT !.storage = "tombstone"] ELSE @[id]]]
=============================================================================
