----------------------------- MODULE EdgeSessions -----------------------------
(***************************************************************************)
(* The public miner listener (wcash-poold edge.rs): it admits connections  *)
(* under a process-wide and a per-source ceiling, runs one driver task for *)
(* each (stream.rs), authorizes workers against PostgreSQL (auth.rs),      *)
(* revalidates each authorization, keeps the live counters the portal      *)
(* shows (miner_telemetry.rs), and drains when the service stops.  What a  *)
(* session does with jobs and shares is module MiningConnection.           *)
(*                                                                         *)
(* Workers are numbered in the order they were created, and belong to one  *)
(* account; a worker has the one token it was provisioned with.  A         *)
(* connection that is refused, for either ceiling or because its actor or  *)
(* driver cannot be built, drops its permits and leaves no trace.          *)
(***************************************************************************)
EXTENDS Naturals, Sequences, FiniteSets, FiniteSetsExt, SequencesExt

CONSTANTS
    Conns,         \* identities of connections, reused
    Sources,       \* remote addresses
    Workers,       \* the account's workers: 1 .. n
    MaxMiners,     \* RuntimeConfig::maximum_miners
    MaxPerSource,  \* RuntimeConfig::maximum_miners_per_ip
    MaxTracked,    \* MAX_TRACKED_WORKERS
    Slots,         \* maximum_parallel_verifications
    Burst          \* requests that one read of READ_BUFFER_BYTES can hold

EdgeAssumption ==
    /\ Workers = 1 .. Cardinality(Workers)
    /\ MaxPerSource \in 1 .. MaxMiners
    /\ MaxTracked > MaxMiners        \* 65,536 workers tracked, 65,535 connections at most
    /\ Slots \in Nat \ {0} /\ Burst \in Nat \ {0}

VARIABLES
    mode,         \* MiningAuthenticationMode of the deployment
    enabled,      \* workers that are enabled; a revocation is final
    pc,           \* of each connection's task
    source,       \* where each live connection comes from
    claim,        \* the worker that an authorization names, then the one of the row it read, or 0
    grant,        \* the worker each connection is authorized for, or 0
    buffer,       \* requests of the last read that are still to be handled
    due,          \* connections whose revalidation deadline has passed
    free,         \* permits of ConnectionCapacity
    counts,       \* SourceCapacity::counts
    hashing,      \* Argon2 verifications running, whoever waits for them
    tracked,      \* workers in the telemetry table, the least recently active first
    connections,  \* WorkerCounters::connections of each tracked worker
    stopping      \* the shutdown signal

permits == <<free, counts>>
telemetry == <<tracked, connections>>
vars == <<mode, enabled, pc, source, claim, grant, buffer, due, permits, hashing, telemetry, stopping>>

Init ==
    /\ mode \in {"token", "username"}
    /\ enabled = Workers
    /\ pc = [c \in Conns |-> "none"]
    /\ source = [c \in Conns |-> "nowhere"]
    /\ claim = [c \in Conns |-> 0]
    /\ grant = claim /\ buffer = claim
    /\ due = {}
    /\ free = MaxMiners /\ counts = [s \in Sources |-> 0]
    /\ hashing = 0
    /\ tracked = <<>> /\ connections = [w \in Workers |-> 0]
    /\ stopping = FALSE

Live == {c \in Conns : pc[c] # "none"}

(***************************************************************************)
(* Telemetry                                                               *)
(***************************************************************************)
Idle(w) == connections[w] = 0

\* The least recently active worker gives way, connected or not.
EvictedBlindly == IF tracked = <<>> THEN 0 ELSE 1

\* The least recently active worker that nobody is connected as gives way.
Evicted == SelectInSeq(tracked, Idle)

Touched(w) == Append(SelectSeq(tracked, LAMBDA v : v # w), w)

\* tracked_worker_with_capacity: the table with w in it, or <<>> when none gives way.
TrackedWorker(w) ==
    CASE Contains(tracked, w) -> Touched(w)
      [] ~Contains(tracked, w) /\ Len(tracked) < MaxTracked -> Append(tracked, w)
      [] OTHER -> IF Evicted = 0 THEN <<>> ELSE Append(RemoveAt(tracked, Evicted), w)

WorkerConnected(w) ==
    IF TrackedWorker(w) = <<>> THEN UNCHANGED telemetry
    ELSE /\ tracked' = TrackedWorker(w)
         /\ connections' = [v \in Workers |->
                CASE v = w -> connections[w] + 1
                  [] v # w /\ Contains(tracked', v) -> connections[v]
                  [] OTHER -> 0]

WorkerDisconnected(w) ==
    IF ~Contains(tracked, w) THEN UNCHANGED telemetry
    ELSE /\ tracked' = Touched(w)
         /\ connections' = [connections EXCEPT ![w] = IF @ = 0 THEN 0 ELSE @ - 1]

ShareOutcome(w) ==
    IF TrackedWorker(w) = <<>> THEN UNCHANGED telemetry
    ELSE /\ tracked' = TrackedWorker(w)
         /\ connections' = [v \in Workers |-> IF Contains(tracked', v) THEN connections[v] ELSE 0]

(***************************************************************************)
(* Admission, and the end of a session                                     *)
(***************************************************************************)
Accept(c, s) ==
    /\ ~stopping /\ pc[c] = "none"
    /\ free > 0 /\ counts[s] < MaxPerSource
    /\ free' = free - 1
    /\ counts' = [counts EXCEPT ![s] = @ + 1]
    /\ source' = [source EXCEPT ![c] = s]
    /\ pc' = [pc EXCEPT ![c] = "open"]
    /\ UNCHANGED <<mode, enabled, claim, grant, buffer, due, hashing, telemetry, stopping>>

\* The task ends: the actor reports its worker gone, both permits are dropped.
Close(c) ==
    /\ pc' = [pc EXCEPT ![c] = "none"]
    /\ claim' = [claim EXCEPT ![c] = 0]
    /\ grant' = [grant EXCEPT ![c] = 0]
    /\ buffer' = [buffer EXCEPT ![c] = 0]
    /\ due' = due \ {c}
    /\ free' = free + 1
    /\ counts' = [counts EXCEPT ![source[c]] = @ - 1]
    /\ source' = [source EXCEPT ![c] = "nowhere"]
    /\ IF grant[c] = 0 THEN UNCHANGED telemetry ELSE WorkerDisconnected(grant[c])

\* The peer closes, a deadline passes, the store does not answer, or a read or
\* a write fails.  An Argon2 verification that it waits for goes on,
\* and keeps its slot.
Disconnect(c) ==
    /\ pc[c] # "none"
    /\ Close(c)
    /\ UNCHANGED <<mode, enabled, hashing, stopping>>

(***************************************************************************)
(* Authorization                                                           *)
(***************************************************************************)
Authorize(c) ==
    /\ pc[c] = "open" /\ ~stopping
    /\ \E w \in Workers : claim' = [claim EXCEPT ![c] = w]
    /\ pc' = [pc EXCEPT ![c] = "queued"]
    /\ UNCHANGED <<mode, enabled, source, grant, buffer, due, permits, hashing, telemetry, stopping>>

\* complete_authorization of a grant.
Granted(c, w) ==
    /\ grant' = [grant EXCEPT ![c] = w]
    /\ claim' = [claim EXCEPT ![c] = 0]
    /\ pc' = [pc EXCEPT ![c] = "granted"]
    /\ WorkerConnected(w)
    /\ UNCHANGED <<source, buffer, due, permits>>

\* authenticate_token_credentials waits for a slot, then reads the row.
ReadToken(c) ==
    /\ pc[c] = "queued" /\ mode = "token" /\ hashing < Slots
    /\ hashing' = hashing + 1
    /\ claim' = [claim EXCEPT ![c] = IF @ \in enabled THEN @ ELSE 0]
    /\ pc' = [pc EXCEPT ![c] = "verifying"]
    /\ UNCHANGED <<mode, enabled, source, grant, buffer, due, permits, telemetry, stopping>>

\* The verification ends: a bad secret, or no row, is a denial, which closes.
Verified(c) ==
    /\ pc[c] = "verifying"
    /\ hashing' = hashing - 1
    /\ \/ claim[c] # 0 /\ Granted(c, claim[c])
       \/ Close(c)
    /\ UNCHANGED <<mode, enabled, stopping>>

\* Nobody waits any more for a verification that ends.
Abandoned ==
    /\ hashing > Cardinality({c \in Conns : pc[c] = "verifying"})
    /\ hashing' = hashing - 1
    /\ UNCHANGED <<mode, enabled, pc, source, claim, grant, buffer, due, permits, telemetry, stopping>>

\* authenticate_username: the worker that the login names, or else the
\* account's oldest that is enabled.  The store may not answer.
ReadUsername(c) ==
    /\ pc[c] = "queued" /\ mode = "username"
    /\ \/ /\ enabled # {}
          /\ Granted(c, IF claim[c] \in enabled THEN claim[c] ELSE Min(enabled))
       \/ Close(c)
    /\ UNCHANGED <<mode, enabled, hashing, stopping>>

(***************************************************************************)
(* The session's loop: every request of a read is handled, and its share   *)
(* awaited, before the next event is chosen, and a revalidation that is    *)
(* due is chosen before another read                                       *)
(***************************************************************************)
ReadsAtOnce(c) == ~stopping /\ pc[c] = "granted" /\ buffer[c] = 0
Reads(c) == ~stopping /\ pc[c] = "granted" /\ buffer[c] = 0 /\ c \notin due

Read(c) ==
    /\ Reads(c)
    /\ \E n \in 1 .. Burst : buffer' = [buffer EXCEPT ![c] = n]
    /\ UNCHANGED <<mode, enabled, pc, source, claim, grant, due, permits, hashing, telemetry, stopping>>

\* handle_received takes the next request, a share that is sent on.
Share(c) ==
    /\ pc[c] = "granted" /\ buffer[c] > 0
    /\ buffer' = [buffer EXCEPT ![c] = @ - 1]
    /\ pc' = [pc EXCEPT ![c] = "submitting"]
    /\ UNCHANGED <<mode, enabled, source, claim, grant, due, permits, hashing, telemetry, stopping>>

ShareDone(c) ==
    /\ pc[c] = "submitting"
    /\ pc' = [pc EXCEPT ![c] = "granted"]
    /\ ShareOutcome(grant[c])
    /\ UNCHANGED <<mode, enabled, source, claim, grant, buffer, due, permits, hashing, stopping>>

RevalidationDue(c) ==
    /\ grant[c] # 0 /\ c \notin due
    /\ due' = due \cup {c}
    /\ UNCHANGED <<mode, enabled, pc, source, claim, grant, buffer, permits, hashing, telemetry, stopping>>

\* revalidate_worker: the worker and its token as PostgreSQL has them now.
StillGranted(c) == grant[c] \in enabled

\* A denial closes the session, and so does a store that does not answer.
Revalidate(c) ==
    /\ pc[c] = "granted" /\ buffer[c] = 0 /\ c \in due
    /\ \/ /\ StillGranted(c)
          /\ due' = due \ {c}
          /\ UNCHANGED <<pc, source, claim, grant, buffer, permits, telemetry>>
       \/ Close(c)
    /\ UNCHANGED <<mode, enabled, hashing, stopping>>

\* revoke_worker_at: the worker and all its tokens, in one transaction.
RevokeWorker(w) ==
    /\ w \in enabled
    /\ enabled' = enabled \ {w}
    /\ UNCHANGED <<mode, pc, source, claim, grant, buffer, due, permits, hashing, telemetry, stopping>>

(***************************************************************************)
(* Shutdown                                                                *)
(***************************************************************************)
Shutdown ==
    /\ ~stopping /\ stopping' = TRUE
    /\ UNCHANGED <<mode, enabled, pc, source, claim, grant, buffer, due, permits, hashing, telemetry>>

\* Each wait of a session watches the signal.
Stop(c) ==
    /\ stopping /\ pc[c] # "none"
    /\ Close(c)
    /\ UNCHANGED <<mode, enabled, hashing, stopping>>

Next ==
    \/ \E c \in Conns :
          \/ \E s \in Sources : Accept(c, s)
          \/ Disconnect(c) \/ Authorize(c)
          \/ ReadToken(c) \/ Verified(c) \/ ReadUsername(c)
          \/ Read(c) \/ Share(c) \/ ShareDone(c) \/ RevalidationDue(c) \/ Revalidate(c)
          \/ Stop(c)
    \/ Abandoned
    \/ \E w \in Workers : RevokeWorker(w)
    \/ Shutdown

Spec == Init /\ [][Next]_vars

(***************************************************************************)
(* Properties                                                              *)
(***************************************************************************)

\* Whatever way sessions begin, are authorized and end, the books kept of them
\* are exact: the permits out are the live sessions, of each source and in all
\* (edge.rs run, SourceCapacity), the portal's count of each worker's
\* connections is the sessions authorized as that worker although the table of
\* counters is bounded and evicts (miner_telemetry.rs), and no more Argon2
\* verifications run than there are slots, abandoned ones included.
BooksMatchSessions ==
    /\ free + Cardinality(Live) = MaxMiners
    /\ \A s \in Sources : counts[s] = Cardinality({c \in Live : source[c] = s})
    /\ \A w \in Workers : connections[w] = Cardinality({c \in Live : grant[c] = w})
    /\ hashing \in Cardinality({c \in Conns : pc[c] = "verifying"}) .. Slots

\* A miner mining as a worker that has been revoked is cut off, even if the
\* worker was revoked between the read of its row and the grant, and however
\* fast the miner sends shares (stream.rs run_inner, revalidate_authorization).
Revoked(c) == grant[c] # 0 /\ grant[c] \notin enabled
RevokedIsCutOff == \A c \in Conns : Revoked(c) ~> ~Revoked(c)
===============================================================================
