---------------------------- MODULE NonceNamespace ----------------------------
(***************************************************************************)
(* One backend-global nonce namespace: the PostgreSQL fence row that       *)
(* leases it, the process-local allocator that spends reserved ranges, and *)
(* the pool process that claims, renews, replenishes and releases it.      *)
(*                                                                         *)
(* Sources: wcash-pool-store/src/postgres.rs (claim, renew, release,       *)
(* reserve), wcash-pool-core/src/nonce.rs (allocator), and                 *)
(* wcash-poold/src/{bootstrap,service}.rs (the order of the calls).        *)
(*                                                                         *)
(* A Process is one process lifetime.  The database clock is represented   *)
(* by the time left on the lease: `lease_expires_at > clock_timestamp()`   *)
(* is ttl > 0.  A lease duration is the same constant for every caller.    *)
(***************************************************************************)
EXTENDS Integers, FiniteSets

CONSTANTS
  Process,        \* process lifetimes
  Holder,         \* holder UUIDs
  HolderOf,       \* the UUID each lifetime draws (meant to be fresh)
  NoHolder,       \* holder_id IS NULL
  Capacity,       \* counters in the profile (2^24 or 2^56 in the code)
  Reservation,    \* nonce_reservation: counters asked for in one range
  LeaseDuration   \* NONCE_NAMESPACE_LEASE_DURATION, in clock ticks

ASSUME NonceAssumption ==
  /\ HolderOf \in [Process -> Holder]
  /\ NoHolder \notin Holder
  /\ Capacity \in Nat \ {0}
  /\ Reservation \in Nat \ {0}
  /\ LeaseDuration \in Nat \ {0}

VARIABLES
  next_counter,      \* nonce_namespace_fences.next_counter
  lease_generation,  \* nonce_namespace_fences.lease_generation
  holder_id,         \* nonce_namespace_fences.holder_id
  ttl,               \* ticks until lease_expires_at
  reservations,      \* nonce_global_range_reservations
  stage,             \* where each process is in its lifetime
  claim,             \* the generation in each process's claim token
  range,             \* each process's allocator: [next, end_exclusive)
  fetched,           \* a committed range not yet installed by extend_reserved
  issued             \* how often each counter was shown to a miner (history)

fence == <<next_counter, lease_generation, holder_id, ttl, reservations>>
local == <<stage, claim, range, fetched>>
vars == <<fence, local, issued>>

Counter == 0 .. Capacity - 1
Stages == {"starting", "claimed", "reserved", "live", "renewed", "extending",
           "draining", "dead"}
Interval == [start : 0 .. Capacity, end : 0 .. Capacity]
Empty == [start |-> 0, end |-> 0]
Within(r) == {c \in Counter : r.start <= c /\ c < r.end}

\* The claim token still names the row: same holder, same generation, and the
\* database clock has not reached the expiry.
Owns(p) ==
  /\ holder_id = HolderOf[p]
  /\ lease_generation = claim[p]
  /\ ttl > 0

Init ==
  /\ next_counter = 0
  /\ lease_generation = 0
  /\ holder_id = NoHolder
  /\ ttl = 0
  /\ reservations = {}
  /\ stage = [p \in Process |-> "starting"]
  /\ claim = [p \in Process |-> 0]
  /\ range = [p \in Process |-> Empty]
  /\ fetched = [p \in Process |-> Empty]
  /\ issued = [c \in Counter |-> 0]

MoveTo(p, s) == stage' = [stage EXCEPT ![p] = s]

------------------------------------------------------------------------------
(* The database transactions *)

\* Plausible bugs of a takeover: it starts the namespace over, it keeps the
\* generation of the lapsed lease, it waits for a release that a crashed holder
\* never sends.
TakeOverRewinding(p) ==
  /\ ttl = 0
  /\ holder_id' = HolderOf[p]
  /\ lease_generation' = lease_generation + 1
  /\ next_counter' = 0
  /\ ttl' = LeaseDuration
  /\ claim' = [claim EXCEPT ![p] = lease_generation + 1]
  /\ UNCHANGED reservations

TakeOverSameGeneration(p) ==
  /\ ttl = 0
  /\ holder_id' = HolderOf[p]
  /\ lease_generation' = IF lease_generation = 0 THEN 1 ELSE lease_generation
  /\ ttl' = LeaseDuration
  /\ claim' = [claim EXCEPT ![p] = lease_generation']
  /\ UNCHANGED <<next_counter, reservations>>

TakeOverReleased(p) ==
  /\ ttl = 0 /\ holder_id = NoHolder
  /\ holder_id' = HolderOf[p]
  /\ lease_generation' = lease_generation + 1
  /\ ttl' = LeaseDuration
  /\ claim' = [claim EXCEPT ![p] = lease_generation + 1]
  /\ UNCHANGED <<next_counter, reservations>>

\* claim_nonce_namespace on an inactive row: a new generation; the cursor and
\* the reservations stay.
TakeOver(p) ==
  /\ ttl = 0
  /\ holder_id' = HolderOf[p]
  /\ lease_generation' = lease_generation + 1
  /\ ttl' = LeaseDuration
  /\ claim' = [claim EXCEPT ![p] = lease_generation + 1]
  /\ UNCHANGED <<next_counter, reservations>>

\* claim_nonce_namespace by the holder of an active row: the existing lease.
\* Any other caller is refused with NonceNamespaceAlreadyHeld.
Reclaim(p) ==
  /\ ttl > 0
  /\ holder_id = HolderOf[p]
  /\ claim' = [claim EXCEPT ![p] = lease_generation]
  /\ UNCHANGED fence

\* renew_nonce_namespace; GREATEST(expiry, now + duration) is the full duration.
Renewal(p) ==
  /\ Owns(p)
  /\ ttl' = LeaseDuration
  /\ UNCHANGED <<next_counter, lease_generation, holder_id, reservations>>

\* reserve_nonce_tail asks for Reservation, then half of it, ... then 1.
Attempts == {a \in 1 .. Reservation :
               \E k \in 0 .. Reservation : a = Reservation \div (2 ^ k)}
Fits(a) == next_counter + a <= Capacity

\* reserve_nonce_range under an active claim: the first attempt that fits
\* advances the cursor past the range it records.
Reserved(p, r) ==
  /\ Owns(p)
  /\ \E a \in Attempts :
       /\ Fits(a)
       /\ \A b \in Attempts : b > a => ~Fits(b)
       /\ r = [start |-> next_counter, end |-> next_counter + a]
  /\ next_counter' = r.end
  /\ reservations' = reservations \union
       {[start |-> r.start, end |-> r.end, generation |-> claim[p]]}
  /\ UNCHANGED <<lease_generation, holder_id, ttl>>

\* NonceNamespaceLeaseLost, or NonceNamespaceExhausted down to one counter.
CannotReserve(p) == ~Owns(p) \/ ~Fits(1)

------------------------------------------------------------------------------
(* A process lifetime *)

\* bootstrap: claim_nonce_namespace.
ClaimNamespace(p) ==
  /\ stage[p] = "starting"
  /\ TakeOver(p) \/ Reclaim(p)
  /\ MoveTo(p, "claimed")
  /\ UNCHANGED <<range, fetched, issued>>

\* claim_nonce_allocator: reserve a range and build the allocator over it.
BuildAllocator(p) ==
  /\ stage[p] = "claimed"
  /\ \E r \in Interval :
       /\ Reserved(p, r)
       /\ range' = [range EXCEPT ![p] = r]
  /\ MoveTo(p, "reserved")
  /\ UNCHANGED <<claim, fetched, issued>>

\* run_started renews once more before binding the listeners.
BindListener(p) ==
  /\ stage[p] = "reserved"
  /\ Renewal(p)
  /\ MoveTo(p, "live")
  /\ UNCHANGED <<claim, range, fetched, issued>>

\* maintain_nonce_namespace, one tick: renew ...
Heartbeat(p) ==
  /\ stage[p] = "live"
  /\ Renewal(p)
  /\ MoveTo(p, "renewed")
  /\ UNCHANGED <<claim, range, fetched, issued>>

Remaining(p) == range[p].end - range[p].start
Threshold == IF Reservation \div 4 > 1 THEN Reservation \div 4 ELSE 1

\* ... nothing more to do while enough reserved counters remain ...
KeepRange(p) ==
  /\ stage[p] = "renewed"
  /\ Remaining(p) > Threshold
  /\ MoveTo(p, "live")
  /\ UNCHANGED <<fence, claim, range, fetched, issued>>

\* ... otherwise commit the next range ...
Replenish(p) ==
  /\ stage[p] = "renewed"
  /\ Remaining(p) <= Threshold
  /\ \E r \in Interval :
       /\ Reserved(p, r)
       /\ fetched' = [fetched EXCEPT ![p] = r]
  /\ MoveTo(p, "extending")
  /\ UNCHANGED <<claim, range, issued>>

\* ... and install it: extend_reserved accepts only the contiguous range.
Extend(p) ==
  /\ stage[p] = "extending"
  /\ fetched[p].start = range[p].end
  /\ range' = [range EXCEPT ![p].end = fetched[p].end]
  /\ fetched' = [fetched EXCEPT ![p] = Empty]
  /\ MoveTo(p, "live")
  /\ UNCHANGED <<fence, claim, issued>>

\* NoncePrefixAllocator::allocate for a subscribing miner session.  Sessions
\* run concurrently with the maintenance task and until the drain is over.
Allocate(p) ==
  /\ stage[p] \in {"live", "renewed", "extending", "draining"}
  /\ range[p].start < range[p].end
  /\ issued' = [issued EXCEPT ![range[p].start] = @ + 1]
  /\ range' = [range EXCEPT ![p].start = @ + 1]
  /\ UNCHANGED <<fence, stage, claim, fetched>>

\* Any failed call ends the lifetime through the cleanup path.
Fail(p) ==
  /\ \/ stage[p] = "claimed" /\ CannotReserve(p)
     \/ stage[p] = "reserved"           \* a dependency check or the renewal
     \/ stage[p] = "live" /\ ~Owns(p)
     \/ stage[p] = "renewed" /\ Remaining(p) <= Threshold /\ CannotReserve(p)
     \/ stage[p] = "extending" /\ fetched[p].start # range[p].end
  /\ fetched' = [fetched EXCEPT ![p] = Empty]
  /\ MoveTo(p, "draining")
  /\ UNCHANGED <<fence, claim, range, issued>>

\* The reservation commits but its reply is lost: the caller sees a database
\* error, cleans up, and the range is wasted.
ReserveReplyLost(p) ==
  /\ \/ stage[p] = "claimed"
     \/ stage[p] = "renewed" /\ Remaining(p) <= Threshold
  /\ \E r \in Interval : Reserved(p, r)
  /\ MoveTo(p, "draining")
  /\ UNCHANGED <<claim, range, fetched, issued>>

\* A termination signal, or another service task's exit.
Shutdown(p) ==
  /\ stage[p] \in {"live", "renewed", "extending"}
  /\ fetched' = [fetched EXCEPT ![p] = Empty]
  /\ MoveTo(p, "draining")
  /\ UNCHANGED <<fence, claim, range, issued>>

\* release_nonce_namespace at the end of a preflight, of a failed start or of
\* shutdown_bootstrap; refused (and ignored) when the claim is already lost.
Release(p) ==
  /\ stage[p] \in {"claimed", "draining"}
  /\ IF Owns(p)
     THEN holder_id' = NoHolder /\ ttl' = 0
     ELSE UNCHANGED <<holder_id, ttl>>
  /\ MoveTo(p, "dead")
  /\ UNCHANGED <<next_counter, lease_generation, reservations, claim, range,
                 fetched, issued>>

\* SIGKILL or power loss: nothing is released.
Crash(p) ==
  /\ stage[p] \notin {"starting", "dead"}
  /\ MoveTo(p, "dead")
  /\ UNCHANGED <<fence, claim, range, fetched, issued>>

\* The database clock moves towards the expiry.
Tick ==
  /\ ttl > 0
  /\ ttl' = ttl - 1
  /\ UNCHANGED <<next_counter, lease_generation, holder_id, reservations,
                 local, issued>>

Next ==
  \/ Tick
  \/ \E p \in Process :
       \/ ClaimNamespace(p) \/ BuildAllocator(p) \/ BindListener(p)
       \/ Heartbeat(p) \/ KeepRange(p) \/ Replenish(p) \/ Extend(p)
       \/ Allocate(p) \/ Fail(p) \/ ReserveReplyLost(p) \/ Shutdown(p)
       \/ Release(p) \/ Crash(p)

Spec == Init /\ [][Next]_vars

\* Time passes, and the service manager keeps starting replacements, so a
\* claim that stays possible is eventually made.
Fairness ==
  /\ WF_vars(Tick)
  /\ WF_vars(\E p \in Process : ClaimNamespace(p))

FairSpec == Spec /\ Fairness

------------------------------------------------------------------------------
(* Properties *)

ReservationRecord ==
  [start : 0 .. Capacity, end : 0 .. Capacity, generation : Nat]

\* Types of the fence row, the process-local state and the history.
TypeOK ==
  /\ next_counter \in 0 .. Capacity
  /\ lease_generation \in Nat
  /\ holder_id \in Holder \union {NoHolder}
  /\ ttl \in 0 .. LeaseDuration
  /\ reservations \subseteq ReservationRecord
  /\ stage \in [Process -> Stages]
  /\ claim \in [Process -> Nat]
  /\ range \in [Process -> Interval]
  /\ fetched \in [Process -> Interval]
  /\ issued \in [Counter -> Nat]

\* Counters a process could still issue: its allocator's tail and a range it
\* has committed but not installed.
Spendable(p) == Within(range[p]) \union Within(fetched[p])

\* A counter some process can still issue was reserved and never issued, and
\* no other process can issue it too, even one whose lease is long lost.
SpendableIsExclusive ==
  \A p \in Process : \A c \in Spendable(p) :
    /\ c < next_counter
    /\ issued[c] = 0
    /\ \A q \in Process \ {p} : c \notin Spendable(q)

\* The parts of the inductive invariant behind the theorems.  Everything a
\* process holds lies below the cursor, nothing at or above it was issued, a
\* range waiting for extend_reserved lies above the one being spent, and no
\* claim token is newer than the row.
HoldingsBelowCursor ==
  \A p \in Process :
    range[p].end <= next_counter /\ fetched[p].end <= next_counter
FrontierUnissued == \A c \in Counter : c >= next_counter => issued[c] = 0
FetchedFollowsRange ==
  \A p \in Process :
    fetched[p] # Empty =>
      stage[p] \in {"extending", "dead"} /\ range[p].end <= fetched[p].start
ClaimsAreIssued == \A p \in Process : claim[p] <= lease_generation

Inv ==
  /\ TypeOK
  /\ SpendableIsExclusive
  /\ HoldingsBelowCursor
  /\ FrontierUnissued
  /\ FetchedFollowsRange
  /\ ClaimsAreIssued

\* With fresh holder UUIDs, the owner of the row is the last to have reserved:
\* what it holds ends at the cursor.
OwnerHoldsTheEnd ==
  \A p \in Process :
    Owns(p) =>
      /\ stage[p] \in {"reserved", "live", "renewed"} =>
           range[p].end = next_counter
      /\ stage[p] = "extending" => fetched[p].end = next_counter

\* With fresh holder UUIDs a live process's next range always continues its
\* own: extend_reserved never answers NonContiguousReservation.
ExtensionIsContiguous ==
  \A p \in Process :
    stage[p] = "extending" => fetched[p].start = range[p].end

\* A claim token that has stopped naming the row never names it again, even if
\* a later lifetime draws the same holder UUID.
ClaimStaysStale(p) ==
  claim[p] # 0 /\ ~Owns(p) /\ claim'[p] = claim[p] => ~Owns(p)'
StaleClaimNeverRevives == [][\A p \in Process : ClaimStaysStale(p)]_vars

\* No counter is shown to two miners: the namespace implements the dispenser,
\* through crashes, lost replies, expired leases and takeovers.
Dispenser == INSTANCE PrefixDispenser
ImplementsDispenser == Dispenser!Spec

\* When every earlier process is gone, crashed ones included, a waiting
\* process eventually gets the namespace.
NobodyServes == \A p \in Process : stage[p] \in {"starting", "dead"}
NamespaceRecovers ==
  (NobodyServes /\ \E p \in Process : stage[p] = "starting") ~> ~NobodyServes
=============================================================================
