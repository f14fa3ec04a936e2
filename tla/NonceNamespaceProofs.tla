------------------------- MODULE NonceNamespaceProofs -------------------------
(***************************************************************************)
(* For any number of process lifetimes, any capacity, any reservation size *)
(* and any lease duration: the namespace keeps its types, no counter is    *)
(* spendable twice, and no counter is shown to two miners.                 *)
(***************************************************************************)
EXTENDS NonceNamespace, TLAPS

\* Every attempt of reserve_nonce_tail asks for at least one counter.
LEMMA AttemptsArePositive == Attempts \subseteq Nat \ {0}
BY NonceAssumption DEF Attempts

\* A committed reservation starts at the old cursor, ends at the new one, is
\* not empty and stays inside the namespace (reserve_nonce_range).
LEMMA ReservationMovesCursor ==
  ASSUME TypeOK, NEW p \in Process, NEW r \in Interval, Reserved(p, r)
  PROVE  /\ r.start = next_counter
         /\ r.end = next_counter'
         /\ r.start < r.end
         /\ next_counter' \in 0 .. Capacity
         /\ reservations' \subseteq ReservationRecord
         /\ UNCHANGED <<lease_generation, holder_id, ttl>>
         /\ Owns(p)
<1>1. PICK a \in Attempts :
        Fits(a) /\ r = [start |-> next_counter, end |-> next_counter + a]
  BY DEF Reserved
<1>2. a \in Nat \ {0}
  BY <1>1, AttemptsArePositive
<1>3. r.start = next_counter /\ r.end = next_counter + a
  BY <1>1
<1>4. next_counter' = r.end
  BY DEF Reserved
<1>5. reservations' \subseteq ReservationRecord
  <2>1. [start |-> r.start, end |-> r.end, generation |-> claim[p]]
          \in ReservationRecord
    BY DEF TypeOK, ReservationRecord, Interval
  <2> QED
    BY <2>1 DEF Reserved, TypeOK
<1> QED
  BY <1>1, <1>2, <1>3, <1>4, <1>5, NonceAssumption DEF Reserved, TypeOK, Fits, Interval

\* Inv holds before any process has started.
LEMMA InitInv == Init => Inv
<1> SUFFICES ASSUME Init PROVE Inv
  OBVIOUS
<1> USE NonceAssumption DEF Init
<1>1. Empty \in Interval
  BY DEF Empty, Interval
<1>2. TypeOK
  BY <1>1 DEF TypeOK, Stages, ReservationRecord
<1>3. \A p \in Process : range[p] = Empty /\ fetched[p] = Empty
  OBVIOUS
<1>4. Empty.start = 0 /\ Empty.end = 0
  BY DEF Empty
<1>5. \A p \in Process : Spendable(p) = {}
  BY <1>3, <1>4 DEF Spendable, Within, Counter
<1>6. SpendableIsExclusive
  BY <1>5 DEF SpendableIsExclusive
<1>7. HoldingsBelowCursor /\ FetchedFollowsRange
  BY <1>3, <1>4 DEF HoldingsBelowCursor, FetchedFollowsRange
<1>8. FrontierUnissued /\ ClaimsAreIssued
  BY DEF FrontierUnissued, ClaimsAreIssued, Counter
<1> QED
  BY <1>2, <1>6, <1>7, <1>8 DEF Inv

\* A step that leaves the cursor, the holdings and the history alone, and moves
\* no process into a stage with a forgotten range, keeps the holdings' parts.
LEMMA HoldingsUntouched ==
  ASSUME Inv, UNCHANGED <<next_counter, range, fetched, issued>>,
         \A q \in Process : fetched[q] # Empty =>
           stage'[q] \in {"extending", "dead"}
  PROVE  /\ SpendableIsExclusive'
         /\ HoldingsBelowCursor'
         /\ FrontierUnissued'
         /\ FetchedFollowsRange'
BY DEF Inv, SpendableIsExclusive, Spendable, Within, HoldingsBelowCursor, FrontierUnissued,
       FetchedFollowsRange

\* A step that reserves for p (BuildAllocator, Replenish or a lost reply): what
\* p now holds of the new range was above everyone's holdings before, and no
\* miner has seen it.
LEMMA NewRangeIsFresh ==
  ASSUME Inv, NEW p \in Process, NEW r \in Interval, Reserved(p, r), UNCHANGED issued,
         \A q \in Process : Spendable(q)' \subseteq
            IF q = p THEN Spendable(p) \union Within(r) ELSE Spendable(q)
  PROVE  SpendableIsExclusive' /\ FrontierUnissued'
<1>1. r.start = next_counter /\ r.end = next_counter' /\ r.start < r.end
  BY ReservationMovesCursor DEF Inv
<1>2. next_counter \in Nat /\ next_counter' \in Nat /\ next_counter < next_counter'
  BY <1>1, ReservationMovesCursor DEF Inv, TypeOK
<1>3. \A c \in Within(r) : c \in Counter /\ next_counter <= c /\ c < next_counter'
  BY <1>1 DEF Within
<1>4. \A c \in Within(r) : issued[c] = 0 /\ \A q \in Process : c \notin Spendable(q)
  <2> SUFFICES ASSUME NEW c \in Within(r)
               PROVE  issued[c] = 0 /\ \A q \in Process : c \notin Spendable(q)
    OBVIOUS
  <2>1. issued[c] = 0
    BY <1>3 DEF Inv, FrontierUnissued
  <2>2. \A q \in Process : c \in Spendable(q) => c < next_counter
    BY DEF Inv, SpendableIsExclusive
  <2>3. ~(c < next_counter)
    BY <1>2, <1>3 DEF Counter
  <2> QED
    BY <2>1, <2>2, <2>3
<1>5. \A q \in Process : Spendable(q) \subseteq Counter
  BY DEF Spendable, Within
<1>6. SpendableIsExclusive'
  <2> SUFFICES ASSUME NEW q \in Process, NEW c \in Spendable(q)'
               PROVE  /\ c < next_counter'
                      /\ issued[c] = 0
                      /\ \A o \in Process \ {q} : c \notin Spendable(o)'
    BY DEF SpendableIsExclusive
  <2>1. CASE c \in Spendable(q)
    <3>1. c \in Counter /\ c < next_counter /\ issued[c] = 0
      BY <2>1, <1>5 DEF Inv, SpendableIsExclusive
    <3>2. c < next_counter'
      BY <3>1, <1>2 DEF Counter
    <3>3. \A o \in Process \ {q} : c \notin Spendable(o)
      BY <2>1 DEF Inv, SpendableIsExclusive
    <3>4. c \notin Within(r)
      BY <2>1, <1>4
    <3> QED
      BY <3>1, <3>2, <3>3, <3>4
  <2>2. CASE c \notin Spendable(q)
    <3>1. q = p /\ c \in Within(r)
      BY <2>2
    <3>2. c < next_counter' /\ issued[c] = 0 /\ \A o \in Process : c \notin Spendable(o)
      BY <3>1, <1>3, <1>4
    <3> QED
      BY <3>1, <3>2
  <2> QED
    BY <2>1, <2>2
<1>7. FrontierUnissued'
  BY <1>2 DEF Inv, FrontierUnissued, Counter
<1> QED
  BY <1>6, <1>7

\* Every step keeps the types; the bounds need the cursor check of
\* reserve_nonce_range and the fixed lease duration.
LEMMA StepTypeOK ==
  ASSUME TypeOK, [Next]_vars
  PROVE  TypeOK'
<1> USE NonceAssumption DEF TypeOK, MoveTo, Stages, fence, local
<1>0. Empty \in Interval
  BY DEF Empty, Interval
<1>1. CASE Tick
  BY <1>1 DEF Tick
<1>2. ASSUME NEW p \in Process, ClaimNamespace(p) PROVE TypeOK'
  BY <1>2 DEF ClaimNamespace, TakeOver, Reclaim
<1>3. ASSUME NEW p \in Process, BuildAllocator(p) PROVE TypeOK'
  BY <1>3, ReservationMovesCursor DEF BuildAllocator
<1>4. ASSUME NEW p \in Process, BindListener(p) \/ Heartbeat(p) PROVE TypeOK'
  BY <1>4 DEF BindListener, Heartbeat, Renewal
<1>5. ASSUME NEW p \in Process, KeepRange(p) PROVE TypeOK'
  BY <1>5 DEF KeepRange
<1>6. ASSUME NEW p \in Process, Replenish(p) PROVE TypeOK'
  BY <1>6, ReservationMovesCursor DEF Replenish
<1>7. ASSUME NEW p \in Process, Extend(p) PROVE TypeOK'
  BY <1>7, <1>0 DEF Extend, Interval
<1>8. ASSUME NEW p \in Process, Allocate(p) PROVE TypeOK'
  <2>1. /\ range[p] \in Interval /\ range[p].start < range[p].end
        /\ issued' = [issued EXCEPT ![range[p].start] = @ + 1]
        /\ range' = [range EXCEPT ![p].start = @ + 1]
        /\ UNCHANGED <<fence, stage, claim, fetched>>
    BY <1>8 DEF Allocate
  <2>2. range[p].start \in Counter
    BY <2>1 DEF Interval, Counter
  <2>3. issued' \in [Counter -> Nat]
    BY <2>1, <2>2
  <2>4. [range[p] EXCEPT !.start = @ + 1] \in Interval
    BY <2>1 DEF Interval
  <2>5. range' \in [Process -> Interval]
    BY <2>1, <2>4
  <2> QED
    BY <2>1, <2>3, <2>5
<1>9. ASSUME NEW p \in Process, Fail(p) \/ Shutdown(p) PROVE TypeOK'
  BY <1>9, <1>0 DEF Fail, Shutdown
<1>10. ASSUME NEW p \in Process, ReserveReplyLost(p) PROVE TypeOK'
  BY <1>10, ReservationMovesCursor DEF ReserveReplyLost
<1>11. ASSUME NEW p \in Process, Release(p) PROVE TypeOK'
  BY <1>11 DEF Release
<1>12. ASSUME NEW p \in Process, Crash(p) PROVE TypeOK'
  BY <1>12 DEF Crash
<1>13. CASE UNCHANGED vars
  BY <1>13 DEF vars
<1> QED
  BY <1>1, <1>2, <1>3, <1>4, <1>5, <1>6, <1>7, <1>8, <1>9, <1>10, <1>11, <1>12, <1>13 DEF Next

\* No step makes a claim token newer than the row: tokens are copied from the
\* row, and its generation only grows.
LEMMA StepClaims ==
  ASSUME Inv, [Next]_vars
  PROVE  ClaimsAreIssued'
<1> USE DEF Inv, TypeOK, ClaimsAreIssued, MoveTo, fence, local
<1>1. ASSUME NEW p \in Process, ClaimNamespace(p) PROVE ClaimsAreIssued'
  BY <1>1 DEF ClaimNamespace, TakeOver, Reclaim
<1>2. ASSUME NEW p \in Process, NEW r \in Interval, Reserved(p, r)
      PROVE  UNCHANGED lease_generation
  BY <1>2 DEF Reserved
<1>3. CASE UNCHANGED <<claim, lease_generation>>
  BY <1>3
<1>4. ASSUME NEW p \in Process,
             BuildAllocator(p) \/ Replenish(p) \/ ReserveReplyLost(p)
      PROVE  UNCHANGED <<claim, lease_generation>>
  BY <1>4, <1>2 DEF BuildAllocator, Replenish, ReserveReplyLost
<1>5. ASSUME NEW p \in Process,
             \/ BindListener(p) \/ Heartbeat(p) \/ KeepRange(p) \/ Extend(p) \/ Allocate(p)
             \/ Fail(p) \/ Shutdown(p) \/ Release(p) \/ Crash(p)
      PROVE  UNCHANGED <<claim, lease_generation>>
  BY <1>5 DEF BindListener, Heartbeat, Renewal, KeepRange, Extend, Allocate, Fail, Shutdown,
              Release, Crash
<1>6. Tick \/ UNCHANGED vars => UNCHANGED <<claim, lease_generation>>
  BY DEF Tick, vars
<1> QED
  BY <1>1, <1>3, <1>4, <1>5, <1>6 DEF Next

Holdings == SpendableIsExclusive /\ HoldingsBelowCursor /\ FrontierUnissued /\ FetchedFollowsRange

\* A step that reserves nothing and issues nothing, and after which nobody
\* holds more than before, keeps the holdings exclusive.
LEMMA ShrinkingIsSafe ==
  ASSUME Inv, UNCHANGED <<next_counter, issued>>,
         \A q \in Process : Spendable(q)' \subseteq Spendable(q)
  PROVE  SpendableIsExclusive' /\ FrontierUnissued'
BY DEF Inv, SpendableIsExclusive, FrontierUnissued

\* The startup range is new, and a process that builds its allocator has no
\* other holding (claim_nonce_allocator).
LEMMA BuildAllocatorStep ==
  ASSUME Inv, NEW p \in Process, BuildAllocator(p)
  PROVE  Holdings'
<1>1. PICK r \in Interval : Reserved(p, r) /\ range' = [range EXCEPT ![p] = r]
  BY DEF BuildAllocator
<1>2. /\ r.start = next_counter /\ r.end = next_counter' /\ r.start < r.end
      /\ next_counter' \in Nat
  BY <1>1, ReservationMovesCursor DEF Inv
<1>3. UNCHANGED <<fetched, issued>> /\ stage' = [stage EXCEPT ![p] = "reserved"]
  BY DEF BuildAllocator, MoveTo
<1>4. range'[p] = r /\ \A q \in Process \ {p} : range'[q] = range[q]
  BY <1>1 DEF Inv, TypeOK
<1>5. SpendableIsExclusive' /\ FrontierUnissued'
  <2>1. \A q \in Process : Spendable(q)' \subseteq
           IF q = p THEN Spendable(p) \union Within(r) ELSE Spendable(q)
    BY <1>3, <1>4 DEF Spendable, Within
  <2> QED
    BY <1>1, <1>3, <2>1, NewRangeIsFresh
<1>6. HoldingsBelowCursor'
  BY <1>2, <1>3, <1>4 DEF Inv, TypeOK, Interval, HoldingsBelowCursor
<1>7. FetchedFollowsRange'
  <2>1. fetched[p] = Empty
    BY DEF Inv, FetchedFollowsRange, BuildAllocator
  <2> QED
    BY <2>1, <1>3, <1>4 DEF Inv, TypeOK, FetchedFollowsRange
<1> QED
  BY <1>5, <1>6, <1>7 DEF Holdings

\* A replenishment is new and lies above the range being spent.
LEMMA ReplenishStep ==
  ASSUME Inv, NEW p \in Process, Replenish(p)
  PROVE  Holdings'
<1>1. PICK r \in Interval : Reserved(p, r) /\ fetched' = [fetched EXCEPT ![p] = r]
  BY DEF Replenish
<1>2. /\ r.start = next_counter /\ r.end = next_counter' /\ r.start < r.end
      /\ next_counter' \in Nat
  BY <1>1, ReservationMovesCursor DEF Inv
<1>3. UNCHANGED <<range, issued>> /\ stage' = [stage EXCEPT ![p] = "extending"]
  BY DEF Replenish, MoveTo
<1>4. fetched'[p] = r /\ \A q \in Process \ {p} : fetched'[q] = fetched[q]
  BY <1>1 DEF Inv, TypeOK
<1>5. SpendableIsExclusive' /\ FrontierUnissued'
  <2>1. \A q \in Process : Spendable(q)' \subseteq
           IF q = p THEN Spendable(p) \union Within(r) ELSE Spendable(q)
    BY <1>3, <1>4 DEF Spendable, Within
  <2> QED
    BY <1>1, <1>3, <2>1, NewRangeIsFresh
<1>6. HoldingsBelowCursor'
  BY <1>2, <1>3, <1>4 DEF Inv, TypeOK, Interval, HoldingsBelowCursor
<1>7. FetchedFollowsRange'
  BY <1>2, <1>3, <1>4 DEF Inv, TypeOK, HoldingsBelowCursor, FetchedFollowsRange
<1> QED
  BY <1>5, <1>6, <1>7 DEF Holdings

\* A reservation whose reply is lost moves the cursor and gives nobody anything.
LEMMA ReserveReplyLostStep ==
  ASSUME Inv, NEW p \in Process, ReserveReplyLost(p)
  PROVE  Holdings'
<1>1. PICK r \in Interval : Reserved(p, r)
  BY DEF ReserveReplyLost
<1>2. next_counter < next_counter' /\ next_counter \in Nat /\ next_counter' \in Nat
  BY <1>1, ReservationMovesCursor DEF Inv, TypeOK
<1>3. UNCHANGED <<range, fetched, issued>> /\ stage' = [stage EXCEPT ![p] = "draining"]
  BY DEF ReserveReplyLost, MoveTo
<1>4. SpendableIsExclusive' /\ FrontierUnissued'
  <2>1. \A q \in Process : Spendable(q)' \subseteq
           IF q = p THEN Spendable(p) \union Within(r) ELSE Spendable(q)
    BY <1>3 DEF Spendable, Within
  <2> QED
    BY <1>1, <1>3, <2>1, NewRangeIsFresh
<1>5. HoldingsBelowCursor'
  BY <1>2, <1>3 DEF Inv, TypeOK, Interval, HoldingsBelowCursor
<1>6. FetchedFollowsRange'
  <2>1. fetched[p] = Empty
    BY DEF Inv, FetchedFollowsRange, ReserveReplyLost
  <2> QED
    BY <2>1, <1>3 DEF Inv, TypeOK, FetchedFollowsRange
<1> QED
  BY <1>4, <1>5, <1>6 DEF Holdings

\* extend_reserved appends a contiguous range: the process holds the same
\* counters as before.
LEMMA ExtendStep ==
  ASSUME Inv, NEW p \in Process, Extend(p)
  PROVE  Holdings'
<1>1. /\ range[p] \in Interval /\ fetched[p] \in Interval
      /\ fetched[p].start = range[p].end
  BY DEF Extend, Inv, TypeOK
<1>2. /\ range'[p] = [start |-> range[p].start, end |-> fetched[p].end]
      /\ \A q \in Process \ {p} : range'[q] = range[q]
  BY <1>1 DEF Extend, Inv, TypeOK, Interval
<1>3. /\ fetched'[p] = Empty
      /\ \A q \in Process \ {p} : fetched'[q] = fetched[q]
  BY DEF Extend, Inv, TypeOK
<1>4. /\ UNCHANGED <<next_counter, issued>>
      /\ stage' = [stage EXCEPT ![p] = "live"]
  BY DEF Extend, MoveTo, fence
<1>5. Within(range'[p]) \subseteq Spendable(p)
  BY <1>1, <1>2 DEF Spendable, Within, Counter, Interval
<1>6. Within(Empty) = {}
  BY DEF Within, Empty, Counter
<1>7. \A q \in Process : Spendable(q)' \subseteq Spendable(q)
  BY <1>2, <1>3, <1>5, <1>6 DEF Spendable, Within
<1>8. HoldingsBelowCursor'
  BY <1>2, <1>3, <1>4 DEF Inv, TypeOK, HoldingsBelowCursor, Empty
<1>9. FetchedFollowsRange'
  BY <1>2, <1>3, <1>4 DEF Inv, TypeOK, FetchedFollowsRange
<1> QED
  BY <1>4, <1>7, <1>8, <1>9, ShrinkingIsSafe DEF Holdings

\* allocate shows a miner the lowest counter of the range, which was never
\* issued, and the allocator moves past it.
LEMMA AllocateStep ==
  ASSUME Inv, NEW p \in Process, Allocate(p)
  PROVE  /\ Holdings'
         /\ range[p].start \in Counter
         /\ issued[range[p].start] = 0
         /\ issued' = [issued EXCEPT ![range[p].start] = 1]
<1> DEFINE c0 == range[p].start
<1>1. range[p] \in Interval /\ fetched[p] \in Interval /\ c0 < range[p].end
  BY DEF Allocate, Inv, TypeOK
<1>2. c0 \in Counter /\ c0 \in Within(range[p])
  BY <1>1, NonceAssumption DEF Within, Counter, Interval
<1>3. /\ c0 < next_counter
      /\ issued[c0] = 0
      /\ \A q \in Process \ {p} : c0 \notin Spendable(q)
  BY <1>2 DEF Inv, SpendableIsExclusive, Spendable
<1>4. issued' = [issued EXCEPT ![c0] = 1]
  BY <1>3 DEF Allocate
<1>5. /\ range'[p] = [start |-> c0 + 1, end |-> range[p].end]
      /\ \A q \in Process \ {p} : range'[q] = range[q]
  BY <1>1 DEF Allocate, Inv, TypeOK, Interval
<1>6. UNCHANGED <<next_counter, fetched, stage>>
  BY DEF Allocate, fence
<1>7. c0 \notin Within(fetched[p])
  <2>1. CASE fetched[p] = Empty
    BY <2>1 DEF Within, Empty, Counter
  <2>2. CASE fetched[p] # Empty
    <3>1. range[p].end <= fetched[p].start
      BY <2>2 DEF Inv, FetchedFollowsRange
    <3> QED
      BY <3>1, <1>1, <1>2 DEF Within, Counter, Interval
  <2> QED
    BY <2>1, <2>2
<1>8. \A q \in Process : Spendable(q)' \subseteq Spendable(q) \ {c0}
  <2>1. Within(range'[p]) \subseteq Within(range[p]) \ {c0}
    BY <1>1, <1>2, <1>5 DEF Within, Counter, Interval
  <2>2. Spendable(p)' \subseteq Spendable(p) \ {c0}
    BY <2>1, <1>6, <1>7 DEF Spendable, Within
  <2>3. \A q \in Process \ {p} : Spendable(q)' \subseteq Spendable(q) \ {c0}
    BY <1>3, <1>5, <1>6 DEF Spendable, Within
  <2> QED
    BY <2>2, <2>3
<1>9. SpendableIsExclusive'
  <2>1. \A q \in Process : Spendable(q) \subseteq Counter
    BY DEF Spendable, Within
  <2>2. \A c \in Counter \ {c0} : issued'[c] = issued[c]
    BY <1>2, <1>4 DEF Inv, TypeOK
  <2> QED
    BY <1>6, <1>8, <2>1, <2>2 DEF Inv, SpendableIsExclusive
<1>10. FrontierUnissued'
  BY <1>2, <1>3, <1>4, <1>6 DEF Inv, TypeOK, FrontierUnissued, Counter
<1>11. HoldingsBelowCursor' /\ FetchedFollowsRange'
  <2>1. \A q \in Process : range'[q].end = range[q].end
    BY <1>5
  <2>2. HoldingsBelowCursor'
    BY <1>6, <2>1 DEF Inv, HoldingsBelowCursor
  <2>3. FetchedFollowsRange'
    BY <1>6, <2>1 DEF Inv, FetchedFollowsRange
  <2> QED
    BY <2>2, <2>3
<1> QED
  BY <1>2, <1>3, <1>4, <1>9, <1>10, <1>11 DEF Holdings

\* Every step keeps the holdings exclusive, bounded by the cursor and ordered.
LEMMA StepHoldings ==
  ASSUME Inv, [Next]_vars
  PROVE  Holdings'
<1>1. ASSUME NEW p \in Process, Fail(p) \/ Shutdown(p) PROVE Holdings'
  <2>1. /\ UNCHANGED <<next_counter, range, issued>>
        /\ stage' = [stage EXCEPT ![p] = "draining"]
        /\ fetched' = [fetched EXCEPT ![p] = Empty]
    BY <1>1 DEF Fail, Shutdown, MoveTo, fence
  <2>2. fetched'[p] = Empty /\ \A q \in Process \ {p} : fetched'[q] = fetched[q]
    BY <2>1 DEF Inv, TypeOK
  <2>3. Within(Empty) = {}
    BY DEF Within, Empty, Counter
  <2>4. \A q \in Process : Spendable(q)' \subseteq Spendable(q)
    BY <2>1, <2>2, <2>3 DEF Spendable, Within
  <2>5. HoldingsBelowCursor'
    BY <2>1, <2>2 DEF Inv, TypeOK, HoldingsBelowCursor, Empty
  <2>6. FetchedFollowsRange'
    BY <2>1, <2>2 DEF Inv, TypeOK, FetchedFollowsRange
  <2> QED
    BY <2>1, <2>4, <2>5, <2>6, ShrinkingIsSafe DEF Holdings
<1>2. ASSUME NEW p \in Process,
             \/ ClaimNamespace(p) \/ BindListener(p) \/ Heartbeat(p) \/ KeepRange(p)
             \/ Release(p) \/ Crash(p)
      PROVE  Holdings'
  <2>1. UNCHANGED <<next_counter, range, fetched, issued>>
    BY <1>2 DEF ClaimNamespace, TakeOver, Reclaim, BindListener, Heartbeat, Renewal, KeepRange,
                Release, Crash, fence
  <2>2. \A q \in Process : fetched[q] # Empty => stage'[q] \in {"extending", "dead"}
    BY <1>2 DEF Inv, TypeOK, FetchedFollowsRange, MoveTo, ClaimNamespace, BindListener,
                Heartbeat, KeepRange, Release, Crash
  <2> QED
    BY <2>1, <2>2, HoldingsUntouched DEF Holdings
<1>3. CASE Tick \/ UNCHANGED vars
  <2>1. UNCHANGED <<next_counter, range, fetched, issued, stage>>
    BY <1>3 DEF Tick, vars, local, fence
  <2>2. \A q \in Process : fetched[q] # Empty => stage'[q] \in {"extending", "dead"}
    BY <2>1 DEF Inv, FetchedFollowsRange
  <2> QED
    BY <2>1, <2>2, HoldingsUntouched DEF Holdings
<1> QED
  BY <1>1, <1>2, <1>3, BuildAllocatorStep, ReplenishStep, ReserveReplyLostStep, ExtendStep,
     AllocateStep DEF Next

\* Inv is an invariant of the namespace.
THEOREM InvIsInvariant == Spec => []Inv
<1>1. Inv /\ [Next]_vars => Inv'
  <2> SUFFICES ASSUME Inv, [Next]_vars PROVE Inv'
    OBVIOUS
  <2>1. TypeOK'
    BY StepTypeOK DEF Inv
  <2> QED
    BY <2>1, StepHoldings, StepClaims DEF Inv, Holdings
<1> QED
  BY InitInv, <1>1, PTL DEF Spec

\* The fence row and every process keep their types; the cursor never passes
\* the profile's capacity.
THEOREM TypeCorrect == Spec => []TypeOK
<1>1. Inv => TypeOK
  BY DEF Inv
<1> QED
  BY InvIsInvariant, <1>1, PTL

\* Whatever crashes, lapses and takeovers happen, a counter one process can
\* still issue was never issued and is held by no other process.
THEOREM HoldingsAreExclusive == Spec => []SpendableIsExclusive
<1>1. Inv => SpendableIsExclusive
  BY DEF Inv
<1> QED
  BY InvIsInvariant, <1>1, PTL

\* Only allocate touches the history of issued counters.
LEMMA OnlyAllocateIssues ==
  ASSUME [Next]_vars, ~ \E p \in Process : Allocate(p)
  PROVE  UNCHANGED issued
BY DEF Next, vars, Tick, ClaimNamespace, BuildAllocator, BindListener, Heartbeat, KeepRange,
       Replenish, Extend, Fail, ReserveReplyLost, Shutdown, Release, Crash

\* No counter is ever shown to two miners: the leased, crash-prone namespace
\* implements the dispenser that hands every counter out at most once.
THEOREM NamespaceImplementsDispenser == Spec => ImplementsDispenser
<1>1. Init => Dispenser!Init
  BY DEF Init, Dispenser!Init
<1>2. Inv /\ [Next]_vars => [Dispenser!Next]_issued
  <2> SUFFICES ASSUME Inv, [Next]_vars PROVE [Dispenser!Next]_issued
    OBVIOUS
  <2>1. CASE \E p \in Process : Allocate(p)
    BY <2>1, AllocateStep DEF Dispenser!Next, Dispenser!Issue
  <2>2. CASE ~ \E p \in Process : Allocate(p)
    BY <2>2, OnlyAllocateIssues
  <2> QED
    BY <2>1, <2>2
<1> QED
  BY InvIsInvariant, <1>1, <1>2, PTL DEF Spec, ImplementsDispenser, Dispenser!Spec

\* A claim token that stopped naming the row never names it again: every
\* takeover gives the row a generation no token has yet.
THEOREM StaleClaimsStayStale == Spec => StaleClaimNeverRevives
<1>1. Inv /\ [Next]_vars => [\A p \in Process : ClaimStaysStale(p)]_vars
  <2> SUFFICES ASSUME Inv, [Next]_vars,
                      NEW p \in Process, ~Owns(p), claim'[p] = claim[p]
               PROVE  ~Owns(p)'
    BY DEF ClaimStaysStale
  <2> USE DEF Owns, fence
  <2>1. ASSUME NEW q \in Process, ClaimNamespace(q) PROVE ~Owns(p)'
    <3>1. CASE TakeOver(q)
      BY <3>1 DEF TakeOver, Inv, TypeOK, ClaimsAreIssued
    <3>2. CASE Reclaim(q)
      BY <3>2 DEF Reclaim
    <3> QED
      BY <2>1, <3>1, <3>2 DEF ClaimNamespace
  <2>2. ASSUME NEW q \in Process, NEW r \in Interval, Reserved(q, r) PROVE ~Owns(p)'
    BY <2>2 DEF Reserved
  <2>3. ASSUME NEW q \in Process, BuildAllocator(q) \/ Replenish(q) \/ ReserveReplyLost(q)
        PROVE  ~Owns(p)'
    BY <2>2, <2>3 DEF BuildAllocator, Replenish, ReserveReplyLost
  <2>4. ASSUME NEW q \in Process, BindListener(q) \/ Heartbeat(q) PROVE ~Owns(p)'
    BY <2>4 DEF BindListener, Heartbeat, Renewal
  <2>5. ASSUME NEW q \in Process, Release(q) PROVE ~Owns(p)'
    BY <2>5 DEF Release
  <2>6. ASSUME NEW q \in Process,
               KeepRange(q) \/ Extend(q) \/ Allocate(q) \/ Fail(q) \/ Shutdown(q) \/ Crash(q)
        PROVE  ~Owns(p)'
    BY <2>6 DEF KeepRange, Extend, Allocate, Fail, Shutdown, Crash
  <2>7. CASE Tick \/ UNCHANGED vars
    BY <2>7 DEF Tick, vars, Inv, TypeOK
  <2> QED
    BY <2>1, <2>3, <2>4, <2>5, <2>6, <2>7 DEF Next
<1> QED
  BY InvIsInvariant, <1>1, PTL DEF Spec, StaleClaimNeverRevives

-----------------------------------------------------------------------------
(* With fresh holder UUIDs *)

FreshHolders == \A p, q \in Process : HolderOf[p] = HolderOf[q] => p = q

Contiguity == ExtensionIsContiguous /\ OwnerHoldsTheEnd

\* A reservation by p ends at the cursor, and with fresh UUIDs nobody else
\* owns the row, so nobody else is affected.
LEMMA ReservationTakesTheEnd ==
  ASSUME FreshHolders, TypeOK, NEW p \in Process, NEW r \in Interval, Reserved(p, r),
         UNCHANGED claim
  PROVE  \A q \in Process \ {p} : ~Owns(q)'
BY ReservationMovesCursor DEF FreshHolders, Owns

\* Steps of p that keep everyone's ranges, the cursor and the fence's owner.
LEMMA ContiguityStep ==
  ASSUME FreshHolders, Inv, Contiguity, [Next]_vars
  PROVE  Contiguity'
<1> USE DEF MoveTo, fence, local
<1>t. TypeOK
  BY DEF Inv
<1>1. ASSUME NEW p \in Process, ClaimNamespace(p) PROVE Contiguity'
  <2>1. stage'[p] = "claimed" /\ \A q \in Process \ {p} : stage'[q] = stage[q]
    BY <1>1, <1>t DEF ClaimNamespace, TypeOK
  <2>2. \A q \in Process \ {p} : Owns(q)' => Owns(q)
    BY <1>1, <1>t DEF ClaimNamespace, TakeOver, Reclaim, Owns, FreshHolders, TypeOK
  <2>3. UNCHANGED <<next_counter, range, fetched>>
    BY <1>1 DEF ClaimNamespace, TakeOver, Reclaim
  <2> QED
    BY <2>1, <2>2, <2>3 DEF Contiguity, ExtensionIsContiguous, OwnerHoldsTheEnd
<1>2. ASSUME NEW p \in Process, BuildAllocator(p) PROVE Contiguity'
  <2>1. PICK r \in Interval : Reserved(p, r) /\ range' = [range EXCEPT ![p] = r]
    BY <1>2 DEF BuildAllocator
  <2>2. r.end = next_counter' /\ \A q \in Process \ {p} : ~Owns(q)'
    BY <1>2, <1>t, <2>1, ReservationMovesCursor, ReservationTakesTheEnd DEF BuildAllocator
  <2>3. stage'[p] = "reserved" /\ \A q \in Process \ {p} : stage'[q] = stage[q]
    BY <1>2, <1>t DEF BuildAllocator, TypeOK
  <2>4. range'[p] = r /\ \A q \in Process \ {p} : range'[q] = range[q]
    BY <2>1, <1>t DEF TypeOK
  <2>5. UNCHANGED fetched
    BY <1>2 DEF BuildAllocator
  <2> QED
    BY <2>2, <2>3, <2>4, <2>5 DEF Contiguity, ExtensionIsContiguous, OwnerHoldsTheEnd
<1>3. ASSUME NEW p \in Process, Replenish(p) PROVE Contiguity'
  <2>1. PICK r \in Interval : Reserved(p, r) /\ fetched' = [fetched EXCEPT ![p] = r]
    BY <1>3 DEF Replenish
  <2>2. r.start = next_counter /\ r.end = next_counter' /\ \A q \in Process \ {p} : ~Owns(q)'
    BY <1>3, <1>t, <2>1, ReservationMovesCursor, ReservationTakesTheEnd DEF Replenish
  <2>3. range[p].end = next_counter
    BY <1>3, <1>t, <2>1, ReservationMovesCursor DEF Replenish, Contiguity, OwnerHoldsTheEnd
  <2>4. stage'[p] = "extending" /\ \A q \in Process \ {p} : stage'[q] = stage[q]
    BY <1>3, <1>t DEF Replenish, TypeOK
  <2>5. fetched'[p] = r /\ \A q \in Process \ {p} : fetched'[q] = fetched[q]
    BY <2>1, <1>t DEF TypeOK
  <2>6. UNCHANGED range
    BY <1>3 DEF Replenish
  <2> QED
    BY <2>2, <2>3, <2>4, <2>5, <2>6 DEF Contiguity, ExtensionIsContiguous, OwnerHoldsTheEnd
<1>4. ASSUME NEW p \in Process, ReserveReplyLost(p) PROVE Contiguity'
  <2>1. PICK r \in Interval : Reserved(p, r)
    BY <1>4 DEF ReserveReplyLost
  <2>2. \A q \in Process \ {p} : ~Owns(q)'
    BY <1>4, <1>t, <2>1, ReservationTakesTheEnd DEF ReserveReplyLost
  <2>3. stage'[p] = "draining" /\ \A q \in Process \ {p} : stage'[q] = stage[q]
    BY <1>4, <1>t DEF ReserveReplyLost, TypeOK
  <2>4. UNCHANGED <<range, fetched>>
    BY <1>4 DEF ReserveReplyLost
  <2> QED
    BY <2>2, <2>3, <2>4 DEF Contiguity, ExtensionIsContiguous, OwnerHoldsTheEnd
<1>5. ASSUME NEW p \in Process, Extend(p) PROVE Contiguity'
  <2>1. range[p] \in Interval /\ range' = [range EXCEPT ![p].end = fetched[p].end]
    BY <1>5, <1>t DEF Extend, TypeOK
  <2>2. range'[p].end = fetched[p].end /\ \A q \in Process \ {p} : range'[q] = range[q]
    BY <2>1, <1>t DEF TypeOK, Interval
  <2>3. \A q \in Process \ {p} : fetched'[q] = fetched[q]
    BY <1>5, <1>t DEF Extend, TypeOK
  <2>4. /\ stage[p] = "extending"
        /\ stage'[p] = "live" /\ \A q \in Process \ {p} : stage'[q] = stage[q]
    BY <1>5, <1>t DEF Extend, TypeOK
  <2>5. next_counter' = next_counter /\ \A q \in Process : Owns(q)' => Owns(q)
    BY <1>5 DEF Extend, Owns
  <2>6. ExtensionIsContiguous'
    BY <2>2, <2>3, <2>4 DEF Contiguity, ExtensionIsContiguous
  <2>7. Owns(p)' => range'[p].end = next_counter'
    BY <2>2, <2>4, <2>5 DEF Contiguity, OwnerHoldsTheEnd
  <2>8. ASSUME NEW q \in Process \ {p}, Owns(q)'
        PROVE  /\ stage'[q] \in {"reserved", "live", "renewed"} =>
                    range'[q].end = next_counter'
               /\ stage'[q] = "extending" => fetched'[q].end = next_counter'
    BY <2>2, <2>3, <2>4, <2>5, <2>8 DEF Contiguity, OwnerHoldsTheEnd
  <2>9. OwnerHoldsTheEnd'
    BY <2>4, <2>7, <2>8 DEF OwnerHoldsTheEnd
  <2> QED
    BY <2>6, <2>9 DEF Contiguity
<1>6. ASSUME NEW p \in Process, Allocate(p) PROVE Contiguity'
  <2>1. \A q \in Process : range'[q].end = range[q].end
    BY <1>6, <1>t DEF Allocate, TypeOK, Interval
  <2>2. /\ UNCHANGED <<next_counter, stage, fetched>>
        /\ \A q \in Process : Owns(q)' => Owns(q)
    BY <1>6 DEF Allocate, Owns
  <2> QED
    BY <2>1, <2>2 DEF Contiguity, ExtensionIsContiguous, OwnerHoldsTheEnd
<1>7. ASSUME NEW p \in Process, Fail(p) \/ Shutdown(p) PROVE Contiguity'
  <2>1. stage'[p] = "draining" /\ \A q \in Process \ {p} : stage'[q] = stage[q]
    BY <1>7, <1>t DEF Fail, Shutdown, TypeOK
  <2>2. \A q \in Process \ {p} : fetched'[q] = fetched[q]
    BY <1>7, <1>t DEF Fail, Shutdown, TypeOK
  <2>3. UNCHANGED <<next_counter, range>> /\ \A q \in Process : Owns(q)' => Owns(q)
    BY <1>7 DEF Fail, Shutdown, Owns
  <2> QED
    BY <2>1, <2>2, <2>3 DEF Contiguity, ExtensionIsContiguous, OwnerHoldsTheEnd
<1>8. ASSUME NEW p \in Process,
             BindListener(p) \/ Heartbeat(p) \/ KeepRange(p) \/ Release(p) \/ Crash(p)
      PROVE  Contiguity'
  <2>1. UNCHANGED <<next_counter, range, fetched>>
    BY <1>8 DEF BindListener, Heartbeat, Renewal, KeepRange, Release, Crash
  <2>2. \A q \in Process : Owns(q)' => Owns(q)
    <3>1. claim' = claim /\ lease_generation' = lease_generation
      BY <1>8 DEF BindListener, Heartbeat, Renewal, KeepRange, Release, Crash
    <3>2. CASE BindListener(p) \/ Heartbeat(p)
      <4>1. Renewal(p) /\ holder_id' = holder_id
        BY <3>2 DEF BindListener, Heartbeat, Renewal
      <4> QED
        BY <3>1, <4>1 DEF Renewal, Owns
    <3>3. CASE KeepRange(p) \/ Crash(p)
      BY <3>3 DEF KeepRange, Crash, Owns
    <3>4. CASE Release(p)
      BY <3>1, <3>4 DEF Release, Owns
    <3> QED
      BY <1>8, <3>2, <3>3, <3>4
  <2>3. \A q \in Process :
          \/ stage'[q] = stage[q]
          \/ stage'[q] = "dead"
          \/ {stage[q], stage'[q]} \subseteq {"reserved", "live", "renewed"}
    BY <1>8, <1>t DEF BindListener, Heartbeat, KeepRange, Release, Crash, TypeOK
  <2> QED
    BY <2>1, <2>2, <2>3 DEF Contiguity, ExtensionIsContiguous, OwnerHoldsTheEnd
<1>9. CASE Tick \/ UNCHANGED vars
  <2>1. UNCHANGED <<next_counter, range, fetched, stage>>
    BY <1>9 DEF Tick, vars
  <2>2. \A q \in Process : Owns(q)' => Owns(q)
    BY <1>9, <1>t DEF Tick, vars, Owns, TypeOK
  <2> QED
    BY <2>1, <2>2 DEF Contiguity, ExtensionIsContiguous, OwnerHoldsTheEnd
<1> QED
  BY <1>1, <1>2, <1>3, <1>4, <1>5, <1>6, <1>7, <1>8, <1>9 DEF Next

\* When every lifetime draws its own holder UUID, the range a process commits
\* always continues the one it spends: extend_reserved never answers
\* NonContiguousReservation and maintenance never fails for that reason.
THEOREM ExtensionsAreContiguous ==
  ASSUME FreshHolders
  PROVE  Spec => []ExtensionIsContiguous
<1>1. Init => Contiguity
  BY NonceAssumption DEF Init, Contiguity, ExtensionIsContiguous, OwnerHoldsTheEnd
<1>2. Inv /\ Contiguity /\ [Next]_vars => Contiguity'
  BY ContiguityStep
<1>3. Contiguity => ExtensionIsContiguous
  BY DEF Contiguity
<1> QED
  BY InvIsInvariant, <1>1, <1>2, <1>3, PTL DEF Spec
=============================================================================
