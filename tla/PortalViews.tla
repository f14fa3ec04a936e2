------------------------------ MODULE PortalViews ------------------------------
(***************************************************************************)
(* What the portal shows (wcash-pool-store portal.rs): the pages of a      *)
(* miner's rewards, blocks and payouts, which a reader walks from the      *)
(* newest back while rows are added, and the public figures that one task  *)
(* computes again and again from the tables and its own last chart.        *)
(*                                                                         *)
(* The cursor of a row is its place in the one order in which rows of its  *)
(* kind are added.  Contents other than kind and owner are left out.       *)
(***************************************************************************)
EXTENDS Naturals, Sequences, FiniteSets, FiniteSetsExt, SequencesExt

CONSTANTS
    MaxRows,  \* bound on the rows added
    Limit,    \* rows on a page
    Bucket,   \* POOL_HASHRATE_HISTORY_BUCKET_SECONDS
    Day,      \* how far back the chart reaches
    MaxTime   \* bound on the database's clock

ViewsAssumption == Limit \in Nat \ {0} /\ Bucket \in Nat \ {0} /\ Day >= Bucket

VARIABLES
    rows,      \* kind and owner of each row, in the order of cursors
    walk,      \* the reader: kind, cursor, what it has seen and what there was
    now,       \* database clock
    refresh,   \* the refreshing task: step and the time it has read
    overview,  \* updated_at of the published overview
    activity   \* the published chart, and its updated_at

vars == <<rows, walk, now, refresh, overview, activity>>

Kinds == {"reward", "block", "payout"}
NoWalk == [step |-> "none", kind |-> "none", before |-> 0, seen |-> <<>>, there |-> {}]

Init ==
    /\ rows = <<>> /\ walk = NoWalk
    /\ now = 0
    /\ refresh = [step |-> "idle", at |-> 0]
    /\ overview = 0 /\ activity = [at |-> 0, chart |-> <<>>]

(***************************************************************************)
(* Histories                                                               *)
(***************************************************************************)
AddRow(kind, mine) ==
    /\ Len(rows) < MaxRows
    /\ rows' = Append(rows, [kind |-> kind, mine |-> mine])
    /\ UNCHANGED <<walk, now, refresh, overview, activity>>

MyRows(kind) == {i \in DOMAIN rows : rows[i].kind = kind /\ rows[i].mine}

\* WHERE ... the row is the account's: its allocations, the blocks of its
\* shares, the batches that have an item of its.
RewardRows == MyRows("reward")
BlockRows == MyRows("block")
PayoutRows == MyRows("payout")
History == [reward |-> RewardRows, block |-> BlockRows, payout |-> PayoutRows]

\* ... AND cursor < before ORDER BY cursor DESC LIMIT limit + 1; 0 is no cursor.
Fetched(kind, before) ==
    LET older == {i \in History[kind] : before = 0 \/ i < before}
    IN  {i \in older : Cardinality({j \in older : j > i}) <= Limit}

OnPage(fetched) == {i \in fetched : Cardinality({j \in fetched : j > i}) < Limit}

\* The cursor of the next page is the row that did not fit.
NextBeforeDropped(fetched) == IF Cardinality(fetched) > Limit THEN Min(fetched) ELSE 0

\* paginate: the cursor of the next page is the last row that did.
NextBefore(fetched) == IF Cardinality(fetched) > Limit THEN Min(OnPage(fetched)) ELSE 0

Newest(S) == Reverse(SetToSortSeq(S, <))

Open(kind) ==
    /\ walk.step # "walking"
    /\ walk' = [step |-> "walking", kind |-> kind, before |-> 0, seen |-> <<>>, there |-> History[kind]]
    /\ UNCHANGED <<rows, now, refresh, overview, activity>>

ReadPage ==
    /\ walk.step = "walking"
    /\ LET fetched == Fetched(walk.kind, walk.before)
       IN  walk' = [walk EXCEPT !.seen = @ \o Newest(OnPage(fetched)),
                                !.before = NextBefore(fetched),
                                !.step = IF NextBefore(fetched) = 0 THEN "done" ELSE "walking"]
    /\ UNCHANGED <<rows, now, refresh, overview, activity>>

(***************************************************************************)
(* refresh: reads one after another, then writes one after another         *)
(***************************************************************************)
Pass ==
    /\ now < MaxTime
    /\ now' = now + 1
    /\ UNCHANGED <<rows, walk, refresh, overview, activity>>

ReadClock ==
    /\ refresh.step = "idle"
    /\ refresh' = [step |-> "read", at |-> now]
    /\ UNCHANGED <<rows, walk, now, overview, activity>>

\* A query fails, or finds the tables inconsistent: nothing is published.
ReadFails ==
    /\ refresh.step = "read"
    /\ refresh' = [step |-> "idle", at |-> 0]
    /\ UNCHANGED <<rows, walk, now, overview, activity>>

PublishOverview ==
    /\ refresh.step = "read"
    /\ overview' = refresh.at
    /\ refresh' = [refresh EXCEPT !.step = "publish"]
    /\ UNCHANGED <<rows, walk, now, activity>>

SampledAt(t) == t - (t % Bucket)

\* The samples of a day; the bucket's sample replaces itself.
Chart(chart, t) ==
    LET kept == SelectSeq(chart, LAMBDA at : at + Day >= t)
    IN  IF kept # <<>> /\ Last(kept) = SampledAt(t) THEN kept ELSE Append(kept, SampledAt(t))

PublishActivity ==
    /\ refresh.step = "publish"
    /\ activity' = [at |-> refresh.at, chart |-> Chart(activity.chart, refresh.at)]
    /\ refresh' = [step |-> "idle", at |-> 0]
    /\ UNCHANGED <<rows, walk, now, overview>>

Next ==
    \/ \E kind \in Kinds, mine \in BOOLEAN : AddRow(kind, mine)
    \/ \E kind \in Kinds : Open(kind)
    \/ ReadPage
    \/ Pass \/ ReadClock \/ ReadFails \/ PublishOverview \/ PublishActivity

Spec == Init /\ [][Next]_vars

(***************************************************************************)
(* Properties                                                              *)
(***************************************************************************)

\* A walk to the last page has shown every row that there was when it began,
\* each once and the newest first, although rows were added between its pages
\* and other accounts' rows lie between its cursors (paginate and the queries
\* of reward_history, found_blocks and payout_history).
PagesMissNothing ==
    walk.step = "done" =>
        /\ walk.there \subseteq ToSet(walk.seen)
        /\ \A i \in 1 .. Len(walk.seen) - 1 : walk.seen[i] > walk.seen[i + 1]

\* The chart that a refresh carries over from the last is in order, has one
\* sample for each bucket, and does not grow beyond a day's, however often the
\* refresh runs and fails (refresh, the chart it retains).
ChartIsADay ==
    /\ \A i \in 1 .. Len(activity.chart) - 1 : activity.chart[i] < activity.chart[i + 1]
    /\ Len(activity.chart) <= (Day \div Bucket) + 1
    /\ activity.at <= overview /\ overview <= now

\* What a miner is shown is complete and bounded: history pages leave no row
\* out, and the chart holds a day.
ViewsAreComplete == PagesMissNothing /\ ChartIsADay
================================================================================
