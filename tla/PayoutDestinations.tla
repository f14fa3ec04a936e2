-------------------------- MODULE PayoutDestinations --------------------------
(***************************************************************************)
(* Where, and in which order, one chain's payouts go: the portal revises   *)
(* an account's destination (wcash-pool-store portal.rs configure_payout   *)
(* and the SQL function it calls), a revision is pending until its hold    *)
(* has elapsed, and the payout worker promotes what is due and drafts a    *)
(* batch from the eligible accounts (postgres.rs create_payout_batch).     *)
(* What becomes of a batch in the ledger is module PayoutLedger, and how   *)
(* the worker drives it module PayoutRounds; one is in flight at a time.   *)
(*                                                                         *)
(* Amounts are left out: an account is owed its threshold or it is not.    *)
(* The transaction that drafts is cut where another session could run.     *)
(***************************************************************************)
EXTENDS Naturals, Sequences, FiniteSets, FiniteSetsExt, SequencesExt

CONSTANTS
    Accounts,      \* 1 .. n, in the order of their identifiers
    MaxRevisions,  \* bound on the revisions of a destination
    MaxOutputs,    \* chain_policies.maximum_payout_outputs
    Transparent,   \* wcash_transparent_payouts_enabled
    Preferences    \* receiver kind, and whether to pay automatically, as miners ask

DestinationsAssumption ==
    /\ Accounts = 1 .. Cardinality(Accounts)
    /\ MaxOutputs \in Nat \ {0}
    /\ Transparent \in BOOLEAN
    /\ Preferences \subseteq [kind : {"ironwood", "transparent"}, automatic : BOOLEAN]

VARIABLES
    rows,    \* payout_destinations of each account, in the order of revisions
    due,     \* accounts whose pending revision has its hold behind it
    owed,    \* accounts owed at least their threshold
    paid,    \* accounts by the time of their last batch, the oldest first, as sets
    lock,    \* the drafting transaction holds the chain's advisory lock
    draft,   \* its step, the accounts it promotes and the outputs it has selected
    batch,   \* the batch in flight: <<>> or its one record
    before   \* paid as it was before that batch

vars == <<rows, due, owed, paid, lock, draft, batch, before>>

NoDraft == [step |-> "none", due |-> {}, items |-> {}]

Init ==
    /\ rows = [a \in Accounts |-> <<>>]
    /\ due = {} /\ owed = {} /\ paid = <<>> /\ before = <<>>
    /\ lock = FALSE /\ draft = NoDraft /\ batch = <<>>

InState(a, state) == {i \in DOMAIN rows[a] : rows[a][i].state = state}

\* payout_setting_in_transaction: one active row at most, and one pending.
Readable(r) ==
    \A state \in {"active", "pending"} :
        Cardinality({i \in DOMAIN r : r[i].state = state}) <= 1

(***************************************************************************)
(* The portal revises a destination                                        *)
(***************************************************************************)
Disabled(r, state) ==
    [i \in DOMAIN r |-> IF r[i].state = state THEN [r[i] EXCEPT !.state = "disabled"] ELSE r[i]]

\* configure_payout_destination_v2, under the advisory lock.
Configure(a, asked) ==
    LET revised == Append(Disabled(rows[a], "pending"),
                          [state |-> "pending", kind |-> asked.kind, automatic |-> asked.automatic])
    IN  /\ ~lock
        /\ Len(rows[a]) < MaxRevisions
        /\ Readable(revised)
        /\ rows' = [rows EXCEPT ![a] = revised]
        /\ due' = due \ {a}
        /\ UNCHANGED <<owed, paid, lock, draft, batch, before>>

HoldElapses(a) ==
    /\ InState(a, "pending") # {} /\ a \notin due
    /\ due' = due \cup {a}
    /\ UNCHANGED <<rows, owed, paid, lock, draft, batch, before>>

\* The account earns its threshold.
Earn(a) ==
    /\ a \notin owed
    /\ owed' = owed \cup {a}
    /\ UNCHANGED <<rows, due, paid, lock, draft, batch, before>>

(***************************************************************************)
(* create_payout_batch                                                     *)
(***************************************************************************)
\* activate_due_payout_destinations_v1: the old row gives way to the due one.
\* Only the transaction sees it before it commits.
View(a) ==
    IF a \notin draft.due \/ InState(a, "pending") = {} THEN rows[a]
    ELSE [i \in DOMAIN rows[a] |->
             IF rows[a][i].state = "pending" THEN [rows[a][i] EXCEPT !.state = "active"]
             ELSE Disabled(rows[a], "active")[i]]

\* The transaction goes on without the chain's advisory lock.
NotLocked == ~lock /\ lock' = FALSE

\* lock_chain_advisory, held until the transaction ends.
Locked == ~lock /\ lock' = TRUE

Begin ==
    /\ draft = NoDraft /\ batch = <<>>
    /\ Locked
    /\ draft' = [NoDraft EXCEPT !.step = "select", !.due = due]
    /\ UNCHANGED <<rows, due, owed, paid, batch, before>>

Ended == draft' = NoDraft /\ lock' = FALSE

\* A check after the promotions fails (frozen chain, stale reconciliation, held
\* payouts, no room for a fee) and all is rolled back.
RollBack ==
    /\ draft # NoDraft
    /\ Ended
    /\ UNCHANGED <<rows, due, owed, paid, batch, before>>

ActiveIn(a) == {i \in DOMAIN View(a) : View(a)[i].state = "active"}
PendingIn(a) == {i \in DOMAIN View(a) : View(a)[i].state = "pending"}
Active(a) == View(a)[Max(ActiveIn(a))]

Eligible ==
    {a \in owed :
        /\ ActiveIn(a) # {} /\ PendingIn(a) = {}
        /\ Active(a).automatic
        /\ Transparent \/ Active(a).kind = "ironwood"}

LastPaid(a) == Max({0} \cup {i \in DOMAIN paid : a \in paid[i]})

\* The order of the accounts is that of their identifiers.
SoonerByName(a, b) == a < b

\* ORDER BY last_payout_at ASC NULLS FIRST, account_id
Sooner(a, b) == LastPaid(a) < LastPaid(b) \/ (LastPaid(a) = LastPaid(b) /\ a < b)

\* The kind of the first, then the first accounts of that kind.
Selected ==
    LET first == CHOOSE a \in Eligible : \A b \in Eligible \ {a} : Sooner(a, b)
        same == {a \in Eligible : Active(a).kind = Active(first).kind}
    IN  {a \in same : Cardinality({b \in same : Sooner(b, a)}) < MaxOutputs}

Promote ==
    /\ rows' = [a \in Accounts |-> View(a)]
    /\ due' = due \ draft.due

\* No account is eligible, or the draw defers the batch: the promotions stay.
Defer ==
    /\ draft.step = "select"
    /\ Promote /\ Ended
    /\ UNCHANGED <<owed, paid, batch, before>>

Select ==
    /\ draft.step = "select" /\ Eligible # {}
    /\ draft' = [draft EXCEPT !.step = "insert",
                   !.items = {[account |-> a, revision |-> Max(ActiveIn(a))] : a \in Selected}]
    /\ UNCHANGED <<rows, due, owed, paid, lock, batch, before>>

Payees(items) == {item.account : item \in items}

\* The batch and its reservation are committed.  A cap can leave an account
\* owed its threshold still.
Insert ==
    /\ draft.step = "insert"
    /\ Promote /\ Ended
    /\ batch' = <<[step |-> "draft", items |-> draft.items]>>
    /\ \E rest \in SUBSET Payees(draft.items) : owed' = (owed \ Payees(draft.items)) \cup rest
    /\ before' = paid
    /\ paid' = Append(SelectSeq([i \in DOMAIN paid |-> paid[i] \ Payees(draft.items)],
                                LAMBDA s : s # {}),
                      Payees(draft.items))

(***************************************************************************)
(* The batch is signed and broadcast to the rows it names, and settled     *)
(***************************************************************************)
Send ==
    /\ batch # <<>> /\ batch[1].step = "draft"
    /\ batch' = <<[batch[1] EXCEPT !.step = "sent"]>>
    /\ UNCHANGED <<rows, due, owed, paid, lock, draft, before>>

Settled == batch' = <<>> /\ before' = <<>>

Confirm ==
    /\ batch # <<>> /\ batch[1].step = "sent"
    /\ Settled
    /\ UNCHANGED <<rows, due, owed, paid, lock, draft>>

\* An expired batch does not count as a payout of its accounts.
Expire ==
    /\ batch # <<>> /\ batch[1].step = "sent"
    /\ Settled
    /\ owed' = owed \cup Payees(batch[1].items)
    /\ paid' = before
    /\ UNCHANGED <<rows, due, lock, draft>>

Next ==
    \/ \E a \in Accounts :
          \/ \E asked \in Preferences : Configure(a, asked)
          \/ HoldElapses(a) \/ Earn(a)
    \/ Begin \/ RollBack \/ Defer \/ Select \/ Insert
    \/ Send \/ Confirm \/ Expire

Spec == Init /\ [][Next]_vars

(***************************************************************************)
(* Properties                                                              *)
(***************************************************************************)

\* A batch is drafted only to revisions that are, at the moment it commits, the
\* newest their accounts have asked for, whatever the portal does meanwhile
\* (postgres.rs create_payout_batch, configure_payout_destination_v2).
DraftsUseTheNewest ==
    [][batch = <<>> /\ batch' # <<>> =>
          \A item \in batch'[1].items :
              /\ item.revision = Len(rows'[item.account])
              /\ rows'[item.account][item.revision].state = "active"]_vars

\* An account that stays eligible is paid, although each batch takes few
\* accounts of one receiver kind (the order of create_payout_batch's query).
Waiting(a) == a \in Eligible
Served(a) == batch # <<>> /\ a \in Payees(batch[1].items)
NobodyIsPassedOver ==
    \A a \in Accounts : []<>(~Waiting(a) \/ Served(a))

\* "no payout may use either the old or pending destination until the new
\* revision becomes active" (docs/miner-portal.md): nothing is sent to an
\* account while a revision of its destination is pending.
HoldStopsPayouts ==
    [][Send => \A a \in Payees(batch[1].items) : InState(a, "pending") = {}]_vars
===============================================================================
