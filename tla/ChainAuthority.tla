--------------------------- MODULE ChainAuthority ---------------------------
(***************************************************************************)
(* What the payout worker believes of the chain.  Every question it asks   *)
(* the node is a sequence of separate calls, and the node goes on between  *)
(* them: blocks arrive, branches replace each other, transactions enter    *)
(* and leave the memory pool.  Three operations are modelled call by call: *)
(* the confirmation snapshot, the expiry snapshot and the exact broadcast, *)
(* all bracketed by two reads of the best tip, and the observation of the  *)
(* collector wallet, bracketed by two reads of its status.                 *)
(*                                                                         *)
(* The node is external.  It follows the branch with most work, so a tip   *)
(* it has left never becomes its tip again, and it gives up at most        *)
(* ReorgLimit blocks at a time.                                            *)
(***************************************************************************)
EXTENDS Naturals, Sequences, FiniteSets, SequencesExt

CONSTANTS
    Tx,             \* signed payout transactions
    Expiry,         \* the last height each of them may be mined at
    ReorgLimit,     \* Wolf's maximum reorganisation depth
    FinalityDepth,  \* WCASH_EXPIRY_FINALITY_DEPTH
    MaxHeight,      \* bound: height of the chain
    MaxBlocks,      \* bound: blocks ever mined
    MaxOps          \* bound: operations begun

AuthorityAssumption ==
    /\ Expiry \in [Tx -> Nat \ {0}]
    /\ ReorgLimit \in Nat \ {0}
    /\ FinalityDepth = ReorgLimit + 1
    /\ {MaxHeight, MaxBlocks, MaxOps} \subseteq Nat

VARIABLES
    chain,    \* the node's best chain: blocks above the genesis block
    mined,    \* number of blocks ever mined, which identifies the next one
    pool,     \* memory pool
    orphans,  \* transactions kept from blocks of other branches
    sent,     \* transactions handed to the network
    synced,   \* the tip that the collector wallet has scanned up to
    row,      \* what the database says of each payout
    prior,    \* the confirmation the database has recorded
    op,       \* the operation in progress
    ops       \* operations begun

node == <<chain, mined, pool, orphans, sent, synced>>
books == <<row, prior>>
vars == <<node, books, op, ops>>

None == [id |-> 0, height |-> 0, depth |-> 0]

Genesis == [id |-> 0, height |-> 0]

Tip(c) == IF c = <<>> THEN Genesis
          ELSE [id |-> Last(c).id, height |-> Len(c)]

TxsOf(c) == UNION {c[h].txs : h \in 1..Len(c)}

Idle == [kind |-> "idle", pc |-> "idle", rest |-> <<>>, at |-> <<>>,
         info |-> <<>>, tip |-> Genesis, opened |-> FALSE, found |-> None,
         answers |-> <<>>, marks |-> <<>>, live |-> FALSE, balance |-> 0]

Init ==
    /\ chain = <<>> /\ mined = 0
    /\ pool = {} /\ orphans = {} /\ sent = {}
    /\ synced = Tip(<<>>)
    /\ row = [t \in Tx |-> "broadcasting"] /\ prior = [t \in Tx |-> None]
    /\ op = Idle /\ ops = 0
-----------------------------------------------------------------------------
(* External: the node and the wallet *)

Minable(t, h) == t \in sent /\ h <= Expiry[t]

Unexpired(set, c) == {t \in set : Len(c) + 1 <= Expiry[t]}

\* History: whether the transaction being submitted was live since the
\* submission began.
Noted(o, c, p) ==
    [o EXCEPT !.live = @ \/ (o.kind = "submit" /\ o.rest # <<>>
                               /\ Head(o.rest) \in p \union TxsOf(c))]

Extend ==
    /\ Len(chain) < MaxHeight /\ mined < MaxBlocks
    /\ \E txs \in SUBSET {t \in Tx \ TxsOf(chain) : Minable(t, Len(chain) + 1)} :
        chain' = Append(chain, [id |-> mined + 1, txs |-> txs])
    /\ mined' = mined + 1
    /\ pool' = Unexpired(pool \ TxsOf(chain'), chain')
    /\ op' = Noted(op, chain', pool')
    /\ UNCHANGED <<orphans, sent, synced, books, ops>>

\* The last k blocks give way to k + 1 others.
Reorganise ==
    \E k \in 1..ReorgLimit :
        /\ k <= Len(chain) /\ Len(chain) < MaxHeight /\ mined + k < MaxBlocks
        /\ LET kept == SubSeq(chain, 1, Len(chain) - k)
               free == {t \in Tx \ TxsOf(kept) : t \in sent}
               lost == TxsOf(chain) \ TxsOf(kept)
           IN  \E place \in [free -> 0..(k + 1)] :
                /\ \A t \in free : place[t] > 0 => Minable(t, Len(kept) + place[t])
                /\ chain' = kept \o [i \in 1..(k + 1) |->
                       [id |-> mined + i,
                        txs |-> {t \in free : place[t] = i}]]
                /\ orphans' = orphans \union lost
                /\ \E back \in {{}, lost} :
                    pool' = Unexpired((pool \union back) \ TxsOf(chain'), chain')
        /\ mined' = mined + k + 1
        /\ op' = Noted(op, chain', pool')
        /\ UNCHANGED <<sent, synced, books, ops>>

\* A peer announces the transaction again, the pool drops it, or the node
\* forgets the branch it was mined in.
Gossip ==
    /\ \/ \E t \in Unexpired(sent \ TxsOf(chain), chain) \ pool :
            pool' = pool \union {t} /\ UNCHANGED orphans
       \/ \E t \in pool : pool' = pool \ {t} /\ UNCHANGED orphans
       \/ \E t \in orphans : orphans' = orphans \ {t} /\ UNCHANGED pool
    /\ op' = Noted(op, chain, pool')
    /\ UNCHANGED <<chain, mined, sent, synced, books, ops>>

WalletScans ==
    /\ synced # Tip(chain)
    /\ synced' = Tip(chain)
    /\ UNCHANGED <<chain, mined, pool, orphans, sent, books, op, ops>>
-----------------------------------------------------------------------------
(* Calls *)

\* getrawtransaction with verbosity 1, as parse_verbose_transaction reads it.
Found(t) ==
    {[id |-> chain[h].id, height |-> h, depth |-> Len(chain) - h + 1] :
        h \in {i \in 1..Len(chain) : t \in chain[i].txs}}

Lookup(t) ==
    IF Found(t) # {} THEN {"mined"}
    ELSE IF t \in pool \union orphans
    THEN {k \in {"pooled", "orphan"} : t \in IF k = "pooled" THEN pool ELSE orphans}
    ELSE {"missing"}

\* The operation fails and changes nothing: a call of LoopbackJsonRpc that
\* times out, breaks off or is answered wrongly (map_observation_rpc_failure),
\* or two answers that do not agree.
Abandon == op' = Idle /\ UNCHANGED <<node, books, ops>>

RpcFails == op.pc # "idle" /\ Abandon

Proceed(o) == op' = o /\ UNCHANGED <<node, books, ops>>

At(step) == op.pc = step

Begin(kind, list) ==
    /\ op = Idle /\ ops < MaxOps
    /\ ops' = ops + 1
    /\ op' = Noted([Idle EXCEPT !.kind = kind, !.rest = list,
                                !.pc = IF kind = "wallet" THEN "status"
                                       ELSE "info"],
                   chain, pool)
    /\ UNCHANGED <<node, books>>

RowsIn(set) == {t \in Tx : row[t] \in set}

BeginSnapshot ==
    LET watched == RowsIn({"broadcast", "confirmed"})
    IN  watched # {} /\ Begin("snapshot", SetToSeq(watched))

BeginExpiry ==
    LET watched == RowsIn({"broadcasting", "broadcast", "held"})
    IN  watched # {} /\ Begin("expiry", SetToSeq(watched))

BeginSubmit ==
    \E t \in RowsIn({"broadcasting", "broadcast"}) : Begin("submit", <<t>>)

BeginWallet == Begin("wallet", <<>>)

\* verified_tip: getblockchaininfo, then getbestblockheightandhash.
ReadInfo ==
    /\ At("info")
    /\ Proceed([op EXCEPT !.info = Tip(chain), !.pc = "direct"])

\* A plausible bug: the closing tip is read and not compared.
ReadDirectTrusting ==
    /\ At("direct")
    /\ IF Tip(chain) # op.info THEN Abandon
       ELSE IF ~op.opened
       THEN Proceed([op EXCEPT !.tip = op.info, !.at = chain,
                              !.opened = TRUE, !.pc = "watch"])
       ELSE Proceed([op EXCEPT !.pc = "closed"])

ReadDirect ==
    /\ At("direct")
    /\ IF Tip(chain) # op.info \/ (op.opened /\ op.info # op.tip) THEN Abandon
       ELSE IF ~op.opened
       THEN Proceed([op EXCEPT !.tip = op.info, !.at = chain,
                              !.opened = TRUE, !.pc = "watch"])
       ELSE Proceed([op EXCEPT !.pc = "closed"])

Current == Head(op.rest)

Answered(o, kind, value) ==
    [o EXCEPT !.answers = Append(@, [tx |-> Current, kind |-> kind,
                                     where |-> value]),
              !.rest = Tail(@), !.found = None, !.pc = "watch"]

CloseWatches ==
    /\ At("watch") /\ op.rest = <<>>
    /\ Proceed([op EXCEPT !.pc = "info"])
-----------------------------------------------------------------------------
(* NodePayoutAuthority::snapshot *)

\* observe_watch
ObserveWatch ==
    /\ At("watch") /\ op.kind = "snapshot" /\ op.rest # <<>>
    /\ \E k \in Lookup(Current) :
        LET known == prior[Current]
        IN  CASE k = "mined" ->
                   \E f \in Found(Current) :
                       Proceed([op EXCEPT !.found = f, !.pc = "canonical"])
              [] k # "mined" /\ known = None ->
                   Proceed(Answered(op, "pending", None))
              [] k = "orphan" /\ known # None ->
                   Proceed(Answered(op, "reorged", known))
              [] k \in {"missing", "pooled"} /\ known # None ->
                   IF op.tip.height < known.height
                   THEN Proceed(Answered(op, "reorged", known))
                   ELSE Proceed([op EXCEPT !.pc = "recheck"])

HashAt(h) == IF h <= Len(chain) THEN chain[h].id ELSE 0

\* getblockhash of the block the transaction was reported in.
ReadCanonical ==
    /\ At("canonical")
    /\ LET f == op.found
           known == IF op.kind = "snapshot" THEN prior[Current] ELSE None
       IN  IF \/ HashAt(f.height) # f.id
              \/ op.tip.height + 1 # f.height + f.depth
           THEN Abandon
           ELSE IF known # None /\ (known.id # f.id \/ known.height # f.height)
           THEN Proceed(Answered(op, "reorged", known))
           ELSE IF f.depth < known.depth THEN Abandon
           ELSE Proceed(Answered(op, "mined", f))

\* getblockhash at the height of the recorded confirmation.
ReadRecheck ==
    /\ At("recheck")
    /\ LET known == prior[Current]
       IN  IF HashAt(known.height) \in {0, known.id} THEN Abandon
           ELSE Proceed(Answered(op, "reorged", known))
-----------------------------------------------------------------------------
(* NodePayoutAuthority::expiry_snapshot *)

Past(t) == op.tip.height > Expiry[t]

Final(t) ==
    row[t] = "held" /\ op.tip.height >= Expiry[t] + FinalityDepth

ObserveExpiry ==
    /\ At("watch") /\ op.kind = "expiry" /\ op.rest # <<>>
    /\ IF row[Current] # "held" /\ ~Past(Current)
       THEN Proceed(Answered(op, "unexpired", None))
       ELSE \E k \in Lookup(Current) :
            CASE k = "mined" ->
                   \E f \in Found(Current) :
                       Proceed([op EXCEPT !.found = f, !.pc = "canonical"])
              [] k = "orphan" /\ Past(Current) ->
                   Proceed([op EXCEPT !.pc = "unpooled"])
              [] k = "missing" /\ Past(Current) ->
                   IF Final(Current) THEN Proceed([op EXCEPT !.pc = "absent"])
                   ELSE Proceed(Answered(op, "missing", None))
              [] OTHER -> Proceed(Answered(op, "unresolved", None))

\* getrawmempool, for a transaction kept from another branch.
ReadUnpooled ==
    /\ At("unpooled") /\ op.kind = "expiry"
    /\ Proceed(Answered(op, IF Current \in pool THEN "unresolved"
                            ELSE "missing", None))

\* getrawmempool, then getblockhash at the expiry height.
ReadAbsent ==
    /\ At("absent")
    /\ IF Current \in pool THEN Abandon
       ELSE Proceed([op EXCEPT !.pc = "mark"])

ReadMark ==
    /\ At("mark")
    /\ IF HashAt(Expiry[Current]) = 0 THEN Abandon
       ELSE Proceed([Answered(op, "final", None) EXCEPT !.marks =
                Append(@, <<Expiry[Current], HashAt(Expiry[Current])>>)])

\* After the closing tip, the block at each expiry height is read again.
ReadMarkAgain ==
    /\ At("closed") /\ op.marks # <<>>
    /\ LET mark == Head(op.marks)
       IN  IF HashAt(mark[1]) # mark[2] THEN Abandon
           ELSE Proceed([op EXCEPT !.marks = Tail(@)])
-----------------------------------------------------------------------------
(* RpcExactBroadcaster::submit *)

Submitting == op.kind = "submit"

\* exact_raw_transaction, before and after the transaction is sent.
LookupExact ==
    /\ Submitting /\ (At("watch") \/ At("again")) /\ op.rest # <<>>
    /\ \E k \in Lookup(Current) :
        CASE k \in {"mined", "pooled"} -> Proceed([op EXCEPT !.pc = "info"])
          [] k = "orphan" -> Proceed([op EXCEPT !.pc =
                IF At("watch") THEN "unpooled" ELSE "unpooled again"])
          [] k = "missing" -> Proceed([op EXCEPT !.pc =
                IF At("watch") THEN "send" ELSE "unknown"])

\* getrawmempool, for bytes that the node keeps from another branch.
LookupPooled ==
    /\ Submitting /\ (At("unpooled") \/ At("unpooled again"))
    /\ Proceed([op EXCEPT !.pc =
           IF Current \in pool THEN "info"
           ELSE IF At("unpooled") THEN "send" ELSE "unknown"])

Accepts(t) == t \in Unexpired(Tx \ (TxsOf(chain) \union pool), chain)

\* sendrawtransaction: accepted, refused, or the answer is lost.
SendRaw ==
    /\ At("send")
    /\ \E taken \in {FALSE, Accepts(Current)} :
        /\ pool' = IF taken THEN pool \union {Current} ELSE pool
        /\ sent' = IF taken THEN sent \union {Current} ELSE sent
        /\ op' = Noted([op EXCEPT !.pc = "again"], chain, pool')
    /\ UNCHANGED <<chain, mined, orphans, synced, books, ops>>

\* The transaction is not live: Rejected when the node refused it, otherwise
\* Ambiguous; the batch stays as it is.
NotLive == At("unknown") /\ Abandon
-----------------------------------------------------------------------------
(* ZalletObservationSource::observe_inner *)

\* getwalletstatus, then the account, the collector address and the balance,
\* which are those of the tip that the wallet has scanned.
WalletStatus ==
    /\ At("status")
    /\ Proceed([op EXCEPT !.info = <<Tip(chain), synced>>, !.pc = "balance"])

WalletBalance ==
    /\ At("balance")
    /\ Proceed([op EXCEPT !.balance = synced.id, !.pc = "status again"])

\* The second status must be the first, and ready_tip wants a wallet that is
\* fully scanned.
WalletStatusAgain ==
    /\ At("status again")
    /\ IF \/ <<Tip(chain), synced>> # op.info
          \/ op.info[1] # op.info[2]
       THEN Abandon
       ELSE Proceed([op EXCEPT !.tip = op.info[1], !.pc = "closed"])
-----------------------------------------------------------------------------
(* The database takes the answers *)

AnswersOf(t) == {i \in 1..Len(op.answers) : op.answers[i].tx = t}

Answer(t) == op.answers[CHOOSE i \in AnswersOf(t) : TRUE]

\* A plausible bug: a payout that is not found past its expiry is released
\* without being held first.
NewRowAtOnce(t) ==
    IF Submitting /\ Current = t THEN "broadcast"
    ELSE IF AnswersOf(t) = {} THEN row[t]
    ELSE LET k == Answer(t).kind
         IN  CASE op.kind = "snapshot" /\ k = "mined" -> "confirmed"
               [] k = "reorged" -> "reorged"
               [] op.kind = "expiry" /\ k = "mined" /\ row[t] = "held" -> "confirmed"
               [] k \in {"missing", "final"} -> "expired"
               [] OTHER -> row[t]

\* What the answers make of a payout.
NewRow(t) ==
    IF Submitting /\ Current = t THEN "broadcast"
    ELSE IF AnswersOf(t) = {} THEN row[t]
    ELSE LET k == Answer(t).kind
         IN  CASE op.kind = "snapshot" /\ k = "mined" -> "confirmed"
               [] k = "reorged" -> "reorged"
               [] op.kind = "expiry" /\ k = "mined" /\ row[t] = "held" -> "confirmed"
               [] k = "missing" -> "held"
               [] k = "final" -> "expired"
               [] OTHER -> row[t]

Return ==
    /\ At("closed") /\ op.marks = <<>>
    /\ row' = [t \in Tx |-> NewRow(t)]
    /\ prior' = [t \in Tx |-> IF row[t] # "confirmed" /\ NewRow(t) = "confirmed"
                              THEN Answer(t).where ELSE prior[t]]
    /\ op' = Idle
    /\ UNCHANGED <<node, ops>>

Next ==
    \/ Extend \/ Reorganise \/ Gossip \/ WalletScans
    \/ RpcFails
    \/ BeginSnapshot \/ BeginExpiry \/ BeginSubmit \/ BeginWallet
    \/ ReadInfo \/ ReadDirect \/ CloseWatches
    \/ ObserveWatch \/ ReadCanonical \/ ReadRecheck
    \/ ObserveExpiry \/ ReadUnpooled \/ ReadAbsent \/ ReadMark \/ ReadMarkAgain
    \/ LookupExact \/ LookupPooled \/ SendRaw \/ NotLive
    \/ WalletStatus \/ WalletBalance \/ WalletStatusAgain
    \/ Return

Spec == Init /\ [][Next]_vars
-----------------------------------------------------------------------------
\* The answers of a snapshot are all true of the one chain whose tip it
\* names, however the node moved while they were collected.
AnswersAreOfOneTip ==
    At("closed") /\ op.kind \in {"snapshot", "expiry"} =>
        \A i \in 1..Len(op.answers) :
            LET a == op.answers[i]
                w == a.where
            IN  CASE a.kind = "mined" ->
                       /\ w.height <= Len(op.at)
                       /\ op.at[w.height].id = w.id
                       /\ a.tx \in op.at[w.height].txs
                       /\ w.depth = Len(op.at) - w.height + 1
                  [] a.kind = "reorged" ->
                       w.height > Len(op.at) \/ op.at[w.height].id # w.id
                  [] a.kind \in {"pending", "missing", "final"} ->
                       a.tx \notin TxsOf(op.at)
                  [] OTHER -> TRUE

\* A payout that is released because it expired is never mined afterwards,
\* whichever branch the node turns to.
ReleasedIsNeverMined ==
    \A t \in Tx : row[t] = "expired" => t \notin TxsOf(chain)

\* A broadcast is reported only if the transaction was in the memory pool or
\* in the best chain while it was being submitted.
ReportedWasLive == At("closed") /\ Submitting => op.live

\* The balance that is reconciled at a tip is the balance at that tip.
BalanceIsOfTheTip ==
    At("closed") /\ op.kind = "wallet" => op.balance = op.tip.id

\* Whatever the authority reports, of a watched payout, of a balance or of a
\* broadcast, is true of one moment of the node, though it took several calls
\* between which the node moved.
ReportsAreOfOneTip == AnswersAreOfOneTip /\ BalanceIsOfTheTip /\ ReportedWasLive
=============================================================================
