------------------------------ MODULE ZecSigner ------------------------------
(***************************************************************************)
(* The Zcash payout signer.  A partially created transaction is created,   *)
(* proved, signed and extracted by the wallet's RPC interface and checked  *)
(* by the signer between the steps; each stage is journaled before the     *)
(* next one starts, so that a retry resumes from the stored bytes.         *)
(*                                                                         *)
(* The wallet is external and its answers are not believed: it may answer  *)
(* any call with any transaction, or not at all.  A transaction is known   *)
(* by its effects: the facts it pays and which of several equal ones it    *)
(* is.                                                                     *)
(***************************************************************************)
EXTENDS SignerJournal

CONSTANTS
    Facts,      \* what a request commits to
    Copies,     \* tells transactions that pay the same facts apart
    MaxCalls    \* bound: calls begun

VARIABLES
    call,      \* each process's operation and facts
    calls,
    signed,    \* what the wallet was told to sign: requested facts, effects
    net,       \* effects that the node may have seen
    forgot     \* a power failure undid an approval that torn stores left

vars == <<journal, pc, rec, failures, call, calls, signed, net,
          forgot>>

Effects == Facts \X Copies

Legacy(e) == [stage |-> "extracted", facts |-> e[1], effects |-> e,
              approved |-> e]

\* A fresh batch, or one that an earlier release signed and may have sent.
Init ==
    /\ \/ JournalInit(NoRecord) /\ signed = {} /\ net = {}
       \/ \E e \in Effects :
            /\ JournalInit(Legacy(e)) /\ signed = {<<e[1], e>>}
            /\ net \in SUBSET {e}
    /\ call = [p \in Process |-> <<"none", 0>>] /\ calls = 0
    /\ forgot = FALSE

Op(p) == call[p][1]
FactsOf(p) == call[p][2]

Begin(p) ==
    /\ pc[p] = "idle" /\ calls < MaxCalls
    /\ \E op \in {"prepare", "execute", "recover"}, f \in Facts :
        call' = [call EXCEPT ![p] = <<op, f>>]
    /\ calls' = calls + 1
    /\ Goto(p, "lock")
    /\ UNCHANGED <<journal, rec, failures, signed, net, forgot>>

TakeLock(p) == Lock(p) /\ UNCHANGED <<call, calls, signed, net, forgot>>

\* The call ends, with the journaled transaction or with an error.
Return(p) == Leave(p) /\ UNCHANGED <<call, calls, signed, net, forgot>>

Continue(p, step, record) ==
    /\ Goto(p, step) /\ Hold(p, record)
    /\ UNCHANGED <<journal, failures, call, calls, signed, net, forgot>>

Approved(record) == record.stage \notin {"none", "reserved", "created"}

\* JournalRecord::validate and StoredStage::validate, for what is read and
\* what is written: every stage but the first holds a transaction, and every
\* one past Created the digest of the effects that were approved.
Sound(record) ==
    /\ record.effects # <<>> <=> record.stage # "reserved"
    /\ record.approved # <<>> <=> Approved(record)

\* A plausible bug: a request begins again when an earlier release left the
\* batch extracted.
LoadCurrent(p) ==
    /\ pc[p] = "load" /\ disk # NoRecord
    /\ \/ disk.facts # FactsOf(p) /\ Return(p)
       \/ /\ disk.facts = FactsOf(p)
          /\ IF disk.stage = "extracted" /\ Op(p) = "prepare"
             THEN Continue(p, "store", [disk EXCEPT !.stage = "reserved",
                                            !.effects = <<>>, !.approved = <<>>])
             ELSE Continue(p, "stage", disk)

\* The start of execute_locked and of recover_prepared.
Load(p) ==
    /\ pc[p] = "load"
    /\ \/ /\ disk = NoRecord /\ Op(p) # "recover"
          /\ Continue(p, "store", [stage |-> "reserved", facts |-> FactsOf(p),
                                   effects |-> <<>>, approved |-> <<>>])
       \/ disk = NoRecord /\ Op(p) = "recover" /\ Return(p)
       \/ disk # NoRecord /\ disk.facts # FactsOf(p) /\ Return(p)
       \/ /\ disk # NoRecord /\ Sound(disk) /\ disk.facts = FactsOf(p)
          /\ Continue(p, "stage", disk)

Written(p) ==
    /\ Rename(p) /\ Sound(rec[p])
    /\ UNCHANGED <<call, calls, signed, net, forgot>>

Synced(p) == Sync(p) /\ UNCHANGED <<call, calls, signed, net, forgot>>

\* JournalUnavailable or JournalCorrupt: the call ends.
JournalFails(p) ==
    /\ CannotLock(p) \/ CannotRead(p) \/ CannotStore(p)
    /\ UNCHANGED <<call, calls, signed, net, forgot>>

\* recover_prepared: whatever the stage, nothing is created.
Recover(p) == pc[p] = "stage" /\ Op(p) = "recover" /\ Return(p)

At(p, stage) == pc[p] = "stage" /\ Op(p) # "recover" /\ rec[p].stage = stage

Persist(p, record) == Continue(p, "store", record)

\* create_pczt; only the form of the answer is checked.
Create(p) ==
    /\ At(p, "reserved")
    /\ \E e \in Effects :
        Persist(p, [rec[p] EXCEPT !.stage = "created", !.effects = e])

\* wallet_call: the wallet fails or refuses, or an answer of any of these
\* stages does not pass its checks; the journal keeps the stage.
WalletFails(p) ==
    /\ \E stage \in {"reserved", "created_verified", "proved", "signed",
                     "signed_verified"} : At(p, stage)
    /\ Return(p)

\* verify_created_pczt: the parsed transaction pays exactly the requested
\* outputs, spends only the account's notes and stays below the fee limit.
Pays(f, e) == e[1] = f

\* wallet_context: the wallet must be synchronised, own the configured
\* account and its address, and hold nothing in the legacy pool.
Unfit(p) == At(p, "created") /\ Return(p)

\* The stage Created: the transaction is approved and its digest recorded.
Approve(p) ==
    /\ At(p, "created")
    /\ IF Pays(FactsOf(p), rec[p].effects)
       THEN Persist(p, [rec[p] EXCEPT !.stage = "created_verified",
                                      !.approved = rec[p].effects])
       ELSE Return(p)

\* verify_consensus_effects against the recorded digest.
SameEffects(record, e) == e = record.approved

Prove(p) ==
    /\ At(p, "created_verified")
    /\ SameEffects(rec[p], rec[p].effects)
    /\ \E e \in Effects :
        /\ SameEffects(rec[p], e)
        /\ Persist(p, [rec[p] EXCEPT !.stage = "proved", !.effects = e])

\* inspect_pczt and verify_inspection: the wallet's own report must show the
\* outputs, the fee and the proofs.
Inspect(p, to) ==
    /\ SameEffects(rec[p], rec[p].effects)
    /\ Persist(p, [rec[p] EXCEPT !.stage = to])

InspectProved(p) == At(p, "proved") /\ Inspect(p, "proved_verified")

InspectSigned(p) == At(p, "signed") /\ Inspect(p, "signed_verified")

\* sign_pczt.  The wallet may sign and its answer be lost or unusable.
Sign(p) ==
    /\ At(p, "proved_verified")
    /\ SameEffects(rec[p], rec[p].effects)
    /\ signed' \in {signed, signed \union {<<FactsOf(p), rec[p].effects>>}}
    /\ \/ /\ signed' = signed \union {<<FactsOf(p), rec[p].effects>>}
          /\ \E e \in Effects :
                /\ SameEffects(rec[p], e)
                /\ Goto(p, "store")
                /\ Hold(p, [rec[p] EXCEPT !.stage = "signed",
                                          !.effects = e])
          /\ UNCHANGED <<journal, failures>>
       \/ Leave(p)
    /\ UNCHANGED <<call, calls, net, forgot>>

\* validate_against: the extracted bytes have the identifier of the signed
\* transaction.
SameTransaction(record, e) == e = record.effects

Extract(p) ==
    /\ At(p, "signed_verified")
    /\ SameEffects(rec[p], rec[p].effects)
    /\ \E e \in Effects :
        /\ SameTransaction(rec[p], e)
        /\ Persist(p, [rec[p] EXCEPT !.stage = "prepared", !.effects = e])

\* The stages that hold complete bytes: prepare returns them, execute passes
\* the ambiguity boundary before the node is called.
Finish(p) ==
    /\ \E stage \in {"prepared", "extracted", "unresolved", "rejected",
                    "completed"} : At(p, stage)
    /\ CASE rec[p].stage = "prepared" /\ Op(p) = "execute" ->
              Persist(p, [rec[p] EXCEPT !.stage = "unresolved"])
         [] rec[p].stage \in {"extracted", "unresolved"} /\ Op(p) = "execute" ->
              Continue(p, "node", rec[p])
         [] OTHER -> Return(p)

\* What the node may answer: the transaction's identifier, that it has the
\* transaction, that it refuses it, or nothing usable (a timeout, a broken
\* connection, a longer or another answer, any other error code).
Answers == {"accepted", "already known", "refused", "unusable"}

\* RpcTransportError's classes: only an explicit validation error is a refusal.
BroadcastOutcome(answer) ==
    CASE answer \in {"accepted", "already known"} -> "completed"
      [] answer = "refused" -> "rejected"
      [] OTHER -> "unresolved"

Broadcast(p) ==
    /\ pc[p] = "node"
    /\ \E answer \in Answers :
        /\ net' \in CASE answer = "accepted" -> {net \union {rec[p].effects}}
                      [] answer = "unusable" -> {net, net \union {rec[p].effects}}
                      [] OTHER -> {net}
        /\ answer = "already known" => rec[p].effects \in net
        /\ Hold(p, [rec[p] EXCEPT !.stage = BroadcastOutcome(answer)])
    /\ Goto(p, "store and leave")
    /\ UNCHANGED <<journal, failures, call, calls, signed, forgot>>

BroadcastDone(p) == pc[p] = "done" /\ Return(p)

Crash(p) == Die(p) /\ UNCHANGED <<call, calls, signed, net, forgot>>

PowerLoss ==
    /\ PowerFails
    /\ forgot' = (forgot \/ (torn /\ Approved(disk) /\ ~Approved(disk')))
    /\ UNCHANGED <<call, calls, signed, net>>

Next ==
    \/ \E p \in Process :
        \/ Begin(p) \/ TakeLock(p) \/ Load(p) \/ Written(p) \/ Synced(p)
        \/ Recover(p) \/ WalletFails(p) \/ Create(p) \/ Unfit(p) \/ Approve(p) \/ Prove(p)
        \/ InspectProved(p) \/ Sign(p) \/ InspectSigned(p) \/ Extract(p)
        \/ Finish(p) \/ Broadcast(p) \/ BroadcastDone(p)
        \/ JournalFails(p) \/ Crash(p)
    \/ PowerLoss

Spec == Init /\ [][Next]_vars
-----------------------------------------------------------------------------
\* "It never creates or signs a replacement": over all calls, failures and
\* retries the wallet signs at most one transaction for the batch, and the
\* node sees no other.  The exception is a power failure that takes back an
\* approval whose stores were all interrupted before they were durable.
NoReplacement ==
    /\ forgot \/ Cardinality(signed) <= 1
    /\ net \subseteq {s[2] : s \in signed}
=============================================================================
