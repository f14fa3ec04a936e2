------------------------------ MODULE WecSigner ------------------------------
(***************************************************************************)
(* The Wcash payout signer: prepare, execute, recover and inspect, each    *)
(* under the journal's lock, around a native wallet that runs as a child   *)
(* process.  A call names a batch and the facts it commits to; several     *)
(* processes may call, die in the middle, and leave a wallet child behind  *)
(* that finishes on its own.                                               *)
(*                                                                         *)
(* The wallet and the node are external: the wallet binds a batch to one   *)
(* set of facts and one transaction for good.                              *)
(***************************************************************************)
EXTENDS SignerJournal

CONSTANTS
    Facts,      \* what a request commits to: outputs, amounts, account, fee
    MaxCalls    \* bound: calls begun

SignerAssumption == Facts \subseteq Nat \ {0} /\ 1 \in Facts

VARIABLES
    call,      \* each process's operation and facts
    calls,
    wallet,    \* the wallet's binding of the batch: facts and transaction
    children,  \* facts that abandoned wallet processes are still signing
    net,       \* the node has seen the transaction
    results    \* facts and transactions returned to callers

outside == <<wallet, children, net>>
vars == <<journal, pc, rec, failures, call, calls, outside, results>>

Unbound == [facts |-> 0, tx |-> 0]

Legacy == [stage |-> "signed", facts |-> 1, tx |-> 1]

\* A fresh batch, or one that an earlier release signed.
Init ==
    /\ \/ JournalInit(NoRecord) /\ wallet = Unbound
       \/ JournalInit(Legacy) /\ wallet = [facts |-> 1, tx |-> 1]
    /\ call = [p \in Process |-> <<"none", 0>>] /\ calls = 0
    /\ children = {} /\ net = FALSE /\ results = {}

Op(p) == call[p][1]
FactsOf(p) == call[p][2]

Begin(p) ==
    /\ pc[p] = "idle" /\ calls < MaxCalls
    /\ \E op \in {"prepare", "execute", "recover", "inspect"}, f \in Facts :
        call' = [call EXCEPT ![p] = <<op, f>>]
    /\ calls' = calls + 1
    /\ Goto(p, "lock")
    /\ UNCHANGED <<journal, rec, failures, outside, results>>

TakeLock(p) == Lock(p) /\ UNCHANGED <<call, calls, outside, results>>

\* The call ends without a transaction.
Refuse(p) == Leave(p) /\ UNCHANGED <<call, calls, outside, results>>

Answer(p, tx) ==
    /\ Leave(p)
    /\ results' = results \union {<<FactsOf(p), tx>>}
    /\ UNCHANGED <<call, calls, outside>>

Continue(p, step, record) ==
    /\ Goto(p, step) /\ Hold(p, record)
    /\ UNCHANGED <<journal, failures, call, calls, outside, results>>

\* What a record must look like to be read or written: every stage but the
\* first carries the transaction.
Sound(record) == record.tx # 0 <=> record.stage # "reserved"

\* A plausible bug: the record is used without comparing its facts.
LoadTrusting(p) ==
    /\ pc[p] = "load"
    /\ \/ disk = NoRecord /\ Op(p) \in {"recover", "inspect"} /\ Refuse(p)
       \/ disk = NoRecord /\ Op(p) \in {"prepare", "execute"} /\ Refuse(p)
       \/ /\ disk = NoRecord /\ Op(p) \in {"prepare", "execute"}
          /\ Continue(p, "store", [stage |-> "reserved", facts |-> FactsOf(p),
                                   tx |-> 0])
       \/ disk # NoRecord /\ Continue(p, "stage", disk)

\* load_or_reserve.  A batch that is already bound to other facts is refused;
\* a new one may be, when it pays a transparent receiver and those are off.
Load(p) ==
    /\ pc[p] = "load"
    /\ \/ disk = NoRecord /\ Op(p) \in {"recover", "inspect"} /\ Refuse(p)
       \/ disk = NoRecord /\ Op(p) \in {"prepare", "execute"} /\ Refuse(p)
       \/ /\ disk = NoRecord /\ Op(p) \in {"prepare", "execute"}
          /\ Continue(p, "store", [stage |-> "reserved", facts |-> FactsOf(p),
                                   tx |-> 0])
       \/ disk # NoRecord /\ disk.facts # FactsOf(p) /\ Refuse(p)
       \/ /\ disk # NoRecord /\ Sound(disk) /\ disk.facts = FactsOf(p)
          /\ Continue(p, "stage", disk)

Written(p) ==
    Rename(p) /\ Sound(rec[p]) /\ UNCHANGED <<call, calls, outside, results>>

Synced(p) == Sync(p) /\ UNCHANGED <<call, calls, outside, results>>

\* The directory, the file or the lock cannot be used: JournalUnavailable or
\* JournalCorrupt, and the call ends.
JournalFails(p) ==
    /\ CannotLock(p) \/ CannotRead(p) \/ CannotStore(p)
    /\ UNCHANGED <<call, calls, outside, results>>

\* prepare_locked and execute_locked, by the stage of the record.
AtStage(p) ==
    /\ pc[p] = "stage" /\ Op(p) \in {"prepare", "execute"}
    /\ LET r == rec[p]
       IN  CASE r.stage = "reserved" -> Continue(p, "recover", r)
             [] r.stage = "rejected" -> Refuse(p)
             [] r.stage = "prepared" /\ Op(p) = "execute" ->
                  Continue(p, "store", [r EXCEPT !.stage = "unresolved"])
             [] r.stage \in {"signed", "unresolved"} /\ Op(p) = "execute" ->
                  Continue(p, "node", r)
             [] OTHER -> Answer(p, r.tx)

\* recover_prepared and inspect_prepared, which create nothing.
RecoverOrInspect(p) ==
    /\ pc[p] = "stage" /\ Op(p) \in {"recover", "inspect"}
    /\ LET r == rec[p]
       IN  CASE r.stage = "reserved" /\ Op(p) = "recover" ->
                  Continue(p, "recover", r)
             [] r.stage = "reserved" /\ Op(p) = "inspect" -> Refuse(p)
             [] r.stage # "reserved" /\ Op(p) = "inspect" ->
                  Continue(p, "recover", r)
             [] r.stage = "rejected" /\ Op(p) = "recover" -> Refuse(p)
             [] OTHER -> Answer(p, r.tx)

\* identity, then recover_exact, which answers only for these facts: another
\* binding is a conflict, and without one only prepare and execute go on.
AskWallet(p) ==
    /\ pc[p] = "recover"
    /\ \/ Refuse(p)  \* unavailable, timed out, or the wrong account
       \/ /\ wallet = Unbound /\ Op(p) \in {"prepare", "execute"}
          /\ Continue(p, "sign", rec[p])
       \/ /\ wallet # Unbound /\ wallet.facts = FactsOf(p)
          /\ Continue(p, "adopt", rec[p])

Bound(f) == IF wallet = Unbound THEN [facts |-> f, tx |-> 1] ELSE wallet

\* sign_exact: answered, refused, or cut off by its deadline, when the wallet
\* may or may not have signed.
SignExact(p) ==
    /\ pc[p] = "sign"
    /\ \E made \in BOOLEAN, answered \in BOOLEAN :
        /\ wallet' = IF made THEN Bound(FactsOf(p)) ELSE wallet
        /\ IF made /\ answered /\ wallet'.facts = FactsOf(p)
           THEN /\ Goto(p, "adopt")
                /\ UNCHANGED <<journal, rec, failures>>
           ELSE Leave(p)
    /\ UNCHANGED <<call, calls, children, net, results>>

\* verify_signed and inspect_persisted: the wallet's record of the
\* transaction must be the one that is adopted.
Adopt(p) ==
    /\ pc[p] = "adopt"
    /\ \/ Refuse(p)
       \/ Op(p) = "inspect" /\ rec[p].tx = wallet.tx /\ Answer(p, wallet.tx)
       \/ /\ Op(p) # "inspect"
          /\ Continue(p, "store", [rec[p] EXCEPT !.stage = "prepared",
                                                 !.tx = wallet.tx])

\* broadcast_exact of the journaled bytes, and the outcome to be recorded.
Broadcast(p) ==
    /\ pc[p] = "node"
    /\ \E outcome \in {"completed", "rejected", "unresolved"} :
        /\ net' \in CASE outcome = "completed" -> {TRUE}
                      [] outcome = "rejected" -> {net}
                      [] OTHER -> {net, TRUE}
        /\ Hold(p, [rec[p] EXCEPT !.stage = outcome])
    /\ Goto(p, "store and leave")
    /\ UNCHANGED <<journal, failures, call, calls, wallet, children, results>>

BroadcastDone(p) ==
    /\ pc[p] = "done"
    /\ IF rec[p].stage = "completed" THEN Answer(p, rec[p].tx) ELSE Refuse(p)

\* The process dies; a wallet child that is signing goes on without it.
Crash(p) ==
    /\ Die(p)
    /\ children' \in {children} \union
           (IF pc[p] = "sign" THEN {children \union {FactsOf(p)}} ELSE {})
    /\ UNCHANGED <<call, calls, wallet, net, results>>

ChildSigns ==
    /\ \E f \in children :
        wallet' = Bound(f) /\ children' = children \ {f}
    /\ UNCHANGED <<journal, pc, rec, failures, call, calls, net, results>>

PowerLoss ==
    /\ PowerFails
    /\ children' = {}
    /\ UNCHANGED <<call, calls, wallet, net, results>>

Next ==
    \/ \E p \in Process :
        \/ Begin(p) \/ TakeLock(p) \/ Load(p) \/ Written(p) \/ Synced(p)
        \/ AtStage(p) \/ RecoverOrInspect(p) \/ AskWallet(p) \/ SignExact(p)
        \/ Adopt(p)
        \/ Broadcast(p) \/ BroadcastDone(p) \/ JournalFails(p) \/ Crash(p)
    \/ ChildSigns \/ PowerLoss

Spec == Init /\ [][Next]_vars
-----------------------------------------------------------------------------
\* Callers agree: every transaction that the signer ever returned for the
\* batch is the same one, and was returned only to those who asked for the
\* facts it pays.
CallersAgree ==
    \A r \in results : r = <<wallet.facts, wallet.tx>>
=============================================================================
