--------------------------- MODULE MCPayoutSafety ---------------------------
(***************************************************************************)
(* What stands between a payout batch and paying it twice, on small        *)
(* instances: the worker's lease, the chain authority behind an expiry and *)
(* the two signers with their journals.  They have no state in common, so  *)
(* a behaviour is one of one part, and the other parts stay at their       *)
(* initial state.                                                          *)
(***************************************************************************)
EXTENDS WorkerLease, TLC

CONSTANTS w1, w2, p1, p2, t1

VARIABLES
    part,
    chain, mined, pool, orphans, sent, scanned, row, prior, op, ops,
    disk, synced, holder, pc, rec, crashes, torn, wecCall, calls, wallet,
    children, net, results,
    zecDisk, zecSynced, zecHolder, zecPc, zecRec, zecCrashes, zecTorn, zecCall,
    zecCalls, zecNet, signed, forgot

\* One payout transaction that expires early, and a chain that outgrows the
\* finality depth.
Authority == INSTANCE ChainAuthority WITH
    Tx <- {t1}, Expiry <- [t \in {t1} |-> 1], ReorgLimit <- 2,
    FinalityDepth <- 3, MaxHeight <- 5, MaxBlocks <- 6, MaxOps <- 3,
    synced <- scanned

\* Two users of each journal, and two different requests for one batch.
Wec == INSTANCE WecSigner WITH
    Process <- {p1, p2}, Facts <- {1, 2}, MaxCalls <- 3, MaxCrashes <- 2,
    call <- wecCall

Zec == INSTANCE ZecSigner WITH
    Process <- {p1, p2}, Facts <- {1, 2}, Copies <- {1, 2}, MaxCalls <- 3,
    MaxCrashes <- 2, disk <- zecDisk, synced <- zecSynced,
    holder <- zecHolder, pc <- zecPc, rec <- zecRec, crashes <- zecCrashes,
    torn <- zecTorn, call <- zecCall, calls <- zecCalls, net <- zecNet

ASSUME InstancesAssumption ==
    Authority!AuthorityAssumption /\ Wec!SignerAssumption

authorityVars == <<chain, mined, pool, orphans, sent, scanned, row, prior, op,
                   ops>>
wecVars == <<disk, synced, holder, pc, rec, crashes, torn, wecCall, calls,
             wallet, children, net, results>>
zecVars == <<zecDisk, zecSynced, zecHolder, zecPc, zecRec, zecCrashes, zecTorn,
             zecCall, zecCalls, zecNet, signed, forgot>>

allVars == <<part, vars, authorityVars, wecVars, zecVars>>

InitAll ==
    /\ part \in {"lease", "authority", "wec", "zec"}
    /\ Init /\ Authority!Init /\ Wec!Init /\ Zec!Init
    /\ part # "wec" => wallet = Wec!Unbound
    /\ part # "zec" => signed = {}

NextAll ==
    \/ /\ part = "lease" /\ Next
       /\ UNCHANGED <<part, authorityVars, wecVars, zecVars>>
    \/ /\ part = "authority" /\ Authority!Next
       /\ UNCHANGED <<part, vars, wecVars, zecVars>>
    \/ /\ part = "wec" /\ Wec!Next
       /\ UNCHANGED <<part, vars, authorityVars, zecVars>>
    \/ /\ part = "zec" /\ Zec!Next
       /\ UNCHANGED <<part, vars, authorityVars, wecVars>>

SpecAll == InitAll /\ [][NextAll]_allVars

Interchangeable == Permutations(Worker) \union Permutations({p1, p2})
-----------------------------------------------------------------------------
\* ChainAuthority: an accepted report is of one tip of the node.
ReportsAreOfOneTip == Authority!ReportsAreOfOneTip

\* ChainAuthority: a payout released as expired is never mined.
ReleasedIsNeverMined == Authority!ReleasedIsNeverMined

\* WecSigner: whoever is told of a transaction of the batch is told of the
\* same one.
CallersAgree == Wec!CallersAgree

\* ZecSigner: no second transaction replaces one that was approved.
NoReplacement == Zec!NoReplacement
=============================================================================
