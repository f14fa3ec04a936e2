---------------------------- MODULE RewardLedger ----------------------------
(***************************************************************************)
(* What the projection of winning blocks promises the miners.  The first   *)
(* time a block is credited, its reward is promised to the accounts, and   *)
(* that promise never changes.  From then on the promised amounts are      *)
(* nowhere, all immature, or all payable; they are never in two places,    *)
(* never doubled and never in part.                                        *)
(***************************************************************************)
EXTENDS Integers

CONSTANTS
    Account, Block,
    Ceiling               \* no account is ever promised more for one block

VARIABLES
    promised,             \* promised[b]: a set, empty or one allocation
    immature, payable     \* per block and account

vars == <<promised, immature, payable>>

Allocation == [Account -> 0..Ceiling]

Nothing == [a \in Account |-> 0]

Init ==
    /\ promised = [b \in Block |-> {}]
    /\ immature = [b \in Block |-> Nothing]
    /\ payable = [b \in Block |-> Nothing]

Absent(b) == immature[b] = Nothing /\ payable[b] = Nothing

\* The promise is made at the first credit and kept at every later one.
Keep(b, amounts) ==
    /\ amounts \in IF promised[b] = {} THEN Allocation ELSE promised[b]
    /\ promised' = [promised EXCEPT ![b] = {amounts}]

Observe(b) ==
    \E amounts \in promised'[b] :
        /\ Absent(b)
        /\ Keep(b, amounts)
        /\ immature' = [immature EXCEPT ![b] = amounts]
        /\ UNCHANGED payable

\* A block that comes back deep enough is credited and matured at once.
ObserveMature(b) ==
    \E amounts \in promised'[b] :
        /\ Absent(b)
        /\ Keep(b, amounts)
        /\ payable' = [payable EXCEPT ![b] = amounts]
        /\ UNCHANGED immature

Mature(b) ==
    /\ UNCHANGED promised
    /\ promised[b] = {immature[b]}
    /\ payable[b] = Nothing
    /\ payable' = [payable EXCEPT ![b] = immature[b]]
    /\ immature' = [immature EXCEPT ![b] = Nothing]

Demature(b) ==
    /\ UNCHANGED promised
    /\ promised[b] = {payable[b]}
    /\ immature[b] = Nothing
    /\ immature' = [immature EXCEPT ![b] = payable[b]]
    /\ payable' = [payable EXCEPT ![b] = Nothing]

Reverse(b) ==
    /\ UNCHANGED promised
    /\ immature' = [immature EXCEPT ![b] = Nothing]
    /\ payable' = [payable EXCEPT ![b] = Nothing]

Next ==
    \E b \in Block :
        Reverse(b) \/ Mature(b) \/ Demature(b) \/ Observe(b) \/ ObserveMature(b)

Spec == Init /\ [][Next]_vars
=============================================================================
