--------------------------- MODULE PrefixDispenser ---------------------------
(***************************************************************************)
(* What a nonce namespace promises to miners: every counter of the         *)
(* namespace is handed out at most once, for ever, whatever happens to the *)
(* processes that hand them out.                                           *)
(***************************************************************************)
EXTENDS Naturals

CONSTANT Counter        \* the counters of one (profile, namespace) pair

VARIABLE issued         \* how often each counter was shown to a miner

Init == issued = [c \in Counter |-> 0]

Issue(c) ==
  /\ issued[c] = 0
  /\ issued' = [issued EXCEPT ![c] = 1]

Next == \E c \in Counter : Issue(c)

Spec == Init /\ [][Next]_issued
=============================================================================
