---------------------------- MODULE MCJobRouter -----------------------------
(* A small instance of JobRouter. *)
EXTENDS JobRouter

CONSTANTS z1, z2

\* Works whose tips differ in the Zcash parent only.
TwoParents == {[wcash |-> "w", zcash |-> z1], [wcash |-> "w", zcash |-> z2]}

AnyJob == [id : Job, descriptor : Descriptor, accept_for : 1 .. MaxAge]
AtMostOne(S) == {<<>>} \cup {<<x>> : x \in S}

\* Every snapshot with at most one current and one recent job.
SmallSnapshots == [current : AtMostOne(AnyJob), recent : AtMostOne(AnyJob)]

\* Jobs and Zcash parents are only compared.
Interchangeable == Permutations(Job) \cup Permutations({z1, z2})
=============================================================================
