--------------------------- MODULE MCNonceNamespace ---------------------------
(* A small instance of NonceNamespace for TLC. *)
EXTENDS NonceNamespace, TLC

CONSTANTS p1, p2, p3

\* The second and third lifetime draw the same holder UUID.
ReusedHolderOf == (p1 :> p1) @@ (p2 :> p2) @@ (p3 :> p2)
=============================================================================
