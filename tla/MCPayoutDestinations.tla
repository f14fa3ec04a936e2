------------------------- MODULE MCPayoutDestinations -------------------------
(* A small instance of PayoutDestinations. *)
EXTENDS PayoutDestinations

AllPreferences == [kind : {"ironwood", "transparent"}, automatic : BOOLEAN]
===============================================================================
