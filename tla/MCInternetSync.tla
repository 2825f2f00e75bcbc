--------------------------- MODULE MCInternetSync ---------------------------
(* Small instances of InternetSync. *)
EXTENDS InternetSync, TLC

CONSTANTS a, b     \* two devices

OneAuthor == 1 :> a @@ 2 :> a
TwoAuthor == 1 :> a @@ 2 :> b
=============================================================================
