------------------------------ MODULE MCOracle ------------------------------
EXTENDS Oracle, TLC
CONSTANTS old, new, k1, k2
(* Two keepers share a key; no keeper holds the other yet. *)
MCKeypair == (k1 :> old) @@ (k2 :> old)
(* A point above the cap, then a broken one. *)
MCSeries == <<2, NotFinite>>
=============================================================================
