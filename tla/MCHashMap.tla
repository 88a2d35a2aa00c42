----------------------------- MODULE MCHashMap -----------------------------
\* Four keys in a map made for none, which doubles three times.  The hashes
\* of k1 and k2 share a chain until there are eight, those of k3 and k4 always.
EXTENDS HashMap, TLC
CONSTANTS k1, k2, k3, k4, v1, v2
MCHash == k1 :> 1 @@ k2 :> 5 @@ k3 :> 2 @@ k4 :> 10
=============================================================================
