---------------------------- MODULE MCVbClient ----------------------------
\* Two threads; Main owns two pools, of which one can be pinned while the
\* other and the worker's come and go.
EXTENDS VbClient, TLC
CONSTANTS main, worker, p1, p2, p3
MCOwner == p1 :> main @@ p2 :> main @@ p3 :> worker
=============================================================================
