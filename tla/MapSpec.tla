------------------------------ MODULE MapSpec ------------------------------
(***************************************************************************)
(* What hashmap.h promises its callers: a map from keys to values, created *)
(* and freed, in which putting, getting and removing return the value that *)
(* was there before, or Null.  A put of a new key may find no memory; it   *)
(* returns Null then too, and its caller cannot tell.                      *)
(***************************************************************************)
CONSTANTS Keys, Values, Null

VARIABLES
  live,   \* there is a map
  map,    \* the values of the keys that are in it
  ret     \* what the last call returned

vars == <<live, map, ret>>

Init == live = FALSE /\ map = [k \in {} |-> Null] /\ ret = Null

Before(k) == IF k \in DOMAIN map THEN map[k] ELSE Null

Create ==
  /\ ~live /\ live' = TRUE
  /\ UNCHANGED <<map, ret>>

Put(k, v) ==
  /\ live /\ UNCHANGED live
  /\ map' = [x \in DOMAIN map \cup {k} |-> IF x = k THEN v ELSE map[x]]
  /\ ret' = Before(k)

PutFails(k) ==
  /\ live /\ k \notin DOMAIN map
  /\ ret' = Null
  /\ UNCHANGED <<live, map>>

Get(k) ==
  /\ live
  /\ ret' = Before(k)
  /\ UNCHANGED <<live, map>>

Remove(k) ==
  /\ live /\ UNCHANGED live
  /\ map' = [x \in DOMAIN map \ {k} |-> map[x]]
  /\ ret' = Before(k)

Free ==
  /\ live /\ live' = FALSE
  /\ map' = [k \in {} |-> Null]
  /\ UNCHANGED ret

Next ==
  \/ Create \/ Free
  \/ \E k \in Keys : \/ Get(k) \/ Remove(k) \/ PutFails(k)
                     \/ \E v \in Values : Put(k, v)

Spec == Init /\ [][Next]_vars
=============================================================================
