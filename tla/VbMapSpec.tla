----------------------------- MODULE VbMapSpec -----------------------------
(***************************************************************************)
(* What the VB mapping table promises, without its lock, its lazily        *)
(* created map and its steps: a pool is mapped at most once, a mapping is  *)
(* made for the pool the kernel has under that id at that moment, and a    *)
(* translated block is always one of a pool that is mapped.                *)
(***************************************************************************)
EXTENDS Naturals

CONSTANTS Threads, Pools

VARIABLES
  pool,     \* kernel: base of the pool with this id, 0 = none
  mapped,   \* base for which the pool is mapped, 0 = not mapped
  answer    \* last translation of each thread: "none" or "block"

vars == <<pool, mapped, answer>>

Init ==
  /\ pool = [p \in Pools |-> 0]
  /\ mapped = [p \in Pools |-> 0]
  /\ answer = [t \in Threads |-> "none"]

\* A pool appears under an unused id, or one or all of them disappear.
PoolAppears ==
  /\ \E p \in Pools : /\ pool[p] = 0
                      /\ pool'[p] \in Nat \ {0}
                      /\ pool' = [pool EXCEPT ![p] = pool'[p]]
  /\ UNCHANGED <<mapped, answer>>

PoolDisappears ==
  /\ \/ \E p \in Pools : pool' = [pool EXCEPT ![p] = 0]
     \/ pool' = [p \in Pools |-> 0]
  /\ UNCHANGED <<mapped, answer>>

\* Only a pool that exists and is not mapped is mapped, as it is now.
Map ==
  /\ \E p \in Pools : /\ mapped[p] = 0 /\ pool[p] # 0
                      /\ mapped' = [mapped EXCEPT ![p] = pool[p]]
  /\ UNCHANGED <<pool, answer>>

Unmap ==
  /\ \E p \in Pools : mapped[p] # 0 /\ mapped' = [mapped EXCEPT ![p] = 0]
  /\ UNCHANGED <<pool, answer>>

\* A translation succeeds only for a pool that exists and whose present
\* incarnation is mapped.
Translate(t) ==
  /\ \E p \in Pools : pool[p] # 0 /\ mapped[p] = pool[p]
  /\ answer' = [answer EXCEPT ![t] = "block"]
  /\ UNCHANGED <<pool, mapped>>

Forget(t) ==
  /\ answer' = [answer EXCEPT ![t] = "none"]
  /\ UNCHANGED <<pool, mapped>>

Next ==
  \/ PoolAppears \/ PoolDisappears \/ Map \/ Unmap
  \/ \E t \in Threads : Translate(t) \/ Forget(t)

Spec == Init /\ [][Next]_vars
=============================================================================
