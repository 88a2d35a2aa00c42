------------------------------- MODULE VbMmap -------------------------------
(***************************************************************************)
(* The table of user-space mappings of video-buffer (VB) pools,            *)
(* modules/sys/src/cvi_vb.c.                                               *)
(*                                                                         *)
(* The kernel owns the pools.  A process maps a whole pool once with       *)
(* CVI_VB_MmapPool and then translates the blocks of that pool with        *)
(* CVI_VB_GetBlockVirAddr.  The mappings are kept in a heap-allocated hash *)
(* map (vbMmapHash) guarded by a mutex (hash_lock), but the map and the    *)
(* mutex are themselves created by the first MmapPool and destroyed by the *)
(* MunmapPool that empties the table, outside of that mutex.               *)
(*                                                                         *)
(* A step of a thread is a stretch of code between two points where        *)
(* another thread can interfere: acquiring or releasing hash_lock, reading *)
(* or writing the global pointer vbMmapHash outside of it, an ioctl.       *)
(***************************************************************************)
EXTENDS Naturals

CONSTANTS
  Threads,   \* the threads of the process
  Pools,     \* pool identifiers the kernel can hand out
  MaxBase    \* bound: how many pools are created in a run

ASSUME VbAssumption == MaxBase \in Nat /\ Pools # {}

VARIABLES
  hash,      \* vbMmapHash: "null", "live", or "dangling" (freed, not reset)
  lock,      \* hash_lock: "free", "dead" (destroyed) or the holding thread
  table,     \* contents of the map: physical base of the entry, 0 = no entry
  nmap,      \* the mappings of each pool that exist in the address space
  pool,      \* kernel: physical base of the pool with this id, 0 = no pool
  nbase,     \* kernel: bases handed out so far (every pool gets a new one)
  inited,    \* vb_inited
  pc,        \* where each thread stands
  arg,       \* the pool the running call is about
  blk,       \* GetBlockVirAddr: pool and base of the block being translated
  ref,       \* what a thread points at without the lock, an entry's data or
             \* the place a walk has come to: "none", "held", "freed"
  base,      \* base read from the kernel (mmap) or from the entry (lookup)
  answer,    \* the last lookup: "none", "block" (right address) or "stray"
  crashed    \* a freed or null pointer, or a destroyed mutex, was used

tableVars == <<hash, lock, table, nmap>>
kernelVars == <<pool, nbase, inited>>
localVars == <<arg, blk, ref, base, answer>>
vars == <<tableVars, kernelVars, localVars, pc, crashed>>

\* The blocks a lookup can be asked about.
Blocks == [pool : Pools, base : Nat]
NoPool == CHOOSE p \in Pools : TRUE
NoBlock == [pool |-> NoPool, base |-> 0]

\* The steps in which a thread believes it holds hash_lock.
LockedPcs == {"m_get", "m_map", "m_put", "u_get", "u_unlock", "g_get",
              "g_unlock", "unlock"}

Pcs == LockedPcs \cup
       {"idle", "m_check", "m_create", "m_init", "m_lock", "u_check", "u_lock", "u_size",
        "u_free", "u_null", "u_destroy", "g_check", "g_lock", "g_pool",
        "g_addr", "d_ioctl", "d_check", "d_walk"}

Operations == {"MmapPool", "MunmapPool", "GetBlockVirAddr", "DestroyPool"}

FirstPc(op) == CASE op = "MmapPool" -> "m_check"
                 [] op = "MunmapPool" -> "u_check"
                 [] op = "GetBlockVirAddr" -> "g_check"
                 [] op = "DestroyPool" -> "d_ioctl"

TypeOK ==
  /\ hash \in {"null", "live", "dangling"}
  /\ lock \in Threads \cup {"free", "dead"}
  /\ table \in [Pools -> Nat]
  /\ nmap \in [Pools -> Nat]
  /\ pool \in [Pools -> Nat]
  /\ nbase \in Nat
  /\ inited \in BOOLEAN
  /\ pc \in [Threads -> Pcs]
  /\ arg \in [Threads -> Pools]
  /\ blk \in [Threads -> Blocks]
  /\ ref \in [Threads -> {"none", "held", "freed"}]
  /\ base \in [Threads -> Nat]
  /\ answer \in [Threads -> {"none", "block", "stray"}]
  /\ crashed \in BOOLEAN

Init ==
  /\ hash = "null"
  /\ lock = "free"
  /\ table = [p \in Pools |-> 0]
  /\ nmap = [p \in Pools |-> 0]
  /\ pool = [p \in Pools |-> 0]
  /\ nbase = 0
  /\ inited = FALSE
  /\ pc = [t \in Threads |-> "idle"]
  /\ arg = [t \in Threads |-> NoPool]
  /\ blk = [t \in Threads |-> NoBlock]
  /\ ref = [t \in Threads |-> "none"]
  /\ base = [t \in Threads |-> 0]
  /\ answer = [t \in Threads |-> "none"]
  /\ crashed = FALSE

-----------------------------------------------------------------------------
\* Building blocks of the steps.

Goto(t, to) == pc' = [pc EXCEPT ![t] = to]

Transition(t, from, to) == pc[t] = from /\ Goto(t, to)

\* The call returns: its local variables are dead.
Return(t) ==
  /\ Goto(t, "idle")
  /\ arg' = [arg EXCEPT ![t] = NoPool]
  /\ ref' = [ref EXCEPT ![t] = "none"]
  /\ base' = [base EXCEPT ![t] = 0]
  /\ blk' = [blk EXCEPT ![t] = NoBlock]

\* pthread_mutex_lock(&hash_lock).  Locking a destroyed mutex is undefined.
Acquire(t, from, to) ==
  /\ Transition(t, from, to)
  /\ lock \in {"free", "dead"}
  /\ lock' = IF lock = "free" THEN t ELSE lock
  /\ crashed' = (lock = "dead")
  /\ UNCHANGED <<hash, table, nmap, kernelVars, localVars>>

\* pthread_mutex_unlock(&hash_lock).
Release(t) == lock' = IF lock = t THEN "free" ELSE lock

\* Every hashmap call follows the global pointer as it is at that moment.
\* The calls made under the lock are one step each.
UseHash == crashed' = (hash # "live")

\* The threads in hashmapGet without the lock, each somewhere in a chain.
Walkers == {u \in Threads : pc[u] = "d_walk"}

\* What the threads U point at is freed.
FreeUnder(U) == ref' = [u \in Threads |-> IF u \in U THEN "freed" ELSE ref[u]]

\* hashmapGet, hashmapPut and hashmapSize find nothing in a map that is gone.
Mapped(p) == hash = "live" /\ table[p] # 0
TableEmpty == \A p \in Pools : table[p] = 0

-----------------------------------------------------------------------------
\* A thread calls one of the operations on pool p.

Begin(t, op, p) ==
  /\ pc[t] = "idle"
  /\ Goto(t, FirstPc(op))
  /\ arg' = [arg EXCEPT ![t] = p]
  /\ answer' = [answer EXCEPT ![t] = "none"]
  /\ IF op = "GetBlockVirAddr"
     THEN \E q \in Pools : pool[q] # 0
            /\ blk' = [blk EXCEPT ![t] = [pool |-> q, base |-> pool[q]]]
     ELSE UNCHANGED blk
  /\ UNCHANGED <<tableVars, kernelVars, ref, base, crashed>>

-----------------------------------------------------------------------------
\* CVI_VB_MmapPool

\* Mutant: the mutex is initialised by every call, not only with the map.
MmapCheckInitsAlways(t) ==
  /\ pc[t] = "m_check"
  /\ Goto(t, IF hash = "null" THEN "m_create" ELSE "m_init")
  /\ UNCHANGED <<tableVars, kernelVars, localVars, crashed>>

\* The map is created lazily, without the lock: two threads may both find that
\* there is none, and the second to create one replaces the first's.
MmapCheck(t) ==
  /\ pc[t] = "m_check"
  /\ Goto(t, IF hash = "null" THEN "m_create" ELSE "m_lock")
  /\ UNCHANGED <<tableVars, kernelVars, localVars, crashed>>

MmapCreate(t) ==
  /\ Transition(t, "m_create", "m_init")
  /\ hash' = "live"
  /\ table' = [p \in Pools |-> 0]
  /\ UNCHANGED <<lock, nmap, kernelVars, localVars, crashed>>

\* pthread_mutex_init: whoever held the mutex no longer does.
MmapInitLock(t) ==
  /\ Transition(t, "m_init", "m_lock")
  /\ lock' = "free"
  /\ UNCHANGED <<hash, table, nmap, kernelVars, localVars, crashed>>

MmapLock(t) == Acquire(t, "m_lock", "m_get")

\* Mutant: a pool that is mapped already is mapped again.
MmapGetAgain(t) ==
  /\ pc[t] = "m_get"
  /\ UseHash
  /\ \/ /\ pool[arg[t]] # 0
        /\ Goto(t, "m_map")
        /\ base' = [base EXCEPT ![t] = pool[arg[t]]]
     \/ Goto(t, "unlock") /\ UNCHANGED base
  /\ UNCHANGED <<tableVars, kernelVars, arg, blk, ref, answer>>

\* Already mapped: done.  Otherwise the pool's geometry is asked of the
\* kernel; no base fd or no such pool ends the call.
MmapGet(t) ==
  /\ pc[t] = "m_get"
  /\ UseHash
  /\ \/ /\ ~Mapped(arg[t]) /\ pool[arg[t]] # 0
        /\ Goto(t, "m_map")
        /\ base' = [base EXCEPT ![t] = pool[arg[t]]]
     \/ Goto(t, "unlock") /\ UNCHANGED base
  /\ UNCHANGED <<tableVars, kernelVars, arg, blk, ref, answer>>

\* Mutant: the return after a failed mmap forgets the unlock.
MmapMapKeepsLock(t) ==
  /\ pc[t] = "m_map"
  /\ \/ /\ Goto(t, "m_put")
        /\ nmap' = [nmap EXCEPT ![arg[t]] = @ + 1]
        /\ UNCHANGED <<arg, ref, base, blk>>
     \/ Return(t) /\ UNCHANGED nmap
  /\ UNCHANGED <<hash, lock, table, kernelVars, answer, crashed>>

\* malloc and CVI_SYS_Mmap: either can fail.
MmapMap(t) ==
  /\ pc[t] = "m_map"
  /\ \/ Goto(t, "m_put") /\ nmap' = [nmap EXCEPT ![arg[t]] = @ + 1]
     \/ Goto(t, "unlock") /\ UNCHANGED nmap
  /\ UNCHANGED <<hash, lock, table, kernelVars, localVars, crashed>>

\* The entry is made; when the map grows, its entries are linked anew and
\* the buckets freed (hashmap.c:104-119) under whoever walks there.
MmapPut(t) ==
  /\ Transition(t, "m_put", "unlock")
  /\ UseHash
  /\ table' = [table EXCEPT ![arg[t]] = base[t]]
  /\ \E F \in SUBSET Walkers : FreeUnder(F)
  /\ UNCHANGED <<hash, lock, nmap, kernelVars, arg, blk, base, answer>>

\* The unlock before any return that is followed by nothing else.
Unlock(t) ==
  /\ pc[t] = "unlock"
  /\ Release(t)
  /\ Return(t)
  /\ UNCHANGED <<hash, table, nmap, kernelVars, answer, crashed>>

-----------------------------------------------------------------------------
\* CVI_VB_MunmapPool

MunmapCheck(t) ==
  /\ pc[t] = "u_check"
  /\ IF hash = "null"
     THEN Return(t)
     ELSE Goto(t, "u_lock") /\ UNCHANGED <<arg, ref, base, blk>>
  /\ UNCHANGED <<tableVars, kernelVars, answer, crashed>>

MunmapLock(t) == Acquire(t, "u_lock", "u_get")

\* Mutant: what hashmapGet found is not looked at before it is unmapped.
MunmapRemoveUnchecked(t) ==
  /\ Transition(t, "u_get", "u_unlock")
  /\ UseHash
  /\ nmap' = [nmap EXCEPT ![arg[t]] = @ - 1]
  /\ table' = [table EXCEPT ![arg[t]] = 0]
  /\ UNCHANGED <<hash, lock, kernelVars, localVars>>

\* The lookups that keep a pointer to the data of the entry of p.
Lookups(p) == {u \in Threads : arg[u] = p /\ ref[u] = "held"} \ Walkers

\* Unmap (CVI_SYS_Munmap only ever succeeds), drop the entry and free it and
\* its data.  A lookup that kept a pointer to the data is left with a freed
\* one; so is a walk, of any pool, that has come to this entry (all ids below
\* 1024 are in one chain, cvi_vb.c:36-39).
MunmapRemove(t) ==
  LET p == arg[t] IN
  /\ pc[t] = "u_get"
  /\ UseHash
  /\ IF Mapped(p)
     THEN /\ Goto(t, "u_unlock")
          /\ nmap' = [nmap EXCEPT ![p] = IF @ > 0 THEN @ - 1 ELSE @]
          /\ table' = [table EXCEPT ![p] = 0]
          /\ \E F \in SUBSET Walkers : FreeUnder(F \cup Lookups(p))
     ELSE Goto(t, "unlock") /\ UNCHANGED <<nmap, table, ref>>
  /\ UNCHANGED <<hash, lock, kernelVars, arg, blk, base, answer>>

MunmapUnlock(t) ==
  /\ Transition(t, "u_unlock", "u_size")
  /\ Release(t)
  /\ UNCHANGED <<hash, table, nmap, kernelVars, localVars, crashed>>

\* Mutant: the map is freed although other pools are still mapped.
MunmapSizeIgnored(t) ==
  /\ Transition(t, "u_size", "u_free")
  /\ UseHash
  /\ UNCHANGED <<tableVars, kernelVars, localVars>>

\* hashmapSize after the unlock decides whether the map is freed.
MunmapSize(t) ==
  /\ pc[t] = "u_size"
  /\ UseHash
  /\ IF TableEmpty THEN Goto(t, "u_free") /\ UNCHANGED <<arg, ref, base, blk>>
                   ELSE Return(t)
  /\ UNCHANGED <<tableVars, kernelVars, answer>>

\* The map goes with its buckets, under every walk.
MunmapFree(t) ==
  /\ Transition(t, "u_free", "u_null")
  /\ UseHash
  /\ hash' = "dangling"
  /\ FreeUnder(Walkers)
  /\ UNCHANGED <<lock, table, nmap, kernelVars, arg, blk, base, answer>>

MunmapNull(t) ==
  /\ Transition(t, "u_null", "u_destroy")
  /\ hash' = "null"
  /\ UNCHANGED <<lock, table, nmap, kernelVars, localVars, crashed>>

\* Destroying a held mutex fails with EBUSY and leaves it as it is.
MunmapDestroyLock(t) ==
  /\ pc[t] = "u_destroy"
  /\ Return(t)
  /\ lock' = IF lock = "free" THEN "dead" ELSE lock
  /\ UNCHANGED <<hash, table, nmap, kernelVars, answer, crashed>>

-----------------------------------------------------------------------------
\* CVI_VB_GetBlockVirAddr

LookupCheck(t) ==
  /\ pc[t] = "g_check"
  /\ IF hash = "null"
     THEN Return(t)
     ELSE Goto(t, "g_lock") /\ UNCHANGED <<arg, ref, base, blk>>
  /\ UNCHANGED <<tableVars, kernelVars, answer, crashed>>

LookupLock(t) == Acquire(t, "g_lock", "g_get")

LookupGet(t) ==
  LET p == arg[t] IN
  /\ pc[t] = "g_get"
  /\ UseHash
  /\ IF Mapped(p)
     THEN /\ Goto(t, "g_unlock")
          /\ ref' = [ref EXCEPT ![t] = "held"]
          /\ base' = [base EXCEPT ![t] = table[p]]
     ELSE Goto(t, "unlock") /\ UNCHANGED <<ref, base>>
  /\ UNCHANGED <<tableVars, kernelVars, arg, blk, answer>>

LookupUnlock(t) ==
  /\ Transition(t, "g_unlock", "g_pool")
  /\ Release(t)
  /\ UNCHANGED <<hash, table, nmap, kernelVars, localVars, crashed>>

\* The kernel still knows the block (its pool has not been destroyed).
BlockLive(b) == b.base # 0 /\ pool[b.pool] = b.base

\* Mutant: the block's pool is not compared with the given one.
LookupPoolUnchecked(t) ==
  /\ pc[t] = "g_pool"
  /\ IF BlockLive(blk[t])
     THEN Goto(t, "g_addr") /\ UNCHANGED <<arg, ref, base, blk>>
     ELSE Return(t)
  /\ UNCHANGED <<tableVars, kernelVars, answer, crashed>>

\* CVI_VB_Handle2PoolId(Block) # Pool: the block is not of the given pool.
LookupPool(t) ==
  /\ pc[t] = "g_pool"
  /\ IF BlockLive(blk[t]) /\ blk[t].pool = arg[t]
     THEN Goto(t, "g_addr") /\ UNCHANGED <<arg, ref, base, blk>>
     ELSE Return(t)
  /\ UNCHANGED <<tableVars, kernelVars, answer, crashed>>

\* vmemBase + (phyAddr - memBase), read through the pointer kept since the
\* lookup.  The address is the block's only if the entry still exists and
\* was made for the pool the block belongs to.
LookupAddr(t) ==
  /\ pc[t] = "g_addr"
  /\ Return(t)
  /\ answer' = [answer EXCEPT ![t] =
       IF ~BlockLive(blk[t]) THEN "none"
       ELSE IF ref[t] = "held" /\ base[t] = blk[t].base THEN "block"
       ELSE "stray"]
  /\ UNCHANGED <<tableVars, kernelVars, crashed>>

-----------------------------------------------------------------------------
\* CVI_VB_CreatePool, CVI_VB_DestroyPool, CVI_VB_Init and CVI_VB_Exit

\* The kernel picks an unused id; the memory is at a new physical base.
CreatePool(t) ==
  /\ pc[t] = "idle"
  /\ nbase < MaxBase
  /\ \E p \in Pools : pool[p] = 0 /\ pool' = [pool EXCEPT ![p] = nbase + 1]
  /\ nbase' = nbase + 1
  /\ UNCHANGED <<tableVars, inited, localVars, pc, crashed>>

DestroyIoctl(t) ==
  /\ pc[t] = "d_ioctl"
  /\ \/ /\ pool[arg[t]] # 0
        /\ Goto(t, "d_check")
        /\ pool' = [pool EXCEPT ![arg[t]] = 0]
        /\ UNCHANGED <<arg, ref, base, blk>>
     \/ Return(t) /\ UNCHANGED pool
  /\ UNCHANGED <<tableVars, nbase, inited, answer, crashed>>

\* Mutant: the pool's mapping outlives the pool.
DestroyKeepsMapping(t) ==
  /\ pc[t] = "d_check"
  /\ Return(t)
  /\ UNCHANGED <<tableVars, kernelVars, answer, crashed>>

\* hashmapGet is called without the lock.  It takes the pointer that was
\* found not to be null and enters the map.
DestroyCheck(t) ==
  /\ pc[t] = "d_check"
  /\ crashed' = (hash = "dangling")
  /\ IF hash = "null"
     THEN Return(t)
     ELSE /\ Goto(t, "d_walk")
          /\ ref' = [ref EXCEPT ![t] = "held"]
          /\ UNCHANGED <<arg, base, blk>>
  /\ UNCHANGED <<tableVars, kernelVars, answer>>

\* The chain has been walked while the other threads went on.  A pool that was
\* found is unmapped by the call that follows.
DestroyWalk(t) ==
  /\ pc[t] = "d_walk"
  /\ crashed' = (ref[t] = "freed")
  /\ IF Mapped(arg[t])
     THEN /\ Goto(t, "u_check")
          /\ ref' = [ref EXCEPT ![t] = "none"]
          /\ UNCHANGED <<arg, base, blk>>
     ELSE Return(t)
  /\ UNCHANGED <<tableVars, kernelVars, answer>>

\* A second Init before an Exit does nothing; so does a second Exit.
VbInit(t) ==
  /\ pc[t] = "idle"
  /\ ~inited
  /\ inited' = TRUE
  /\ UNCHANGED <<tableVars, pool, nbase, localVars, pc, crashed>>

\* The exit ioctl takes the pools away unless it fails; the flag is cleared
\* either way, and the table of mappings is not touched.
VbExit(t) ==
  /\ pc[t] = "idle"
  /\ inited
  /\ inited' = FALSE
  /\ \/ pool' = [p \in Pools |-> 0]
     \/ UNCHANGED pool
  /\ UNCHANGED <<tableVars, nbase, localVars, pc, crashed>>

-----------------------------------------------------------------------------
MmapStep(t) == \/ MmapCheck(t) \/ MmapCreate(t) \/ MmapInitLock(t)
               \/ MmapLock(t) \/ MmapGet(t) \/ MmapMap(t) \/ MmapPut(t)
               \/ Unlock(t)

MunmapStep(t) == \/ MunmapCheck(t) \/ MunmapLock(t) \/ MunmapRemove(t)
                 \/ MunmapUnlock(t) \/ MunmapSize(t) \/ MunmapFree(t)
                 \/ MunmapNull(t) \/ MunmapDestroyLock(t)

LookupStep(t) == \/ LookupCheck(t) \/ LookupLock(t) \/ LookupGet(t)
                 \/ LookupUnlock(t) \/ LookupPool(t) \/ LookupAddr(t)

DestroyStep(t) == DestroyIoctl(t) \/ DestroyCheck(t) \/ DestroyWalk(t)

\* A thread goes on with the call it is in.  A crash ends the process.
Step(t) == /\ ~crashed
           /\ MmapStep(t) \/ MunmapStep(t) \/ LookupStep(t) \/ DestroyStep(t)

Call(t) == /\ ~crashed
           /\ \/ \E op \in Operations, p \in Pools : Begin(t, op, p)
              \/ CreatePool(t)
              \/ VbInit(t)
              \/ VbExit(t)

\* Any thread may call anything at any time.
Next == \E t \in Threads : Step(t) \/ Call(t)

Spec == Init /\ [][Next]_vars

-----------------------------------------------------------------------------
\* An address CVI_VB_GetBlockVirAddr returns with CVI_SUCCESS lies in a live
\* mapping of the pool the block belongs to ("to get virtual-address of the
\* Block", the comment above CVI_VB_GetBlockVirAddr).
AddressOfBlock == \A t \in Threads : answer[t] # "stray"
=============================================================================
