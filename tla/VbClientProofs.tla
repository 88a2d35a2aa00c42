--------------------------- MODULE VbClientProofs ---------------------------
(***************************************************************************)
(* Proofs about the VB mapping table under the discipline of VbClient, for *)
(* any number of threads and pools.                                        *)
(*                                                                         *)
(* The argument: during the shared phase a pinned pool keeps the table     *)
(* non-empty, so no thread gets past the size check of MunmapPool and      *)
(* none finds the map missing; the map and the mutex therefore live        *)
(* through the whole phase, and hash_lock protects the contents.  A lookup *)
(* survives its unlock because only the owner of a pool, or nobody if the  *)
(* pool is pinned, removes its entry.  The walk of DestroyPool, which takes*)
(* no lock, comes upon nothing freed because the program keeps the other   *)
(* threads from entering and removing pools meanwhile.                     *)
(***************************************************************************)
EXTENDS VbClient, TLAPS

\* The steps that follow the pointer to the map, and so need it to be live.
NeedMap == {"m_init", "m_lock", "m_get", "m_map", "m_put", "u_lock", "u_get",
            "u_unlock", "u_size", "u_free", "g_lock", "g_get"}

\* The steps at which a call is still going to act on its pool, by kind.
MapPcs == {"m_check", "m_create", "m_init", "m_lock", "m_get", "m_map", "m_put"}
LookupPcs == {"g_check", "g_lock", "g_get", "g_unlock", "g_pool", "g_addr"}
RemovePcs == {"d_ioctl", "d_check", "d_walk", "u_check", "u_lock", "u_get"}

\* The steps that create or destroy the map and the mutex.
LifePcs == {"m_create", "m_init", "u_free", "u_null", "u_destroy"}

\* Outside of the shared phase only Main is inside a call.
MainAlone == phase = "single" =>
  pinned = {} /\ \A t \in Threads : t # Main => pc[t] = "idle"

\* During it the map and the mutex live, and the pinned pools are mapped.
MapPinned == phase = "shared" =>
  /\ hash = "live"
  /\ lock # "dead"
  /\ pinned # {}
  /\ \A p \in pinned : table[p] # 0 /\ table[p] = pool[p]
  /\ \A t \in Threads : pc[t] \notin LifePcs

\* The calls in progress are among those the discipline allows.
CallsAllowed == phase = "shared" => \A t \in Threads :
  /\ pc[t] \in MapPcs \cup LookupPcs => Owner[arg[t]] = t \/ arg[t] \in pinned
  /\ pc[t] \in RemovePcs => Owner[arg[t]] = t /\ arg[t] \notin pinned

\* Where the pointer is followed, it is good.
MapLive ==
  /\ \A t \in Threads : pc[t] \in NeedMap => hash = "live"
  /\ \A t \in Threads : pc[t] = "u_null" <=> (hash = "dangling" /\ t = Main)
  /\ \A t \in Threads : pc[t] \in {"u_destroy", "m_create"} => hash = "null"
  /\ lock = "dead" => hash = "null" \/ pc[Main] = "m_init"

\* Nothing is mapped when the map goes.
EmptyWhenGone ==
  /\ hash # "live" => TableEmpty
  /\ \A t \in Threads : pc[t] = "u_free" => TableEmpty

\* What a call has read of the pool still holds when it acts on it.
MapFresh == \A t \in Threads :
  pc[t] \in {"m_map", "m_put"} => /\ table[arg[t]] = 0
                                  /\ base[t] = pool[arg[t]]
                                  /\ base[t] # 0

LookupFresh == \A t \in Threads :
  /\ pc[t] \in {"g_unlock", "g_pool", "g_addr"} =>
       /\ ref[t] = "held"
       /\ Mapped(arg[t])
       /\ base[t] = table[arg[t]]
  /\ pc[t] = "g_addr" => blk[t].pool = arg[t]

\* An entry is for the pool the kernel has, unless the thread the pool is
\* left to is just destroying it.
Keeper(p) == IF phase = "single" THEN Main ELSE Owner[p]

KeeperPcs == {"d_check", "d_walk", "u_check", "u_lock", "u_get"}

EntriesFresh == \A p \in Pools : table[p] # 0 /\ table[p] # pool[p] =>
  pc[Keeper(p)] \in KeeperPcs /\ arg[Keeper(p)] = p

\* The thread that has mapped p and not yet entered it holds the lock.
Entering(p) == lock \in Threads /\ pc[lock] = "m_put" /\ arg[lock] = p

CountsMatch == \A p \in Pools :
  nmap[p] = IF Mapped(p) \/ Entering(p) THEN 1 ELSE 0

\* While a thread walks the map without the lock no other changes it, and so
\* nothing is freed under the walk.
WalkAlone == phase = "shared" =>
  \A t, u \in Threads : t # u /\ Walks(t) => ~Walks(u) /\ ~Changes(u)

WalkSafe == \A t \in Threads : pc[t] = "d_walk" => ref[t] = "held"

NoCrash == ~crashed

IndInv ==
  /\ ClientTypeOK
  /\ MutualExclusion
  /\ MainAlone
  /\ MapPinned
  /\ CallsAllowed
  /\ MapLive
  /\ EmptyWhenGone
  /\ MapFresh
  /\ LookupFresh
  /\ EntriesFresh
  /\ CountsMatch
  /\ WalkAlone
  /\ WalkSafe
  /\ NoCrash
  /\ AddressOfBlock

-----------------------------------------------------------------------------
USE DEF tableVars, kernelVars, localVars, vars, clientVars, cvars

\* What a call that has returned leaves in its local variables is well typed.
LEMMA NoBlockType == NoPool \in Pools /\ NoBlock \in Blocks
  BY VbAssumption DEF NoBlock, NoPool, Blocks

\* Returning keeps the types of the local variables.
LEMMA ReturnType ==
  ASSUME TypeOK, NEW t \in Threads, Return(t)
  PROVE  /\ pc' \in [Threads -> Pcs]
         /\ arg' \in [Threads -> Pools]
         /\ blk' \in [Threads -> Blocks]
         /\ ref' \in [Threads -> {"none", "held", "freed"}]
         /\ base' \in [Threads -> Nat]
  BY NoBlockType DEF TypeOK, Return, Goto, Pcs

\* A step of a thread does not change who looks after a pool.
LEMMA KeeperFixed ==
  ASSUME UNCHANGED clientVars, NEW p \in Pools
  PROVE  Keeper(p)' = Keeper(p) /\ Keeper(p) \in Threads
  BY ClientAssumption DEF Keeper

\* A step that makes no further entry differ from its pool, and after which a
\* thread that was destroying a pool still is, keeps EntriesFresh.
LEMMA KeeperStays ==
  ASSUME IndInv, NEW t \in Threads, UNCHANGED clientVars,
         \A p \in Pools : table'[p] # 0 /\ table'[p] # pool'[p] =>
                             table[p] # 0 /\ table[p] # pool[p],
         \A u \in Threads \ {t} : pc'[u] = pc[u] /\ arg'[u] = arg[u],
         pc[t] \in KeeperPcs /\ table'[arg[t]] # 0 =>
           pc'[t] \in KeeperPcs /\ arg'[t] = arg[t]
  PROVE  EntriesFresh'
  <1> SUFFICES ASSUME NEW p \in Pools, table'[p] # 0, table'[p] # pool'[p]
               PROVE  pc'[Keeper(p)] \in KeeperPcs /\ arg'[Keeper(p)] = p
    BY KeeperFixed DEF EntriesFresh
  <1>1. Keeper(p) \in Threads
    BY KeeperFixed
  <1>2. pc[Keeper(p)] \in KeeperPcs /\ arg[Keeper(p)] = p
    BY DEF IndInv, EntriesFresh
  <1>3. QED
    BY <1>1, <1>2

\* A thread that is removing a pool is not about a pool that another thread is
\* mapping or looking up: the discipline of the callers.
LEMMA Separation ==
  ASSUME IndInv, NEW t \in Threads, NEW u \in Threads, t # u,
         pc[t] \in RemovePcs, pc[u] \in MapPcs \cup LookupPcs
  PROVE  arg[t] # arg[u]
  <1>1. CASE phase = "single"
    BY <1>1 DEF IndInv, MainAlone, RemovePcs, MapPcs, LookupPcs
  <1>2. CASE phase = "shared"
    BY <1>2 DEF IndInv, CallsAllowed
  <1>3. QED
    BY <1>1, <1>2 DEF IndInv, ClientTypeOK

\* A thread that does not begin to walk, and begins to change the map only
\* where it has walked it, leaves the walkers alone.
LEMMA WalkStays ==
  ASSUME IndInv, NEW t \in Threads, UNCHANGED clientVars,
         \A u \in Threads \ {t} : pc'[u] = pc[u] /\ arg'[u] = arg[u],
         Walks(t)' => Walks(t), Changes(t)' => Changes(t) \/ Walks(t)
  PROVE  WalkAlone'
  <1> SUFFICES ASSUME phase = "shared", NEW u \in Threads, NEW w \in Threads,
                      u # w, Walks(u)'
               PROVE  ~Walks(w)' /\ ~Changes(w)'
    BY DEF WalkAlone
  <1>1. ASSUME NEW v \in Threads
        PROVE  /\ Walks(v)' => Walks(v)
               /\ Changes(v)' => Changes(v) \/ Walks(v)
    <2>1. CASE v = t
      BY <2>1
    <2>2. CASE v # t
      BY <2>2 DEF Walks, Changes
    <2>3. QED
      BY <2>1, <2>2
  <1>2. Walks(u) /\ ~Walks(w) /\ ~Changes(w)
    BY <1>1 DEF IndInv, WalkAlone
  <1>3. QED
    BY <1>1, <1>2

\* What a walker points at stays when nobody frees it.
LEMMA HeldStays ==
  ASSUME IndInv, NEW t \in Threads,
         \A u \in Threads \ {t} : pc'[u] = pc[u] /\ ref'[u] = ref[u],
         pc'[t] = "d_walk" => ref'[t] = "held"
  PROVE  WalkSafe'
  BY DEF IndInv, WalkSafe

\* Nobody walks the map when it is changed or freed.
LEMMA NoWalkers ==
  ASSUME IndInv, NEW t \in Threads, pc[t] \in {"m_put", "u_get", "u_free"}
  PROVE  Walkers = {}
  <1>1. CASE phase = "single"
    BY <1>1 DEF IndInv, MainAlone, Walkers
  <1>2. CASE phase = "shared"
    <2>1. pc[t] \in {"m_put", "u_get"} /\ arg[t] \in Pools
      BY <1>2 DEF IndInv, MapPinned, LifePcs, ClientTypeOK, TypeOK
    <2>2. arg[t] \notin pinned
      BY <1>2, <2>1 DEF IndInv, MapPinned, MapFresh, CallsAllowed, RemovePcs
    <2>3. Changes(t)
      BY <2>1, <2>2 DEF Changes
    <2>4. ASSUME NEW u \in Threads, pc[u] = "d_walk" PROVE FALSE
      BY <1>2, <2>1, <2>3, <2>4 DEF IndInv, WalkAlone, Walks
    <2>5. QED
      BY <2>4 DEF Walkers
  <1>3. QED
    BY <1>1, <1>2 DEF IndInv, ClientTypeOK

\* MmapPool looks whether there is a map (cvi_vb.c:401).
LEMMA MmapCheckInv ==
  ASSUME IndInv, NEW t \in Threads, MmapCheck(t), UNCHANGED clientVars
  PROVE  IndInv'
  <1> USE VbAssumption, ClientAssumption DEF IndInv, ClientTypeOK, TypeOK,
        MmapCheck, Goto
  <1>1. ClientTypeOK'
    BY DEF Pcs, LockedPcs
  <1>2. MutualExclusion' /\ MainAlone' /\ MapPinned' /\ CallsAllowed'
    BY DEF MutualExclusion, LockedPcs, MainAlone, MapPinned, LifePcs,
       TableEmpty, CallsAllowed, MapPcs, LookupPcs, RemovePcs
  <1>3. EmptyWhenGone' /\ MapFresh' /\ LookupFresh' /\ CountsMatch'
    BY DEF EmptyWhenGone, TableEmpty, MapFresh, LookupFresh, Mapped,
       CountsMatch, Entering
  <1>4. NoCrash' /\ AddressOfBlock'
    BY DEF NoCrash, AddressOfBlock
  <1>5. MapLive'
    BY DEF MapLive, NeedMap, MainAlone, MapPinned, LifePcs
  <1>6. EntriesFresh'
    BY KeeperStays DEF KeeperPcs, EmptyWhenGone, TableEmpty
  <1>7. WalkAlone' /\ WalkSafe'
    BY WalkStays, HeldStays DEF Walks, Changes
  <1>8. QED
    BY <1>1, <1>2, <1>3, <1>4, <1>5, <1>6, <1>7

\* The map is created when there is none, so only by Main alone (cvi_vb.c:402).
LEMMA MmapCreateInv ==
  ASSUME IndInv, NEW t \in Threads, MmapCreate(t), UNCHANGED clientVars
  PROVE  IndInv'
  <1> USE VbAssumption, ClientAssumption DEF IndInv, ClientTypeOK, TypeOK,
        MmapCreate, Transition, Goto
  <1>1. ClientTypeOK'
    BY DEF Pcs, LockedPcs
  <1>2. MutualExclusion' /\ MainAlone' /\ MapPinned' /\ CallsAllowed'
    BY DEF MutualExclusion, LockedPcs, MainAlone, MapPinned, LifePcs,
       TableEmpty, CallsAllowed, MapPcs, LookupPcs, RemovePcs
  <1>3. EmptyWhenGone' /\ MapFresh' /\ LookupFresh' /\ CountsMatch'
    BY DEF EmptyWhenGone, TableEmpty, MapFresh, LookupFresh, Mapped,
       CountsMatch, Entering, MapLive
  <1>4. NoCrash' /\ AddressOfBlock'
    BY DEF NoCrash, AddressOfBlock
  <1>5. MapLive'
    BY DEF MapLive, NeedMap, MainAlone, MapPinned, LifePcs
  <1>6. EntriesFresh'
    BY KeeperStays DEF KeeperPcs, EmptyWhenGone, TableEmpty
  <1>7. WalkAlone' /\ WalkSafe'
    BY WalkStays, HeldStays DEF Walks, Changes
  <1>8. QED
    BY <1>1, <1>2, <1>3, <1>4, <1>5, <1>6, <1>7

\* hash_lock is initialised when nobody holds it (cvi_vb.c:403).
LEMMA MmapInitLockInv ==
  ASSUME IndInv, NEW t \in Threads, MmapInitLock(t), UNCHANGED clientVars
  PROVE  IndInv'
  <1> USE VbAssumption, ClientAssumption DEF IndInv, ClientTypeOK, TypeOK,
        MmapInitLock, Transition, Goto
  <1>1. ClientTypeOK'
    BY DEF Pcs, LockedPcs
  <1>2. MainAlone' /\ MapPinned' /\ CallsAllowed' /\ MapLive'
    BY DEF MainAlone, MapPinned, LifePcs, TableEmpty, CallsAllowed, MapPcs,
       LookupPcs, RemovePcs, MapLive, NeedMap
  <1>3. EmptyWhenGone' /\ MapFresh' /\ LookupFresh' /\ NoCrash'
    BY DEF EmptyWhenGone, TableEmpty, MapFresh, LookupFresh, Mapped, NoCrash
  <1>4. AddressOfBlock'
    BY DEF AddressOfBlock
  <1>5. MutualExclusion'
    BY DEF MutualExclusion, LockedPcs, MapPinned, LifePcs, MainAlone
  <1>6. EntriesFresh'
    BY KeeperStays DEF KeeperPcs
  <1>7. CountsMatch'
    BY DEF CountsMatch, Mapped, Entering, MainAlone, MapPinned, LifePcs
  <1>8. WalkAlone' /\ WalkSafe'
    BY WalkStays, HeldStays DEF Walks, Changes
  <1>9. QED
    BY <1>1, <1>2, <1>3, <1>4, <1>5, <1>6, <1>7, <1>8

\* MmapPool takes hash_lock (cvi_vb.c:406).
LEMMA MmapLockInv ==
  ASSUME IndInv, NEW t \in Threads, MmapLock(t), UNCHANGED clientVars
  PROVE  IndInv'
  <1> USE VbAssumption, ClientAssumption DEF IndInv, ClientTypeOK, TypeOK,
        MmapLock, Transition, Goto, Acquire
  <1>1. ClientTypeOK'
    BY DEF Pcs, LockedPcs
  <1>2. MainAlone' /\ MapPinned' /\ CallsAllowed' /\ MapLive'
    BY DEF MainAlone, MapPinned, LifePcs, TableEmpty, CallsAllowed, MapPcs,
       LookupPcs, RemovePcs, MapLive, NeedMap
  <1>3. EmptyWhenGone' /\ MapFresh' /\ LookupFresh' /\ CountsMatch'
    BY DEF EmptyWhenGone, TableEmpty, MapFresh, LookupFresh, Mapped,
       CountsMatch, Entering
  <1>4. AddressOfBlock'
    BY DEF AddressOfBlock
  <1>5. MutualExclusion'
    BY DEF MutualExclusion, LockedPcs, MapPinned, MainAlone, MapLive, NeedMap
  <1>6. EntriesFresh'
    BY KeeperStays DEF KeeperPcs
  <1>7. NoCrash'
    BY DEF NoCrash, MapLive, NeedMap, MainAlone, MapPinned
  <1>8. WalkAlone' /\ WalkSafe'
    BY WalkStays, HeldStays DEF Walks, Changes
  <1>9. QED
    BY <1>1, <1>2, <1>3, <1>4, <1>5, <1>6, <1>7, <1>8

\* What is read of the kernel's pool stays true: nobody destroys it meanwhile.
LEMMA MmapGetInv ==
  ASSUME IndInv, NEW t \in Threads, MmapGet(t), UNCHANGED clientVars
  PROVE  IndInv'
  <1> USE VbAssumption, ClientAssumption DEF IndInv, ClientTypeOK, TypeOK,
        MmapGet, Goto, UseHash, Mapped
  <1>1. ClientTypeOK'
    BY DEF Pcs, LockedPcs
  <1>2. MutualExclusion' /\ MainAlone' /\ MapPinned' /\ CallsAllowed'
    BY DEF MutualExclusion, LockedPcs, MainAlone, MapPinned, LifePcs,
       TableEmpty, CallsAllowed, MapPcs, LookupPcs, RemovePcs
  <1>3. MapLive' /\ EmptyWhenGone' /\ LookupFresh' /\ CountsMatch'
    BY DEF MapLive, NeedMap, EmptyWhenGone, TableEmpty, LookupFresh, Mapped,
       CountsMatch, Entering
  <1>4. AddressOfBlock'
    BY DEF AddressOfBlock
  <1>5. MapFresh'
    BY DEF MapFresh, EmptyWhenGone, TableEmpty
  <1>6. EntriesFresh'
    BY KeeperStays DEF KeeperPcs
  <1>7. NoCrash'
    BY DEF NoCrash, MapLive, NeedMap
  <1>8. WalkAlone' /\ WalkSafe'
    BY WalkStays, HeldStays DEF Walks, Changes
  <1>9. QED
    BY <1>1, <1>2, <1>3, <1>4, <1>5, <1>6, <1>7, <1>8

\* The new mapping is counted as the one about to be entered.
LEMMA MmapMapInv ==
  ASSUME IndInv, NEW t \in Threads, MmapMap(t), UNCHANGED clientVars
  PROVE  IndInv'
  <1> USE VbAssumption, ClientAssumption DEF IndInv, ClientTypeOK, TypeOK,
        MmapMap, Goto
  <1>1. ClientTypeOK'
    BY DEF Pcs, LockedPcs
  <1>2. MutualExclusion' /\ MainAlone' /\ MapPinned' /\ CallsAllowed'
    BY DEF MutualExclusion, LockedPcs, MainAlone, MapPinned, LifePcs,
       TableEmpty, CallsAllowed, MapPcs, LookupPcs, RemovePcs
  <1>3. MapLive' /\ EmptyWhenGone' /\ MapFresh' /\ LookupFresh'
    BY DEF MapLive, NeedMap, EmptyWhenGone, TableEmpty, MapFresh, LookupFresh,
       Mapped
  <1>4. NoCrash' /\ AddressOfBlock'
    BY DEF NoCrash, AddressOfBlock
  <1>5. EntriesFresh'
    BY KeeperStays DEF KeeperPcs
  <1>6. CountsMatch'
    BY DEF CountsMatch, Mapped, Entering, MapFresh, MutualExclusion, LockedPcs
  <1>7. WalkAlone' /\ WalkSafe'
    BY WalkStays, HeldStays DEF Walks, Changes
  <1>8. QED
    BY <1>1, <1>2, <1>3, <1>4, <1>5, <1>6, <1>7

\* The entry is made in a live map and is for the pool the kernel has.
LEMMA MmapPutInv ==
  ASSUME IndInv, NEW t \in Threads, MmapPut(t), UNCHANGED clientVars
  PROVE  IndInv'
  <1> USE VbAssumption, ClientAssumption DEF IndInv, ClientTypeOK, TypeOK,
        MmapPut, Transition, Goto, UseHash
  <1>0. UNCHANGED ref
    BY NoWalkers DEF FreeUnder
  <1>1. ClientTypeOK'
    BY <1>0 DEF Pcs, LockedPcs
  <1>2. MutualExclusion' /\ MainAlone' /\ CallsAllowed' /\ MapLive'
    BY DEF MutualExclusion, LockedPcs, MainAlone, CallsAllowed, MapPcs,
       LookupPcs, RemovePcs, MapLive, NeedMap
  <1>3. AddressOfBlock'
    BY DEF AddressOfBlock
  <1>4. MapPinned'
    BY DEF MapPinned, LifePcs, TableEmpty, MapFresh
  <1>5. EmptyWhenGone'
    BY DEF EmptyWhenGone, TableEmpty, MapLive, NeedMap, MainAlone, MapPinned
  <1>6. MapFresh'
    BY DEF MapFresh, MutualExclusion, LockedPcs
  <1>7. LookupFresh'
    BY <1>0 DEF LookupFresh, Mapped, MapFresh
  <1>8. EntriesFresh'
    BY KeeperStays DEF KeeperPcs, MapFresh
  <1>9. CountsMatch'
    BY DEF CountsMatch, Mapped, Entering, MapLive, NeedMap, MapFresh,
       MutualExclusion, LockedPcs
  <1>10. NoCrash'
    BY DEF NoCrash, MapLive, NeedMap
  <1>11. WalkAlone' /\ WalkSafe'
    BY <1>0, WalkStays, HeldStays DEF Walks, Changes
  <1>12. QED
    BY <1>1, <1>2, <1>3, <1>4, <1>5, <1>6, <1>7, <1>8, <1>9, <1>10, <1>11

\* A call that gives hash_lock back and returns.
LEMMA UnlockInv ==
  ASSUME IndInv, NEW t \in Threads, Unlock(t), UNCHANGED clientVars
  PROVE  IndInv'
  <1> USE VbAssumption, ClientAssumption DEF IndInv, ClientTypeOK, TypeOK,
        Unlock, Goto, Release
  <1>1. ClientTypeOK'
    BY ReturnType DEF Pcs, LockedPcs
  <1>2. MutualExclusion' /\ MainAlone' /\ MapPinned' /\ CallsAllowed'
    BY DEF MutualExclusion, LockedPcs, Return, MainAlone, MapPinned, LifePcs,
       TableEmpty, CallsAllowed, MapPcs, LookupPcs, RemovePcs
  <1>3. MapLive' /\ EmptyWhenGone' /\ MapFresh' /\ LookupFresh'
    BY DEF MapLive, NeedMap, Return, EmptyWhenGone, TableEmpty, MapFresh,
       LookupFresh, Mapped
  <1>4. CountsMatch' /\ NoCrash' /\ AddressOfBlock'
    BY DEF CountsMatch, Mapped, Entering, Return, NoCrash, AddressOfBlock
  <1>5. EntriesFresh'
    BY KeeperStays DEF KeeperPcs, Return
  <1>6. WalkAlone' /\ WalkSafe'
    BY WalkStays, HeldStays DEF Walks, Changes, Return
  <1>7. QED
    BY <1>1, <1>2, <1>3, <1>4, <1>5, <1>6

\* MunmapPool looks whether there is a map (cvi_vb.c:461).
LEMMA MunmapCheckInv ==
  ASSUME IndInv, NEW t \in Threads, MunmapCheck(t), UNCHANGED clientVars
  PROVE  IndInv'
  <1> USE VbAssumption, ClientAssumption DEF IndInv, ClientTypeOK, TypeOK,
        MunmapCheck, Goto
  <1>1. ClientTypeOK'
    BY ReturnType DEF Pcs, LockedPcs
  <1>2. MutualExclusion' /\ MainAlone' /\ MapPinned' /\ CallsAllowed'
    BY DEF MutualExclusion, LockedPcs, Return, MainAlone, MapPinned, LifePcs,
       TableEmpty, CallsAllowed, MapPcs, LookupPcs, RemovePcs
  <1>3. EmptyWhenGone' /\ MapFresh' /\ LookupFresh' /\ CountsMatch'
    BY DEF EmptyWhenGone, TableEmpty, Return, MapFresh, LookupFresh, Mapped,
       CountsMatch, Entering
  <1>4. NoCrash' /\ AddressOfBlock'
    BY DEF NoCrash, Return, AddressOfBlock
  <1>5. MapLive'
    BY DEF MapLive, NeedMap, MainAlone, MapPinned, Return
  <1>6. EntriesFresh'
    BY KeeperStays DEF KeeperPcs, Return, EmptyWhenGone, TableEmpty
  <1>7. WalkAlone' /\ WalkSafe'
    BY WalkStays, HeldStays DEF Walks, Changes, Return
  <1>8. QED
    BY <1>1, <1>2, <1>3, <1>4, <1>5, <1>6, <1>7

\* MunmapPool takes hash_lock (cvi_vb.c:468).
LEMMA MunmapLockInv ==
  ASSUME IndInv, NEW t \in Threads, MunmapLock(t), UNCHANGED clientVars
  PROVE  IndInv'
  <1> USE VbAssumption, ClientAssumption DEF IndInv, ClientTypeOK, TypeOK,
        MunmapLock, Transition, Goto, Acquire
  <1>1. ClientTypeOK'
    BY DEF Pcs, LockedPcs
  <1>2. MainAlone' /\ MapPinned' /\ CallsAllowed' /\ MapLive'
    BY DEF MainAlone, MapPinned, LifePcs, TableEmpty, CallsAllowed, MapPcs,
       LookupPcs, RemovePcs, MapLive, NeedMap
  <1>3. EmptyWhenGone' /\ MapFresh' /\ LookupFresh' /\ CountsMatch'
    BY DEF EmptyWhenGone, TableEmpty, MapFresh, LookupFresh, Mapped,
       CountsMatch, Entering
  <1>4. AddressOfBlock'
    BY DEF AddressOfBlock
  <1>5. MutualExclusion'
    BY DEF MutualExclusion, LockedPcs, MapPinned, MainAlone, MapLive, NeedMap
  <1>6. EntriesFresh'
    BY KeeperStays DEF KeeperPcs
  <1>7. NoCrash'
    BY DEF NoCrash, MapLive, NeedMap, MainAlone, MapPinned
  <1>8. WalkAlone' /\ WalkSafe'
    BY WalkStays, HeldStays DEF Walks, Changes
  <1>9. QED
    BY <1>1, <1>2, <1>3, <1>4, <1>5, <1>6, <1>7, <1>8

\* The entry removed is one no other thread uses, and not a pinned one.
LEMMA MunmapRemoveInv ==
  ASSUME IndInv, NEW t \in Threads, MunmapRemove(t), UNCHANGED clientVars
  PROVE  IndInv'
  <1> USE VbAssumption, ClientAssumption DEF IndInv, ClientTypeOK, TypeOK,
        MunmapRemove, Goto, UseHash, Mapped
  <1>0. /\ ref' \in [Threads -> {"none", "held", "freed"}]
        /\ \A u \in Threads : ref'[u] # ref[u] => arg[u] = arg[t] /\ pc[u] # "d_walk"
    BY NoWalkers DEF FreeUnder, Lookups, Walkers
  <1>1. ClientTypeOK'
    <2>1. pc' \in [Threads -> Pcs]
      BY DEF Pcs, LockedPcs
    <2>2. nmap' \in [Pools -> Nat]
      <3>1. \A n \in Nat : (IF n > 0 THEN n - 1 ELSE n) \in Nat
        OBVIOUS
      <3>2. QED
        BY <3>1
    <2>3. table' \in [Pools -> Nat]
      OBVIOUS
    <2>4. ref' \in [Threads -> {"none", "held", "freed"}]
      BY <1>0
    <2>5. QED
      BY <2>1, <2>2, <2>3, <2>4
  <1>2. MutualExclusion' /\ MainAlone' /\ CallsAllowed' /\ MapLive'
    BY DEF MutualExclusion, LockedPcs, MainAlone, CallsAllowed, MapPcs,
       LookupPcs, RemovePcs, MapLive, NeedMap
  <1>3. EmptyWhenGone' /\ AddressOfBlock'
    BY DEF EmptyWhenGone, TableEmpty, AddressOfBlock
  <1>4. MapPinned'
    BY DEF MapPinned, LifePcs, TableEmpty, CallsAllowed, RemovePcs
  <1>5. MapFresh'
    BY Separation DEF MapFresh
  <1>6. LookupFresh'
    BY <1>0, Separation DEF LookupFresh, LookupPcs, RemovePcs
  <1>7. EntriesFresh'
    BY KeeperStays DEF KeeperPcs, EmptyWhenGone, TableEmpty
  <1>8. CountsMatch'
    BY DEF CountsMatch, Entering, MutualExclusion, LockedPcs
  <1>9. NoCrash'
    BY DEF NoCrash, MapLive, NeedMap
  <1>10. WalkAlone' /\ WalkSafe'
    <2>1. WalkAlone'
      BY WalkStays DEF Walks, Changes
    <2>2. WalkSafe'
      BY <1>0 DEF WalkSafe
    <2>3. QED
      BY <2>1, <2>2
  <1>11. QED
    BY <1>1, <1>2, <1>3, <1>4, <1>5, <1>6, <1>7, <1>8, <1>9, <1>10

\* MunmapPool gives hash_lock back before it looks at the size.
LEMMA MunmapUnlockInv ==
  ASSUME IndInv, NEW t \in Threads, MunmapUnlock(t), UNCHANGED clientVars
  PROVE  IndInv'
  <1> USE VbAssumption, ClientAssumption DEF IndInv, ClientTypeOK, TypeOK,
        MunmapUnlock, Transition, Goto, Release
  <1>1. ClientTypeOK'
    BY DEF Pcs, LockedPcs
  <1>2. MutualExclusion' /\ MainAlone' /\ MapPinned' /\ CallsAllowed'
    BY DEF MutualExclusion, LockedPcs, MainAlone, MapPinned, LifePcs,
       TableEmpty, CallsAllowed, MapPcs, LookupPcs, RemovePcs
  <1>3. MapLive' /\ EmptyWhenGone' /\ MapFresh' /\ LookupFresh'
    BY DEF MapLive, NeedMap, EmptyWhenGone, TableEmpty, MapFresh, LookupFresh,
       Mapped
  <1>4. CountsMatch' /\ NoCrash' /\ AddressOfBlock'
    BY DEF CountsMatch, Mapped, Entering, NoCrash, AddressOfBlock
  <1>5. EntriesFresh'
    BY KeeperStays DEF KeeperPcs
  <1>6. WalkAlone' /\ WalkSafe'
    BY WalkStays, HeldStays DEF Walks, Changes
  <1>7. QED
    BY <1>1, <1>2, <1>3, <1>4, <1>5, <1>6

\* Only Main alone finds the map empty: otherwise a pinned pool is in it.
LEMMA MunmapSizeInv ==
  ASSUME IndInv, NEW t \in Threads, MunmapSize(t), UNCHANGED clientVars
  PROVE  IndInv'
  <1> USE VbAssumption, ClientAssumption DEF IndInv, ClientTypeOK, TypeOK,
        MunmapSize, Goto, UseHash, TableEmpty
  <1>1. ClientTypeOK'
    BY ReturnType DEF Pcs, LockedPcs
  <1>2. MutualExclusion' /\ MainAlone' /\ MapPinned' /\ CallsAllowed'
    BY DEF MutualExclusion, LockedPcs, Return, MainAlone, MapPinned, LifePcs,
       TableEmpty, CallsAllowed, MapPcs, LookupPcs, RemovePcs
  <1>3. MapLive' /\ EmptyWhenGone' /\ MapFresh' /\ LookupFresh'
    BY DEF MapLive, NeedMap, Return, EmptyWhenGone, TableEmpty, MapFresh,
       LookupFresh, Mapped
  <1>4. CountsMatch' /\ AddressOfBlock'
    BY DEF CountsMatch, Mapped, Entering, Return, AddressOfBlock
  <1>5. EntriesFresh'
    BY KeeperStays DEF KeeperPcs, Return
  <1>6. NoCrash'
    BY DEF NoCrash, MapLive, NeedMap
  <1>7. WalkAlone' /\ WalkSafe'
    BY WalkStays, HeldStays DEF Walks, Changes, Return
  <1>8. QED
    BY <1>1, <1>2, <1>3, <1>4, <1>5, <1>6, <1>7

\* The map is freed when nobody else is inside a call (cvi_vb.c:487).
LEMMA MunmapFreeInv ==
  ASSUME IndInv, NEW t \in Threads, MunmapFree(t), UNCHANGED clientVars
  PROVE  IndInv'
  <1> USE VbAssumption, ClientAssumption DEF IndInv, ClientTypeOK, TypeOK,
        MunmapFree, Transition, Goto, UseHash
  <1>0. UNCHANGED ref
    BY NoWalkers DEF FreeUnder
  <1>1. ClientTypeOK'
    BY <1>0 DEF Pcs, LockedPcs
  <1>2. MutualExclusion' /\ MainAlone' /\ MapPinned' /\ CallsAllowed'
    BY DEF MutualExclusion, LockedPcs, MainAlone, MapPinned, LifePcs,
       TableEmpty, CallsAllowed, MapPcs, LookupPcs, RemovePcs
  <1>3. EmptyWhenGone' /\ MapFresh' /\ AddressOfBlock'
    BY DEF EmptyWhenGone, TableEmpty, MapFresh, AddressOfBlock
  <1>4. MapLive'
    BY DEF MapLive, NeedMap, MainAlone, MapPinned, TableEmpty, EmptyWhenGone
  <1>5. LookupFresh'
    BY <1>0 DEF LookupFresh, Mapped, MainAlone, MapPinned, LifePcs
  <1>6. EntriesFresh'
    BY KeeperStays DEF KeeperPcs
  <1>7. CountsMatch'
    BY DEF CountsMatch, Mapped, Entering, EmptyWhenGone, TableEmpty
  <1>8. NoCrash'
    BY DEF NoCrash, MapLive, NeedMap
  <1>9. WalkAlone' /\ WalkSafe'
    BY <1>0, WalkStays, HeldStays DEF Walks, Changes
  <1>10. QED
    BY <1>1, <1>2, <1>3, <1>4, <1>5, <1>6, <1>7, <1>8, <1>9

\* The pointer to the freed map is reset.
LEMMA MunmapNullInv ==
  ASSUME IndInv, NEW t \in Threads, MunmapNull(t), UNCHANGED clientVars
  PROVE  IndInv'
  <1> USE VbAssumption, ClientAssumption DEF IndInv, ClientTypeOK, TypeOK,
        MunmapNull, Transition, Goto
  <1>1. ClientTypeOK'
    BY DEF Pcs, LockedPcs
  <1>2. MutualExclusion' /\ MainAlone' /\ MapPinned' /\ CallsAllowed'
    BY DEF MutualExclusion, LockedPcs, MainAlone, MapPinned, LifePcs,
       TableEmpty, CallsAllowed, MapPcs, LookupPcs, RemovePcs
  <1>3. MapLive' /\ MapFresh' /\ NoCrash' /\ AddressOfBlock'
    BY DEF MapLive, NeedMap, MapFresh, NoCrash, AddressOfBlock
  <1>4. EmptyWhenGone'
    BY DEF EmptyWhenGone, TableEmpty, MapLive
  <1>5. LookupFresh'
    BY DEF LookupFresh, Mapped, MapLive
  <1>6. EntriesFresh'
    BY KeeperStays DEF KeeperPcs
  <1>7. CountsMatch'
    BY DEF CountsMatch, Mapped, Entering, MapLive
  <1>8. WalkAlone' /\ WalkSafe'
    BY WalkStays, HeldStays DEF Walks, Changes
  <1>9. QED
    BY <1>1, <1>2, <1>3, <1>4, <1>5, <1>6, <1>7, <1>8

\* hash_lock is destroyed when there is no map (cvi_vb.c:489).
LEMMA MunmapDestroyLockInv ==
  ASSUME IndInv, NEW t \in Threads, MunmapDestroyLock(t), UNCHANGED clientVars
  PROVE  IndInv'
  <1> USE VbAssumption, ClientAssumption DEF IndInv, ClientTypeOK, TypeOK,
        MunmapDestroyLock, Goto
  <1>1. ClientTypeOK'
    BY ReturnType DEF Pcs, LockedPcs
  <1>2. MutualExclusion' /\ MainAlone' /\ MapPinned' /\ CallsAllowed'
    BY DEF MutualExclusion, LockedPcs, Return, MainAlone, MapPinned, LifePcs,
       TableEmpty, CallsAllowed, MapPcs, LookupPcs, RemovePcs
  <1>3. MapLive' /\ EmptyWhenGone' /\ MapFresh' /\ LookupFresh'
    BY DEF MapLive, NeedMap, Return, EmptyWhenGone, TableEmpty, MapFresh,
       LookupFresh, Mapped
  <1>4. CountsMatch' /\ NoCrash' /\ AddressOfBlock'
    BY DEF CountsMatch, Mapped, Entering, Return, NoCrash, AddressOfBlock
  <1>5. EntriesFresh'
    BY KeeperStays DEF KeeperPcs, Return
  <1>6. WalkAlone' /\ WalkSafe'
    BY WalkStays, HeldStays DEF Walks, Changes, Return
  <1>7. QED
    BY <1>1, <1>2, <1>3, <1>4, <1>5, <1>6

\* GetBlockVirAddr looks whether there is a map.
LEMMA LookupCheckInv ==
  ASSUME IndInv, NEW t \in Threads, LookupCheck(t), UNCHANGED clientVars
  PROVE  IndInv'
  <1> USE VbAssumption, ClientAssumption DEF IndInv, ClientTypeOK, TypeOK,
        LookupCheck, Goto
  <1>1. ClientTypeOK'
    BY ReturnType DEF Pcs, LockedPcs
  <1>2. MutualExclusion' /\ MainAlone' /\ MapPinned' /\ CallsAllowed'
    BY DEF MutualExclusion, LockedPcs, Return, MainAlone, MapPinned, LifePcs,
       TableEmpty, CallsAllowed, MapPcs, LookupPcs, RemovePcs
  <1>3. EmptyWhenGone' /\ MapFresh' /\ LookupFresh' /\ CountsMatch'
    BY DEF EmptyWhenGone, TableEmpty, Return, MapFresh, LookupFresh, Mapped,
       CountsMatch, Entering
  <1>4. NoCrash' /\ AddressOfBlock'
    BY DEF NoCrash, Return, AddressOfBlock
  <1>5. MapLive'
    BY DEF MapLive, NeedMap, MainAlone, MapPinned, Return
  <1>6. EntriesFresh'
    BY KeeperStays DEF KeeperPcs, Return
  <1>7. WalkAlone' /\ WalkSafe'
    <2>1. WalkAlone'
      BY WalkStays DEF Walks, Changes, Return
    <2>2. WalkSafe'
      BY HeldStays DEF Return
    <2>3. QED
      BY <2>1, <2>2
  <1>8. QED
    BY <1>1, <1>2, <1>3, <1>4, <1>5, <1>6, <1>7

\* GetBlockVirAddr takes hash_lock.
LEMMA LookupLockInv ==
  ASSUME IndInv, NEW t \in Threads, LookupLock(t), UNCHANGED clientVars
  PROVE  IndInv'
  <1> USE VbAssumption, ClientAssumption DEF IndInv, ClientTypeOK, TypeOK,
        LookupLock, Transition, Goto, Acquire
  <1>1. ClientTypeOK'
    BY DEF Pcs, LockedPcs
  <1>2. MainAlone' /\ MapPinned' /\ CallsAllowed' /\ MapLive'
    BY DEF MainAlone, MapPinned, LifePcs, TableEmpty, CallsAllowed, MapPcs,
       LookupPcs, RemovePcs, MapLive, NeedMap
  <1>3. EmptyWhenGone' /\ MapFresh' /\ LookupFresh' /\ CountsMatch'
    BY DEF EmptyWhenGone, TableEmpty, MapFresh, LookupFresh, Mapped,
       CountsMatch, Entering
  <1>4. AddressOfBlock'
    BY DEF AddressOfBlock
  <1>5. MutualExclusion'
    BY DEF MutualExclusion, LockedPcs, MapPinned, MainAlone, MapLive, NeedMap
  <1>6. EntriesFresh'
    BY KeeperStays DEF KeeperPcs
  <1>7. NoCrash'
    BY DEF NoCrash, MapLive, NeedMap, MainAlone, MapPinned
  <1>8. WalkAlone' /\ WalkSafe'
    BY WalkStays, HeldStays DEF Walks, Changes
  <1>9. QED
    BY <1>1, <1>2, <1>3, <1>4, <1>5, <1>6, <1>7, <1>8

\* The pointer to the entry is kept; the entry is one nobody removes.
LEMMA LookupGetInv ==
  ASSUME IndInv, NEW t \in Threads, LookupGet(t), UNCHANGED clientVars
  PROVE  IndInv'
  <1> USE VbAssumption, ClientAssumption DEF IndInv, ClientTypeOK, TypeOK,
        LookupGet, Goto, UseHash, Mapped
  <1>1. ClientTypeOK'
    BY DEF Pcs, LockedPcs
  <1>2. MutualExclusion' /\ MainAlone' /\ MapPinned' /\ CallsAllowed'
    BY DEF MutualExclusion, LockedPcs, MainAlone, MapPinned, LifePcs,
       TableEmpty, CallsAllowed, MapPcs, LookupPcs, RemovePcs
  <1>3. MapLive' /\ EmptyWhenGone' /\ MapFresh' /\ LookupFresh'
    BY DEF MapLive, NeedMap, EmptyWhenGone, TableEmpty, MapFresh, LookupFresh,
       Mapped
  <1>4. CountsMatch' /\ AddressOfBlock'
    BY DEF CountsMatch, Mapped, Entering, AddressOfBlock
  <1>5. EntriesFresh'
    BY KeeperStays DEF KeeperPcs
  <1>6. NoCrash'
    BY DEF NoCrash, MapLive, NeedMap
  <1>7. WalkAlone' /\ WalkSafe'
    BY WalkStays, HeldStays DEF Walks, Changes
  <1>8. QED
    BY <1>1, <1>2, <1>3, <1>4, <1>5, <1>6, <1>7

\* GetBlockVirAddr gives hash_lock back and goes on with the entry.
LEMMA LookupUnlockInv ==
  ASSUME IndInv, NEW t \in Threads, LookupUnlock(t), UNCHANGED clientVars
  PROVE  IndInv'
  <1> USE VbAssumption, ClientAssumption DEF IndInv, ClientTypeOK, TypeOK,
        LookupUnlock, Transition, Goto, Release
  <1>1. ClientTypeOK'
    BY DEF Pcs, LockedPcs
  <1>2. MutualExclusion' /\ MainAlone' /\ MapPinned' /\ CallsAllowed'
    BY DEF MutualExclusion, LockedPcs, MainAlone, MapPinned, LifePcs,
       TableEmpty, CallsAllowed, MapPcs, LookupPcs, RemovePcs
  <1>3. MapLive' /\ EmptyWhenGone' /\ MapFresh' /\ LookupFresh'
    BY DEF MapLive, NeedMap, EmptyWhenGone, TableEmpty, MapFresh, LookupFresh,
       Mapped
  <1>4. CountsMatch' /\ NoCrash' /\ AddressOfBlock'
    BY DEF CountsMatch, Mapped, Entering, NoCrash, AddressOfBlock
  <1>5. EntriesFresh'
    BY KeeperStays DEF KeeperPcs
  <1>6. WalkAlone' /\ WalkSafe'
    BY WalkStays, HeldStays DEF Walks, Changes
  <1>7. QED
    BY <1>1, <1>2, <1>3, <1>4, <1>5, <1>6

\* The block is found to be of the pool that was looked up.
LEMMA LookupPoolInv ==
  ASSUME IndInv, NEW t \in Threads, LookupPool(t), UNCHANGED clientVars
  PROVE  IndInv'
  <1> USE VbAssumption, ClientAssumption DEF IndInv, ClientTypeOK, TypeOK,
        LookupPool, Goto, BlockLive
  <1>1. ClientTypeOK'
    BY ReturnType DEF Pcs, LockedPcs
  <1>2. MutualExclusion' /\ MainAlone' /\ MapPinned' /\ CallsAllowed'
    BY DEF MutualExclusion, LockedPcs, Return, MainAlone, MapPinned, LifePcs,
       TableEmpty, CallsAllowed, MapPcs, LookupPcs, RemovePcs
  <1>3. MapLive' /\ EmptyWhenGone' /\ MapFresh' /\ LookupFresh'
    BY DEF MapLive, NeedMap, Return, EmptyWhenGone, TableEmpty, MapFresh,
       LookupFresh, Mapped
  <1>4. CountsMatch' /\ NoCrash' /\ AddressOfBlock'
    BY DEF CountsMatch, Mapped, Entering, Return, NoCrash, AddressOfBlock
  <1>5. EntriesFresh'
    BY KeeperStays DEF KeeperPcs, Return
  <1>6. WalkAlone' /\ WalkSafe'
    BY WalkStays, HeldStays DEF Walks, Changes, Return
  <1>7. QED
    BY <1>1, <1>2, <1>3, <1>4, <1>5, <1>6

\* The address computed is in a live mapping of the block's pool.
LEMMA LookupAddrInv ==
  ASSUME IndInv, NEW t \in Threads, LookupAddr(t), UNCHANGED clientVars
  PROVE  IndInv'
  <1> USE VbAssumption, ClientAssumption DEF IndInv, ClientTypeOK, TypeOK,
        LookupAddr, Goto, BlockLive
  <1>1. ClientTypeOK'
    BY ReturnType DEF Pcs, LockedPcs
  <1>2. MutualExclusion' /\ MainAlone' /\ MapPinned' /\ CallsAllowed'
    BY DEF MutualExclusion, LockedPcs, Return, MainAlone, MapPinned, LifePcs,
       TableEmpty, CallsAllowed, MapPcs, LookupPcs, RemovePcs
  <1>3. MapLive' /\ EmptyWhenGone' /\ MapFresh' /\ LookupFresh'
    BY DEF MapLive, NeedMap, Return, EmptyWhenGone, TableEmpty, MapFresh,
       LookupFresh, Mapped
  <1>4. CountsMatch' /\ NoCrash'
    BY DEF CountsMatch, Mapped, Entering, Return, NoCrash
  <1>5. EntriesFresh'
    BY KeeperStays DEF KeeperPcs, Return
  <1>6. AddressOfBlock'
    BY DEF AddressOfBlock, LookupFresh, Mapped, EntriesFresh, KeeperPcs,
       Keeper, CallsAllowed, MapPcs, LookupPcs, RemovePcs, MainAlone
  <1>7. WalkAlone' /\ WalkSafe'
    BY WalkStays, HeldStays DEF Walks, Changes, Return
  <1>8. QED
    BY <1>1, <1>2, <1>3, <1>4, <1>5, <1>6, <1>7

\* The pool goes while its entry is still there: its keeper is the caller.
LEMMA DestroyIoctlInv ==
  ASSUME IndInv, NEW t \in Threads, DestroyIoctl(t), UNCHANGED clientVars
  PROVE  IndInv'
  <1> USE VbAssumption, ClientAssumption DEF IndInv, ClientTypeOK, TypeOK,
        DestroyIoctl, Goto
  <1>1. ClientTypeOK'
    BY ReturnType DEF Pcs, LockedPcs
  <1>2. MutualExclusion' /\ MainAlone' /\ CallsAllowed' /\ MapLive'
    BY DEF MutualExclusion, LockedPcs, Return, MainAlone, CallsAllowed,
       MapPcs, LookupPcs, RemovePcs, MapLive, NeedMap
  <1>3. EmptyWhenGone' /\ CountsMatch' /\ NoCrash' /\ AddressOfBlock'
    BY DEF EmptyWhenGone, TableEmpty, Return, CountsMatch, Mapped, Entering,
       NoCrash, AddressOfBlock
  <1>4. MapPinned'
    BY DEF MapPinned, LifePcs, TableEmpty, CallsAllowed, RemovePcs, Return
  <1>5. MapFresh'
    BY Separation DEF MapFresh, MapPcs, RemovePcs, Return
  <1>6. LookupFresh'
    BY Separation DEF LookupFresh, Mapped, MapPinned, Return
  <1>7. EntriesFresh'
    <2> SUFFICES ASSUME NEW p \in Pools, table'[p] # 0, table'[p] # pool'[p]
                 PROVE  pc'[Keeper(p)] \in KeeperPcs /\ arg'[Keeper(p)] = p
      BY KeeperFixed DEF EntriesFresh
    <2>1. CASE p = arg[t]
      <3>1. Keeper(p) = t
        BY <2>1 DEF Keeper, CallsAllowed, MainAlone, RemovePcs
      <3>2. table[p] # pool'[p] /\ UNCHANGED table
        OBVIOUS
      <3>3. CASE pc'[t] = "d_check"
        BY <2>1, <3>1, <3>3 DEF KeeperPcs, Return
      <3>4. CASE pool' = pool
        BY <2>1, <3>1, <3>4 DEF EntriesFresh, KeeperPcs
      <3>5. QED
        BY <3>3, <3>4
    <2>2. CASE p # arg[t]
      <3>1. table[p] # 0 /\ table[p] # pool[p]
        BY <2>2
      <3>2. pc[Keeper(p)] \in KeeperPcs /\ arg[Keeper(p)] = p
        BY <3>1 DEF EntriesFresh
      <3>3. Keeper(p) # t /\ Keeper(p) \in Threads
        BY <2>2, <3>2, KeeperFixed
      <3>4. pc'[Keeper(p)] = pc[Keeper(p)] /\ arg'[Keeper(p)] = arg[Keeper(p)]
        BY <3>3 DEF Return
      <3>5. QED
        BY <3>2, <3>4
    <2>3. QED
      BY <2>1, <2>2
  <1>8. WalkAlone' /\ WalkSafe'
    BY WalkStays, HeldStays DEF Walks, Changes, Return
  <1>9. QED
    BY <1>1, <1>2, <1>3, <1>4, <1>5, <1>6, <1>7, <1>8

\* DestroyPool enters the map without the lock.
LEMMA DestroyCheckInv ==
  ASSUME IndInv, NEW t \in Threads, DestroyCheck(t), UNCHANGED clientVars
  PROVE  IndInv'
  <1> USE VbAssumption, ClientAssumption DEF IndInv, ClientTypeOK, TypeOK,
        DestroyCheck, Goto, Mapped
  <1>1. ClientTypeOK'
    BY ReturnType DEF Pcs, LockedPcs
  <1>2. MutualExclusion' /\ MainAlone' /\ MapPinned' /\ CallsAllowed'
    BY DEF MutualExclusion, LockedPcs, Return, MainAlone, MapPinned, LifePcs,
       TableEmpty, CallsAllowed, MapPcs, LookupPcs, RemovePcs
  <1>3. MapLive' /\ EmptyWhenGone' /\ MapFresh' /\ LookupFresh'
    BY DEF MapLive, NeedMap, Return, EmptyWhenGone, TableEmpty, MapFresh,
       LookupFresh, Mapped
  <1>4. CountsMatch' /\ AddressOfBlock'
    BY DEF CountsMatch, Mapped, Entering, Return, AddressOfBlock
  <1>5. EntriesFresh'
    BY KeeperStays DEF KeeperPcs, Return, EmptyWhenGone, TableEmpty
  <1>6. NoCrash'
    BY DEF NoCrash, MapLive, MainAlone, MapPinned
  <1>7. WalkAlone' /\ WalkSafe'
    BY WalkStays, HeldStays DEF Walks, Changes, Return
  <1>8. QED
    BY <1>1, <1>2, <1>3, <1>4, <1>5, <1>6, <1>7

\* DestroyPool goes on to unmap what its walk has found.
LEMMA DestroyWalkInv ==
  ASSUME IndInv, NEW t \in Threads, DestroyWalk(t), UNCHANGED clientVars
  PROVE  IndInv'
  <1> USE VbAssumption, ClientAssumption DEF IndInv, ClientTypeOK, TypeOK,
        DestroyWalk, Goto, Mapped
  <1>1. ClientTypeOK'
    BY ReturnType DEF Pcs, LockedPcs
  <1>2. MutualExclusion' /\ MainAlone' /\ MapPinned' /\ CallsAllowed'
    BY DEF MutualExclusion, LockedPcs, Return, MainAlone, MapPinned, LifePcs,
       TableEmpty, CallsAllowed, MapPcs, LookupPcs, RemovePcs
  <1>3. MapLive' /\ EmptyWhenGone' /\ MapFresh' /\ LookupFresh'
    BY DEF MapLive, NeedMap, Return, EmptyWhenGone, TableEmpty, MapFresh,
       LookupFresh, Mapped
  <1>4. CountsMatch' /\ AddressOfBlock'
    BY DEF CountsMatch, Mapped, Entering, Return, AddressOfBlock
  <1>5. EntriesFresh'
    BY KeeperStays DEF KeeperPcs, Return, EmptyWhenGone, TableEmpty
  <1>6. NoCrash'
    BY DEF NoCrash, WalkSafe
  <1>7. WalkAlone' /\ WalkSafe'
    BY WalkStays, HeldStays DEF Walks, Changes, Return
  <1>8. QED
    BY <1>1, <1>2, <1>3, <1>4, <1>5, <1>6, <1>7

-----------------------------------------------------------------------------
\* The calls, the two changes of phase and the initial state.

\* A call that the discipline allows begins.
LEMMA BeginInv ==
  ASSUME IndInv, NEW t \in Threads, NEW op \in Operations, NEW p \in Pools,
         MayCall(t, op, p), Begin(t, op, p), UNCHANGED clientVars
  PROVE  IndInv'
  <1> USE VbAssumption, ClientAssumption
          DEF IndInv, ClientTypeOK, TypeOK, Begin, Goto, Operations, FirstPc
  <1>1. ClientTypeOK'
    <2>1. FirstPc(op) \in Pcs
      BY DEF Pcs
    <2>2. \A q \in Pools : [pool |-> q, base |-> pool[q]] \in Blocks
      BY DEF Blocks
    <2>3. blk' \in [Threads -> Blocks]
      BY <2>2
    <2>4. QED
      BY <2>1, <2>3
  <1>2. MutualExclusion'
    BY DEF MutualExclusion, LockedPcs
  <1>3. MainAlone'
    BY DEF MainAlone, MayCall
  <1>4. MapPinned'
    BY DEF MapPinned, LifePcs
  <1>5. CallsAllowed'
    BY DEF CallsAllowed, MapPcs, LookupPcs, RemovePcs, MayCall
  <1>6. MapLive'
    BY DEF MapLive, NeedMap, MayCall, MainAlone
  <1>7. EmptyWhenGone'
    BY DEF EmptyWhenGone, TableEmpty
  <1>8. MapFresh'
    BY DEF MapFresh
  <1>9. LookupFresh'
    BY DEF LookupFresh, Mapped
  <1>10. EntriesFresh'
    BY KeeperStays DEF KeeperPcs
  <1>11. CountsMatch'
    BY DEF CountsMatch, Mapped, Entering
  <1>12. NoCrash'
    BY DEF NoCrash
  <1>13. AddressOfBlock'
    BY DEF AddressOfBlock
  <1>14. WalkAlone'
    <2> SUFFICES ASSUME phase = "shared", NEW u \in Threads, NEW w \in Threads,
                        u # w, Walks(u)'
                 PROVE  ~Walks(w)' /\ ~Changes(w)'
      BY DEF WalkAlone
    <2>1. \A v \in Threads \ {t} : pc'[v] = pc[v] /\ arg'[v] = arg[v]
      OBVIOUS
    <2>2. CASE u = t
      <3>1. op = "DestroyPool"
        BY <2>2 DEF Walks
      <3>2. ~Walks(w) /\ ~Changes(w)
        BY <2>2, <3>1 DEF MayCall, OwnerMayCall
      <3>3. QED
        BY <2>1, <2>2, <3>2 DEF Walks, Changes
    <2>3. CASE w = t
      <3>1. Walks(u)
        BY <2>1, <2>3 DEF Walks
      <3>2. CASE p \in pinned
        BY <2>3, <3>1, <3>2 DEF MayCall, Walks, Changes
      <3>3. CASE p \notin pinned
        <4>1. OwnerMayCall(t, op)
          BY <3>3 DEF MayCall
        <4>2. u \in Threads \ {t}
          BY <2>3
        <4>3. op = "GetBlockVirAddr"
          BY <3>1, <4>1, <4>2 DEF OwnerMayCall
        <4>4. QED
          BY <2>3, <4>3 DEF Walks, Changes
      <3>4. QED
        BY <3>2, <3>3
    <2>4. CASE u # t /\ w # t
      BY <2>1, <2>4 DEF WalkAlone, Walks, Changes
    <2>5. QED
      BY <2>2, <2>3, <2>4
  <1>15. WalkSafe'
    BY DEF WalkSafe
  <1>16. QED
    BY <1>1, <1>2, <1>3, <1>4, <1>5, <1>6, <1>7, <1>8, <1>9, <1>10, <1>11, <1>12, <1>13, <1>14, <1>15

\* A new pool has an id that is not in use, so no entry becomes stale.
LEMMA CreatePoolInv ==
  ASSUME IndInv, NEW t \in Threads, CreatePool(t), UNCHANGED clientVars
  PROVE  IndInv'
  <1> USE VbAssumption, ClientAssumption
          DEF IndInv, ClientTypeOK, TypeOK, CreatePool
  <1>1. ClientTypeOK'
    OBVIOUS
  <1>2. MutualExclusion' /\ MainAlone'
    BY DEF MutualExclusion, MainAlone
  <1>3. MapPinned'
    BY DEF MapPinned
  <1>4. CallsAllowed' /\ MapLive' /\ EmptyWhenGone'
    BY DEF CallsAllowed, MapLive, EmptyWhenGone, TableEmpty
  <1>5. MapFresh'
    BY DEF MapFresh
  <1>6. LookupFresh'
    BY DEF LookupFresh, Mapped
  <1>7. EntriesFresh'
    BY DEF EntriesFresh, Keeper
  <1>8. CountsMatch' /\ NoCrash' /\ AddressOfBlock'
    BY DEF CountsMatch, Mapped, Entering, NoCrash, AddressOfBlock
  <1>9. WalkAlone' /\ WalkSafe'
    BY DEF WalkAlone, Walks, Changes, WalkSafe
  <1>10. QED
    BY <1>1, <1>2, <1>3, <1>4, <1>5, <1>6, <1>7, <1>8, <1>9

\* CVI_VB_Init does not touch the table.
LEMMA VbInitInv ==
  ASSUME IndInv, NEW t \in Threads, VbInit(t), UNCHANGED clientVars
  PROVE  IndInv'
  BY DEF VbInit, IndInv, ClientTypeOK, TypeOK, MutualExclusion, MainAlone,
         MapPinned, CallsAllowed, MapLive, EmptyWhenGone, TableEmpty, MapFresh,
         LookupFresh, Mapped, EntriesFresh, Keeper, CountsMatch, Entering,
         WalkAlone, Walks, Changes, WalkSafe, NoCrash, AddressOfBlock

\* CVI_VB_Exit leaves no stale entry when nothing is mapped.
LEMMA VbExitInv ==
  ASSUME IndInv, NEW t \in Threads, phase = "single", t = Main, TableEmpty,
         VbExit(t), UNCHANGED clientVars
  PROVE  IndInv'
  <1> USE VbAssumption, ClientAssumption
          DEF IndInv, ClientTypeOK, TypeOK, VbExit, TableEmpty
  <1>1. ClientTypeOK'
    OBVIOUS
  <1>2. MutualExclusion' /\ MainAlone'
    BY DEF MutualExclusion, MainAlone
  <1>3. MapPinned' /\ CallsAllowed' /\ MapLive' /\ EmptyWhenGone'
    BY DEF MapPinned, CallsAllowed, MapLive, EmptyWhenGone
  <1>4. MapFresh'
    BY DEF MapFresh, MainAlone
  <1>5. LookupFresh'
    BY DEF LookupFresh, Mapped
  <1>6. EntriesFresh'
    BY DEF EntriesFresh
  <1>7. CountsMatch' /\ NoCrash' /\ AddressOfBlock'
    BY DEF CountsMatch, Mapped, Entering, NoCrash, AddressOfBlock
  <1>8. WalkAlone' /\ WalkSafe'
    BY DEF WalkAlone, Walks, Changes, WalkSafe
  <1>9. QED
    BY <1>1, <1>2, <1>3, <1>4, <1>5, <1>6, <1>7, <1>8

\* The pools that are pinned are mapped for the pools the kernel has.
LEMMA ShareInv ==
  ASSUME IndInv, Share
  PROVE  IndInv'
  <1> USE VbAssumption, ClientAssumption
          DEF IndInv, ClientTypeOK, TypeOK, Share, Quiet
  <1>1. ClientTypeOK'
    OBVIOUS
  <1>2. MutualExclusion' /\ MainAlone'
    BY DEF MutualExclusion, MainAlone
  <1>3. MapPinned'
    <2> DEFINE Fit == {p \in Pools : Mapped(p) /\ table[p] = pool[p]}
    <2>1. pinned' \in SUBSET Fit /\ pinned' # {}
      OBVIOUS
    <2>2. \A p \in pinned' : Mapped(p) /\ table[p] = pool[p]
      BY <2>1
    <2>3. hash = "live" /\ lock # "dead"
      BY <2>1, <2>2 DEF Mapped, MapLive
    <2>4. \A p \in pinned' : table[p] # 0 /\ table[p] = pool[p]
      BY <2>2 DEF Mapped
    <2>5. QED
      BY <2>1, <2>2, <2>3, <2>4 DEF MapPinned, LifePcs
  <1>4. CallsAllowed'
    BY DEF CallsAllowed, MapPcs, LookupPcs, RemovePcs
  <1>5. MapLive'
    BY DEF MapLive, NeedMap
  <1>6. EmptyWhenGone'
    BY DEF EmptyWhenGone, TableEmpty
  <1>7. MapFresh' /\ LookupFresh'
    BY DEF MapFresh, LookupFresh
  <1>8. EntriesFresh'
    BY DEF EntriesFresh, KeeperPcs, Keeper
  <1>9. CountsMatch' /\ NoCrash' /\ AddressOfBlock'
    BY DEF CountsMatch, Mapped, Entering, NoCrash, AddressOfBlock
  <1>10. WalkAlone' /\ WalkSafe'
    BY DEF WalkAlone, Walks, WalkSafe
  <1>11. QED
    BY <1>1, <1>2, <1>3, <1>4, <1>5, <1>6, <1>7, <1>8, <1>9, <1>10

\* When the threads have been joined no call is in progress.
LEMMA JoinInv ==
  ASSUME IndInv, Join
  PROVE  IndInv'
  <1> USE VbAssumption, ClientAssumption
          DEF IndInv, ClientTypeOK, TypeOK, Join, Quiet
  <1>1. ClientTypeOK' /\ MutualExclusion' /\ MainAlone'
    BY DEF MutualExclusion, MainAlone
  <1>2. MapPinned' /\ CallsAllowed' /\ MapLive' /\ EmptyWhenGone'
    BY DEF MapPinned, CallsAllowed, MapLive, NeedMap, EmptyWhenGone, TableEmpty
  <1>3. MapFresh' /\ LookupFresh'
    BY DEF MapFresh, LookupFresh
  <1>4. EntriesFresh'
    BY DEF EntriesFresh, KeeperPcs, Keeper
  <1>5. CountsMatch' /\ NoCrash' /\ AddressOfBlock'
    BY DEF CountsMatch, Mapped, Entering, NoCrash, AddressOfBlock
  <1>6. WalkAlone' /\ WalkSafe'
    BY DEF WalkAlone, WalkSafe
  <1>7. QED
    BY <1>1, <1>2, <1>3, <1>4, <1>5, <1>6

\* The initial state satisfies the invariant.
LEMMA InitInv == ClientInit => IndInv
  <1> SUFFICES ASSUME ClientInit PROVE IndInv
    OBVIOUS
  <1> USE VbAssumption, ClientAssumption, NoBlockType DEF ClientInit, Init
  <1>1. ClientTypeOK
    BY DEF ClientTypeOK, TypeOK, Pcs
  <1>2. MutualExclusion /\ MainAlone /\ MapPinned /\ CallsAllowed
    BY DEF MutualExclusion, LockedPcs, MainAlone, MapPinned, CallsAllowed
  <1>3. MapLive /\ EmptyWhenGone
    BY DEF MapLive, NeedMap, EmptyWhenGone, TableEmpty
  <1>4. MapFresh /\ LookupFresh /\ EntriesFresh
    BY DEF MapFresh, LookupFresh, EntriesFresh
  <1>5. CountsMatch /\ NoCrash /\ AddressOfBlock
    BY DEF CountsMatch, Mapped, Entering, NoCrash, AddressOfBlock
  <1>6. WalkAlone /\ WalkSafe
    BY DEF WalkAlone, WalkSafe
  <1>7. QED
    BY <1>1, <1>2, <1>3, <1>4, <1>5, <1>6 DEF IndInv

\* Every step inside a call preserves the invariant.
LEMMA StepInv ==
  ASSUME IndInv, NEW t \in Threads, ClientStep(t)
  PROVE  IndInv'
  <1> USE DEF ClientStep, Step
  <1>1. CASE MmapStep(t)
    BY <1>1, MmapCheckInv, MmapCreateInv, MmapInitLockInv, MmapLockInv,
       MmapGetInv, MmapMapInv, MmapPutInv, UnlockInv DEF MmapStep
  <1>2. CASE MunmapStep(t)
    BY <1>2, MunmapCheckInv, MunmapLockInv, MunmapRemoveInv, MunmapUnlockInv,
       MunmapSizeInv, MunmapFreeInv, MunmapNullInv, MunmapDestroyLockInv
       DEF MunmapStep
  <1>3. CASE LookupStep(t)
    BY <1>3, LookupCheckInv, LookupLockInv, LookupGetInv, LookupUnlockInv,
       LookupPoolInv, LookupAddrInv DEF LookupStep
  <1>4. CASE DestroyStep(t)
    BY <1>4, DestroyIoctlInv, DestroyCheckInv, DestroyWalkInv DEF DestroyStep
  <1>5. QED
    BY <1>1, <1>2, <1>3, <1>4

\* Every call that begins preserves the invariant.
LEMMA CallInv ==
  ASSUME IndInv, NEW t \in Threads, ClientCall(t)
  PROVE  IndInv'
  BY BeginInv, CreatePoolInv, VbInitInv, VbExitInv DEF ClientCall

\* IndInv is inductive: it holds initially and every step preserves it.
THEOREM Inductive == ClientSpec => []IndInv
  <1>1. IndInv /\ [ClientNext]_cvars => IndInv'
    <2> SUFFICES ASSUME IndInv, [ClientNext]_cvars PROVE IndInv'
      OBVIOUS
    <2>1. ASSUME NEW t \in Threads, ClientCall(t) PROVE IndInv'
      BY <2>1, CallInv
    <2>2. ASSUME NEW t \in Threads, ClientStep(t) PROVE IndInv'
      BY <2>2, StepInv
    <2>3. CASE Share
      BY <2>3, ShareInv
    <2>4. CASE Join
      BY <2>4, JoinInv
    <2>5. CASE UNCHANGED cvars
      BY <2>5 DEF IndInv, ClientTypeOK, TypeOK, MutualExclusion, MainAlone,
         MapPinned, CallsAllowed, MapLive, EmptyWhenGone, TableEmpty, MapFresh,
         LookupFresh, Mapped, EntriesFresh, Keeper, CountsMatch, Entering,
         WalkAlone, Walks, Changes, WalkSafe, NoCrash, AddressOfBlock
    <2>6. QED
      BY <2>1, <2>2, <2>3, <2>4, <2>5 DEF ClientNext
  <1>2. QED
    BY <1>1, InitInv, PTL DEF ClientSpec

-----------------------------------------------------------------------------
\* Every variable keeps its type, whoever is called in which order.
THEOREM TypeCorrect == ClientSpec => []ClientTypeOK
  BY Inductive, PTL DEF IndInv

\* A thread is between lock and unlock of hash_lock exactly when it holds
\* the mutex, although pthread_mutex_init and pthread_mutex_destroy run
\* outside of it (cvi_vb.c:401-404, 486-490).
THEOREM Exclusion == ClientSpec => []MutualExclusion
  BY Inductive, PTL DEF IndInv

\* No call follows a null or freed map, a freed entry or a destroyed mutex.
THEOREM NothingDangles == ClientSpec => []NoDanglingUse
  <1>1. IndInv => NoDanglingUse
    BY DEF IndInv, NoCrash, LookupFresh, WalkSafe, NoDanglingUse
  <1>2. QED
    BY <1>1, Inductive, PTL

\* Mappings and entries correspond one to one, except for a mapping that is
\* just being entered: a pool is never mapped twice, no mapping is lost.
THEOREM OneMappingPerEntry == ClientSpec => []MappingsMatchEntries
  <1>1. IndInv => MappingsMatchEntries
    <2> SUFFICES ASSUME IndInv, NEW p \in Pools
                 PROVE  nmap[p] = (IF Mapped(p) THEN 1 ELSE 0) +
                          (IF \E t \in Threads : pc[t] = "m_put" /\ arg[t] = p
                           THEN 1 ELSE 0)
      BY DEF MappingsMatchEntries
    <2>1. Entering(p) <=> \E t \in Threads : pc[t] = "m_put" /\ arg[t] = p
      BY DEF Entering, IndInv, MutualExclusion, LockedPcs
    <2>2. Entering(p) => ~Mapped(p)
      BY <2>1 DEF IndInv, MapFresh, Mapped
    <2>3. nmap[p] = IF Mapped(p) \/ Entering(p) THEN 1 ELSE 0
      BY DEF IndInv, CountsMatch
    <2>4. QED
      BY <2>1, <2>2, <2>3
  <1>2. QED
    BY <1>1, Inductive, PTL

\* An address that CVI_VB_GetBlockVirAddr returns is the block's own.
THEOREM AddressesAreRight == ClientSpec => []AddressOfBlock
  BY Inductive, PTL DEF IndInv

-----------------------------------------------------------------------------
\* The table implements VbMapSpec.

\* Most steps change nothing the abstract table shows.
HiddenSteps(t) ==
  \/ MmapCheck(t) \/ MmapCreate(t) \/ MmapInitLock(t) \/ MmapLock(t)
  \/ MmapGet(t) \/ MmapMap(t) \/ Unlock(t)
  \/ MunmapCheck(t) \/ MunmapLock(t) \/ MunmapUnlock(t) \/ MunmapSize(t)
  \/ MunmapFree(t) \/ MunmapNull(t) \/ MunmapDestroyLock(t)
  \/ LookupCheck(t) \/ LookupLock(t) \/ LookupGet(t) \/ LookupUnlock(t)
  \/ LookupPool(t) \/ DestroyCheck(t) \/ DestroyWalk(t)

\* They leave the abstract table as it is.
LEMMA HiddenStutter ==
  ASSUME IndInv, NEW t \in Threads, HiddenSteps(t)
  PROVE  UNCHANGED Abs!vars
  <1>1. UNCHANGED <<pool, answer>>
    BY DEF HiddenSteps, MmapCheck, MmapCreate, MmapInitLock, MmapLock, MmapGet, MmapMap,
       Unlock, MunmapCheck, MunmapLock, MunmapUnlock, MunmapSize, MunmapFree,
       MunmapNull, MunmapDestroyLock, LookupCheck, LookupLock, LookupGet,
       LookupUnlock, LookupPool, DestroyCheck, DestroyWalk, Acquire
  <1>2. ASSUME UNCHANGED <<hash, table>> PROVE UNCHANGED MappedAt
    BY <1>2 DEF MappedAt, Mapped
  <1>3. ASSUME MmapCreate(t) PROVE UNCHANGED MappedAt
    BY <1>3 DEF MmapCreate, Transition, MappedAt, Mapped, IndInv, MapLive
  <1>4. ASSUME MunmapFree(t) \/ MunmapNull(t) PROVE UNCHANGED MappedAt
    BY <1>4 DEF MunmapFree, MunmapNull, Transition, MappedAt, Mapped, IndInv,
       EmptyWhenGone, TableEmpty, MapLive, ClientTypeOK, TypeOK
  <1>5. UNCHANGED <<hash, table>> \/ MmapCreate(t) \/ MunmapFree(t) \/ MunmapNull(t)
    BY DEF HiddenSteps, MmapCheck, MmapInitLock, MmapLock, MmapGet, MmapMap,
       Unlock, MunmapCheck, MunmapLock, MunmapUnlock, MunmapSize,
       MunmapDestroyLock, LookupCheck, LookupLock, LookupGet,
       LookupUnlock, LookupPool, DestroyCheck, DestroyWalk, Acquire
  <1>6. UNCHANGED MappedAt
    BY <1>2, <1>3, <1>4, <1>5
  <1>7. QED
    BY <1>1, <1>6 DEF Abs!vars

\* Making the entry is the abstract mapping of a pool.
LEMMA PutMaps ==
  ASSUME IndInv, NEW t \in Threads, MmapPut(t)
  PROVE  Abs!Map
  <1> DEFINE p == arg[t]
  <1>1. p \in Pools /\ table \in [Pools -> Nat] /\ hash = "live"
    BY DEF IndInv, ClientTypeOK, TypeOK, MapLive, NeedMap, MmapPut, Transition
  <1>2. table[p] = 0 /\ base[t] = pool[p] /\ base[t] # 0
    BY DEF IndInv, MapFresh, MmapPut, Transition
  <1>3. hash' = hash /\ table' = [table EXCEPT ![p] = pool[p]]
    BY <1>2 DEF MmapPut
  <1>4. MappedAt[p] = 0 /\ MappedAt' = [MappedAt EXCEPT ![p] = pool[p]]
    BY <1>1, <1>2, <1>3 DEF MappedAt, Mapped
  <1>5. UNCHANGED <<pool, answer>>
    BY DEF MmapPut
  <1>6. QED
    BY <1>1, <1>2, <1>4, <1>5 DEF Abs!Map

\* Removing the entry is the abstract unmapping, or nothing was mapped.
LEMMA RemoveUnmaps ==
  ASSUME IndInv, NEW t \in Threads, MunmapRemove(t)
  PROVE  Abs!Unmap \/ UNCHANGED Abs!vars
  <1> DEFINE p == arg[t]
  <1>1. p \in Pools /\ table \in [Pools -> Nat] /\ UNCHANGED <<hash, pool, answer>>
    BY DEF IndInv, ClientTypeOK, TypeOK, MunmapRemove
  <1>2. CASE Mapped(p)
    <2>1. table' = [table EXCEPT ![p] = 0]
      BY <1>2 DEF MunmapRemove
    <2>2. MappedAt[p] # 0 /\ MappedAt' = [MappedAt EXCEPT ![p] = 0]
      BY <1>1, <1>2, <2>1 DEF MappedAt, Mapped
    <2>3. QED
      BY <1>1, <2>2 DEF Abs!Unmap
  <1>3. CASE ~Mapped(p)
    <2>1. UNCHANGED table
      BY <1>3 DEF MunmapRemove
    <2>2. QED
      BY <1>1, <2>1 DEF Abs!vars, MappedAt, Mapped
  <1>4. QED
    BY <1>2, <1>3

\* Computing the address is the abstract translation, or fails.
LEMMA AddrTranslates ==
  ASSUME IndInv, NEW t \in Threads, LookupAddr(t), UNCHANGED clientVars
  PROVE  Abs!Translate(t) \/ Abs!Forget(t)
  <1> DEFINE p == arg[t]
  <1>1. UNCHANGED <<pool, MappedAt>> /\ p \in Pools
    BY DEF LookupAddr, MappedAt, Mapped, IndInv, ClientTypeOK, TypeOK
  <1>2. ref[t] = "held" /\ MappedAt[p] = base[t] /\ blk[t].pool = p
    BY DEF LookupAddr, IndInv, LookupFresh, MappedAt, ClientTypeOK, TypeOK
  <1>3. CASE ~BlockLive(blk[t])
    BY <1>1, <1>3 DEF LookupAddr, Abs!Forget
  <1>4. CASE BlockLive(blk[t])
    <2>1. AddressOfBlock'
      BY LookupAddrInv DEF IndInv
    <2>2. answer'[t] # "stray" /\ answer \in [Threads -> {"none", "block", "stray"}]
      BY <2>1 DEF AddressOfBlock, IndInv, ClientTypeOK, TypeOK
    <2>3. base[t] = blk[t].base /\ answer' = [answer EXCEPT ![t] = "block"]
      BY <1>2, <1>4, <2>2 DEF LookupAddr
    <2>4. pool[p] # 0 /\ MappedAt[p] = pool[p]
      BY <1>2, <1>4, <2>3 DEF BlockLive
    <2>5. QED
      BY <1>1, <2>3, <2>4 DEF Abs!Translate
  <1>5. QED
    BY <1>3, <1>4

\* Destroying a pool makes it disappear, or fails.
LEMMA DestroyDisappears ==
  ASSUME IndInv, NEW t \in Threads, DestroyIoctl(t)
  PROVE  Abs!PoolDisappears \/ UNCHANGED Abs!vars
  BY DEF DestroyIoctl, Abs!PoolDisappears, Abs!vars, MappedAt, Mapped, IndInv,
     ClientTypeOK, TypeOK

\* Beginning a call forgets the last answer; the other calls change the pools.
LEMMA CallsAbstract ==
  ASSUME IndInv, NEW t \in Threads, ClientCall(t)
  PROVE  [Abs!Next]_Abs!vars
  <1>1. ASSUME NEW op \in Operations, NEW p \in Pools, Begin(t, op, p)
        PROVE  Abs!Forget(t)
    BY <1>1 DEF Begin, Abs!Forget, MappedAt, Mapped
  <1>2. ASSUME CreatePool(t) PROVE Abs!PoolAppears
    <2>1. PICK p \in Pools : pool[p] = 0 /\ pool' = [pool EXCEPT ![p] = nbase + 1]
      BY <1>2 DEF CreatePool
    <2>2. pool'[p] = nbase + 1 /\ nbase + 1 \in Nat \ {0}
      BY <2>1 DEF IndInv, ClientTypeOK, TypeOK
    <2>3. UNCHANGED <<MappedAt, answer>>
      BY <1>2 DEF CreatePool, MappedAt, Mapped
    <2>4. QED
      BY <2>1, <2>2, <2>3 DEF Abs!PoolAppears
  <1>3. ASSUME VbInit(t) PROVE UNCHANGED Abs!vars
    BY <1>3 DEF VbInit, Abs!vars, MappedAt, Mapped
  <1>4. ASSUME VbExit(t) PROVE Abs!PoolDisappears \/ UNCHANGED Abs!vars
    BY <1>4 DEF VbExit, Abs!PoolDisappears, Abs!vars, MappedAt, Mapped
  <1>5. QED
    BY <1>1, <1>2, <1>3, <1>4 DEF ClientCall, Abs!Next

\* Every step inside a call is an abstract step or a stutter.
LEMMA StepsAbstract ==
  ASSUME IndInv, NEW t \in Threads, ClientStep(t)
  PROVE  [Abs!Next]_Abs!vars
  <1>1. HiddenSteps(t) \/ MmapPut(t) \/ MunmapRemove(t) \/ LookupAddr(t)
        \/ DestroyIoctl(t)
    BY DEF ClientStep, Step, MmapStep, MunmapStep, LookupStep, DestroyStep,
       HiddenSteps
  <1>2. QED
    BY <1>1, HiddenStutter, PutMaps, RemoveUnmaps, AddrTranslates,
       DestroyDisappears DEF Abs!Next, ClientStep

\* The table with its lock, its lazily created map and its steps implements
\* the abstract one.
THEOREM Refinement == ClientSpec => AbsSpec
  <1>1. ClientInit => Abs!Init
    BY DEF ClientInit, Init, Abs!Init, MappedAt, Mapped
  <1>2. IndInv /\ [ClientNext]_cvars => [Abs!Next]_Abs!vars
    <2> SUFFICES ASSUME IndInv, [ClientNext]_cvars PROVE [Abs!Next]_Abs!vars
      OBVIOUS
    <2>1. ASSUME NEW t \in Threads, ClientCall(t) \/ ClientStep(t)
          PROVE  [Abs!Next]_Abs!vars
      BY <2>1, CallsAbstract, StepsAbstract
    <2>2. CASE UNCHANGED vars
      BY <2>2 DEF Abs!vars, MappedAt, Mapped
    <2>3. QED
      BY <2>1, <2>2 DEF ClientNext, Share, Join
  <1>3. QED
    BY <1>1, <1>2, Inductive, PTL DEF ClientSpec, AbsSpec, Abs!Spec

=============================================================================
