------------------------------ MODULE VbClient ------------------------------
(***************************************************************************)
(* The VB mapping table under the discipline its code relies on.           *)
(*                                                                         *)
(* hash_lock protects the contents of the table but not the table's own    *)
(* creation and destruction; GetBlockVirAddr goes on using an entry after  *)
(* it let go of the lock, and DestroyPool searches the table without it.   *)
(* A program is safe when                                                  *)
(*  - threads share the table only after CVI_VB_Init and while some pool   *)
(*    stays mapped that nobody unmaps (so the table is neither created nor *)
(*    freed then);                                                         *)
(*  - each other pool is mapped, looked up, unmapped and destroyed by one  *)
(*    thread, its owner; every thread may look the pinned pools up;        *)
(*  - while a thread is in DestroyPool no other maps, unmaps or destroys a *)
(*    pool, which the program has to see to by a lock of its own: the      *)
(*    search would come upon entries and buckets that are being freed;     *)
(*  - everything is unmapped before CVI_VB_Exit.                           *)
(* Main alone runs before and after the phase in which threads share the   *)
(* table.  This module restricts the callers of VbMmap accordingly and     *)
(* states what then holds.                                                 *)
(***************************************************************************)
EXTENDS VbMmap

CONSTANTS
  Main,    \* the thread that sets up and tears down
  Owner    \* the thread each pool belongs to

ASSUME ClientAssumption ==
  /\ Main \in Threads
  /\ Owner \in [Pools -> Threads]
  /\ Threads \cap {"free", "dead"} = {}

VARIABLES
  phase,   \* "single" (Main alone) or "shared"
  pinned   \* the pools that stay mapped throughout the shared phase

clientVars == <<phase, pinned>>
cvars == <<vars, clientVars>>

ClientTypeOK == /\ TypeOK
                /\ phase \in {"single", "shared"}
                /\ pinned \in SUBSET Pools

ClientInit == Init /\ phase = "single" /\ pinned = {}

Quiet == \A t \in Threads : pc[t] = "idle"

\* Thread u is in DestroyPool and has not yet found whether the pool is mapped.
Walks(u) == pc[u] \in {"d_ioctl", "d_check", "d_walk"}

\* Thread u may yet enter or remove a pool.
Changes(u) ==
  /\ arg[u] \notin pinned
  /\ pc[u] \in {"m_check", "m_create", "m_init", "m_lock", "m_get", "m_map",
                "m_put", "u_check", "u_lock", "u_get"}

\* What its owner t may call on a pool during the shared phase.
OwnerMayCall(t, op) ==
  \/ op = "GetBlockVirAddr"
  \/ op \in {"MmapPool", "MunmapPool"} /\ \A u \in Threads \ {t} : ~Walks(u)
  \/ op = "DestroyPool" /\ \A u \in Threads \ {t} : ~Walks(u) /\ ~Changes(u)

\* What the discipline lets thread t call on pool p.
MayCall(t, op, p) ==
  \/ phase = "single" /\ t = Main
  \/ phase = "shared" /\ Owner[p] = t /\ p \notin pinned /\ OwnerMayCall(t, op)
  \/ phase = "shared" /\ p \in pinned /\ op \in {"MmapPool", "GetBlockVirAddr"}

ClientCall(t) ==
  /\ ~crashed
  /\ \/ \E op \in Operations, p \in Pools :
          MayCall(t, op, p) /\ Begin(t, op, p)
     \/ (phase = "single" => t = Main) /\ CreatePool(t)
     \/ phase = "single" /\ t = Main /\ VbInit(t)
     \/ phase = "single" /\ t = Main /\ TableEmpty /\ VbExit(t)
  /\ UNCHANGED clientVars

ClientStep(t) == Step(t) /\ UNCHANGED clientVars

\* Main starts the other threads once VB is initialised and some of the pools
\* are mapped; which of them stay mapped is its choice.
Share ==
  /\ phase = "single"
  /\ inited
  /\ Quiet
  /\ phase' = "shared"
  /\ \E P \in SUBSET {p \in Pools : Mapped(p) /\ table[p] = pool[p]} :
       P # {} /\ pinned' = P
  /\ UNCHANGED vars

\* The threads have been joined.
Join ==
  /\ phase = "shared"
  /\ Quiet
  /\ phase' = "single"
  /\ pinned' = {}
  /\ UNCHANGED vars

ClientNext ==
  \/ \E t \in Threads : ClientCall(t) \/ ClientStep(t)
  \/ Share
  \/ Join

ClientSpec == ClientInit /\ [][ClientNext]_cvars

\* A thread that is inside a call goes on (mutexes are given to waiters).
FairSpec == /\ ClientSpec
            /\ \A t \in Threads : WF_cvars(ClientStep(t))

-----------------------------------------------------------------------------
\* Two threads are never both between lock and unlock of hash_lock, and the
\* thread that is there holds the mutex (cvi_vb.c:406-454, 468-484, 514-521).
MutualExclusion == \A t \in Threads : pc[t] \in LockedPcs <=> lock = t

\* No step follows a null or dangling vbMmapHash, a freed entry or freed
\* buckets, and none locks a destroyed mutex, although the map and the mutex
\* are created and destroyed outside of the lock (cvi_vb.c:401-404, 486-490)
\* and DestroyPool walks the map without it (cvi_vb.c:316).
NoDanglingUse ==
  /\ ~crashed
  /\ \A t \in Threads : pc[t] \in {"g_addr", "d_walk"} => ref[t] = "held"

\* Every mapping that exists has exactly one entry, except the one a thread
\* has just made and is about to enter: no pool is mapped twice and no
\* mapping is lost, also when several threads map the same pool at once.
MappingsMatchEntries ==
  \A p \in Pools :
    nmap[p] = (IF Mapped(p) THEN 1 ELSE 0) +
              (IF \E t \in Threads : pc[t] = "m_put" /\ arg[t] = p THEN 1 ELSE 0)

\* hash_lock is given back on every path through the three functions.
LockReleased == \A t \in Threads : lock = t ~> lock # t

\* The base each pool is mapped at: the content of a map that is gone is empty.
MappedAt == [p \in Pools |-> IF Mapped(p) THEN table[p] ELSE 0]

Abs == INSTANCE VbMapSpec WITH mapped <- MappedAt

\* The table with its lazily created map and its steps implements the abstract
\* one: what is mapped is what the kernel had at that moment, at most once,
\* and an answer is one of a pool mapped at that moment.
AbsSpec == Abs!Spec
=============================================================================
