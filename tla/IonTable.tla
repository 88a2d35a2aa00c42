------------------------------ MODULE IonTable ------------------------------
(***************************************************************************)
(* The table of ION allocations, modules/sys/src/cvi_sys.c.                *)
(*                                                                         *)
(* _SYS_IonAlloc asks the kernel for a buffer, enters its data in          *)
(* ionHashmap under the physical address and maps the buffer;              *)
(* CVI_SYS_IonFree finds the size of the mapping in that entry.  The table *)
(* is created by the first allocation and freed when it becomes empty.     *)
(* The kernel may give a freed address to the next allocation.             *)
(*                                                                         *)
(* Each call is one step: the table has no lock, and calls that overlap    *)
(* have no meaning.  Memory for the table and its entries is not refused.  *)
(* The virtual address of a mapping is known by what it maps.              *)
(***************************************************************************)
CONSTANTS
  Addr,    \* physical addresses the kernel can give away
  Null     \* no mapping

VARIABLES
  ionHashmap,  \* is there a table
  entry,       \* what the table holds under an address: "none", the data of a
               \* buffer ("live"), or a pointer to freed data ("dangling")
  granted,     \* kernel: the buffers that are allocated
  mapped       \* kernel: the buffers that are mapped

ionVars == <<ionHashmap, entry, granted, mapped>>

IonTypeOK ==
  /\ ionHashmap \in BOOLEAN
  /\ entry \in [Addr -> {"none", "live", "dangling"}]
  /\ granted \in SUBSET Addr
  /\ mapped \in SUBSET Addr

IonInit ==
  /\ ionHashmap = FALSE
  /\ entry = [a \in Addr |-> "none"]
  /\ granted = {}
  /\ mapped = {}

-----------------------------------------------------------------------------
\* _SYS_IonAlloc: the put replaces whatever an earlier buffer left behind.
IonAlloc(a) ==
  /\ a \in Addr \ granted
  /\ ionHashmap' = TRUE
  /\ entry' = [entry EXCEPT ![a] = "live"]
  /\ granted' = granted \cup {a}
  /\ mapped' = mapped \cup {a}

\* The kernel has no buffer left, or refuses.
IonAllocRefused ==
  /\ ionHashmap' = TRUE
  /\ UNCHANGED <<entry, granted, mapped>>

\* The buffer is there and its mapping fails: its data is freed and its
\* entry is looked up (hashmapGet), not removed.
IonAllocUnmappable(a) ==
  /\ a \in Addr \ granted
  /\ ionHashmap' = TRUE
  /\ entry' = [entry EXCEPT ![a] = "dangling"]
  /\ UNCHANGED <<granted, mapped>>

\* CVI_SYS_IonFree.  Without a table or an entry it does nothing: the callers
\* do not look at its result.
IonFree(pa, va) ==
  IF ionHashmap /\ pa \in Addr /\ entry[pa] # "none"
    THEN /\ entry' = [entry EXCEPT ![pa] = "none"]
         /\ mapped' = mapped \ {va}
         /\ granted' = granted \ {pa}
         /\ ionHashmap' = (\E a \in Addr \ {pa} : entry[a] # "none")
    ELSE UNCHANGED ionVars

-----------------------------------------------------------------------------
\* The table knows exactly the buffers that are allocated: what dangles in it
\* is the address of no buffer (nobody who keeps to buffers that he was given
\* frees it), and a buffer is mapped as long as it is allocated.
TableTrue ==
  /\ granted = {a \in Addr : entry[a] = "live"}
  /\ mapped = granted
  /\ ionHashmap \/ \A a \in Addr : entry[a] = "none"
=============================================================================
