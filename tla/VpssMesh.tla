------------------------------ MODULE VpssMesh ------------------------------
(***************************************************************************)
(* The distortion-correction (LDC) and rotation meshes of the VPSS         *)
(* channels, modules/vpu/src/cvi_vpss.c and cvi_gdc_1822.c, on the table   *)
(* of ION allocations.  The build is the one with __SOC_MARS__.            *)
(*                                                                         *)
(* To enable LDC a mesh is generated in a buffer of its own, installed in  *)
(* mesh[grp][chn] under that channel's lock, the mesh it replaces is       *)
(* freed, and the kernel is told.  A rotation without LDC needs no buffer  *)
(* and installs DEFAULT_MESH_PADDR without the lock.  CVI_GDC_LoadMesh     *)
(* installs a mesh from a file without the lock and without freeing the    *)
(* one before.  The meshes outlive the group.                              *)
(*                                                                         *)
(* Threads set LDC and rotation as they like, also of the same channel.    *)
(* The program destroys a group only when no call on its channels is in    *)
(* progress, loads a mesh only while nothing else changes that channel,    *)
(* and does not call CVI_SYS_IonGetFd.                                     *)
(***************************************************************************)
EXTENDS IonTable

CONSTANTS
  Threads,
  Grps, ChnIds,    \* groups, and the channels of each
  Rots, NoRot,     \* rotations that are supported, NoRot for ROTATION_0
  Zero, Default,   \* no mesh, and DEFAULT_MESH_PADDR
  Junk,            \* whatever an uninitialised address is
  Nobody,          \* an unlocked mutex
  Nowhere          \* the channel of a thread outside of every call

Chns == Grps \X ChnIds

ASSUME MeshAssumption ==
  /\ NoRot \in Rots
  /\ Zero \notin Addr /\ Default \notin Addr /\ Null \notin Addr
  /\ Zero # Default
  /\ Nobody \notin Threads
  /\ Nowhere \notin Chns

VARIABLES
  grps,     \* kernel: the groups that exist; their mutexes are initialised
  kernel,   \* kernel: LDC enabled, rotation and mesh of each channel
  mesh,     \* mesh[grp][chn]: physical and virtual address
  lock,     \* mesh[grp][chn].lock
  pc,       \* where each thread stands
  chn,      \* the channel it works on
  ldc,      \* pstLDCAttr->bEnable
  rot,      \* enRotation
  new,      \* paddr and vaddr: the mesh it has generated
  old,      \* paddr_old and vaddr_old
  \* kept for the properties
  lost,     \* buffers whose address was overwritten in mesh[grp][chn]
  alone,    \* no other call on the thread's channel overlapped its own
  settled   \* the last call that replaced a mesh of the channel did it alone,
            \* and the kernel took the new one

callVars == <<chn, ldc, rot, alone>>
vars == <<ionVars, grps, kernel, mesh, lock, pc, callVars, new, old, lost, settled>>

\* The steps of _vpss_update_ldc_mesh with what GenLDCMesh does, of
\* _vpss_update_rotation_mesh and of CVI_GDC_LoadMesh.
Pcs == {"idle",
        "generate", "fill", "lock", "take", "install", "free", "tell",
        "default", "rotate",
        "acquire", "load"}

\* The mesh in mesh[grp][chn] that the kernel is to use, if it is a buffer.
Buffer(pa) == {pa} \cap Addr

TypeOK ==
  /\ IonTypeOK
  /\ grps \in SUBSET Grps
  /\ kernel \in [Chns -> [ldc : BOOLEAN, rot : Rots, mesh : Addr \cup {Zero, Junk}]]
  /\ mesh \in [Chns -> [pa : Addr \cup {Zero, Default}, va : Addr \cup {Null}]]
  /\ lock \in [Chns -> Threads \cup {Nobody}]
  /\ pc \in [Threads -> Pcs]
  /\ chn \in [Threads -> Chns \cup {Nowhere}]
  /\ ldc \in [Threads -> BOOLEAN]
  /\ rot \in [Threads -> Rots]
  /\ new \in [Threads -> Addr \cup {Zero}]
  /\ old \in [Threads -> [pa : Addr \cup {Zero, Default}, va : Addr \cup {Null}]]
  /\ lost \in SUBSET Addr
  /\ alone \in [Threads -> BOOLEAN]
  /\ settled \in [Chns -> BOOLEAN]

NoMesh == [pa |-> Zero, va |-> Null]
Fresh == [ldc |-> FALSE, rot |-> NoRot, mesh |-> Zero]

Init ==
  /\ IonInit
  /\ grps = {}
  /\ kernel = [c \in Chns |-> Fresh]
  /\ mesh = [c \in Chns |-> NoMesh]
  /\ lock = [c \in Chns |-> Nobody]
  /\ pc = [t \in Threads |-> "idle"]
  /\ chn = [t \in Threads |-> Nowhere]
  /\ ldc = [t \in Threads |-> FALSE]
  /\ rot = [t \in Threads |-> NoRot]
  /\ new = [t \in Threads |-> Zero]
  /\ old = [t \in Threads |-> NoMesh]
  /\ lost = {}
  /\ alone = [t \in Threads |-> FALSE]
  /\ settled = [c \in Chns |-> TRUE]

Goto(t, to) == pc' = [pc EXCEPT ![t] = to]
Transition(t, from, to) == pc[t] = from /\ Goto(t, to)

InCall(t, c) == chn[t] = c
Loading(t) == pc[t] \in {"acquire", "load"}

\* A call on c begins in t; whoever else is in a call on c is no longer alone.
Begin(t, c, to, enable, rotation) ==
  /\ Transition(t, "idle", to)
  /\ c[1] \in grps
  /\ chn' = [chn EXCEPT ![t] = c]
  /\ ldc' = [ldc EXCEPT ![t] = enable]
  /\ rot' = [rot EXCEPT ![t] = rotation]
  /\ alone' = [u \in Threads |->
                 IF u = t THEN \A v \in Threads : ~InCall(v, c)
                          ELSE alone[u] /\ ~InCall(u, c)]
  /\ UNCHANGED <<ionVars, grps, kernel, mesh, lock, new, old, lost, settled>>

\* The call of t returns.
Return(t) ==
  /\ Goto(t, "idle")
  /\ chn' = [chn EXCEPT ![t] = Nowhere]
  /\ ldc' = [ldc EXCEPT ![t] = FALSE]
  /\ rot' = [rot EXCEPT ![t] = NoRot]
  /\ alone' = [alone EXCEPT ![t] = FALSE]
  /\ new' = [new EXCEPT ![t] = Zero]
  /\ old' = [old EXCEPT ![t] = NoMesh]

-----------------------------------------------------------------------------
\* CVI_VPSS_CreateGrp, and CVI_VPSS_DestroyGrp: mesh stays as it is.
CreateGrp(g) ==
  /\ g \notin grps
  /\ grps' = grps \cup {g}
  /\ UNCHANGED <<ionVars, kernel, mesh, lock, pc, callVars, new, old, lost, settled>>

DestroyGrp(g) ==
  /\ g \in grps
  /\ \A t \in Threads, c \in Chns : InCall(t, c) => c[1] # g
  /\ grps' = grps \ {g}
  /\ kernel' = [c \in Chns |-> IF c[1] = g THEN Fresh ELSE kernel[c]]
  /\ UNCHANGED <<ionVars, mesh, lock, pc, callVars, new, old, lost, settled>>

\* CVI_VPSS_SetChnLDCAttr up to the update: the rotation is the kernel's.
SetChnLDCAttr(t, c, enable) ==
  /\ \A u \in Threads : InCall(u, c) => ~Loading(u)
  /\ Begin(t, c, CASE enable -> "generate"
                   [] ~enable /\ kernel[c].rot # NoRot -> "default"
                   [] ~enable /\ kernel[c].rot = NoRot -> "tell",
           enable, kernel[c].rot)

\* CVI_VPSS_SetChnRotation up to the update: LDC is as the kernel has it.
SetChnRotation(t, c, rotation) ==
  /\ \A u \in Threads : InCall(u, c) => ~Loading(u)
  /\ rotation # kernel[c].rot
  /\ Begin(t, c, IF kernel[c].ldc THEN "generate" ELSE "default",
           kernel[c].ldc, rotation)

\* CVI_GDC_LoadMesh up to the allocation.
LoadMesh(t, c) ==
  /\ \A u \in Threads : ~InCall(u, c)
  /\ Begin(t, c, "acquire", TRUE, NoRot)

-----------------------------------------------------------------------------
\* CVI_SYS_IonAlloc_Cached in CVI_GDC_GenLDCMesh (from "generate") and in
\* CVI_GDC_LoadMesh (from "acquire").
Allocate(t) ==
  /\ \/ Transition(t, "generate", "fill")
     \/ Transition(t, "acquire", "load")
  /\ \E a \in Addr : IonAlloc(a) /\ new' = [new EXCEPT ![t] = a]
  /\ UNCHANGED <<grps, kernel, mesh, lock, callVars, old, lost, settled>>

\* It fails, or GenLDCMesh refuses the attributes before it.
AllocateFails(t) ==
  /\ pc[t] \in {"generate", "acquire"}
  /\ \/ IonAllocRefused
     \/ \E a \in Addr : IonAllocUnmappable(a)
     \/ UNCHANGED ionVars
  /\ Return(t)
  /\ UNCHANGED <<grps, kernel, mesh, lock, lost, settled>>

\* mesh_gen_ldc fills the buffer or fails.
Fill(t) ==
  /\ Transition(t, "fill", "lock")
  /\ UNCHANGED <<ionVars, grps, kernel, mesh, lock, callVars, new, old, lost, settled>>

FillFails(t) ==
  /\ pc[t] = "fill"
  /\ IonFree(new[t], new[t])
  /\ Return(t)
  /\ UNCHANGED <<grps, kernel, mesh, lock, lost, settled>>

\* Mutant: the lock is not waited for.
LockIgnored(t) ==
  /\ Transition(t, "lock", "take")
  /\ lock' = [lock EXCEPT ![chn[t]] = t]
  /\ UNCHANGED <<ionVars, grps, kernel, mesh, callVars, new, old, lost, settled>>

\* The mesh is exchanged under the channel's lock.
Lock(t) ==
  /\ Transition(t, "lock", "take")
  /\ lock[chn[t]] = Nobody
  /\ lock' = [lock EXCEPT ![chn[t]] = t]
  /\ UNCHANGED <<ionVars, grps, kernel, mesh, callVars, new, old, lost, settled>>

TakeOld(t) ==
  /\ Transition(t, "take", "install")
  /\ old' = [old EXCEPT ![t] = IF mesh[chn[t]].pa # Zero THEN mesh[chn[t]] ELSE NoMesh]
  /\ UNCHANGED <<ionVars, grps, kernel, mesh, lock, callVars, new, lost, settled>>

\* Mutant: the virtual address stays that of the old mesh.
InstallAddress(t) ==
  /\ Transition(t, "install", IF old[t].pa # Zero THEN "free" ELSE "tell")
  /\ mesh' = [mesh EXCEPT ![chn[t]].pa = new[t]]
  /\ lock' = [lock EXCEPT ![chn[t]] = Nobody]
  /\ settled' = [settled EXCEPT ![chn[t]] = FALSE]
  /\ UNCHANGED <<ionVars, grps, kernel, callVars, new, old, lost>>

Install(t) ==
  /\ Transition(t, "install", IF old[t].pa # Zero THEN "free" ELSE "tell")
  /\ mesh' = [mesh EXCEPT ![chn[t]] = [pa |-> new[t], va |-> new[t]]]
  /\ lock' = [lock EXCEPT ![chn[t]] = Nobody]
  /\ settled' = [settled EXCEPT ![chn[t]] = FALSE]
  /\ UNCHANGED <<ionVars, grps, kernel, callVars, new, old, lost>>

\* Mutant: what is freed is what the channel holds by then.
FreeInstalled(t) ==
  /\ Transition(t, "free", "tell")
  /\ IonFree(mesh[chn[t]].pa, mesh[chn[t]].va)
  /\ old' = [old EXCEPT ![t] = NoMesh]
  /\ UNCHANGED <<grps, kernel, mesh, lock, callVars, new, lost, settled>>

\* The old mesh is freed before the kernel knows of the new one.
FreeOld(t) ==
  /\ Transition(t, "free", "tell")
  /\ IonFree(old[t].pa, old[t].va)
  /\ old' = [old EXCEPT ![t] = NoMesh]
  /\ UNCHANGED <<grps, kernel, mesh, lock, callVars, new, lost, settled>>

\* Mutant: the mesh is read from the channel again, without the lock.
HandleAgain(t) == IF ldc[t] THEN mesh[chn[t]].pa ELSE Junk

\* vpss_set_chn_ldc.  Without LDC the handle is the uninitialised paddr, and
\* the kernel has no use for it.
Handle(t) == IF ldc[t] THEN new[t] ELSE Junk

Tell(t) ==
  /\ pc[t] = "tell"
  /\ kernel' = [kernel EXCEPT ![chn[t]] =
                  [ldc |-> ldc[t], rot |-> rot[t], mesh |-> Handle(t)]]
  /\ settled' = [settled EXCEPT ![chn[t]] = @ \/ (ldc[t] /\ alone[t])]
  /\ Return(t)
  /\ UNCHANGED <<ionVars, grps, mesh, lock, lost>>

\* _vpss_update_rotation_mesh: the address alone is overwritten, unlocked.  A
\* buffer that was there is lost, unless the holder of the lock has just taken
\* it to free it.
SetDefault(t) ==
  /\ Transition(t, "default", "rotate")
  /\ mesh' = [mesh EXCEPT ![chn[t]].pa = Default]
  /\ lost' = IF \E u \in Threads : pc[u] = "install" /\ chn[u] = chn[t]
               THEN lost
               ELSE lost \cup Buffer(mesh[chn[t]].pa)
  /\ UNCHANGED <<ionVars, grps, kernel, lock, callVars, new, old, settled>>

\* vpss_set_chn_rotation.
Rotate(t) ==
  /\ pc[t] = "rotate"
  /\ kernel' = [kernel EXCEPT ![chn[t]].rot = rot[t]]
  /\ Return(t)
  /\ UNCHANGED <<ionVars, grps, mesh, lock, lost, settled>>

\* CVI_GDC_LoadMesh installs the mesh of the file over the one before, fills
\* it and tells the kernel.
InstallLoaded(t) ==
  /\ Transition(t, "load", "tell")
  /\ mesh' = [mesh EXCEPT ![chn[t]] = [pa |-> new[t], va |-> new[t]]]
  /\ lost' = lost \cup Buffer(mesh[chn[t]].pa)
  /\ settled' = [settled EXCEPT ![chn[t]] = FALSE]
  /\ UNCHANGED <<ionVars, grps, kernel, lock, callVars, new, old>>

\* The kernel refuses: the call returns the error and leaves all as it is.
KernelRefuses(t) ==
  /\ pc[t] \in {"tell", "rotate"}
  /\ Return(t)
  /\ UNCHANGED <<ionVars, grps, kernel, mesh, lock, lost, settled>>

Step(t) ==
  \/ Allocate(t) \/ AllocateFails(t) \/ Fill(t) \/ FillFails(t)
  \/ Lock(t) \/ TakeOld(t) \/ Install(t) \/ FreeOld(t) \/ Tell(t)
  \/ SetDefault(t) \/ Rotate(t) \/ InstallLoaded(t) \/ KernelRefuses(t)

Call(t) ==
  \E c \in Chns :
    \/ \E enable \in BOOLEAN : SetChnLDCAttr(t, c, enable)
    \/ \E rotation \in Rots : SetChnRotation(t, c, rotation)
    \/ LoadMesh(t, c)

Next ==
  \/ \E g \in Grps : CreateGrp(g) \/ DestroyGrp(g)
  \/ \E t \in Threads : Call(t) \/ Step(t)

Spec == Init /\ [][Next]_vars

-----------------------------------------------------------------------------
\* Who is to free buffer a: the thread that generated it until it installs
\* it, the channel it is installed in, the thread that took it out; or nobody.
OwnsNew(t, a) == pc[t] \in {"fill", "lock", "take", "install", "load"} /\ new[t] = a
OwnsOld(t, a) == pc[t] \in {"install", "free"} /\ old[t].pa = a
Owns(c, a) ==
  /\ mesh[c].pa = a
  /\ ~ \E t \in Threads : pc[t] = "install" /\ chn[t] = c

Owners(a) ==
  {<<"new", t>> : t \in {u \in Threads : OwnsNew(u, a)}} \cup
  {<<"old", t>> : t \in {u \in Threads : OwnsOld(u, a)}} \cup
  {<<"mesh", c>> : c \in {d \in Chns : Owns(d, a)}} \cup
  {<<"lost", Nobody>> : x \in {b \in lost : b = a}}

\* Every allocated buffer has one owner and no other address has any: a mesh
\* is freed once, never while it is installed or somebody else's, and none is
\* lost but by SetDefault and LoadMesh, however the calls of the threads on a
\* channel overlap (cvi_vpss.c:164-176, 121).
OwnedOnce ==
  \A a \in Addr :
    /\ a \in granted => \E o \in Owners(a) : Owners(a) = {o}
    /\ a \notin granted => Owners(a) = {}

\* What the kernel corrects with is a mesh: when the last call that replaced
\* the mesh of a channel was alone and succeeded, the kernel's mesh is that
\* of the channel and allocated, through all later failures to generate or
\* allocate, and also when a rotation has hidden it behind DEFAULT_MESH_PADDR (cvi_vpss.c:152-190).
KernelMeshLives ==
  \A c \in Chns :
    settled[c] /\ kernel[c].ldc =>
      /\ kernel[c].mesh \in granted
      /\ mesh[c].pa \in {kernel[c].mesh, Default}
=============================================================================
