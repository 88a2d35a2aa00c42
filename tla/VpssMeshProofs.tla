--------------------------- MODULE VpssMeshProofs ---------------------------
(***************************************************************************)
(* Proofs about VpssMesh, for any number of threads, groups, channels,     *)
(* addresses and rotations.                                                *)
(***************************************************************************)
EXTENDS VpssMesh, TLAPS

-----------------------------------------------------------------------------
\* The inductive invariant

\* What a thread knows at its step.
Calls ==
  \A t \in Threads :
    /\ pc[t] = "idle" <=> chn[t] = Nowhere
    /\ pc[t] \in {"generate", "fill", "lock", "take", "install", "free",
                  "acquire", "load"} => ldc[t]
    /\ pc[t] \in {"fill", "lock", "take", "install", "free", "load"} => new[t] \in Addr
    /\ pc[t] = "tell" /\ ldc[t] => new[t] \in Addr

\* A call that loads a mesh, or has been alone so far, has its channel to itself.
ToItself ==
  \A t, u \in Threads :
    (Loading(t) \/ alone[t]) /\ chn[t] # Nowhere /\ chn[u] = chn[t] => u = t

Locks ==
  \A t \in Threads, c \in Chns :
    lock[c] = t <=> pc[t] \in {"take", "install"} /\ chn[t] = c

\* A virtual address stays with the physical one it maps.
Pairs ==
  /\ \A c \in Chns : mesh[c].pa \in Addr => mesh[c].va = mesh[c].pa
  /\ \A t \in Threads :
       /\ pc[t] \in {"install", "free"} /\ old[t].pa \in Addr => old[t].va = old[t].pa
       /\ pc[t] = "install" => mesh[chn[t]].pa \in {old[t].pa, Default}

\* OwnedOnce, as its parts: what is allocated has an owner, and no address
\* has two.
HasOwner(a) ==
  \/ \E t \in Threads : OwnsNew(t, a)
  \/ \E t \in Threads : OwnsOld(t, a)
  \/ \E c \in Chns : Owns(c, a)
  \/ a \in lost

Apart(a) ==
  /\ \A t, u \in Threads :
       /\ OwnsNew(t, a) /\ OwnsNew(u, a) => t = u
       /\ OwnsOld(t, a) /\ OwnsOld(u, a) => t = u
       /\ ~(OwnsNew(t, a) /\ OwnsOld(u, a))
  /\ \A c, d \in Chns : Owns(c, a) /\ Owns(d, a) => c = d
  /\ \A t \in Threads, c \in Chns :
       Owns(c, a) => ~OwnsNew(t, a) /\ ~OwnsOld(t, a)
  /\ a \in lost =>
       /\ \A t \in Threads : ~OwnsNew(t, a) /\ ~OwnsOld(t, a)
       /\ \A c \in Chns : ~Owns(c, a)

Ledger == \A a \in Addr : (a \in granted <=> HasOwner(a)) /\ Apart(a)

\* A mesh that is not yet the kernel's is that of its channel, if nobody else
\* was there.
Installed ==
  \A t \in Threads :
    pc[t] \in {"free", "tell"} /\ ldc[t] =>
      /\ ~settled[chn[t]]
      /\ alone[t] => mesh[chn[t]].pa = new[t]

\* The kernel's mesh is the channel's, or lost, or about to be replaced.
InKernel ==
  \A c \in Chns :
    settled[c] /\ kernel[c].ldc =>
      /\ kernel[c].mesh \in Addr
      /\ mesh[c].pa \in {kernel[c].mesh, Default}
      /\ \/ mesh[c].pa = kernel[c].mesh
         \/ kernel[c].mesh \in lost
         \/ \E t \in Threads :
              pc[t] = "install" /\ chn[t] = c /\ old[t].pa = kernel[c].mesh

IndInv ==
  /\ TypeOK /\ Calls /\ ToItself /\ Locks /\ Pairs
  /\ Ledger /\ TableTrue /\ Installed /\ InKernel

-----------------------------------------------------------------------------
\* Owners

\* A ledger in which every address has one owner, or none, is OwnedOnce.
LEMMA LedgerOwned ==
  ASSUME Ledger
  PROVE  OwnedOnce
  <1>1. ASSUME NEW a \in Addr
        PROVE  /\ a \in granted => \E o \in Owners(a) : Owners(a) = {o}
               /\ a \notin granted => Owners(a) = {}
    <2>1. \A o : o \in Owners(a) <=>
                 \/ \E t \in Threads : OwnsNew(t, a) /\ o = <<"new", t>>
                 \/ \E t \in Threads : OwnsOld(t, a) /\ o = <<"old", t>>
                 \/ \E c \in Chns : Owns(c, a) /\ o = <<"mesh", c>>
                 \/ a \in lost /\ o = <<"lost", Nobody>>
      BY DEF Owners
    <2>2. CASE a \notin granted
      BY <2>1, <2>2 DEF Ledger, HasOwner
    <2>3. CASE a \in granted
      <3>1. \A o, p \in Owners(a) : o = p
        BY <2>1 DEF Ledger, Apart
      <3>2. \E o : o \in Owners(a)
        BY <2>1, <2>3 DEF Ledger, HasOwner
      <3>3. QED
        BY <2>3, <3>1, <3>2
    <2>4. QED
      BY <2>2, <2>3
  <1>2. QED
    BY <1>1 DEF OwnedOnce

\* A step that changes no owner keeps the ledger.
LEMMA LedgerKept ==
  ASSUME Ledger, UNCHANGED <<granted, lost>>,
         \A a \in Addr :
           /\ \A t \in Threads : OwnsNew(t, a)' <=> OwnsNew(t, a)
           /\ \A t \in Threads : OwnsOld(t, a)' <=> OwnsOld(t, a)
           /\ \A c \in Chns : Owns(c, a)' <=> Owns(c, a)
  PROVE  Ledger'
  BY DEF Ledger, HasOwner, Apart

\* A record stays of its type when one field changes.
LEMMA NewAddress ==
  ASSUME NEW A, NEW B, NEW r \in [pa : A, va : B], NEW x \in A
  PROVE  [r EXCEPT !.pa = x] \in [pa : A, va : B]
  OBVIOUS

LEMMA NewRotation ==
  ASSUME NEW A, NEW B, NEW C, NEW r \in [ldc : A, rot : B, mesh : C], NEW x \in B
  PROVE  [r EXCEPT !.rot = x] \in [ldc : A, rot : B, mesh : C]
  OBVIOUS

-----------------------------------------------------------------------------
\* The steps

\* The kernel makes a group.
LEMMA CreateGrpInv ==
  ASSUME IndInv, NEW g \in Grps, CreateGrp(g)
  PROVE  IndInv'
  <1> USE MeshAssumption DEF IndInv, CreateGrp, ionVars, callVars
  <1>1. TypeOK'
    BY DEF TypeOK, IonTypeOK, Pcs
  <1>2. Calls'
    BY DEF Calls, TypeOK
  <1>3. ToItself'
    BY DEF ToItself, Loading, Calls, TypeOK
  <1>4. Locks'
    BY DEF Locks, Calls, TypeOK
  <1>5. Pairs'
    BY DEF Pairs, Calls, Locks, TypeOK
  <1>6. Ledger'
    BY LedgerKept DEF Ledger, OwnsNew, OwnsOld, Owns, TypeOK
  <1>7. TableTrue'
    BY DEF TableTrue, TypeOK, IonTypeOK
  <1>8. Installed'
    BY DEF Installed, ToItself, Calls, TypeOK
  <1>9. InKernel'
    BY DEF InKernel, TypeOK
  <1>10. QED
    BY <1>1, <1>2, <1>3, <1>4, <1>5, <1>6, <1>7, <1>8, <1>9

\* A group goes away with what the kernel knew of its channels; mesh stays.
LEMMA DestroyGrpInv ==
  ASSUME IndInv, NEW g \in Grps, DestroyGrp(g)
  PROVE  IndInv'
  <1> USE MeshAssumption DEF IndInv, DestroyGrp, ionVars, callVars
  <1>1. TypeOK'
    BY DEF TypeOK, IonTypeOK, Pcs, Fresh
  <1>2. Calls'
    BY DEF Calls, TypeOK
  <1>3. ToItself'
    BY DEF ToItself, Loading, Calls, TypeOK
  <1>4. Locks'
    BY DEF Locks, Calls, TypeOK
  <1>5. Pairs'
    BY DEF Pairs, Calls, Locks, TypeOK
  <1>6. Ledger'
    BY LedgerKept DEF Ledger, OwnsNew, OwnsOld, Owns, TypeOK
  <1>7. TableTrue'
    BY DEF TableTrue, TypeOK, IonTypeOK
  <1>8. Installed'
    BY DEF Installed, ToItself, Calls, TypeOK
  <1>9. InKernel'
    BY DEF InKernel, Fresh, TypeOK
  <1>10. QED
    BY <1>1, <1>2, <1>3, <1>4, <1>5, <1>6, <1>7, <1>8, <1>9

\* A call begins.
LEMMA BeginInv ==
  ASSUME IndInv, NEW t \in Threads, NEW c \in Chns, NEW to,
         NEW enable \in BOOLEAN, NEW r \in Rots, Begin(t, c, to, enable, r),
         to \in {"generate", "default", "tell", "acquire"},
         to \in {"generate", "acquire"} => enable,
         to = "tell" => ~enable,
         \A u \in Threads : InCall(u, c) => ~Loading(u),
         to = "acquire" => \A u \in Threads : ~InCall(u, c)
  PROVE  IndInv'
  <1> USE MeshAssumption
      DEF IndInv, Begin, InCall, Goto, Transition, ionVars, callVars
  <1>1. TypeOK'
    BY DEF TypeOK, IonTypeOK, Pcs
  <1>2. Calls'
    BY DEF Calls, TypeOK
  <1>3. ToItself'
    BY DEF ToItself, Loading, Calls, TypeOK
  <1>4. Locks'
    BY DEF Locks, Calls, TypeOK
  <1>5. Pairs'
    BY DEF Pairs, Calls, Locks, TypeOK
  <1>6. Ledger'
    BY LedgerKept DEF Ledger, OwnsNew, OwnsOld, Owns, TypeOK
  <1>7. TableTrue'
    BY DEF TableTrue, TypeOK, IonTypeOK
  <1>8. Installed'
    BY DEF Installed, ToItself, Calls, TypeOK
  <1>9. InKernel'
    BY DEF InKernel, TypeOK
  <1>10. QED
    BY <1>1, <1>2, <1>3, <1>4, <1>5, <1>6, <1>7, <1>8, <1>9

\* A buffer is allocated: no address that is free has an owner.
LEMMA AllocateInv ==
  ASSUME IndInv, NEW t \in Threads, Allocate(t)
  PROVE  IndInv'
  <1> USE MeshAssumption
      DEF IndInv, Allocate, Goto, Transition, ionVars, callVars
  <1>1. PICK a \in Addr : IonAlloc(a) /\ new' = [new EXCEPT ![t] = a]
    OBVIOUS
  <1>2. entry \in [Addr -> {"none", "live", "dangling"}]
    BY DEF TypeOK, IonTypeOK
  <1>3. \A u \in Threads : pc'[u] = "install" <=> pc[u] = "install"
    BY DEF TypeOK
  <1>4. \A b \in Addr :
          /\ \A u \in Threads : OwnsNew(u, b)' <=> OwnsNew(u, b) \/ (u = t /\ b = a)
          /\ \A u \in Threads : OwnsOld(u, b)' <=> OwnsOld(u, b)
          /\ \A d \in Chns : Owns(d, b)' <=> Owns(d, b)
          /\ b \in lost' <=> b \in lost
          /\ b \in granted' <=> b \in granted \/ b = a
    BY <1>1, <1>3 DEF IonAlloc, OwnsNew, OwnsOld, Owns, TypeOK
  <1>5. TypeOK'
    BY <1>1, <1>2 DEF IonAlloc, TypeOK, IonTypeOK, Pcs
  <1>6. Calls'
    BY <1>1, <1>2, <1>3 DEF Calls, TypeOK
  <1>7. ToItself'
    BY <1>1, <1>2, <1>3 DEF ToItself, Loading, Calls, TypeOK
  <1>8. Locks'
    BY <1>1, <1>2, <1>3 DEF Locks, Calls, TypeOK
  <1>9. Pairs'
    BY <1>1, <1>2, <1>3 DEF Pairs, Calls, Locks, TypeOK
  <1>10. Ledger'
    BY <1>1, <1>4 DEF IonAlloc, Ledger, HasOwner, Apart
  <1>11. TableTrue'
    BY <1>1 DEF IonAlloc, TableTrue, TypeOK, IonTypeOK
  <1>12. Installed'
    BY <1>1, <1>2, <1>3 DEF Installed, ToItself, Calls, TypeOK
  <1>13. InKernel'
    BY <1>1, <1>2, <1>3 DEF InKernel, TypeOK
  <1>14. QED
    BY <1>5, <1>6, <1>7, <1>8, <1>9, <1>10, <1>11, <1>12, <1>13

\* A failed allocation leaves at most an entry that dangles.
LEMMA AllocateFailsInv ==
  ASSUME IndInv, NEW t \in Threads, AllocateFails(t)
  PROVE  IndInv'
  <1> USE MeshAssumption
      DEF IndInv, AllocateFails, IonAllocRefused, IonAllocUnmappable, Return,
          NoMesh, Goto, Transition, ionVars, callVars
  <1>1. entry \in [Addr -> {"none", "live", "dangling"}]
    BY DEF TypeOK, IonTypeOK
  <1>2. TypeOK'
    BY DEF TypeOK, IonTypeOK, Pcs
  <1>3. Calls'
    BY DEF Calls, TypeOK
  <1>4. ToItself'
    BY DEF ToItself, Loading, Calls, TypeOK
  <1>5. Locks'
    BY DEF Locks, Calls, TypeOK
  <1>6. Pairs'
    BY DEF Pairs, Calls, Locks, TypeOK
  <1>7. Ledger'
    BY LedgerKept DEF Ledger, OwnsNew, OwnsOld, Owns, TypeOK
  <1>8. TableTrue'
    <2>1. CASE /\ UNCHANGED <<entry, granted, mapped>>
               /\ ionHashmap' \/ ionHashmap' = ionHashmap
      BY <2>1 DEF TableTrue
    <2>2. CASE \E a \in Addr : IonAllocUnmappable(a)
      <3>1. PICK a \in Addr : IonAllocUnmappable(a)
        BY <2>2
      <3>2. \A b \in Addr : entry'[b] = "live" <=> entry[b] = "live"
        BY <1>1, <3>1 DEF TableTrue
      <3>3. QED
        BY <3>1, <3>2 DEF TableTrue
    <2>3. QED
      BY <2>1, <2>2
  <1>9. Installed'
    BY DEF Installed, ToItself, Calls, TypeOK
  <1>10. InKernel'
    BY DEF InKernel, TypeOK
  <1>11. QED
    BY <1>2, <1>3, <1>4, <1>5, <1>6, <1>7, <1>8, <1>9, <1>10

\* mesh_gen_ldc succeeds.
LEMMA FillInv ==
  ASSUME IndInv, NEW t \in Threads, Fill(t)
  PROVE  IndInv'
  <1> USE MeshAssumption DEF IndInv, Fill, Goto, Transition, ionVars, callVars
  <1>1. TypeOK'
    BY DEF TypeOK, IonTypeOK, Pcs
  <1>2. Calls'
    BY DEF Calls, TypeOK
  <1>3. ToItself'
    BY DEF ToItself, Loading, Calls, TypeOK
  <1>4. Locks'
    BY DEF Locks, Calls, TypeOK
  <1>5. Pairs'
    BY DEF Pairs, Calls, Locks, TypeOK
  <1>6. Ledger'
    BY LedgerKept DEF Ledger, OwnsNew, OwnsOld, Owns, TypeOK
  <1>7. TableTrue'
    BY DEF TableTrue, TypeOK, IonTypeOK
  <1>8. Installed'
    BY DEF Installed, ToItself, Calls, TypeOK
  <1>9. InKernel'
    BY DEF InKernel, TypeOK
  <1>10. QED
    BY <1>1, <1>2, <1>3, <1>4, <1>5, <1>6, <1>7, <1>8, <1>9

\* mesh_gen_ldc fails: the buffer is the thread's own.
LEMMA FillFailsInv ==
  ASSUME IndInv, NEW t \in Threads, FillFails(t)
  PROVE  IndInv'
  <1> USE MeshAssumption
      DEF IndInv, FillFails, Return, NoMesh, Goto, Transition, ionVars,
          callVars
  <1>1. entry \in [Addr -> {"none", "live", "dangling"}]
    BY DEF TypeOK, IonTypeOK
  <1>2. /\ new[t] \in granted /\ OwnsNew(t, new[t])
          /\ entry[new[t]] # "none" /\ ionHashmap
    BY DEF Calls, Ledger, HasOwner, OwnsNew, TableTrue
  <1>3. \A u \in Threads : pc'[u] = "install" <=> pc[u] = "install"
    BY DEF TypeOK
  <1>4. /\ entry' = [entry EXCEPT ![new[t]] = "none"]
          /\ granted' = granted \ {new[t]} /\ mapped' = mapped \ {new[t]}
          /\ ionHashmap' = (\E a \in Addr \ {new[t]} : entry[a] # "none")
    BY <1>2 DEF IonFree, Calls
  <1>5. \A b \in Addr :
          /\ \A u \in Threads : OwnsNew(u, b)' <=> OwnsNew(u, b) /\ u # t
          /\ \A u \in Threads : OwnsOld(u, b)' <=> OwnsOld(u, b)
          /\ \A d \in Chns : Owns(d, b)' <=> Owns(d, b)
          /\ b \in lost' <=> b \in lost
          /\ b \in granted' <=> b \in granted /\ ~OwnsNew(t, b)
    BY <1>2, <1>3, <1>4 DEF OwnsNew, OwnsOld, Owns, TypeOK
  <1>6. TypeOK'
    BY <1>1, <1>4 DEF TypeOK, IonTypeOK, Pcs
  <1>7. Calls'
    BY <1>2, <1>3 DEF Calls, TypeOK
  <1>8. ToItself'
    BY <1>2, <1>3 DEF ToItself, Loading, Calls, TypeOK
  <1>9. Locks'
    BY <1>2, <1>3 DEF Locks, Calls, TypeOK
  <1>10. Pairs'
    BY <1>2, <1>3 DEF Pairs, Calls, Locks, TypeOK
  <1>11. Ledger'
    BY <1>5 DEF Ledger, HasOwner, Apart
  <1>12. TableTrue'
    BY <1>1, <1>4 DEF TableTrue
  <1>13. Installed'
    BY <1>2, <1>3 DEF Installed, ToItself, Calls, TypeOK
  <1>14. InKernel'
    BY <1>3 DEF InKernel, TypeOK
  <1>15. QED
    BY <1>6, <1>7, <1>8, <1>9, <1>10, <1>11, <1>12, <1>13, <1>14

\* The lock is taken.
LEMMA LockInv ==
  ASSUME IndInv, NEW t \in Threads, Lock(t)
  PROVE  IndInv'
  <1> USE MeshAssumption DEF IndInv, Lock, Goto, Transition, ionVars, callVars
  <1>1. TypeOK'
    BY DEF TypeOK, IonTypeOK, Pcs
  <1>2. Calls'
    BY DEF Calls, TypeOK
  <1>3. ToItself'
    BY DEF ToItself, Loading, Calls, TypeOK
  <1>4. Locks'
    BY DEF Locks, Calls, TypeOK
  <1>5. Pairs'
    BY DEF Pairs, Calls, Locks, TypeOK
  <1>6. Ledger'
    BY LedgerKept DEF Ledger, OwnsNew, OwnsOld, Owns, TypeOK
  <1>7. TableTrue'
    BY DEF TableTrue, TypeOK, IonTypeOK
  <1>8. Installed'
    BY DEF Installed, ToItself, Calls, TypeOK
  <1>9. InKernel'
    BY DEF InKernel, TypeOK
  <1>10. QED
    BY <1>1, <1>2, <1>3, <1>4, <1>5, <1>6, <1>7, <1>8, <1>9

\* What the channel owned is the thread's from now on.
LEMMA TakeOldInv ==
  ASSUME IndInv, NEW t \in Threads, TakeOld(t)
  PROVE  IndInv'
  <1> USE MeshAssumption
      DEF IndInv, TakeOld, NoMesh, Goto, Transition, ionVars, callVars
  <1>1. chn[t] \in Chns
    BY DEF Calls, TypeOK
  <1>2. \A u \in Threads : pc[u] = "install" => chn[u] # chn[t]
    BY <1>1 DEF Locks
  <1>3. \A b \in Addr :
          /\ \A u \in Threads : OwnsNew(u, b)' <=> OwnsNew(u, b)
          /\ \A u \in Threads :
               OwnsOld(u, b)' <=> OwnsOld(u, b) \/ (u = t /\ Owns(chn[t], b))
          /\ \A d \in Chns : Owns(d, b)' <=> Owns(d, b) /\ d # chn[t]
          /\ b \in lost' <=> b \in lost
          /\ b \in granted' <=> b \in granted
    BY <1>1, <1>2 DEF OwnsNew, OwnsOld, Owns, TypeOK
  <1>4. TypeOK'
    BY <1>1, <1>2 DEF TypeOK, IonTypeOK, Pcs
  <1>5. Calls'
    BY <1>1, <1>2 DEF Calls, TypeOK
  <1>6. ToItself'
    BY <1>1, <1>2 DEF ToItself, Loading, Calls, TypeOK
  <1>7. Locks'
    BY <1>1, <1>2 DEF Locks, Calls, TypeOK
  <1>8. Pairs'
    BY <1>1, <1>2 DEF Pairs, Calls, Locks, TypeOK
  <1>9. Ledger'
    BY <1>1, <1>2, <1>3 DEF Ledger, HasOwner, Apart
  <1>10. TableTrue'
    BY <1>1, <1>2 DEF TableTrue, TypeOK, IonTypeOK
  <1>11. Installed'
    BY <1>1, <1>2 DEF Installed, ToItself, Calls, TypeOK
  <1>12. InKernel'
    BY <1>1, <1>2 DEF InKernel, TypeOK
  <1>13. QED
    BY <1>4, <1>5, <1>6, <1>7, <1>8, <1>9, <1>10, <1>11, <1>12

\* The thread's mesh is the channel's from now on.
LEMMA InstallInv ==
  ASSUME IndInv, NEW t \in Threads, Install(t)
  PROVE  IndInv'
  <1> USE MeshAssumption
      DEF IndInv, Install, Goto, Transition, ionVars, callVars
  <1>1. chn[t] \in Chns /\ new[t] \in Addr
    BY DEF Calls, TypeOK
  <1>2. \A u \in Threads : pc[u] = "install" /\ chn[u] = chn[t] => u = t
    BY <1>1 DEF Locks
  <1>3. \A b \in Addr : ~Owns(chn[t], b)
    BY DEF Owns
  <1>4. \A b \in Addr :
          /\ \A u \in Threads : OwnsNew(u, b)' <=> OwnsNew(u, b) /\ u # t
          /\ \A u \in Threads : OwnsOld(u, b)' <=> OwnsOld(u, b)
          /\ \A d \in Chns : Owns(d, b)' <=> Owns(d, b) \/ (d = chn[t] /\ OwnsNew(t, b))
          /\ b \in lost' <=> b \in lost
          /\ b \in granted' <=> b \in granted
    BY <1>1, <1>2 DEF OwnsNew, OwnsOld, Owns, TypeOK
  <1>5. TypeOK'
    BY <1>1, <1>2, <1>3 DEF TypeOK, IonTypeOK, Pcs
  <1>6. Calls'
    BY <1>1, <1>2, <1>3 DEF Calls, TypeOK
  <1>7. ToItself'
    BY <1>1, <1>2, <1>3 DEF ToItself, Loading, Calls, TypeOK
  <1>8. Locks'
    BY <1>1, <1>2, <1>3 DEF Locks, Calls, TypeOK
  <1>9. Pairs'
    BY <1>1, <1>2, <1>3 DEF Pairs, Calls, Locks, TypeOK
  <1>10. Ledger'
    BY <1>1, <1>2, <1>3, <1>4 DEF Ledger, HasOwner, Apart
  <1>11. TableTrue'
    BY <1>1, <1>2, <1>3 DEF TableTrue, TypeOK, IonTypeOK
  <1>12. Installed'
    BY <1>1, <1>2, <1>3 DEF Installed, ToItself, Calls, TypeOK
  <1>13. InKernel'
    <2>1. SUFFICES ASSUME NEW c \in Chns, (settled[c] /\ kernel[c].ldc)'
                 PROVE  /\ kernel[c].mesh \in Addr
                        /\ mesh'[c].pa \in {kernel[c].mesh, Default}
                        /\ \/ mesh'[c].pa = kernel[c].mesh
                           \/ kernel[c].mesh \in lost'
                           \/ \E u \in Threads :
                                pc'[u] = "install" /\ chn[u] = c /\ old[u].pa = kernel[c].mesh
      BY DEF InKernel
    <2>2. c # chn[t] /\ settled[c] /\ kernel[c].ldc
      BY <1>1, <2>1 DEF TypeOK
    <2>3. mesh'[c] = mesh[c] /\ lost \subseteq lost'
      BY <1>1, <2>2 DEF TypeOK
    <2>4. \A u \in Threads : chn[u] = c => pc'[u] = pc[u]
      BY <2>2 DEF TypeOK
    <2>5. QED
      BY <2>2, <2>3, <2>4 DEF InKernel
  <1>14. QED
    BY <1>5, <1>6, <1>7, <1>8, <1>9, <1>10, <1>11, <1>12, <1>13

\* The mesh that was taken out is freed.
LEMMA FreeOldInv ==
  ASSUME IndInv, NEW t \in Threads, FreeOld(t)
  PROVE  IndInv'
  <1> USE MeshAssumption
      DEF IndInv, FreeOld, NoMesh, Goto, Transition, ionVars, callVars
  <1>1. entry \in [Addr -> {"none", "live", "dangling"}]
    BY DEF TypeOK, IonTypeOK
  <1>2. ASSUME old[t].pa \in Addr
        PROVE  /\ old[t].pa \in granted /\ OwnsOld(t, old[t].pa) /\ old[t].va = old[t].pa
               /\ entry[old[t].pa] # "none" /\ ionHashmap
    BY <1>2 DEF Ledger, HasOwner, OwnsOld, TableTrue, Pairs
  <1>3. \A u \in Threads : pc'[u] = "install" <=> pc[u] = "install"
    BY DEF TypeOK
  <1>4. IF old[t].pa \in Addr
        THEN /\ entry' = [entry EXCEPT ![old[t].pa] = "none"]
             /\ granted' = granted \ {old[t].pa} /\ mapped' = mapped \ {old[t].pa}
             /\ ionHashmap' = (\E a \in Addr \ {old[t].pa} : entry[a] # "none")
        ELSE UNCHANGED ionVars
    BY <1>2 DEF IonFree
  <1>5. \A b \in Addr :
          /\ \A u \in Threads : OwnsNew(u, b)' <=> OwnsNew(u, b)
          /\ \A u \in Threads : OwnsOld(u, b)' <=> OwnsOld(u, b) /\ u # t
          /\ \A d \in Chns : Owns(d, b)' <=> Owns(d, b)
          /\ b \in lost' <=> b \in lost
          /\ b \in granted' <=> b \in granted /\ ~OwnsOld(t, b)
    <2>1. \A b \in Addr : b \in granted' <=> b \in granted /\ ~OwnsOld(t, b)
      BY <1>4 DEF OwnsOld
    <2>2. QED
      BY <1>3, <2>1 DEF OwnsNew, OwnsOld, Owns, TypeOK
  <1>6. TypeOK'
    BY <1>1, <1>4 DEF TypeOK, IonTypeOK, Pcs
  <1>7. Calls'
    BY <1>2, <1>3 DEF Calls, TypeOK
  <1>8. ToItself'
    BY <1>2, <1>3 DEF ToItself, Loading, Calls, TypeOK
  <1>9. Locks'
    BY <1>2, <1>3 DEF Locks, Calls, TypeOK
  <1>10. Pairs'
    BY <1>2, <1>3 DEF Pairs, Calls, Locks, TypeOK
  <1>11. Ledger'
    BY <1>5 DEF Ledger, HasOwner, Apart
  <1>12. TableTrue'
    <2>1. CASE old[t].pa \in Addr
      <3>1. granted' = {a \in Addr : entry'[a] = "live"}
        BY <1>1, <1>4, <2>1 DEF TableTrue
      <3>2. mapped' = granted'
        BY <1>4, <2>1 DEF TableTrue
      <3>3. ionHashmap' \/ \A a \in Addr : entry'[a] = "none"
        BY <1>1, <1>4, <2>1
      <3>4. QED
        BY <3>1, <3>2, <3>3 DEF TableTrue
    <2>2. CASE old[t].pa \notin Addr
      BY <1>4, <2>2 DEF TableTrue
    <2>3. QED
      BY <2>1, <2>2
  <1>13. Installed'
    BY <1>2, <1>3 DEF Installed, ToItself, Calls, TypeOK
  <1>14. InKernel'
    BY <1>3 DEF InKernel, TypeOK
  <1>15. QED
    BY <1>6, <1>7, <1>8, <1>9, <1>10, <1>11, <1>12, <1>13, <1>14

\* The kernel is told of a mesh, or that there is none.
LEMMA TellInv ==
  ASSUME IndInv, NEW t \in Threads, Tell(t)
  PROVE  IndInv'
  <1> USE MeshAssumption
      DEF IndInv, Tell, Handle, Return, NoMesh, Goto, Transition, ionVars,
          callVars
  <1>1. chn[t] \in Chns
    BY DEF Calls, TypeOK
  <1>2. \A u \in Threads : pc'[u] = "install" <=> pc[u] = "install"
    BY DEF TypeOK
  <1>3. \A c \in Chns :
          kernel'[c] = IF c = chn[t]
                         THEN [ldc |-> ldc[t], rot |-> rot[t], mesh |-> Handle(t)]
                         ELSE kernel[c]
    BY <1>1 DEF TypeOK
  <1>4. TypeOK'
    BY <1>1, <1>2, <1>3 DEF TypeOK, IonTypeOK, Pcs
  <1>5. Calls'
    BY <1>1, <1>2, <1>3 DEF Calls, TypeOK
  <1>6. ToItself'
    BY <1>1, <1>2, <1>3 DEF ToItself, Loading, Calls, TypeOK
  <1>7. Locks'
    BY <1>1, <1>2, <1>3 DEF Locks, Calls, TypeOK
  <1>8. Pairs'
    BY <1>1, <1>2, <1>3 DEF Pairs, Calls, Locks, TypeOK
  <1>9. Ledger'
    BY <1>1, <1>2, <1>3, LedgerKept DEF Ledger, OwnsNew, OwnsOld, Owns, TypeOK
  <1>10. TableTrue'
    BY <1>1, <1>2, <1>3 DEF TableTrue, TypeOK, IonTypeOK
  <1>11. Installed'
    BY <1>1, <1>2, <1>3 DEF Installed, ToItself, Calls, TypeOK
  <1>12. InKernel'
    BY <1>1, <1>2, <1>3 DEF InKernel, Installed, Calls, TypeOK
  <1>13. QED
    BY <1>4, <1>5, <1>6, <1>7, <1>8, <1>9, <1>10, <1>11, <1>12

\* DEFAULT_MESH_PADDR hides the mesh of the channel.
LEMMA SetDefaultInv ==
  ASSUME IndInv, NEW t \in Threads, SetDefault(t)
  PROVE  IndInv'
  <1> USE MeshAssumption
      DEF IndInv, SetDefault, Buffer, Goto, Transition, ionVars, callVars
  <1>1. chn[t] \in Chns
    BY DEF Calls, TypeOK
  <1>2. \A u \in Threads : pc'[u] = "install" <=> pc[u] = "install"
    BY DEF TypeOK
  <1>3. \A b \in Addr :
          /\ \A u \in Threads : OwnsNew(u, b)' <=> OwnsNew(u, b)
          /\ \A u \in Threads : OwnsOld(u, b)' <=> OwnsOld(u, b)
          /\ \A d \in Chns : Owns(d, b)' <=> Owns(d, b) /\ d # chn[t]
          /\ b \in lost' <=> b \in lost \/ Owns(chn[t], b)
          /\ b \in granted' <=> b \in granted
    BY <1>1, <1>2 DEF OwnsNew, OwnsOld, Owns, TypeOK
  <1>4. TypeOK'
    <2>1. mesh' \in [Chns -> [pa : Addr \cup {Zero, Default}, va : Addr \cup {Null}]]
      <3>1. mesh[chn[t]] \in [pa : Addr \cup {Zero, Default}, va : Addr \cup {Null}]
        BY <1>1 DEF TypeOK
      <3>2. [mesh[chn[t]] EXCEPT !.pa = Default] \in
              [pa : Addr \cup {Zero, Default}, va : Addr \cup {Null}]
        BY ONLY <3>1, NewAddress
      <3>3. QED
        BY <1>1, <3>2 DEF TypeOK
    <2>2. QED
      BY <1>1, <2>1 DEF TypeOK, IonTypeOK, Pcs
  <1>5. Calls'
    BY <1>1, <1>2 DEF Calls, TypeOK
  <1>6. ToItself'
    BY <1>1, <1>2 DEF ToItself, Loading, Calls, TypeOK
  <1>7. Locks'
    BY <1>1, <1>2 DEF Locks, Calls, TypeOK
  <1>8. Pairs'
    BY <1>1, <1>2 DEF Pairs, Calls, Locks, TypeOK
  <1>9. Ledger'
    BY <1>1, <1>3 DEF Ledger, HasOwner, Apart
  <1>10. TableTrue'
    BY <1>1, <1>2 DEF TableTrue, TypeOK, IonTypeOK
  <1>11. Installed'
    BY <1>1, <1>2 DEF Installed, ToItself, Calls, TypeOK
  <1>12. InKernel'
    <2>1. SUFFICES ASSUME NEW c \in Chns, settled[c], kernel[c].ldc
                 PROVE  /\ kernel[c].mesh \in Addr
                        /\ mesh'[c].pa \in {kernel[c].mesh, Default}
                        /\ \/ mesh'[c].pa = kernel[c].mesh
                           \/ kernel[c].mesh \in lost'
                           \/ \E u \in Threads :
                                pc'[u] = "install" /\ chn[u] = c /\ old[u].pa = kernel[c].mesh
      BY DEF InKernel
    <2>2. lost \subseteq lost'
      OBVIOUS
    <2>3. CASE c # chn[t]
      <3>1. mesh'[c] = mesh[c]
        BY <2>3 DEF TypeOK
      <3>2. /\ kernel[c].mesh \in Addr /\ mesh[c].pa \in {kernel[c].mesh, Default}
            /\ \/ mesh[c].pa = kernel[c].mesh
               \/ kernel[c].mesh \in lost
               \/ \E u \in Threads :
                    pc[u] = "install" /\ chn[u] = c /\ old[u].pa = kernel[c].mesh
        BY <2>1 DEF InKernel
      <3>3. QED
        BY <1>2, <2>2, <3>1, <3>2
    <2>4. CASE c = chn[t]
      <3>1. mesh'[c].pa = Default
        BY <1>1, <2>4 DEF TypeOK
      <3>2. mesh[c].pa = kernel[c].mesh /\ kernel[c].mesh \in Addr =>
              \/ kernel[c].mesh \in lost'
              \/ \E u \in Threads :
                   pc[u] = "install" /\ chn[u] = c /\ old[u].pa = kernel[c].mesh
        BY <2>4 DEF Pairs
      <3>3. QED
        BY <1>2, <2>1, <2>2, <3>1, <3>2 DEF InKernel
    <2>5. QED
      BY <2>3, <2>4
  <1>13. QED
    BY <1>4, <1>5, <1>6, <1>7, <1>8, <1>9, <1>10, <1>11, <1>12

\* The kernel is told of a rotation.
LEMMA RotateInv ==
  ASSUME IndInv, NEW t \in Threads, Rotate(t)
  PROVE  IndInv'
  <1> USE MeshAssumption
      DEF IndInv, Rotate, Return, NoMesh, Goto, Transition, ionVars, callVars
  <1>1. chn[t] \in Chns
    BY DEF Calls, TypeOK
  <1>2. \A u \in Threads : pc'[u] = "install" <=> pc[u] = "install"
    BY DEF TypeOK
  <1>3. \A c \in Chns : kernel'[c].ldc = kernel[c].ldc /\ kernel'[c].mesh = kernel[c].mesh
    BY <1>1 DEF TypeOK
  <1>4. TypeOK'
    <2>1. kernel' \in [Chns -> [ldc : BOOLEAN, rot : Rots, mesh : Addr \cup {Zero, Junk}]]
      <3>1. /\ kernel[chn[t]] \in [ldc : BOOLEAN, rot : Rots, mesh : Addr \cup {Zero, Junk}]
            /\ rot[t] \in Rots
        BY <1>1 DEF TypeOK
      <3>2. [kernel[chn[t]] EXCEPT !.rot = rot[t]] \in
              [ldc : BOOLEAN, rot : Rots, mesh : Addr \cup {Zero, Junk}]
        BY ONLY <3>1, NewRotation
      <3>3. QED
        BY <1>1, <3>2 DEF TypeOK
    <2>2. QED
      BY <1>1, <2>1 DEF TypeOK, IonTypeOK, Pcs
  <1>5. Calls'
    BY <1>1, <1>2, <1>3 DEF Calls, TypeOK
  <1>6. ToItself'
    BY <1>1, <1>2, <1>3 DEF ToItself, Loading, Calls, TypeOK
  <1>7. Locks'
    BY <1>1, <1>2, <1>3 DEF Locks, Calls, TypeOK
  <1>8. Pairs'
    BY <1>1, <1>2, <1>3 DEF Pairs, Calls, Locks, TypeOK
  <1>9. Ledger'
    BY <1>1, <1>2, <1>3, LedgerKept DEF Ledger, OwnsNew, OwnsOld, Owns, TypeOK
  <1>10. TableTrue'
    BY <1>1, <1>2, <1>3 DEF TableTrue, TypeOK, IonTypeOK
  <1>11. Installed'
    BY <1>1, <1>2, <1>3 DEF Installed, ToItself, Calls, TypeOK
  <1>12. InKernel'
    BY <1>1, <1>2, <1>3 DEF InKernel, TypeOK
  <1>13. QED
    BY <1>4, <1>5, <1>6, <1>7, <1>8, <1>9, <1>10, <1>11, <1>12

\* A loaded mesh hides the mesh of the channel.
LEMMA InstallLoadedInv ==
  ASSUME IndInv, NEW t \in Threads, InstallLoaded(t)
  PROVE  IndInv'
  <1> USE MeshAssumption
      DEF IndInv, InstallLoaded, Buffer, Goto, Transition, ionVars, callVars
  <1>1. chn[t] \in Chns /\ new[t] \in Addr
    BY DEF Calls, TypeOK
  <1>2. \A u \in Threads : pc'[u] = "install" <=> pc[u] = "install"
    BY DEF TypeOK
  <1>3. \A u \in Threads : pc[u] = "install" => chn[u] # chn[t]
    BY <1>1 DEF ToItself, Loading
  <1>4. \A b \in Addr :
          /\ \A u \in Threads : OwnsNew(u, b)' <=> OwnsNew(u, b) /\ u # t
          /\ \A u \in Threads : OwnsOld(u, b)' <=> OwnsOld(u, b)
          /\ \A d \in Chns : Owns(d, b)' <=> IF d = chn[t] THEN OwnsNew(t, b) ELSE Owns(d, b)
          /\ b \in lost' <=> b \in lost \/ Owns(chn[t], b)
          /\ b \in granted' <=> b \in granted
    BY <1>1, <1>2, <1>3 DEF OwnsNew, OwnsOld, Owns, TypeOK
  <1>5. TypeOK'
    BY <1>1, <1>2, <1>3 DEF TypeOK, IonTypeOK, Pcs
  <1>6. Calls'
    BY <1>1, <1>2, <1>3 DEF Calls, TypeOK
  <1>7. ToItself'
    BY <1>1, <1>2, <1>3 DEF ToItself, Loading, Calls, TypeOK
  <1>8. Locks'
    BY <1>1, <1>2, <1>3 DEF Locks, Calls, TypeOK
  <1>9. Pairs'
    BY <1>1, <1>2, <1>3 DEF Pairs, Calls, Locks, TypeOK
  <1>10. Ledger'
    BY <1>1, <1>3, <1>4 DEF Ledger, HasOwner, Apart
  <1>11. TableTrue'
    BY <1>1, <1>2, <1>3 DEF TableTrue, TypeOK, IonTypeOK
  <1>12. Installed'
    BY <1>1, <1>2, <1>3 DEF Installed, ToItself, Calls, TypeOK
  <1>13. InKernel'
    <2>1. SUFFICES ASSUME NEW c \in Chns, (settled[c] /\ kernel[c].ldc)'
                 PROVE  /\ kernel[c].mesh \in Addr
                        /\ mesh'[c].pa \in {kernel[c].mesh, Default}
                        /\ \/ mesh'[c].pa = kernel[c].mesh
                           \/ kernel[c].mesh \in lost'
                           \/ \E u \in Threads :
                                pc'[u] = "install" /\ chn[u] = c /\ old[u].pa = kernel[c].mesh
      BY DEF InKernel
    <2>2. c # chn[t] /\ settled[c] /\ kernel[c].ldc
      BY <1>1, <2>1 DEF TypeOK
    <2>3. mesh'[c] = mesh[c] /\ lost \subseteq lost'
      BY <1>1, <2>2 DEF TypeOK
    <2>4. \A u \in Threads : chn[u] = c => pc'[u] = pc[u]
      BY <2>2 DEF TypeOK
    <2>5. QED
      BY <2>2, <2>3, <2>4 DEF InKernel
  <1>14. QED
    BY <1>5, <1>6, <1>7, <1>8, <1>9, <1>10, <1>11, <1>12, <1>13

\* The kernel refuses.
LEMMA KernelRefusesInv ==
  ASSUME IndInv, NEW t \in Threads, KernelRefuses(t)
  PROVE  IndInv'
  <1> USE MeshAssumption
      DEF IndInv, KernelRefuses, Return, NoMesh, Goto, Transition, ionVars,
          callVars
  <1>1. TypeOK'
    BY DEF TypeOK, IonTypeOK, Pcs
  <1>2. Calls'
    BY DEF Calls, TypeOK
  <1>3. ToItself'
    BY DEF ToItself, Loading, Calls, TypeOK
  <1>4. Locks'
    BY DEF Locks, Calls, TypeOK
  <1>5. Pairs'
    BY DEF Pairs, Calls, Locks, TypeOK
  <1>6. Ledger'
    BY LedgerKept DEF Ledger, OwnsNew, OwnsOld, Owns, TypeOK
  <1>7. TableTrue'
    BY DEF TableTrue, TypeOK, IonTypeOK
  <1>8. Installed'
    BY DEF Installed, ToItself, Calls, TypeOK
  <1>9. InKernel'
    BY DEF InKernel, TypeOK
  <1>10. QED
    BY <1>1, <1>2, <1>3, <1>4, <1>5, <1>6, <1>7, <1>8, <1>9

LEMMA InitInv == Init => IndInv
  <1> SUFFICES ASSUME Init PROVE IndInv
    OBVIOUS
  <1> USE MeshAssumption DEF Init, IonInit, NoMesh, Fresh
  <1>1. TypeOK
    BY DEF TypeOK, IonTypeOK, Pcs
  <1>2. Calls /\ ToItself /\ Locks /\ Pairs
    BY DEF Calls, ToItself, Loading, Locks, Pairs
  <1>3. Ledger
    <2>1. \A a \in Addr :
            /\ a \notin granted /\ a \notin lost
            /\ \A t \in Threads : ~OwnsNew(t, a) /\ ~OwnsOld(t, a)
            /\ \A c \in Chns : ~Owns(c, a)
      BY DEF OwnsNew, OwnsOld, Owns
    <2>2. QED
      BY <2>1 DEF Ledger, HasOwner, Apart
  <1>4. TableTrue
    BY DEF TableTrue
  <1>5. Installed /\ InKernel
    BY DEF Installed, InKernel
  <1>6. QED
    BY <1>1, <1>2, <1>3, <1>4, <1>5 DEF IndInv

\* The calls begin as BeginInv assumes.
LEMMA CallInv ==
  ASSUME IndInv, NEW t \in Threads, Call(t)
  PROVE  IndInv'
  <1>1. PICK c \in Chns :
          \/ \E enable \in BOOLEAN : SetChnLDCAttr(t, c, enable)
          \/ \E rotation \in Rots : SetChnRotation(t, c, rotation)
          \/ LoadMesh(t, c)
    BY DEF Call
  <1>2. kernel[c].rot \in Rots /\ kernel[c].ldc \in BOOLEAN
    BY DEF IndInv, TypeOK
  <1>3. ASSUME NEW enable \in BOOLEAN, SetChnLDCAttr(t, c, enable)
        PROVE  IndInv'
    <2>1. PICK to : /\ Begin(t, c, to, enable, kernel[c].rot)
                    /\ to \in {"generate", "default", "tell"}
                    /\ to = "generate" => enable
                    /\ to = "tell" => ~enable
      BY <1>3 DEF SetChnLDCAttr
    <2>2. \A u \in Threads : InCall(u, c) => ~Loading(u)
      BY <1>3 DEF SetChnLDCAttr
    <2>3. QED
      BY <1>2, <2>1, <2>2, BeginInv
  <1>4. ASSUME NEW rotation \in Rots, SetChnRotation(t, c, rotation)
        PROVE  IndInv'
    <2>1. PICK to : /\ Begin(t, c, to, kernel[c].ldc, rotation)
                    /\ to \in {"generate", "default"}
                    /\ to = "generate" => kernel[c].ldc
      BY <1>4 DEF SetChnRotation
    <2>2. \A u \in Threads : InCall(u, c) => ~Loading(u)
      BY <1>4 DEF SetChnRotation
    <2>3. QED
      BY <1>2, <2>1, <2>2, BeginInv
  <1>5. ASSUME LoadMesh(t, c)
        PROVE  IndInv'
    <2>1. /\ Begin(t, c, "acquire", TRUE, NoRot)
          /\ \A u \in Threads : ~InCall(u, c)
      BY <1>5 DEF LoadMesh
    <2>2. QED
      BY <2>1, BeginInv, MeshAssumption
  <1>6. QED
    BY <1>1, <1>3, <1>4, <1>5

\* Every step keeps the invariant.
LEMMA NextInv ==
  ASSUME IndInv, [Next]_vars
  PROVE  IndInv'
  <1>1. ASSUME NEW g \in Grps, CreateGrp(g) \/ DestroyGrp(g)
        PROVE  IndInv'
    BY <1>1, CreateGrpInv, DestroyGrpInv
  <1>2. ASSUME NEW t \in Threads, Step(t)
        PROVE  IndInv'
    BY <1>2, AllocateInv, AllocateFailsInv, FillInv, FillFailsInv, LockInv,
       TakeOldInv, InstallInv, FreeOldInv, TellInv, SetDefaultInv, RotateInv,
       InstallLoadedInv, KernelRefusesInv
    DEF Step
  <1>3. CASE UNCHANGED vars
    <2> USE <1>3 DEF vars, ionVars, callVars, IndInv
    <2>1. TypeOK'
      BY DEF TypeOK, IonTypeOK
    <2>2. Calls' /\ ToItself' /\ Locks' /\ Pairs'
      BY DEF Calls, ToItself, Loading, Locks, Pairs
    <2>3. Ledger'
      BY LedgerKept DEF OwnsNew, OwnsOld, Owns
    <2>4. TableTrue'
      BY DEF TableTrue
    <2>5. Installed' /\ InKernel'
      BY DEF Installed, InKernel
    <2>6. QED
      BY <2>1, <2>2, <2>3, <2>4, <2>5
  <1>4. QED
    BY <1>1, <1>2, <1>3, CallInv DEF Next

-----------------------------------------------------------------------------
\* The theorems

\* IndInv holds in every state of VpssMesh.
THEOREM Inductive == Spec => []IndInv
  BY InitInv, NextInv, PTL DEF Spec

\* The state of the meshes, the table and the threads stays of its type.
THEOREM TypeCorrect == Spec => []TypeOK
  <1>1. IndInv => TypeOK
    BY DEF IndInv
  <1>2. QED
    BY Inductive, <1>1, PTL

\* However the calls overlap and fail, the ION table knows the buffers that
\* are allocated, each of them mapped, and no freed data is reached through it.
THEOREM TableRight == Spec => []TableTrue
  <1>1. IndInv => TableTrue
    BY DEF IndInv
  <1>2. QED
    BY Inductive, <1>1, PTL

\* Every mesh buffer has one owner: it is freed once, and never in use.
THEOREM OneOwner == Spec => []OwnedOnce
  <1>1. IndInv => OwnedOnce
    BY LedgerOwned DEF IndInv
  <1>2. QED
    BY Inductive, <1>1, PTL

\* After a call that was alone the kernel's mesh is the channel's, allocated.
THEOREM KernelRight == Spec => []KernelMeshLives
  <1>1. ASSUME IndInv PROVE KernelMeshLives
    <2>1. SUFFICES ASSUME NEW c \in Chns, settled[c], kernel[c].ldc
                   PROVE  /\ kernel[c].mesh \in granted
                          /\ mesh[c].pa \in {kernel[c].mesh, Default}
      BY DEF KernelMeshLives
    <2>2. /\ kernel[c].mesh \in Addr /\ mesh[c].pa \in {kernel[c].mesh, Default}
          /\ \/ mesh[c].pa = kernel[c].mesh
             \/ kernel[c].mesh \in lost
             \/ \E t \in Threads :
                  pc[t] = "install" /\ chn[t] = c /\ old[t].pa = kernel[c].mesh
      BY <1>1, <2>1 DEF IndInv, InKernel
    <2>3. CASE \E t \in Threads : pc[t] = "install" /\ chn[t] = c
      <3>1. PICK t \in Threads : pc[t] = "install" /\ chn[t] = c
        BY <2>3
      <3>2. old[t].pa = kernel[c].mesh \/ kernel[c].mesh \in lost
        <4>1. mesh[c].pa \in {old[t].pa, Default}
          BY <1>1, <3>1 DEF IndInv, Pairs
        <4>2. \A u \in Threads : pc[u] = "install" /\ chn[u] = c => u = t
          BY <1>1, <3>1 DEF IndInv, Locks
        <4>3. QED
          BY <2>2, <4>1, <4>2, MeshAssumption
      <3>3. OwnsOld(t, kernel[c].mesh) \/ kernel[c].mesh \in lost
        BY <3>1, <3>2 DEF OwnsOld
      <3>4. QED
        BY <1>1, <2>2, <3>3 DEF IndInv, Ledger, HasOwner
    <2>4. CASE ~ \E t \in Threads : pc[t] = "install" /\ chn[t] = c
      <3>1. Owns(c, kernel[c].mesh) \/ kernel[c].mesh \in lost
        BY <2>2, <2>4 DEF Owns
      <3>2. QED
        BY <1>1, <2>2, <3>1 DEF IndInv, Ledger, HasOwner
    <2>5. QED
      BY <2>3, <2>4
  <1>2. QED
    BY Inductive, <1>1, PTL
=============================================================================
