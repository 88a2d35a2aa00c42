--------------------------- MODULE VencChnProofs ---------------------------
(***************************************************************************)
(* Proofs about the encoder's channels, for any set of channels smaller    *)
(* than the range of the counter.                                          *)
(*                                                                         *)
(* The argument: the counter is the number of channels that exist, give or *)
(* take the one that is just being counted, so it reaches 0 only when the  *)
(* last channel has gone; a thread that waits for a stream keeps its own   *)
(* channel, and with it /dev/mem, from going.                              *)
(***************************************************************************)
EXTENDS VencChn, FiniteSetTheorems, TLAPS

\* The thread inside one of the calls that run one at a time is busy.
BusyAlone == \A c \in Chns : pc[c] \in BusyPcs <=> busy = c

\* A channel that exists, has just been created or is about to be counted
\* down, and the channel a stream is mapped for, are what they seem.
ChannelsKnown ==
  /\ \A c \in created : fd[c] = "open"
  /\ \A c \in Chns : pc[c] \in {"countup", "map"} => c \in created
  /\ \A c \in Chns : pc[c] = "countdown" => c \notin created
  /\ \A c \in Chns : pc[c] = "openmem" => fd[Target(c)] = "open"
  /\ \A c \in Chns : pc[c] = "create" => fd[c] = "open"

\* The counter, with what is still to be added or taken away.
Pending == IF busy = Nobody THEN 0
           ELSE IF pc[busy] = "countup" THEN 1
           ELSE IF pc[busy] = "countdown" THEN -1 ELSE 0

Counted == cnt + Pending = Cardinality(created)

\* /dev/mem is open while a channel exists, and until it is counted down.
DevmemNeeded ==
  /\ created # {} => devmem
  /\ \A c \in Chns : pc[c] \in {"create", "countdown"} => devmem
  /\ \A c \in Chns : pc[c] = "closemem" => created = {}
  /\ memFds = IF devmem THEN 1 ELSE 0

IndInv ==
  /\ TypeOK
  /\ BusyAlone
  /\ ChannelsKnown
  /\ Counted
  /\ DevmemNeeded

-----------------------------------------------------------------------------
USE DEF memVars, vars

\* The channels that exist are fewer than the counter can count.
LEMMA Finite ==
  ASSUME TypeOK
  PROVE  /\ IsFiniteSet(created)
         /\ Cardinality(created) \in Nat
         /\ Cardinality(created) < Wrap
         /\ \A c \in Chns \ created : Cardinality(created) + 1 < Wrap
  <1>1. \A S \in SUBSET Chns : /\ IsFiniteSet(S)
                              /\ Cardinality(S) \in Nat
                              /\ Cardinality(S) < Wrap
    BY VencAssumption, FS_Subset, FS_CardinalityType
  <1>2. created \in SUBSET Chns
    BY DEF TypeOK
  <1>3. ASSUME NEW c \in Chns \ created PROVE Cardinality(created) + 1 < Wrap
    <2>1. Cardinality(created \cup {c}) = Cardinality(created) + 1
      BY <1>1, <1>2, FS_AddElement
    <2>2. created \cup {c} \in SUBSET Chns
      BY <1>2
    <2>3. QED
      BY <1>1, <2>1, <2>2
  <1>4. QED
    BY <1>1, <1>2, <1>3

\* A channel created or destroyed is one more or one fewer.
LEMMA OneMore ==
  ASSUME TypeOK, NEW c \in Chns
  PROVE  /\ c \notin created =>
              Cardinality(created \cup {c}) = Cardinality(created) + 1
         /\ c \in created =>
              Cardinality(created \ {c}) = Cardinality(created) - 1
  BY Finite, FS_AddElement, FS_RemoveElement

\* A number in the range of the counter is not wrapped.
LEMMA InRange ==
  ASSUME NEW n \in Nat, n < Wrap
  PROVE  n % Wrap = n
  BY VencAssumption

\* CreateChn begins when no other of these calls is in progress.
LEMMA CreateChnInv ==
  ASSUME IndInv, NEW c \in Chns, CreateChn(c)
  PROVE  IndInv'
  <1> USE VencAssumption DEF IndInv, TypeOK, CreateChn, Enter, Transition, Goto
  <1>1. TypeOK'
    BY DEF BusyPcs, StreamPcs, Calls
  <1>2. BusyAlone'
    BY DEF BusyAlone, BusyPcs
  <1>3. ChannelsKnown'
    BY DEF ChannelsKnown, BusyAlone, BusyPcs, Target
  <1>4. Counted'
    BY DEF Counted, Pending, BusyAlone, BusyPcs
  <1>5. DevmemNeeded'
    BY DEF DevmemNeeded, ChannelsKnown, BusyAlone, BusyPcs
  <1>6. QED
    BY <1>1, <1>2, <1>3, <1>4, <1>5

\* GetFd begins when no other of these calls is in progress.
LEMMA GetFdInv ==
  ASSUME IndInv, NEW c \in Chns, GetFd(c)
  PROVE  IndInv'
  <1> USE VencAssumption DEF IndInv, TypeOK, GetFd, Enter, Transition, Goto
  <1>1. TypeOK'
    BY DEF BusyPcs, StreamPcs, Calls
  <1>2. BusyAlone'
    BY DEF BusyAlone, BusyPcs
  <1>3. ChannelsKnown'
    BY DEF ChannelsKnown, BusyAlone, BusyPcs, Target
  <1>4. Counted'
    BY DEF Counted, Pending, BusyAlone, BusyPcs
  <1>5. DevmemNeeded'
    BY DEF DevmemNeeded, ChannelsKnown, BusyAlone, BusyPcs
  <1>6. QED
    BY <1>1, <1>2, <1>3, <1>4, <1>5

\* SetModParam begins when no other of these calls is in progress.
LEMMA SetModParamInv ==
  ASSUME IndInv, NEW c \in Chns, SetModParam(c)
  PROVE  IndInv'
  <1> USE VencAssumption DEF IndInv, TypeOK, SetModParam, Enter, Transition, Goto
  <1>1. TypeOK'
    BY DEF BusyPcs, StreamPcs, Calls
  <1>2. BusyAlone'
    BY DEF BusyAlone, BusyPcs
  <1>3. ChannelsKnown'
    BY DEF ChannelsKnown, BusyAlone, BusyPcs, Target
  <1>4. Counted'
    BY DEF Counted, Pending, BusyAlone, BusyPcs
  <1>5. DevmemNeeded'
    BY DEF DevmemNeeded, ChannelsKnown, BusyAlone, BusyPcs
  <1>6. QED
    BY <1>1, <1>2, <1>3, <1>4, <1>5

\* GetModParam begins when no other of these calls is in progress.
LEMMA GetModParamInv ==
  ASSUME IndInv, NEW c \in Chns, GetModParam(c)
  PROVE  IndInv'
  <1> USE VencAssumption DEF IndInv, TypeOK, GetModParam, Enter, Transition, Goto
  <1>1. TypeOK'
    BY DEF BusyPcs, StreamPcs, Calls
  <1>2. BusyAlone'
    BY DEF BusyAlone, BusyPcs
  <1>3. ChannelsKnown'
    BY DEF ChannelsKnown, BusyAlone, BusyPcs, Target
  <1>4. Counted'
    BY DEF Counted, Pending, BusyAlone, BusyPcs
  <1>5. DevmemNeeded'
    BY DEF DevmemNeeded, ChannelsKnown, BusyAlone, BusyPcs
  <1>6. QED
    BY <1>1, <1>2, <1>3, <1>4, <1>5

\* /dev/mem is opened only when it is not by SetModParam either
\* (cvi_venc.c:528-532).
LEMMA OpenDevmemFirstInv ==
  ASSUME IndInv, NEW c \in Chns, OpenDevmemFirst(c)
  PROVE  IndInv'
  <1> USE VencAssumption DEF IndInv, TypeOK, OpenDevmemFirst, Proceed, Leave, Goto
  <1>1. TypeOK'
    <2>1. pc' \in [Chns -> BusyPcs \cup StreamPcs \cup {"idle"}]
      BY DEF BusyPcs
    <2>2. memFds' = memFds \/ memFds' = memFds + 1
      OBVIOUS
    <2>3. busy' = busy \/ busy' = Nobody
      OBVIOUS
    <2>4. devmem' \in BOOLEAN
      OBVIOUS
    <2>5. QED
      BY <2>1, <2>2, <2>3, <2>4
  <1>2. BusyAlone'
    BY DEF BusyAlone, BusyPcs
  <1>3. ChannelsKnown'
    BY DEF ChannelsKnown, BusyAlone, BusyPcs, Target
  <1>4. Counted'
    BY DEF Counted, Pending, BusyAlone, BusyPcs
  <1>5. DevmemNeeded'
    BY DEF DevmemNeeded, ChannelsKnown, BusyAlone, BusyPcs
  <1>6. QED
    BY <1>1, <1>2, <1>3, <1>4, <1>5

\* The node is open when openDevice goes on to /dev/mem (cvi_venc.c:106-117).
LEMMA OpenDeviceInv ==
  ASSUME IndInv, NEW c \in Chns, OpenDevice(c)
  PROVE  IndInv'
  <1> USE VencAssumption DEF IndInv, TypeOK, OpenDevice, Proceed, Leave, Goto
  <1>1. TypeOK'
    BY DEF BusyPcs, StreamPcs, Calls
  <1>2. BusyAlone'
    BY DEF BusyAlone, BusyPcs
  <1>3. ChannelsKnown'
    BY DEF ChannelsKnown, BusyAlone, BusyPcs, Target
  <1>4. Counted'
    BY DEF Counted, Pending, BusyAlone, BusyPcs
  <1>5. DevmemNeeded'
    BY DEF DevmemNeeded, ChannelsKnown, BusyAlone, BusyPcs
  <1>6. QED
    BY <1>1, <1>2, <1>3, <1>4, <1>5

\* /dev/mem is opened only when it is not (cvi_venc.c:119-125).
LEMMA OpenDevmemInv ==
  ASSUME IndInv, NEW c \in Chns, OpenDevmem(c)
  PROVE  IndInv'
  <1> USE VencAssumption DEF IndInv, TypeOK, OpenDevmem, Proceed, Leave, Goto
  <1>1. TypeOK'
    <2>1. pc' \in [Chns -> BusyPcs \cup StreamPcs \cup {"idle"}]
      BY DEF BusyPcs
    <2>2. memFds' = memFds \/ memFds' = memFds + 1
      OBVIOUS
    <2>3. busy' = busy \/ busy' = Nobody
      OBVIOUS
    <2>4. devmem' \in BOOLEAN
      OBVIOUS
    <2>5. QED
      BY <2>1, <2>2, <2>3, <2>4
  <1>2. BusyAlone'
    BY DEF BusyAlone, BusyPcs
  <1>3. ChannelsKnown'
    BY DEF ChannelsKnown, BusyAlone, BusyPcs, Target
  <1>4. Counted'
    BY DEF Counted, Pending, BusyAlone, BusyPcs
  <1>5. DevmemNeeded'
    BY DEF DevmemNeeded, ChannelsKnown, BusyAlone, BusyPcs
  <1>6. QED
    BY <1>1, <1>2, <1>3, <1>4, <1>5

\* A channel that comes to exist is about to be counted.
LEMMA CreateIoctlInv ==
  ASSUME IndInv, NEW c \in Chns, CreateIoctl(c)
  PROVE  IndInv'
  <1> USE VencAssumption DEF IndInv, TypeOK, CreateIoctl, Proceed, Leave, Goto
  <1>1. TypeOK'
    BY DEF BusyPcs, StreamPcs, Calls
  <1>2. BusyAlone'
    BY DEF BusyAlone, BusyPcs
  <1>3. ChannelsKnown'
    BY DEF ChannelsKnown, BusyAlone, BusyPcs, Target
  <1>4. Counted'
    BY Finite, OneMore DEF Counted, Pending, BusyAlone, BusyPcs
  <1>5. DevmemNeeded'
    BY DEF DevmemNeeded, ChannelsKnown, BusyAlone, BusyPcs
  <1>6. QED
    BY <1>1, <1>2, <1>3, <1>4, <1>5

\* The channel just created is counted (cvi_venc.c:146).
LEMMA CountUpInv ==
  ASSUME IndInv, NEW c \in Chns, CountUp(c)
  PROVE  IndInv'
  <1> USE VencAssumption DEF IndInv, TypeOK, CountUp, Leave, Goto
  <1>1. TypeOK'
    BY DEF BusyPcs, StreamPcs, Calls
  <1>2. BusyAlone'
    BY DEF BusyAlone, BusyPcs
  <1>3. ChannelsKnown'
    BY DEF ChannelsKnown, BusyAlone, BusyPcs, Target
  <1>4. Counted'
    <2>1. busy = c /\ cnt + 1 = Cardinality(created)
      BY DEF Counted, Pending, BusyAlone, BusyPcs
    <2>2. cnt' = Cardinality(created)
      BY <2>1, Finite, InRange
    <2>3. QED
      BY <2>2, Finite DEF Counted, Pending
  <1>5. DevmemNeeded'
    BY DEF DevmemNeeded, ChannelsKnown, BusyAlone, BusyPcs
  <1>6. QED
    BY <1>1, <1>2, <1>3, <1>4, <1>5

\* DestroyChn begins when no other of these calls is in progress.
LEMMA DestroyChnInv ==
  ASSUME IndInv, NEW c \in Chns, DestroyChn(c)
  PROVE  IndInv'
  <1> USE VencAssumption DEF IndInv, TypeOK, DestroyChn, Enter, Transition, Goto
  <1>1. TypeOK'
    BY DEF BusyPcs, StreamPcs, Calls
  <1>2. BusyAlone'
    BY DEF BusyAlone, BusyPcs
  <1>3. ChannelsKnown'
    BY DEF ChannelsKnown, BusyAlone, BusyPcs, Target
  <1>4. Counted'
    BY DEF Counted, Pending, BusyAlone, BusyPcs
  <1>5. DevmemNeeded'
    BY DEF DevmemNeeded, ChannelsKnown, BusyAlone, BusyPcs
  <1>6. QED
    BY <1>1, <1>2, <1>3, <1>4, <1>5

\* A channel that goes is about to be counted down; one that is refused stays.
LEMMA DestroyIoctlInv ==
  ASSUME IndInv, NEW c \in Chns, DestroyIoctl(c)
  PROVE  IndInv'
  <1> USE VencAssumption DEF IndInv, TypeOK, DestroyIoctl, Proceed, Leave, Goto
  <1>1. TypeOK'
    BY DEF BusyPcs, StreamPcs, Calls
  <1>2. BusyAlone'
    BY DEF BusyAlone, BusyPcs
  <1>3. ChannelsKnown'
    BY DEF ChannelsKnown, BusyAlone, BusyPcs, Target
  <1>4. Counted'
    BY Finite, OneMore DEF Counted, Pending, BusyAlone, BusyPcs
  <1>5. DevmemNeeded'
    BY DEF DevmemNeeded, ChannelsKnown, BusyAlone, BusyPcs
  <1>6. QED
    BY <1>1, <1>2, <1>3, <1>4, <1>5

\* The counter reaches 0 only when no channel exists (cvi_venc.c:167-168).
LEMMA CountDownInv ==
  ASSUME IndInv, NEW c \in Chns, CountDown(c)
  PROVE  IndInv'
  <1> USE VencAssumption DEF IndInv, TypeOK, CountDown, Proceed, Leave, Goto
  <1>1. TypeOK'
    BY DEF BusyPcs, StreamPcs, Calls
  <1>2. BusyAlone'
    BY DEF BusyAlone, BusyPcs
  <1>3. ChannelsKnown'
    BY DEF ChannelsKnown, BusyAlone, BusyPcs, Target
  <1>4. Counted'
    <2>1. busy = c /\ cnt - 1 = Cardinality(created)
      BY Finite DEF Counted, Pending, BusyAlone, BusyPcs
    <2>2. cnt' = Cardinality(created)
      BY <2>1, Finite, InRange
    <2>3. QED
      BY <2>1, <2>2, Finite DEF Counted, Pending
  <1>5. DevmemNeeded'
    <2>1. Pending' = 0
      BY DEF Pending, BusyAlone, BusyPcs
    <2>2. cnt' = 0 <=> created = {}
      BY <1>1, <1>4, <2>1, Finite, FS_EmptySet DEF Counted
    <2>3. QED
      BY <2>2 DEF DevmemNeeded, BusyAlone, BusyPcs
  <1>6. QED
    BY <1>1, <1>2, <1>3, <1>4, <1>5

\* /dev/mem is closed when no channel exists, so none is got a stream of.
LEMMA CloseDevmemInv ==
  ASSUME IndInv, NEW c \in Chns, CloseDevmem(c)
  PROVE  IndInv'
  <1> USE VencAssumption DEF IndInv, TypeOK, CloseDevmem, Leave, Goto
  <1>1. TypeOK'
    <2>1. pc' \in [Chns -> BusyPcs \cup StreamPcs \cup {"idle"}]
      BY DEF BusyPcs
    <2>2. memFds' \in Nat
      BY DEF DevmemNeeded
    <2>3. QED
      BY <2>1, <2>2
  <1>2. BusyAlone'
    BY DEF BusyAlone, BusyPcs
  <1>3. ChannelsKnown'
    BY DEF ChannelsKnown, BusyAlone, BusyPcs, Target
  <1>4. Counted'
    BY DEF Counted, Pending, BusyAlone, BusyPcs
  <1>5. DevmemNeeded'
    BY DEF DevmemNeeded, ChannelsKnown, BusyAlone, BusyPcs
  <1>6. QED
    BY <1>1, <1>2, <1>3, <1>4, <1>5

\* GetStream begins beside the calls of other channels.
LEMMA GetStreamInv ==
  ASSUME IndInv, NEW c \in Chns, GetStream(c)
  PROVE  IndInv'
  <1> USE VencAssumption DEF IndInv, TypeOK, GetStream, Transition, Goto
  <1>1. TypeOK'
    BY DEF BusyPcs, StreamPcs, Calls
  <1>2. BusyAlone'
    BY DEF BusyAlone, BusyPcs
  <1>3. ChannelsKnown'
    BY DEF ChannelsKnown, BusyAlone, BusyPcs, Target
  <1>4. Counted'
    BY DEF Counted, Pending, BusyAlone, BusyPcs
  <1>5. DevmemNeeded'
    BY DEF DevmemNeeded, ChannelsKnown, BusyAlone, BusyPcs
  <1>6. QED
    BY <1>1, <1>2, <1>3, <1>4, <1>5

\* The kernel hands out a stream only of a channel that exists.
LEMMA GetIoctlInv ==
  ASSUME IndInv, NEW c \in Chns, GetIoctl(c)
  PROVE  IndInv'
  <1> USE VencAssumption DEF IndInv, TypeOK, GetIoctl, Goto
  <1>1. TypeOK'
    BY DEF BusyPcs, StreamPcs, Calls
  <1>2. BusyAlone'
    BY DEF BusyAlone, BusyPcs
  <1>3. ChannelsKnown'
    BY DEF ChannelsKnown, BusyAlone, BusyPcs, Target
  <1>4. Counted'
    BY DEF Counted, Pending, BusyAlone, BusyPcs
  <1>5. DevmemNeeded'
    BY DEF DevmemNeeded, ChannelsKnown, BusyAlone, BusyPcs
  <1>6. QED
    BY <1>1, <1>2, <1>3, <1>4, <1>5

\* Mapping the packs changes nothing that the channels share.
LEMMA MapPacksInv ==
  ASSUME IndInv, NEW c \in Chns, MapPacks(c)
  PROVE  IndInv'
  <1> USE VencAssumption DEF IndInv, TypeOK, MapPacks, Transition, Goto
  <1>1. TypeOK'
    BY DEF BusyPcs, StreamPcs, Calls
  <1>2. BusyAlone'
    BY DEF BusyAlone, BusyPcs
  <1>3. ChannelsKnown'
    BY DEF ChannelsKnown, BusyAlone, BusyPcs, Target
  <1>4. Counted'
    BY DEF Counted, Pending, BusyAlone, BusyPcs
  <1>5. DevmemNeeded'
    BY DEF DevmemNeeded, ChannelsKnown, BusyAlone, BusyPcs
  <1>6. QED
    BY <1>1, <1>2, <1>3, <1>4, <1>5

\* Releasing a stream changes nothing that the channels share.
LEMMA ReleaseStreamInv ==
  ASSUME IndInv, NEW c \in Chns, ReleaseStream(c)
  PROVE  IndInv'
  <1> USE VencAssumption DEF IndInv, TypeOK, ReleaseStream
  <1>1. TypeOK'
    BY DEF BusyPcs, StreamPcs, Calls
  <1>2. BusyAlone'
    BY DEF BusyAlone, BusyPcs
  <1>3. ChannelsKnown'
    BY DEF ChannelsKnown, BusyAlone, BusyPcs, Target
  <1>4. Counted'
    BY DEF Counted, Pending, BusyAlone, BusyPcs
  <1>5. DevmemNeeded'
    BY DEF DevmemNeeded, ChannelsKnown, BusyAlone, BusyPcs
  <1>6. QED
    BY <1>1, <1>2, <1>3, <1>4, <1>5

-----------------------------------------------------------------------------
\* The initial state satisfies the invariant.
LEMMA InitInv == Init => IndInv
  <1> SUFFICES ASSUME Init PROVE IndInv
    OBVIOUS
  <1> USE VencAssumption DEF Init
  <1>1. TypeOK
    <2>1. Cardinality(Chns) \in Nat
      BY FS_CardinalityType
    <2>2. 0 \in 0 .. Wrap - 1
      BY <2>1
    <2>3. QED
      BY <2>2 DEF TypeOK, Calls
  <1>2. BusyAlone /\ ChannelsKnown
    BY DEF BusyAlone, BusyPcs, ChannelsKnown
  <1>3. Counted /\ DevmemNeeded
    BY FS_EmptySet DEF Counted, Pending, DevmemNeeded
  <1>4. QED
    BY <1>1, <1>2, <1>3 DEF IndInv

\* IndInv is inductive.
THEOREM Inductive == Spec => []IndInv
  <1>1. IndInv /\ [Next]_vars => IndInv'
    <2> SUFFICES ASSUME IndInv, [Next]_vars PROVE IndInv'
      OBVIOUS
    <2>1. CASE Next
      BY <2>1, CreateChnInv, GetFdInv, SetModParamInv, GetModParamInv,
         OpenDevmemFirstInv, OpenDeviceInv, OpenDevmemInv,
         CreateIoctlInv, CountUpInv, DestroyChnInv, DestroyIoctlInv,
         CountDownInv, CloseDevmemInv, GetStreamInv, GetIoctlInv, MapPacksInv,
         ReleaseStreamInv DEF Next
    <2>2. CASE UNCHANGED vars
      BY <2>2 DEF IndInv, TypeOK, BusyAlone, ChannelsKnown, Counted, Pending,
         DevmemNeeded, Target
    <2>3. QED
      BY <2>1, <2>2
  <1>2. QED
    BY <1>1, InitInv, PTL DEF Spec

\* Every variable keeps its type; the counter of created channels never wraps
\* below zero.
THEOREM TypeCorrect == Spec => []TypeOK
  BY Inductive, PTL DEF IndInv

\* A stream that has been got is mapped through an open /dev/mem, whatever the
\* other channels' threads do meanwhile.
THEOREM MapsSafely == Spec => []MapsThroughDevmem
  <1>1. IndInv => MapsThroughDevmem
    BY DEF IndInv, ChannelsKnown, DevmemNeeded, MapsThroughDevmem
  <1>2. QED
    BY <1>1, Inductive, PTL

\* Between the calls, the counter is the number of channels that exist.
THEOREM CounterRight == Spec => []CountMatches
  <1>1. IndInv => CountMatches
    BY DEF IndInv, TypeOK, Counted, Pending, CountMatches
  <1>2. QED
    BY <1>1, Inductive, PTL

\* A DestroyChn that destroyed its channel leaves one descriptor of /dev/mem if
\* channels are left and none if it was the last, whichever calls opened it.
THEOREM NoLeak == Spec => DevmemGoesWithLast
  <1> DEFINE Goes == \A c \in Chns :
               pc[c] \in {"countdown", "closemem"} /\ pc'[c] = "idle" =>
                 memFds' = IF created = {} THEN 0 ELSE 1
  <1>1. ASSUME IndInv, IndInv', [Next]_vars
        PROVE  [Goes]_vars
    <2> SUFFICES ASSUME NEW c \in Chns, pc[c] \in {"countdown", "closemem"},
                        pc'[c] = "idle", Next
                 PROVE  memFds' = IF created = {} THEN 0 ELSE 1
      BY <1>1
    <2>1. CountDown(c) \/ CloseDevmem(c)
      <3>1. PICK d \in Chns :
              \/ CreateChn(d) \/ GetFd(d) \/ SetModParam(d) \/ GetModParam(d)
              \/ OpenDevmemFirst(d) \/ OpenDevice(d) \/ OpenDevmem(d)
              \/ CreateIoctl(d) \/ CountUp(d)
              \/ DestroyChn(d) \/ DestroyIoctl(d) \/ CountDown(d) \/ CloseDevmem(d)
              \/ GetStream(d) \/ GetIoctl(d) \/ MapPacks(d) \/ ReleaseStream(d)
        BY DEF Next
      <3>2. /\ pc' = pc \/ \E to : pc' = [pc EXCEPT ![d] = to]
            /\ pc \in [Chns -> BusyPcs \cup StreamPcs \cup {"idle"}]
        BY <1>1, <3>1
        DEF IndInv, TypeOK, CreateChn, GetFd, SetModParam, GetModParam,
            OpenDevmemFirst, OpenDevice, OpenDevmem, CreateIoctl, CountUp,
            DestroyChn, DestroyIoctl, CountDown, CloseDevmem, GetStream,
            GetIoctl, MapPacks, ReleaseStream, Enter, Transition, Proceed,
            Leave, Goto
      <3>3. d = c
        BY <3>2
      <3>4. QED
        BY <3>1, <3>3
        DEF CreateChn, GetFd, SetModParam, GetModParam, OpenDevmemFirst,
            OpenDevice, OpenDevmem, CreateIoctl, CountUp, DestroyChn,
            DestroyIoctl, GetStream, GetIoctl, MapPacks, ReleaseStream,
            Enter, Transition
    <2>2. CASE CountDown(c)
      <3>1. /\ pc[c] = "countdown" /\ UNCHANGED <<created, devmem, memFds>>
            /\ Leave(c) /\ cnt' # 0
        BY <1>1, <2>2 DEF CountDown, Proceed, Goto, IndInv, TypeOK
      <3>2. devmem /\ memFds = 1
        BY <1>1, <3>1 DEF IndInv, DevmemNeeded
      <3>3. created # {}
        <4>1. cnt' + Pending' = Cardinality(created') /\ Pending' = 0 /\ cnt' \in Nat
          BY <1>1, <3>1, VencAssumption
          DEF IndInv, Counted, Pending, Leave, TypeOK
        <4>2. QED
          BY <3>1, <4>1, FS_EmptySet
      <3>4. QED
        BY <3>1, <3>2, <3>3
    <2>3. CASE CloseDevmem(c)
      BY <1>1, <2>3 DEF CloseDevmem, IndInv, DevmemNeeded
    <2>4. QED
      BY <2>1, <2>2, <2>3
  <1>2. QED
    BY <1>1, Inductive, PTL DEF Spec, DevmemGoesWithLast

=============================================================================
