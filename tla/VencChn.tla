------------------------------ MODULE VencChn ------------------------------
(***************************************************************************)
(* The encoder's channels, modules/venc/src/cvi_venc.c.                    *)
(*                                                                         *)
(* Each channel has a device node of its own, opened when it is first      *)
(* needed (s32VencFd).  All channels share one descriptor of /dev/mem      *)
(* (s32DevmemFd), through which the packs of an encoded stream are mapped; *)
(* a counter of created channels says when it is to be closed.  None of    *)
(* this is locked.                                                         *)
(*                                                                         *)
(* Every channel is used by a thread of its own. The program lets one      *)
(* thread at a time create or destroy a channel, ask for its descriptor or *)
(* set or get the module's parameters, which opens the node of channel 0   *)
(* and /dev/mem, too; the threads that get and release streams run beside  *)
(* it. DestroyChn is called only for a channel whose node is open (it      *)
(* counts down for others too), and not while a stream of the channel is   *)
(* held.                                                                   *)
(***************************************************************************)
EXTENDS Integers, FiniteSets

CONSTANTS
  Chns,     \* the channels
  ModChn,   \* the channel whose node takes the module's parameters (0)
  Wrap,     \* u32ChannelCreatedCnt is unsigned: it counts modulo Wrap
  Nobody    \* no channel's thread

ASSUME VencAssumption ==
  /\ IsFiniteSet(Chns)
  /\ ModChn \in Chns
  /\ Nobody \notin Chns
  /\ Wrap \in Nat
  /\ Cardinality(Chns) < Wrap

VARIABLES
  fd,        \* s32VencFd of each channel: "closed" (0), "open", "failed" (-1)
  created,   \* kernel: the channels that exist
  cnt,       \* u32ChannelCreatedCnt
  devmem,    \* s32DevmemFd is a descriptor, not -1
  memFds,    \* kernel: descriptors of /dev/mem that are open
  pc,        \* where the thread of each channel stands
  call,      \* whose openDevice is in progress: CreateChn's ("create"),
             \* GetFd's ("getfd") or Set- or GetModParam's ("modparam")
  busy,      \* the thread the program lets create, destroy or get descriptors
  held       \* the channels of which the caller holds a stream

memVars == <<devmem, memFds>>
vars == <<fd, created, cnt, memVars, pc, call, busy, held>>

Calls == {"create", "getfd", "modparam"}

\* The steps of the calls that the program runs one at a time.
BusyPcs == {"modmem", "open", "openmem", "create", "countup", "destroy",
            "countdown", "closemem"}
StreamPcs == {"get", "map"}

TypeOK ==
  /\ fd \in [Chns -> {"closed", "open", "failed"}]
  /\ created \in SUBSET Chns
  /\ cnt \in 0 .. Wrap - 1
  /\ devmem \in BOOLEAN
  /\ memFds \in Nat
  /\ pc \in [Chns -> BusyPcs \cup StreamPcs \cup {"idle"}]
  /\ call \in Calls
  /\ busy \in Chns \cup {Nobody}
  /\ held \in SUBSET Chns

Init ==
  /\ fd = [c \in Chns |-> "closed"]
  /\ created = {}
  /\ cnt = 0
  /\ devmem = FALSE
  /\ memFds = 0
  /\ pc = [c \in Chns |-> "idle"]
  /\ call = "create"
  /\ busy = Nobody
  /\ held = {}

Goto(c, to) == pc' = [pc EXCEPT ![c] = to]
Transition(c, from, to) == pc[c] = from /\ Goto(c, to)

\* A call of those that run one at a time begins, goes on or returns.
Enter(c, to) == Transition(c, "idle", to) /\ busy = Nobody /\ busy' = c
Proceed(c, to) == Goto(c, to) /\ UNCHANGED busy
Leave(c) == Goto(c, "idle") /\ busy' = Nobody

-----------------------------------------------------------------------------
\* openDevice, for CVI_VENC_CreateChn, CVI_VENC_GetFd, CVI_VENC_SetModParam and
\* CVI_VENC_GetModParam

CreateChn(c) ==
  /\ Enter(c, "open")
  /\ call' = "create"
  /\ UNCHANGED <<fd, created, cnt, memVars, held>>

GetFd(c) ==
  /\ Enter(c, "open")
  /\ call' = "getfd"
  /\ UNCHANGED <<fd, created, cnt, memVars, held>>

\* Any channel's thread may set the module's parameters: /dev/mem first, which
\* stays open when the node then cannot be opened.
SetModParam(c) ==
  /\ Enter(c, "modmem")
  /\ call' = "modparam"
  /\ UNCHANGED <<fd, created, cnt, memVars, held>>

OpenDevmemFirst(c) ==
  /\ pc[c] = "modmem"
  /\ \/ devmem /\ Proceed(c, "open") /\ UNCHANGED memVars
     \/ ~devmem /\ Proceed(c, "open") /\ devmem' = TRUE /\ memFds' = memFds + 1
     \/ ~devmem /\ Leave(c) /\ UNCHANGED memVars
  /\ UNCHANGED <<fd, created, cnt, call, held>>

GetModParam(c) ==
  /\ Enter(c, "open")
  /\ call' = "modparam"
  /\ UNCHANGED <<fd, created, cnt, memVars, held>>

\* The channel of which the node is opened.
Target(c) == IF call = "modparam" THEN ModChn ELSE c

OpenDevice(c) ==
  LET opened(to) == fd[Target(c)] # "open" /\ fd' = [fd EXCEPT ![Target(c)] = to]
  IN  /\ pc[c] = "open"
      /\ \/ fd[Target(c)] = "open" /\ Proceed(c, "openmem") /\ UNCHANGED fd
         \/ opened("open") /\ Proceed(c, "openmem")
         \/ opened("failed") /\ Leave(c)
      /\ UNCHANGED <<created, cnt, memVars, call, held>>

\* Mutant: /dev/mem is opened although it is open already.
OpenDevmemAgain(c) ==
  /\ pc[c] = "openmem"
  /\ IF call = "create" THEN Proceed(c, "create") ELSE Leave(c)
  /\ devmem' = TRUE
  /\ memFds' = memFds + 1
  /\ UNCHANGED <<fd, created, cnt, call, held>>

\* The device node stays open when /dev/mem cannot be opened.  What GetFd and
\* the parameters' calls then do changes nothing here.
OpenDevmem(c) ==
  LET done == IF call = "create" THEN Proceed(c, "create") ELSE Leave(c) IN
  /\ pc[c] = "openmem"
  /\ \/ devmem /\ done /\ UNCHANGED memVars
     \/ ~devmem /\ done /\ devmem' = TRUE /\ memFds' = memFds + 1
     \/ ~devmem /\ Leave(c) /\ UNCHANGED memVars
  /\ UNCHANGED <<fd, created, cnt, call, held>>

\* Mutant: a channel that could not be created is counted.
CreateIoctlCounts(c) ==
  /\ pc[c] = "create"
  /\ created' = created \cup {c}
  /\ Proceed(c, "countup")
  /\ UNCHANGED <<fd, cnt, memVars, call, held>>

\* The kernel refuses a channel that exists, and may refuse any.
CreateIoctl(c) ==
  /\ pc[c] = "create"
  /\ \/ /\ c \notin created
        /\ created' = created \cup {c}
        /\ Proceed(c, "countup")
     \/ Leave(c) /\ UNCHANGED created
  /\ UNCHANGED <<fd, cnt, memVars, call, held>>

CountUp(c) ==
  /\ pc[c] = "countup"
  /\ Leave(c)
  /\ cnt' = (cnt + 1) % Wrap
  /\ UNCHANGED <<fd, created, memVars, call, held>>

-----------------------------------------------------------------------------
\* CVI_VENC_DestroyChn

DestroyChn(c) ==
  /\ fd[c] = "open" /\ c \notin held
  /\ Enter(c, "destroy")
  /\ UNCHANGED <<fd, created, cnt, memVars, call, held>>

\* Mutant: a channel the kernel refuses to destroy is counted down.
DestroyIoctlCounts(c) ==
  /\ pc[c] = "destroy"
  /\ \/ /\ c \in created
        /\ created' = created \ {c}
        /\ fd' = [fd EXCEPT ![c] = "closed"]
     \/ UNCHANGED <<created, fd>>
  /\ Proceed(c, "countdown")
  /\ UNCHANGED <<cnt, memVars, call, held>>

\* Refused by the kernel for a channel that does not exist.  Then the node is
\* not closed and nothing is counted.
DestroyIoctl(c) ==
  /\ pc[c] = "destroy"
  /\ \/ /\ c \in created
        /\ created' = created \ {c}
        /\ fd' = [fd EXCEPT ![c] = "closed"]
        /\ Proceed(c, "countdown")
     \/ Leave(c) /\ UNCHANGED <<created, fd>>
  /\ UNCHANGED <<cnt, memVars, call, held>>

CountDown(c) ==
  /\ pc[c] = "countdown"
  /\ cnt' = (cnt - 1) % Wrap
  /\ IF cnt' = 0 THEN Proceed(c, "closemem") ELSE Leave(c)
  /\ UNCHANGED <<fd, created, memVars, call, held>>

\* Mutant: the descriptor is closed twice.
CloseDevmemTwice(c) ==
  /\ pc[c] = "closemem"
  /\ Leave(c)
  /\ devmem' = FALSE
  /\ memFds' = IF devmem THEN memFds - 2 ELSE memFds
  /\ UNCHANGED <<fd, created, cnt, call, held>>

CloseDevmem(c) ==
  /\ pc[c] = "closemem"
  /\ Leave(c)
  /\ devmem' = FALSE
  /\ memFds' = IF devmem THEN memFds - 1 ELSE memFds
  /\ UNCHANGED <<fd, created, cnt, call, held>>

-----------------------------------------------------------------------------
\* CVI_VENC_GetStream and CVI_VENC_ReleaseStream

GetStream(c) ==
  /\ fd[c] = "open" /\ c \notin held
  /\ Transition(c, "idle", "get")
  /\ UNCHANGED <<fd, created, cnt, memVars, call, busy, held>>

\* The ioctl waits for a stream, at most as long as the caller said.
GetIoctl(c) ==
  /\ pc[c] = "get"
  /\ \/ c \in created /\ Goto(c, "map")
     \/ Goto(c, "idle")
  /\ UNCHANGED <<fd, created, cnt, memVars, call, busy, held>>

\* devm_map of every pack, through s32DevmemFd.
MapPacks(c) ==
  /\ Transition(c, "map", "idle")
  /\ held' = held \cup {c}
  /\ UNCHANGED <<fd, created, cnt, memVars, call, busy>>

\* Unmaps the packs, whatever the ioctl then says.
ReleaseStream(c) ==
  /\ pc[c] = "idle" /\ fd[c] = "open" /\ c \in held
  /\ held' = held \ {c}
  /\ UNCHANGED <<fd, created, cnt, memVars, pc, call, busy>>

-----------------------------------------------------------------------------
Next == \E c \in Chns :
  \/ CreateChn(c) \/ GetFd(c) \/ SetModParam(c) \/ GetModParam(c)
  \/ OpenDevmemFirst(c) \/ OpenDevice(c) \/ OpenDevmem(c)
  \/ CreateIoctl(c) \/ CountUp(c)
  \/ DestroyChn(c) \/ DestroyIoctl(c) \/ CountDown(c) \/ CloseDevmem(c)
  \/ GetStream(c) \/ GetIoctl(c) \/ MapPacks(c) \/ ReleaseStream(c)

Spec == Init /\ [][Next]_vars

-----------------------------------------------------------------------------
\* A stream that the kernel has handed out is mapped through an open /dev/mem,
\* although other threads create and destroy other channels, or fail to,
\* while it was waited for (cvi_venc.c:168-172, 234-246).
MapsThroughDevmem == \A c \in Chns : pc[c] = "map" => devmem

\* Between the calls, the counter is the number of the channels that exist,
\* whichever calls have failed in between (cvi_venc.c:146, 168).
CountMatches == busy = Nobody => cnt = Cardinality(created)

\* A DestroyChn that has destroyed its channel leaves one descriptor of /dev/mem
\* if channels are left, and none if it was the last one, whichever calls have
\* opened /dev/mem without creating a channel, or failed (cvi_venc.c:119-125,
\* 168-172, 528-532).  Nothing more is promised: what GetFd, SetModParam or a
\* create that fails opens after the last channel has gone stays open.
DevmemGoesWithLast ==
  [][ \A c \in Chns :
        pc[c] \in {"countdown", "closemem"} /\ pc'[c] = "idle" =>
          memFds' = IF created = {} THEN 0 ELSE 1 ]_vars
=============================================================================
