# TLA+ models of the Sophgo middleware

The repository is the user-space middleware of the CV18xx/SG200x camera chips:
C libraries (`src/v2/modules`) that are linked into an application and talk to
the kernel's drivers through ioctls and mmap, and the drivers of the image
sensors (`src/v2/component/isp`). The heavy state (buffers, pipelines, frames)
is the kernel's. What the libraries keep themselves is small, but it is shared
between the application's threads, closed by counts and flags, and only partly
locked; and some of it has to agree with the state of another party that it
cannot read, such as a sensor's registers or a decoder's cache. That is what
is modelled here.

## 1. Inventory

| component | state it keeps | operations | what is hard | what makes it correct |
|---|---|---|---|---|
| VB mappings, `sys/src/cvi_vb.c` | hash map pool -> mapping, its mutex, `vb_inited` | MmapPool, MunmapPool, GetBlockVirAddr, DestroyPool, Init, Exit | map and mutex are created by the first mapping and destroyed by the last unmapping, outside of the mutex; a lookup uses its entry after the unlock, and DestroyPool searches the map without the mutex | mutual exclusion, nothing dangles, one mapping per entry, an address is the block's |
| thermal thread, `sys/src/cvi_thermal.c` | running flag, thread handle, socket pair, zone, cooling state, callback | Start, Stop, RegisterThermalCallback, the thread | events queued during the set-up, hysteresis, lost events, a thread that ends by itself, Stop racing the thread | the zone follows the kernel's events, the cooling device follows the zone, Stop ends the thread that runs |
| encoder channels, `venc/src/cvi_venc.c` | descriptor per channel, shared `/dev/mem` descriptor, unsigned counter | CreateChn, DestroyChn, GetFd, SetModParam, GetModParam, GetStream, ReleaseStream | shared descriptor opened by calls that count nothing and closed by count while others wait for streams, calls that fail halfway | streams are mapped through an open descriptor, the counter is right, the descriptor goes with the last channel that is destroyed |
| base device, `sys/src/cvi_base.c` | descriptors, a shared page | get_X_fd, base_dev_close, base_get_shm, base_release_shm | opened on demand, closed by two owners | no use of a closed descriptor |
| ION memory, `sys/src/cvi_sys.c` | table address -> allocation | IonAlloc, IonFree, IonGetFd | entries left behind by failed mappings, addresses given away again, no lock | the table holds what is allocated |
| system control, `sys/src/cvi_sys.c` | init flag | Init, Exit, Bind, Mmap, Munmap | starts and stops the thermal thread | - |
| hash map, `sys/src/hashmap.c` | buckets, size | Create, Put, Get, Remove, Size, Free, Lock | resizing | the abstract map |
| video input, `vpu/src/cvi_vi.c` | per-pipe and per-channel state kept for suspend, debug thread | EnableChn, DisableChn, Suspend, Resume | debug thread racing DisableChn, suspend twice | resume restores what suspend saw |
| video processing, `vpu/src/cvi_vpss.c`, `cvi_gdc_1822.c` | LDC and rotation meshes, bin parameters per group | CreateGrp, DestroyGrp, SetChnLDCAttr, SetChnRotation, LoadMesh, SetGrpParamfromBin | a mesh is exchanged under a lock, freed after it and told to the kernel after that, while other threads do the same | one owner per buffer, the kernel's mesh is allocated |
| OSD compression, `osdc/src` | encoder's and decoder's colour cache, pending run, segments of a line | draw a canvas, encode a frame, decode | two interfaces that must write the same stream, caches that are never sent, a sweep over slices that empties as it goes | the decoder gets the picture |
| sensor drivers, `component/isp/sensor` | register data of this frame and the one before, exposure limits, modes | AE callbacks, mode changes, get_sns_regs_info | lost answers, changes of mode, initialisation in between, other threads | the sensor holds what the driver compares with, the registers of an answer change together (but for the delays WDR leaves behind), exposures fit |
| video output, `vpu/src/cvi_vo.c` | gamma context, state kept for suspend | Enable, Disable, Suspend, Resume | context mapped once for all devices | no use after unmap |
| regions, `vpu/src/cvi_region.c` | queue of mapped canvases, its mutex | GetCanvasInfo, UpdateCanvas | an early return that keeps the mutex | mapped canvases are unmapped |
| decoder channels, `vdec/src/cvi_vdec.c` | descriptor per channel | CreateChn, DestroyChn, GetFd, GetFrame, ReleaseFrame | failed open kept as descriptor -1 | no call on a closed node |
| GDC jobs, gyro, mipi_tx, peri, misc, ive, bin | a descriptor each, or nothing | single ioctls, data transformations | - | - |
| panel drivers, samples, vendored code, audio and ISP libraries | - | register tables, examples, binaries | - | - |

The components interact by calls: VB and ION call the hash map and the base
device, the meshes of VPSS are ION buffers, a region's canvas is drawn through
osdc, `CVI_SYS_Init`/`Exit` start and stop the thermal thread, all of them call
the base device for a descriptor. Callbacks exist in the thermal thread and in
the sensor drivers, which the ISP and AE libraries call. `PROJECT.json` lists every component with its status and every
hazard with its line.

## 2. Modules

| module | what it is |
|---|---|
| `VbMmap` | the VB mapping table, one action per stretch of code between two points where another thread can interfere; any caller may do anything |
| `VbClient` | `VbMmap` under the discipline the code relies on; the properties |
| `VbMapSpec` | what the table promises, without lock, lazy map and steps |
| `VbClientProofs` | the properties and the refinement proved |
| `Thermal` | the thermal thread, its controller and the kernel's events |
| `ThermalProofs` | its safety properties proved |
| `VencChn` | the encoder's channels and the shared `/dev/mem` |
| `VencChnProofs` | its properties proved |
| `HashMap` | the hash map under the VB and ION tables |
| `MapSpec` | the map it implements |
| `HashMapProofs` | its properties and the refinement proved |
| `IonTable` | the table of ION allocations: operations and their failures |
| `VpssMesh` | the meshes of the VPSS channels, on `IonTable` |
| `VpssMeshProofs` | the properties of both proved |
| `OsdCmpr` | the run and palette encoder, through both interfaces, with the decoder reading along |
| `OsdCmprProofs` | its properties proved |
| `OsdCanvas` | the cutting of a canvas into segments, drawn into `OsdCmpr` |
| `OsdCanvasProofs` | that drawing a canvas implements `OsdCmpr` on the painter's picture, proved |
| `SnsSync` | a sensor driver, the AE that calls it, the ISP that takes its answers over or loses them, and the sensor's registers |
| `SnsSyncProofs` | its safety properties proved |
| `MC*` | the instances for TLC |

`VbClient` extends `VbMmap` and implements `VbMapSpec`; `HashMap` implements
`MapSpec`; `VpssMesh` composes threads with `IonTable`; `OsdCanvas` composes the
sweep with `OsdCmpr`, whose `Spec` it implements. `VbMmap` and `IonTable` treat
a hash map operation as one step on a partial function, which is what `HashMap`
implementing `MapSpec` allows. Operators named after a defect (marked "Mutant")
sit before the definition they vary; no
specification uses them. They record what each property is able to notice.

## 3. How state and actions correspond to the code

### VB mappings

| model | code |
|---|---|
| `hash` | `vbMmapHash`; "dangling" between `hashmapFree` and the assignment of NULL |
| `lock` | `hash_lock`; "dead" after `pthread_mutex_destroy` |
| `table`, `nmap` | entries by pool with the physical base they were made for; mappings in the address space |
| `pool`, `nbase` | the kernel's pools; a pool created anew under a used id has another base |
| `pc`, `arg`, `blk`, `base` | where a thread stands and what it keeps in local variables |
| `ref` | whether the memory a thread refers to without the lock (the entry that a lookup has found, what the search of DestroyPool stands at) is still allocated |
| `answer` | whether the last translated address was the block's |
| `crashed` | a null, freed or destroyed object was used |

A thread's step is the code between two points at which another thread can
interfere: taking or giving back `hash_lock`, reading or writing the global
pointer outside of it, an ioctl. `MmapPool` is `MmapCheck`, `MmapCreate`,
`MmapInitLock`, `MmapLock`, `MmapGet`, `MmapMap`, `MmapPut`, `Unlock`;
`MunmapPool`, `GetBlockVirAddr` and `DestroyPool` are cut up likewise. `VbExit`
takes the pools away and leaves the table alone, as the code does.

The search of `DestroyPool` (cvi_vb.c:316) takes no lock and walks a chain of
the map (hashmap.c:229-236), in which all pools stand: it is two steps,
`DestroyCheck` and `DestroyWalk`, between which any thread may enter or remove
any pool. A removal frees the entry the walk may stand at, and an entering put may
free the buckets it walks in (hashmap.c:118); either makes the walk's `ref`
freed, and the walk that goes on from there crashes.

`VbMmap` lets every thread call anything. Under that the code is not safe: the
map and the mutex are made and destroyed outside of the mutex, a lookup
uses its entry after the unlock, and the walk just described dangles. `VbClient`
states a discipline under which it is safe:

- one thread, Main, sets up and tears down; threads share the table only after
  `CVI_VB_Init`, and while some pool stays mapped that nobody unmaps;
- every other pool belongs to one thread, which alone maps, looks up, unmaps and
  destroys it;
- while a thread is in `DestroyPool` (until its search is over) no other thread is
  in `MmapPool` or `MunmapPool` of a pool that is not pinned, or in `DestroyPool`;
- everything is unmapped before `CVI_VB_Exit`.

The third rule asks for a lock of the program's own around these calls: the
library does not keep it, no comment says so, and two threads that each keep
to their own pools violate it. What is shown is that with it the code is
right, not that programs observe it. All theorems about VB are about `VbClient`.

### Thermal thread

`ctl` is the thread that calls Start and Stop, `thread` the handler, `sock` and
`wake` the socket pair between them, `level` and `queue` the kernel's
temperature and its netlink events. The zone rules of `tz_event_handler` are
the operator `NextZone`. The handler can fail in its set-up and end by itself;
events are lost when the socket's buffer is full or a receive fails;
`pthread_create` can fail, which is taken to leave the handle as it was. One
crossing of several trip points sends one event for each in order, as the kernel's
thermal core does.

A trip point has a hysteresis (the code itself writes it, cvi_thermal.c:516-517).
The kernel reports it crossed upwards when the temperature reaches it, and
downwards when the temperature is below it by the hysteresis. `level` is the
number of trip points last reported crossed upwards, `reached` the number that
the temperature is at or above now, never more than `level`. `Settled` says where
the level goes; `hold` stands for the trip points the temperature is not yet below
by their hysteresis, and as it may be any number from `reached` upwards the
hysteresis may be any, and different each time, which includes what the code
writes. The zone read at the start compares with the bare trip points
(cvi_thermal.c:544-548), so it is `reached`, not `level`. A thread that starts
while the temperature is within a hysteresis is therefore a zone too low, and when
the temperature rises again past that trip point the kernel reports nothing and
the thread stays too low: a defect of the code, which no statement of the
repository contradicts. `inBand` keeps account of such a start until an event takes the
level past the zone or past where it was, and `ZoneCatchesUp` says exactly how far off the zone
may be until then: below the level, never above it.

### Encoder channels

`fd` is `s32VencFd` with 0 and -1 told apart, `devmem` and `memFds` the shared
descriptor and what the kernel has open, `cnt` the unsigned counter (it wraps at
`Wrap`), `created` the channels in the kernel. Each call is cut at its ioctls
and its shared variables, and each ioctl can fail. Create, GetFd and the two calls for
the module's parameters share `openDevice`; `call` tells them apart. SetModParam
opens `/dev/mem` before the node (cvi_venc.c:528-532), and both calls open the
node of one fixed channel, `ModChn`, whoever calls (`Target`). Assumed of the program:
create, destroy, GetFd and the parameters' calls are made one at a time, a channel
is destroyed only when its node is open and none of its streams is held, and a caller holds one
stream of a channel. The table of saved pack addresses is left out.

### Hash map

`buckets` are the chains, each the set of its entries; `size` is the code's
count; `ret` is what the last call returned. The order in a chain is left out: it
decides nothing while a key occurs once, which is checked and proved. An index
is the remainder by the number of chains; the code's mask is that as long as the
number is a power of two, which is checked and proved, too. A failing `createEntry` and a
failing `calloc` in the expansion are actions of their own; `Create` is the
successful one.

### ION table and VPSS meshes

`entry` is `ionHashmap`'s content under each physical address: nothing, the data
of a buffer, or a pointer to freed data, which is what an allocation leaves when
its mapping fails (`hashmapGet` at cvi_sys.c:685 stands where a removal should); a free
of that address would reach the freed data, and it is the callers, who were given no such
buffer, that do not make one.
`granted` and `mapped` are the kernel's. An ION call is one step. `mesh` is
`mesh[grp][chn]` with the physical and the virtual address apart, because the
rotation overwrites one of them; `lock` is its mutex. `_vpss_update_ldc_mesh` is
`Allocate`, `Fill`, `Lock`, `TakeOld`, `Install`, `FreeOld`, `Tell`, with
`AllocateFails`, `FillFails` and `KernelRefuses`; `_vpss_update_rotation_mesh` is
`SetDefault`, `Rotate`; `CVI_GDC_LoadMesh` is `Allocate`, `InstallLoaded`, `Tell`.
The attributes that the calls read first are read where they begin, so they may
be stale when used. The branches of `__SOC_MARS__` are the ones modelled.

`alone`, `settled` and `lost` are kept for the properties: whether a call had its
channel to itself, whether the kernel took the last mesh of the channel from such
a call, and which buffers `SetDefault` and `LoadMesh` overwrote without freeing
them. The last are leaks of the code that the model states and `OwnedOnce`
delimits: nothing else is ever lost. Assumed of the program: it destroys a group
only when no call on its channels is in progress, loads a mesh only while nothing
else changes that channel, and does not call `CVI_SYS_IonGetFd` (which replaces
the table, and which nothing in the repository calls).

### OSD compression

`OsdCmpr` has the encoder's pending run (`md`, `color`, `idx`, `rl`), its `cache`
and the decoder's `dcache`. The decoder is deterministic and the stream only
grows, so it reads a run as soon as it is written; a prefix is decoded whatever
bits follow it. `api` tells the pixel interface from the span interface, which
looks colours up at other moments. A pixel is alpha and one colour value.
`OsdCanvas` has the slices of the objects on a line and the sweep that cuts
the line into segments, keeps them up to `nextY` and draws them into `OsdCmpr`.
The vectors of slices and objects, from which the code erases, are kept by
places (`KeepPlaces`); a segment has the column it begins at (`from`), which in
the code is the sum of the widths before it. The segment's buffer pointer is the
index `at`, its `bs_len` pointer the line `row`.
The painter (`Painted`) is what the repository's own debugging painter does
(draw_canvas_raw_buffer2, compiled out), except that it clips bitmaps as the
live code does. `FitsBuffer` is about a buffer of the size
`osd_cmpr_get_bs_buf_max_sz` gives: the frame encoder uses that size, the canvas
functions leave the size to their caller.
`PictureAssumption` says what is assumed of the objects. `WellFormed` is what the
functions that make them guarantee (for rectangles, bitmaps and lines along an
axis that is proved, for compressed bitmaps TLC finds it of those drawn); a
sloping line's slices are any within the canvas, which is more than the clipping
lets through. `CmprOnTop`, that no object covers a compressed bitmap, is an
assumption on the program: the code reads such a bitmap's line from its beginning
and moves its offset once per segment (cmpr_canvas.cpp:236).

### Sensor driver

`cur` and `prev` are `astSyncInfo[0]` and `[1]`, arrays of bytes by slot; `upd`
and `delay` the flags of the listing; `out` what the ISP copied, `waiting` that it
has not decided on it, `bConfig` its answer; `held` the sensor's registers by
address. The callbacks are `FpsSet`, `IntTimeMax`, `IntTimeLinear`, `IntTimeWdr`,
`GainsUpdate`, `SetWdrMode`, `SetImageMode`, `GlobalInit`; the steps of
`cmos_get_sns_regs_info` are apart from each other where another thread can come
between (`OtherThread`). The numbers keep their width: words are split into
bytes as the code does and subtractions wrap. `stage` tells whether the AE
has set a rate and exposures in this mode and kept to the limits it was given;
the guard of the linear exposure (imx327_cmos.c:356) admits one and two lines more, for
which the shutter would be 0 or wrap around, and nothing is claimed of those.

A linear listing (imx327_cmos.c:834-848) sets no delay, and slots 7 to 9, which hold
the upper bytes of VMAX and the release in linear mode, carry those that a WDR
listing before it has set: after a change from WDR to linear the low byte of
VMAX goes out one frame before the other two and before the release. This is a
defect of the code. `WritesTogether` does not pass over it: in WDR the delays
are right always, and in linear mode the frame length and the release are right if and only if
no WDR listing was made before (`LeftByWdr`). No comment or test of the repository
says anything of these delays, so there is no finding.

The driver is the IMX327's. The others are copies of it with other registers and
line counts, except that some have no WDR.

## 4. Runs

| run | question | instance and why it is enough |
|---|---|---|
| `vb_client` | does the discipline make the table right? | two threads, three pools, of which Main owns two and the other thread one, three pool creations: a pinned pool beside which one unpinned pool of each thread exists, is mapped and destroyed while the other thread is inside a call; with two pools, one that comes, goes and comes back under its id; both threads mapping the same pool, and the single phase before and after (490714 states) |
| `vb_anyhow` | is an address returned with success always the block's? | one thread, one pool, two creations: Exit and a second pool under the same id suffice for the counterexample |
| `thermal` | zone, cooling device and control of the thread, and Start and Stop returning | three trip points, so that several are crossed at once and all four zones occur; a device with maximum 2, so that the cut-off matters; a buffer of three events, so that it overflows; every hysteresis (650518 states) |
| `thermal_first_zone` | is the first zone told? | the same |
| `venc` | is `/dev/mem` open when it is used, opened once, and closed with the last channel destroyed? | three channels: one streaming, one being created, one being destroyed, while any of their threads sets or gets the module's parameters through the node of one; the counter wraps at 5, beyond the channels (5745 states) |
| `hashmap` | is it a map? | four keys of which two share a chain until there are eight and two always do; capacity 0, so that one chain becomes eight in three expansions |
| `vpss_mesh` | is the table right, does every mesh have one owner, is the kernel's allocated? | two threads, a group with two channels, three buffers, two rotations: both threads in one channel or each in its own, a third buffer for what is installed or lost, addresses that are given away again (1203561 states) |
| `osd_codec` | does the decoder get the picture, within the buffer, in the longest runs? | all pictures of five pixels in four colours, runs of at most two pixels, no cache and caches of two and four colours, through both interfaces; two colours are in the cache from the start and two become one of these when truncated |
| `osd_canvas` | is drawing a way to encode what a painter paints (which `osd_codec` decodes), does the sweep move on, and does drawing end? | two or three objects of all types on five by four pixels: overlapping, clipped at each side, empty, stroked, sloping, compressed |
| `osd_canvas_corner` | is the first run always forced? | one stroked rectangle without thickness in the corner |
| `sns_sync` | does the sensor hold what the driver compares with, are the registers of an answer bracketed and delayed alike, and when not, do exposures fit, does the sensor catch up? | the IMX327's numbers, two rates, exposures at and beyond the limit, the WDR ratio's end, four calls in every order with the ISP's questions, lost answers, changes of mode and initialisations |
| `sns_race` | is the frame before what the last answer said? | the same, with callbacks from another thread |

`MaxBase` bounds the pools created in a run, `QueueCap` the buffer of the
netlink socket, `Wrap` the counter, `MaxCalls` the calls to the sensor's driver,
`N` and `RunBits` the pixels and the length of a run, `PairMax` the pixels
of one pair of a compressed bitmap. The channels and pools of the instances are interchangeable up
to their owner (and `ModChn`, which stands apart); only `venc` and `vpss_mesh` use symmetry, and they check no
liveness.

The violated properties are statements of the repository's comments and samples:

- `AddressOfBlock` (`vb_anyhow`): `CVI_VB_Exit` leaves the table of mappings as
  it is. A pool created later under the same id is taken for mapped, and
  `CVI_VB_GetBlockVirAddr` returns success with an address in the old mapping.
- `FirstZoneTold` (`thermal_first_zone`): the comment `//Not zero zone` stands at
  a branch that tests `zone > 1`; a thread that starts in zone 1 does not tell
  the callback.
- `RoundTrip` (`osd_canvas_corner`): an invalid type is to "bypass the first run"
  (cmpr_canvas.cpp:180), but the new run is forced for the first segment of the
  line only; when that is empty, the pixels of the second are compared with a
  colour nobody set.
- `PrevIsAnswered` (`sns_race`): `[1]` is to be the registers of the frame before;
  a rate set between the two copies is in it although no answer carried it.

### Fairness

`VbClient!FairSpec` has weak fairness of each thread's step: a thread inside a
call is scheduled again, and the thread that holds a mutex is never waited for by
itself. `LockReleased` needs no more. `Thermal!FairSpec` has weak fairness of
the controller's steps and of the thread's. The thread's `select` timeout is
left out of the fair steps: that Stop returns rests on the flag and the message
alone. Temperature changes, Start, Stop and failures are never fair.
`OsdCanvas!CanvasSpec` has weak fairness of its steps: drawing a canvas is one
function that runs in one thread. `SnsSync!FairSpec` has weak fairness of the
ISP's question, which it asks every frame, and strong fairness of an answer being
taken over: answers may be lost, not all of them. The AE's calls are bounded and
not fair.

## 5. Proofs

All for any values of the constants that satisfy the named assumptions
(`VbAssumption`, `ClientAssumption`, `ThermalAssumption`, `VencAssumption`,
`HashMapAssumption`, `MeshAssumption`, `CmprAssumption`, `WidthAssumption`,
`PowerAssumption`, `LinesAssumption`, `AeAssumption`, `GainAssumption`,
`CallAssumption`, `CanvasAssumption`, `PictureAssumption`), which TLC evaluates in the runs.

**VB** (`VbClientProofs`): types, `MutualExclusion`, `NoDanglingUse`,
`MappingsMatchEntries`, `AddressOfBlock`, and that `ClientSpec` implements
`VbMapSpec`, for any number of threads, pools and owners. None of these is inductive. `IndInv` adds why the discipline helps:
while threads share the table a pinned pool keeps it from being emptied
(`MapPinned`), so no thread is at a step that creates or frees the map; outside
of that phase only Main is inside a call (`MainAlone`); what a call read before
it acts is still so (`MapFresh`, `LookupFresh`), because only the keeper of a
pool removes it (`CallsAllowed`, `EntriesFresh`); a mapping without entry
belongs to the holder of the lock (`CountsMatch`); and while a thread searches the
map without the lock no other is at a step from which it may enter or remove a
pool (`WalkAlone`), so that what the search stands at is not freed (`WalkSafe`).
`WalkAlone` is kept because `VbClient` restricts where the calls begin and a call
that has begun meets no other of its kind.

**Thermal** (`ThermalProofs`): types (the zone stays inside the four-element
tables), `ThreadUnderControl`, `CoolingFollowsZone`, `ZoneCatchesUp`, and the
action property `EventSettlesZone`. `IndInv` adds that no thread is alive while
Start runs or Stop closes the pair (`CallsInOrder`), and that an event is there
when it is received (`EventWaits`). For `ZoneCatchesUp`, `EventsTell` says of the
waiting events that they take the zone to the level, without following them one
by one: the zone ends at n or below if the last fall to n or below has no rise
beyond n after it (`NotAbove`, `NotBelow`). The events take the level itself to
the level as well, which is why the temperature may be read while some wait: the zone
read is not above the level then, so the events take it not above (`NotAbove`), and
to the level when it was read outside of a hysteresis. A start within one loses
only the other half, until an event says it again (`inBand`). It needs `NTrips < 4`: with more trip points the code
indexes its tables out of range at the start.

**Encoder** (`VencChnProofs`): types, `MapsThroughDevmem`, `CountMatches`,
and the action
property `DevmemGoesWithLast`. The counter equals the channels that exist plus the one being
counted (`Counted`), so it is 0 only when the last is gone; who waits for a
stream keeps its own channel (`ChannelsKnown`) and with it `/dev/mem`
(`DevmemNeeded`), which also says that the descriptors the kernel has open are one
or none as `devmem` says, so that the close in DestroyChn closes all there is. What
GetFd, SetModParam, GetModParam or a create that fails opens after the last
channel has gone stays open, in the code and in the model; nothing is claimed of it. It needs
fewer channels than the counter's range.

**Hash map** (`HashMapProofs`): types, `EntriesPlaced` and `KeysUnique`,
`SizeIsCount`, and that it implements `MapSpec`. The invariant says that every
entry is in the chain of its hash, so that searching a chain searches the map;
each operation then adds one entry to the set of all or takes one away, and an
expansion changes that set not at all. `MaskIsModulo` says that nothing odd but 1
divides the number of chains; doubling keeps that.

**ION and VPSS** (`VpssMeshProofs`): types, `TableTrue`, `OwnedOnce`,
`KernelMeshLives`. The centre of `IndInv` is `Ledger`: the allocated addresses are
those that a thread has generated and not installed, that a channel holds, that a
thread has taken out, or that are lost, and no address is two of these. That an
exchange moves exactly one owner needs the mutex (`Locks`), that what is taken out
is still what the channel held but for a rotation (`Pairs`, which also keeps the
virtual address with the physical one, so that a free unmaps the right buffer),
and for `LoadMesh` that it has its channel to itself (`ToItself`). `Installed` and
`InKernel` follow a mesh from the channel into the kernel.

**OSD codec** (`OsdCmprProofs`): types, `RoundTrip`, `CachesAgree`, `FitsBuffer`
and the action property `RunsLongest`, for any picture, cache, length of the
run field and truncation (the code keeps the fields' values in 8 and 16 bits, which
its formats fit; the theorem says nothing of wider ones). `IndInv` says which pixels the pending run stands for (`Counted`),
that they have its colour (`Pending`), that reading it will bring the decoder's
cache to the encoder's (`CachesAgree`), and that no pixel cost more than a literal
one (`BitsCounted`). `WriteRight` is the heart: from that, the decoder makes of
the run's bits what the encoder meant. `WidthAssumption` says that a run's fields
are narrower than a literal pixel, without which the buffer is too small;
`PowerAssumption` only says that powers of two are positive numbers.

**OSD canvas** (`OsdCanvasProofs`): `DrawsPicture`, that drawing a canvas of any
size and any objects implements the encoder on the picture a painter gets; hence
`RoundTrip`, `CachesAgree`, `FitsBuffer` and `RunsLongest` of a canvas as well. They
need `CornersDrawn`, that nothing empty begins at the first pixel: without it
`osd_canvas_corner` shows `RoundTrip` to fail. Objects that have pixels never do
(`PixelsAtCorner`); the stroked rectangle of that run has none. The invariant
`CanvasInv` and `SweepMoves`, that the sweep never stands still, need no such
hypothesis, only the `CanvasAssumption` and the `PictureAssumption` described
above. `SweepMoves` is what `DrawEnds` takes of the sweep: there are finitely many
columns, slices and places. `CanvasInv` follows the three stages. While the line is cut, `SlicesRight` says that the slices that
are not over are those of the objects on the line, in their order, though slices
are erased all along; `SweepRight` that no slice begun before x is over, and that
the one to go on with is the uppermost of those that begin at x, which is why the
index that is corrected after erasing still points at it. `Cut` and `SegmentsShow`
say that the segments are side by side and show the picture on every line up to
`nextY`, for which `Steady` says that no object changes until then. `SegmentsRead`
says where the segments of bitmaps read; for compressed ones that rests on
`OneSegment` (a line of theirs is one segment, from their assumption and the
sweep's order) and on `Offsets` (their offset is where the next line begins,
whether the segment of this one is drawn or not). `PictureLeft` says that objects
that are removed were over. In `SpanRight` equal pixels of the picture become a
step of the encoder; the first run is forced exactly at the first pixel, since
every later segment of the first line begins beyond it.

**Sensor** (`SnsSyncProofs`): types, `WritesTogether`, `ExposuresFit`, and, when
the callbacks run on the ISP's thread, `ConfirmedIsHeld`. `Delivery` follows an
answer: what the sensor does not hold yet is among the registers listed, from the
comparison until it is taken over; that the mode's registers have addresses of
their own is a lemma (`AddressesDiffer`). `Grouped` needs to know which delays a
listing can leave behind (`DelaysOf`); `ExposuresFit` needs how the frame length
and `RHS1_MAX` come about (`Frame`), down to the parity of the readout. The theorem about
`WritesTogether` includes that the delays left by WDR are wrong in linear mode: it is an
equivalence.

Only model-checked: the liveness properties `LockReleased`, `CallsReturn`,
`DrawEnds` and `SensorCatchesUp`, which rest on fairness (of `DrawEnds` the safety
part, `SweepMoves`, is proved); that `CmprBitmapObj` and
`PairsOfLine` make well-formed objects, which takes induction over the pairs of a
line; and the violations.

## 6. Not modelled

The kernel's side of the ioctls, beyond what the models need of it; functions
that check their arguments and make one ioctl, which are most of VI, VPSS, VO,
RGN, VDEC and IVE; register tables; the floating-point geometry of meshes and
sloping lines; bin files. By far most of the repository's lines are of these
kinds, or fonts, samples, generated headers and vendored code: a model of them
would repeat them.

Within modelled components:

- VB: memory failing in `hashmapCreate` and `hashmapPut` as called from VB, the
  few bytes lost when a mapping fails, `CVI_VB_Init` and `Exit` racing other calls.
- Thermal: the netlink parser, the log file, the environment overrides (of the tables,
  and of trip points and hysteresis, which the model takes as any), what a failed
  `pthread_create` may do to the handle, two threads
  that call Start at once, the descriptors left by a thread that ended by itself.
- Encoder: the saved pack addresses (one stream per channel is assumed), destroys
  of channels whose node is not open, which count down all the same
  (cvi_venc.c:168), calls that create, destroy and set
  or get the module's parameters without being serialised, the parameters themselves.
- ION: `IonGetFd`, calls that overlap, memory failing for table and entries.
- VPSS: bin parameters, `DumpMesh`; the meshes of VI, which are handled by
  similar code of their own.
- osdc: the header (a cache of 256 colours is written as 0 there), the packing of
  bits, covered compressed bitmaps.
- Sensor: the WDR sizes of the ISP's configuration, the long-frame mode, the gain
  tables, the receiver's attributes, the rounding of rates that are no whole
  numbers, the fixed register tables, failing writes to the sensor; WDR at 60
  frames per second, in which `imx327_init` programs nothing, is excluded by
  `Supported`.

## 7. Plan

What is left, in the order of its worth:

1. The meshes of VI (cvi_vi.c 270-330) on `IonTable`, and `ViChannels`: EnableChn
   and DisableChn with the debug thread, suspend and resume (cvi_vi.c 134-172,
   403-551, 1413-1543). After `DisableChn` has cleared the flag, a debug thread
   that only then begins sets it again and is joined for ever (line 146); after
   Resume the state stays `VI_SUSPEND` (line 548).
2. `RgnCanvas`: the queue of mapped canvases and its mutex (cvi_region.c
   207-275), which a failed mapping keeps locked (line 234).
3. `BaseDevice`: descriptors opened on demand and closed by `CVI_VB_Exit` and
   `CVI_SYS_Exit` (cvi_base.c), with `SysInit`/`SysExit` composing it and the
   thermal controller.
4. `VdecChn` and `VoGamma`: descriptor 0 and -1, the context mapped once.
5. The encoder without the assumption on destroys of closed channels; its saved
   pack addresses.
6. Two consecutive frames of a sensor: the limit of the short exposure taken from
   the frame before (imx327_cmos.c:551).
