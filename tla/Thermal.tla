------------------------------ MODULE Thermal ------------------------------
(***************************************************************************)
(* The thermal thread, modules/sys/src/cvi_thermal.c.                      *)
(*                                                                         *)
(* CVI_SYS_StartThermalThread creates a thread that listens to the         *)
(* kernel's trip-point events on a netlink socket and keeps a zone: the    *)
(* number of trip points the chip's temperature is at or above when the    *)
(* thread starts, moved by the events from then on. A change of zone is    *)
(* told to the cooling device and to a callback that sets the frame rate.  *)
(* CVI_SYS_StopThermalThread clears a flag, wakes the thread through a     *)
(* socket pair and joins it. The thread may also end by itself, when it    *)
(* cannot set up its netlink socket.                                       *)
(*                                                                         *)
(* One thread of the process calls Start and Stop (CVI_SYS_Init and        *)
(* CVI_SYS_Exit do); the thermal thread and the kernel run beside it.      *)
(***************************************************************************)
EXTENDS Integers, Sequences

CONSTANTS
  NTrips,    \* trip points the kernel has (up to the critical one)
  MaxState,  \* max_state of the cooling device, -1 if it cannot be read
  QueueCap   \* bound: events the netlink socket's buffer holds

\* FPS_ARRAY and COOLING_ARRAY have four elements.  The zone read at the
\* start (cvi_thermal.c:544) indexes them unchecked.
TableSize == 4

ASSUME ThermalAssumption ==
  /\ NTrips \in Nat
  /\ NTrips < TableSize
  /\ MaxState \in Nat \cup {-1}
  /\ QueueCap \in Nat

VARIABLES
  running,   \* g_is_thermal_running
  handle,    \* thermal_thread is set
  sock,      \* the pair therm_sockets: "none", "open" or "closed"
  wake,      \* Stop's message is waiting in the pair
  ctl,       \* the controlling thread: "idle" or a step of Start or Stop
  thread,    \* the thermal thread: "none", "ended" or a step of its handler
  zone,      \* zone of tz_event_handler
  cur,       \* cooling state last written to the kernel
  callback,  \* callbackFunc is set
  fps,       \* frame rate the callback was last given, -1 = none
  reached,   \* kernel: number of trip points the temperature is at or above
  level,     \* kernel: number of trip points last reported to be crossed
             \* upwards; one is reported crossed downwards only when the
             \* temperature is below it by its hysteresis
  queue,     \* kernel: events waiting in the netlink socket
  lost,      \* kernel: an event did not fit
  inBand     \* history: the zone was read when the temperature was within the
             \* hysteresis of a trip point reported to be crossed upwards, and
             \* no event since then took the kernel's level past the zone

ctlVars == <<handle, sock, wake, ctl>>
zoneVars == <<zone, cur, fps>>
tempVars == <<reached, level>>
eventVars == <<queue, lost, inBand>>
kernelVars == <<tempVars, eventVars>>
vars == <<running, ctlVars, thread, zoneVars, callback, kernelVars>>

Zones == 0 .. TableSize - 1
Fps == [z \in Zones |-> <<0, 15, 5, 1>>[z + 1]]
Cooling == [z \in Zones |-> z]

AtMost(x, max) == IF x > max THEN max ELSE x

Events == [trip : 0 .. NTrips - 1, up : BOOLEAN]

\* The thread has joined the multicast group and gets events.
SetupPcs == {"temp", "zone"}
LoopPcs == {"loop", "select", "recv"}
Listening == SetupPcs \cup LoopPcs
Alive == Listening \cup {"socket"}

TypeOK ==
  /\ running \in BOOLEAN
  /\ handle \in BOOLEAN
  /\ sock \in {"none", "open", "closed"}
  /\ wake \in BOOLEAN
  /\ ctl \in {"idle", "start_pair", "start_thread", "stop_wake", "stop_join",
              "stop_close"}
  /\ thread \in Alive \cup {"none", "ended"}
  /\ zone \in Zones
  /\ cur \in Zones \cup {-1}
  /\ callback \in BOOLEAN
  /\ fps \in {Fps[z] : z \in Zones} \cup {-1}
  /\ reached \in 0 .. NTrips
  /\ level \in 0 .. NTrips
  /\ reached <= level
  /\ queue \in Seq(Events)
  /\ Len(queue) <= QueueCap
  /\ lost \in BOOLEAN
  /\ inBand \in BOOLEAN

Init ==
  /\ running = FALSE
  /\ handle = FALSE
  /\ sock = "none"
  /\ wake = FALSE
  /\ ctl = "idle"
  /\ thread = "none"
  /\ zone = 0
  /\ cur = 0
  /\ callback = FALSE
  /\ fps = -1
  /\ level \in 0 .. NTrips
  /\ reached \in 0 .. level
  /\ queue = <<>> /\ lost = FALSE
  /\ inBand = FALSE

-----------------------------------------------------------------------------
\* CVI_SYS_StartThermalThread

Start ==
  /\ ctl = "idle"
  /\ ~running
  /\ running' = TRUE
  /\ ctl' = "start_pair"
  /\ UNCHANGED <<handle, sock, wake, thread, zoneVars, callback, kernelVars>>

\* A new pair; the one a thread that ended by itself has left is forgotten.
StartPair ==
  /\ ctl = "start_pair"
  /\ sock' = "open"
  /\ wake' = FALSE
  /\ ctl' = "start_thread"
  /\ UNCHANGED <<running, handle, thread, zoneVars, callback, kernelVars>>

\* The result of pthread_create is not looked at.
StartThread ==
  /\ ctl = "start_thread"
  /\ \/ handle' = TRUE /\ thread' = "socket"
     \/ UNCHANGED <<handle, thread>>
  /\ ctl' = "idle"
  /\ UNCHANGED <<running, sock, wake, zoneVars, callback, kernelVars>>

-----------------------------------------------------------------------------
\* CVI_SYS_StopThermalThread

\* Mutant: the thread is told to end but not joined.
StopWithoutJoin ==
  /\ ctl = "idle"
  /\ running
  /\ running' = FALSE
  /\ ctl' = "stop_close"
  /\ UNCHANGED <<handle, sock, wake, thread, zoneVars, callback, kernelVars>>

Stop ==
  /\ ctl = "idle"
  /\ running
  /\ running' = FALSE
  /\ ctl' = IF handle THEN "stop_wake" ELSE "stop_close"
  /\ UNCHANGED <<handle, sock, wake, thread, zoneVars, callback, kernelVars>>

\* Mutant: the flag alone is to end the thread.
StopWithoutWake ==
  /\ ctl = "stop_wake"
  /\ ctl' = "stop_join"
  /\ UNCHANGED <<running, handle, sock, wake, thread, zoneVars, callback,
                 kernelVars>>

StopWake ==
  /\ ctl = "stop_wake"
  /\ wake' = TRUE
  /\ ctl' = "stop_join"
  /\ UNCHANGED <<running, handle, sock, thread, zoneVars, callback, kernelVars>>

StopJoin ==
  /\ ctl = "stop_join"
  /\ thread = "ended"
  /\ thread' = "none"
  /\ handle' = FALSE
  /\ ctl' = "stop_close"
  /\ UNCHANGED <<running, sock, wake, zoneVars, callback, kernelVars>>

StopClose ==
  /\ ctl = "stop_close"
  /\ sock' = "closed"
  /\ wake' = FALSE
  /\ ctl' = "idle"
  /\ UNCHANGED <<running, handle, thread, zoneVars, callback, kernelVars>>

RegisterThermalCallback ==
  /\ callback' = TRUE
  /\ UNCHANGED <<running, ctlVars, thread, zoneVars, kernelVars>>

-----------------------------------------------------------------------------
\* tz_event_handler

\* close(nl_fd): what is left in its buffer is gone.  The flag is cleared.
Exit ==
  /\ thread' = "ended"
  /\ running' = FALSE
  /\ queue' = <<>>
  /\ lost' = FALSE
  /\ inBand' = FALSE
  /\ zone' = 0

Keep(to) == thread' = to /\ UNCHANGED running

\* The netlink socket and its multicast group: any of the calls can fail.
SetupSocket ==
  /\ thread = "socket"
  /\ \/ Exit
     \/ Keep("temp") /\ UNCHANGED <<zone, eventVars>>
  /\ UNCHANGED <<ctlVars, cur, fps, callback, tempVars>>

\* Mutant: the zone counts one trip point too many.
ReadTempTooHigh ==
  /\ thread = "temp"
  /\ \/ Exit
     \/ /\ Keep("zone")
        /\ zone' = reached + 1
        /\ inBand' = (reached # level)
        /\ UNCHANGED <<queue, lost>>
  /\ UNCHANGED <<ctlVars, cur, fps, callback, tempVars>>

\* Events are already being collected when the temperature is read.  It is
\* compared with the trip points themselves, whatever their hysteresis.
ReadTemp ==
  /\ thread = "temp"
  /\ \/ Exit
     \/ /\ Keep("zone")
        /\ zone' = reached
        /\ inBand' = (reached # level)
        /\ UNCHANGED <<queue, lost>>
  /\ UNCHANGED <<ctlVars, cur, fps, callback, tempVars>>

\* Mutant: the cooling device is not set for the zone read at the start.
InitZoneWithoutCooling ==
  /\ thread = "zone"
  /\ Keep("loop")
  /\ fps' = IF zone > 1 /\ callback THEN Fps[zone] ELSE fps
  /\ UNCHANGED <<ctlVars, zone, cur, callback, kernelVars>>

\* The callback is told of the initial zone only if that is above 1.
InitZone ==
  /\ thread = "zone"
  /\ Keep("loop")
  /\ fps' = IF zone > 1 /\ callback THEN Fps[zone] ELSE fps
  /\ cur' = AtMost(Cooling[zone], MaxState)
  /\ UNCHANGED <<ctlVars, zone, callback, kernelVars>>

\* while (g_is_thermal_running)
CheckRunning ==
  /\ thread = "loop"
  /\ IF running THEN Keep("select") /\ UNCHANGED <<zone, eventVars>>
                ELSE Exit
  /\ UNCHANGED <<ctlVars, cur, fps, callback, tempVars>>

\* Stop's message comes before the events.
SelectWoken ==
  /\ thread = "select"
  /\ wake
  /\ Exit
  /\ UNCHANGED <<ctlVars, cur, fps, callback, tempVars>>

SelectEvent ==
  /\ thread = "select"
  /\ ~wake
  /\ queue # <<>>
  /\ Keep("recv")
  /\ UNCHANGED <<ctlVars, zoneVars, callback, kernelVars>>

\* Nothing came for iEvtlogInterval seconds, or a signal.
SelectTimeout ==
  /\ thread = "select"
  /\ ~wake
  /\ Keep("loop")
  /\ UNCHANGED <<ctlVars, zoneVars, callback, kernelVars>>

\* Mutants: an event about a farther trip point moves the zone by one only.
NextZoneOneDown(z, e) ==
  CASE ~e.up /\ e.trip < z   -> z - 1
    [] e.up /\ e.trip = z    -> z + 1
    [] e.up /\ e.trip > z    -> e.trip + 1
    [] OTHER                 -> z

NextZoneOneUp(z, e) ==
  CASE ~e.up /\ e.trip < z   -> e.trip
    [] e.up /\ e.trip >= z   -> z + 1
    [] OTHER                 -> z

\* Where an event takes zone z.  An event about a trip point that the zone
\* already accounts for (it came before the temperature was read) is ignored;
\* one about a farther trip point skips the zones between.
NextZone(z, e) ==
  CASE ~e.up /\ e.trip = z - 1 -> z - 1
    [] ~e.up /\ e.trip < z - 1 -> e.trip
    [] e.up /\ e.trip = z      -> z + 1
    [] e.up /\ e.trip > z      -> e.trip + 1
    [] OTHER                   -> z

\* One event is received and acted upon; or receiving it fails.
HandleEvent ==
  /\ thread = "recv"
  /\ Keep("loop")
  /\ queue' = Tail(queue)
  /\ LET next == NextZone(zone, Head(queue)) IN
     IF next # zone /\ next < TableSize
     THEN /\ zone' = next
          /\ cur' = AtMost(Cooling[next], MaxState)
          /\ fps' = IF callback THEN Fps[next] ELSE fps
     ELSE UNCHANGED <<zone, cur, fps>>
  /\ UNCHANGED <<ctlVars, callback, tempVars, lost, inBand>>

ReceiveFails ==
  /\ thread = "recv"
  /\ Keep("loop")
  /\ queue' = Tail(queue)
  /\ lost' = TRUE
  /\ UNCHANGED <<ctlVars, zoneVars, callback, tempVars, inBand>>

-----------------------------------------------------------------------------
\* The kernel.  A trip point is crossed upwards when the temperature reaches it
\* and downwards when the temperature falls below it by its hysteresis; in
\* between nothing is reported.  A temperature can cross several at once: an
\* event is sent for each of them, in the order of the trip points.

Crossed(from, to) ==
  LET low == IF from < to THEN from ELSE to
      n == IF from < to THEN to - from ELSE from - to
  IN  [i \in 1 .. n |-> [trip |-> low + i - 1, up |-> from < to]]

\* Where the kernel's level goes with a temperature that is at or above `at'
\* trip points and above `hold' of them less their hysteresis.  The hysteresis
\* may be any: hold is any number from at upwards.
Settled(at, hold) == IF level < at THEN at ELSE AtMost(level, hold)

TemperatureChanges ==
  /\ \E at \in 0 .. NTrips : \E hold \in at .. NTrips :
       LET to == Settled(at, hold)
           sent == queue \o Crossed(level, to)
       IN  /\ reached' = at
           /\ level' = to
           /\ inBand' = (inBand /\ zone < to /\ to <= level)
           /\ IF thread \notin Listening THEN UNCHANGED <<queue, lost>>
              ELSE IF Len(sent) <= QueueCap THEN queue' = sent /\ UNCHANGED lost
              ELSE queue' = SubSeq(sent, 1, QueueCap) /\ lost' = TRUE
  /\ UNCHANGED <<running, ctlVars, thread, zoneVars, callback>>

-----------------------------------------------------------------------------
ControlSteps == StartPair \/ StartThread \/ StopWake \/ StopJoin \/ StopClose

ThreadSteps == \/ SetupSocket \/ ReadTemp \/ InitZone \/ CheckRunning
               \/ SelectWoken \/ SelectEvent \/ HandleEvent \/ ReceiveFails

Next == \/ Start \/ Stop \/ RegisterThermalCallback
        \/ ControlSteps
        \/ ThreadSteps
        \/ SelectTimeout
        \/ TemperatureChanges

Spec == Init /\ [][Next]_vars

\* A call goes on, and so does the thread: its select returns when there is
\* something to read.  Whether the timeout comes in time is not relied upon.
FairSpec == Spec /\ WF_vars(ControlSteps) /\ WF_vars(ThreadSteps)

-----------------------------------------------------------------------------
\* Unless an event was lost, the thread has caught up with the kernel's level
\* when it has handled the events that waited, no matter how the temperature
\* moved, also when it moved between the joining of the event group and the
\* reading of the temperature (cvi_thermal.c:459-470, 594-604).  The exception
\* is the code's own: a thread that starts while the temperature is within the
\* hysteresis of a trip point (cvi_thermal.c:544-548) has a zone below the
\* kernel's level, though never above it, until an event takes the level
\* past one of the two; the temperature may even reach the trip point again
\* meanwhile, which the kernel does not report.
ZoneCatchesUp ==
  thread \in LoopPcs /\ ~lost /\ queue = <<>> =>
    zone <= level /\ (~inBand => zone = level)

\* An event about a trip point, whatever was lost before it, leaves the zone on
\* the side of the trip point that it says (cvi_thermal.c:594-604; zone - 1
\* is computed for zone 0, too).
EventSettlesZone ==
  [][ HandleEvent => LET e == Head(queue) IN
                     IF e.up THEN zone' > e.trip ELSE zone' <= e.trip ]_vars

\* The cooling device is always set for the zone, within its maximum
\* (cvi_thermal.c:555, 605-610).
CoolingFollowsZone ==
  thread \in LoopPcs => cur = AtMost(Cooling[zone], MaxState)

\* The thread never waits on a pair that is closed, and while it is alive a
\* Stop reaches it: it is the one that is joined (cvi_thermal.c:632-675).
ThreadUnderControl ==
  thread \in Alive =>
    /\ handle /\ sock = "open"
    /\ running \/ ctl \in {"stop_wake", "stop_join"}

\* Start and Stop return, whatever the thread is doing.
CallsReturn == ctl # "idle" ~> ctl = "idle"

\* "Not zero zone" (cvi_thermal.c:549): when the thread starts in a zone other
\* than zero, a callback that is set is given that zone's frame rate.
FirstZoneTold ==
  [][ InitZone /\ callback /\ zone # 0 => fps' = Fps[zone] ]_vars
=============================================================================
