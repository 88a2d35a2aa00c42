--------------------------- MODULE ThermalProofs ---------------------------
(***************************************************************************)
(* Proofs about the thermal thread, for any number of trip points below    *)
(* the size of its tables, any cooling device and any socket buffer.       *)
(*                                                                         *)
(* The argument: a thread is created only when none is alive, because one  *)
(* that is alive keeps g_is_thermal_running set until Stop has taken       *)
(* charge of it; and Stop closes the pair only after the thread has ended. *)
(* The events that wait take both the zone and the level itself to the     *)
(* level: of a rise and a fall past the same trip point the later decides. *)
(***************************************************************************)
EXTENDS Thermal, SequenceTheorems, TLAPS

\* While Start runs no thread is alive, and the pair is made before the
\* thread; Stop closes the pair after the thread.
CallsInOrder ==
  /\ ctl \in {"start_pair", "start_thread"} => running /\ thread \notin Alive
  /\ ctl = "start_thread" => sock = "open"
  /\ ctl = "stop_close" => thread \notin Alive

\* Only the thread takes events away.
EventWaits == thread = "recv" => queue # <<>>

IndInv ==
  /\ TypeOK
  /\ CallsInOrder
  /\ EventWaits
  /\ ThreadUnderControl
  /\ CoolingFollowsZone

USE DEF ctlVars, zoneVars, tempVars, eventVars, kernelVars, vars

\* Everything but the events that wait.
ScalarsOK ==
  /\ running \in BOOLEAN
  /\ handle \in BOOLEAN
  /\ sock \in {"none", "open", "closed"}
  /\ wake \in BOOLEAN
  /\ ctl \in {"idle", "start_pair", "start_thread", "stop_wake", "stop_join",
              "stop_close"}
  /\ thread \in Alive \cup {"none", "ended"}
  /\ zone \in Zones
  /\ cur \in Zones \cup {-1}
  /\ callback \in BOOLEAN
  /\ fps \in {Fps[z] : z \in Zones} \cup {-1}
  /\ reached \in 0 .. NTrips
  /\ level \in 0 .. NTrips
  /\ reached <= level
  /\ lost \in BOOLEAN
  /\ inBand \in BOOLEAN

QueueOK == queue \in Seq(Events) /\ Len(queue) <= QueueCap

\* The type invariant falls into these two.
LEMMA TypeParts ==
  /\ TypeOK <=> ScalarsOK /\ QueueOK
  /\ TypeOK' <=> ScalarsOK' /\ QueueOK'
  BY DEF TypeOK, ScalarsOK, QueueOK

-----------------------------------------------------------------------------
\* The cooling state written for a zone is in the table, or -1.
LEMMA CoolingType ==
  ASSUME NEW z \in Zones
  PROVE  AtMost(Cooling[z], MaxState) \in Zones \cup {-1}
  BY ThermalAssumption DEF AtMost, Cooling, Zones, TableSize

\* The frame rate of a zone is in the table.
LEMMA FpsType == \A z \in Zones : Fps[z] \in {Fps[y] : y \in Zones}
  OBVIOUS

\* An event never takes the zone below zero, although zone - 1 is computed.
LEMMA NextZoneType ==
  ASSUME NEW z \in Zones, NEW e \in Events, NextZone(z, e) < TableSize
  PROVE  NextZone(z, e) \in Zones
  BY ThermalAssumption DEF NextZone, Events, Zones, TableSize

\* The events of a change of temperature.
LEMMA CrossedType ==
  ASSUME NEW from \in 0 .. NTrips, NEW to \in 0 .. NTrips
  PROVE  Crossed(from, to) \in Seq(Events)
  <1> DEFINE low == IF from < to THEN from ELSE to
             n == IF from < to THEN to - from ELSE from - to
  <1>1. /\ low \in Nat /\ n \in Nat /\ low + n <= NTrips
    BY ThermalAssumption
  <1> HIDE DEF low, n
  <1>2. \A i \in 1 .. n : low + i - 1 \in 0 .. NTrips - 1
    BY <1>1, ThermalAssumption
  <1>3. \A i \in 1 .. n : [trip |-> low + i - 1, up |-> from < to] \in Events
    BY <1>2 DEF Events
  <1>4. Crossed(from, to) =
          [i \in 1 .. n |-> [trip |-> low + i - 1, up |-> from < to]]
    BY DEF Crossed, low, n
  <1>5. Crossed(from, to) \in [1 .. n -> Events]
    BY <1>3, <1>4
  <1>6. QED
    BY <1>1, <1>5

-----------------------------------------------------------------------------
\* The zone and the events that wait.  A rise past trip point k leaves the zone
\* above k and a fall leaves it at k or below, so whether the zone z ends up at
\* n or below after the events q is decided by the last fall to n or below.
NotAbove(q, z, n) ==
  \/ z <= n /\ \A j \in 1 .. Len(q) : q[j].up => q[j].trip < n
  \/ \E i \in 1 .. Len(q) :
       /\ ~q[i].up /\ q[i].trip <= n
       /\ \A j \in i + 1 .. Len(q) : q[j].up => q[j].trip < n

NotBelow(q, z, n) ==
  \/ z >= n /\ \A j \in 1 .. Len(q) : ~q[j].up => q[j].trip >= n
  \/ \E i \in 1 .. Len(q) :
       /\ q[i].up /\ q[i].trip >= n - 1
       /\ \A j \in i + 1 .. Len(q) : ~q[j].up => q[j].trip >= n

Tells(q, z, n) == NotAbove(q, z, n) /\ NotBelow(q, z, n)

\* The events that wait take the level itself to the level, and the zone, once
\* it was read, not above it; and to it, unless the zone was read within a
\* hysteresis.
EventsTell ==
  /\ thread \notin Listening => queue = <<>>
  /\ thread \in Listening /\ ~lost => Tells(queue, level, level)
  /\ thread \in {"zone"} \cup LoopPcs /\ ~lost =>
       NotAbove(queue, zone, level) /\ (~inBand => Tells(queue, zone, level))

\* No event, and the zone is right.
LEMMA TellsNothing ==
  ASSUME NEW z \in Nat, NEW n \in Nat
  PROVE  (NotAbove(<<>>, z, n) <=> z <= n) /\ (Tells(<<>>, z, n) <=> z = n)
  BY DEF Tells, NotAbove, NotBelow

\* Where an event takes the zone.
LEMMA NextZoneIs ==
  ASSUME NEW z \in Nat, NEW e \in Events
  PROVE  NextZone(z, e) = IF e.up THEN (IF e.trip >= z THEN e.trip + 1 ELSE z)
                                  ELSE (IF e.trip < z THEN e.trip ELSE z)
  <1>1. e.trip \in Nat /\ e.up \in BOOLEAN
    BY ThermalAssumption DEF Events
  <1>2. CASE e.up
    BY <1>1, <1>2 DEF NextZone
  <1>3. CASE ~e.up
    BY <1>1, <1>3 DEF NextZone
  <1>4. QED
    BY <1>1, <1>2, <1>3

\* Without the first event the rest tells the same of the zone it leads to, and
\* of the level itself.
LEMMA TellsAfterHead ==
  ASSUME NEW q \in Seq(Events), q # <<>>, NEW z \in Nat, NEW n \in Nat,
         NEW y \in {NextZone(z, Head(q)), n}
  PROVE  /\ NotAbove(q, z, n) => NotAbove(Tail(q), y, n)
         /\ NotBelow(q, z, n) => NotBelow(Tail(q), y, n)
  <1> DEFINE e == q[1]
             r == Tail(q)
             x == IF e.up THEN (IF e.trip >= z THEN e.trip + 1 ELSE z)
                          ELSE (IF e.trip < z THEN e.trip ELSE z)
  <1>1. /\ Len(q) \in Nat /\ Len(q) >= 1 /\ Len(r) = Len(q) - 1
        /\ \A i \in 1 .. Len(r) : r[i] = q[i + 1]
        /\ \A i \in 1 .. Len(q) : q[i] \in Events
        /\ Head(q) = e
    BY HeadTailProperties, LenProperties, ElementOfSeq, EmptySeq
  <1>2. /\ e \in Events /\ NextZone(z, Head(q)) = x /\ y \in {x, n}
        /\ \A i \in 1 .. Len(q) : q[i].trip \in Nat /\ q[i].up \in BOOLEAN
    <2>1. e \in Events
      BY <1>1
    <2>2. \A d \in Events : d.trip \in Nat /\ d.up \in BOOLEAN
      BY ThermalAssumption DEF Events
    <2>3. NextZone(z, e) = x
      BY <2>1, NextZoneIs
    <2>4. QED
      BY <1>1, <2>1, <2>2, <2>3
  <1>3. e.trip \in Nat /\ e.up \in BOOLEAN
    BY <1>1, <1>2
  <1>4. ASSUME NEW j \in 1 .. Len(r)
        PROVE  j + 1 \in 1 .. Len(q) /\ r[j] = q[j + 1]
    BY <1>1
  <1> HIDE DEF r
  <1>5. ASSUME NotAbove(q, z, n)
        PROVE  NotAbove(r, y, n)
    <2>1. CASE z <= n /\ \A j \in 1 .. Len(q) : q[j].up => q[j].trip < n
      <3>1. \A j \in 1 .. Len(r) : r[j].up => r[j].trip < n
        BY <2>1, <1>4
      <3>2. e.up => e.trip < n
        BY <2>1, <1>1
      <3>3. y <= n
        BY <1>2, <2>1, <3>2, <1>3
      <3>4. QED
        BY <3>1, <3>3 DEF NotAbove
    <2>2. ASSUME NEW i \in 1 .. Len(q), ~q[i].up, q[i].trip <= n,
                 \A j \in i + 1 .. Len(q) : q[j].up => q[j].trip < n
          PROVE  NotAbove(r, y, n)
      <3>1. CASE i = 1
        <4>1. y <= n
          BY <1>2, <2>2, <3>1, <1>3
        <4>2. \A j \in 1 .. Len(r) : r[j].up => r[j].trip < n
          <5>1. \A j \in 1 .. Len(r) : j + 1 \in i + 1 .. Len(q)
            BY <1>1, <3>1
          <5>2. QED
            BY <5>1, <2>2, <1>4
        <4>3. QED
          BY <4>1, <4>2 DEF NotAbove
      <3>2. CASE i # 1
        <4>1. i - 1 \in 1 .. Len(r) /\ r[i - 1] = q[i]
          BY <1>1, <3>2
        <4>2. \A j \in (i - 1) + 1 .. Len(r) : j + 1 \in i + 1 .. Len(q) /\ j \in 1 .. Len(r)
          BY <1>1, <3>2
        <4>3. \A j \in (i - 1) + 1 .. Len(r) : r[j].up => r[j].trip < n
          BY <4>2, <2>2, <1>4
        <4>4. QED
          BY <4>1, <4>3, <2>2 DEF NotAbove
      <3>3. QED
        BY <3>1, <3>2
    <2>3. QED
      BY <1>5, <2>1, <2>2 DEF NotAbove
  <1>6. ASSUME NotBelow(q, z, n)
        PROVE  NotBelow(r, y, n)
    <2>1. CASE z >= n /\ \A j \in 1 .. Len(q) : ~q[j].up => q[j].trip >= n
      <3>1. \A j \in 1 .. Len(r) : ~r[j].up => r[j].trip >= n
        BY <2>1, <1>4
      <3>2. ~e.up => e.trip >= n
        BY <2>1, <1>1
      <3>3. y >= n
        BY <1>2, <2>1, <3>2, <1>3
      <3>4. QED
        BY <3>1, <3>3 DEF NotBelow
    <2>2. ASSUME NEW i \in 1 .. Len(q), q[i].up, q[i].trip >= n - 1,
                 \A j \in i + 1 .. Len(q) : ~q[j].up => q[j].trip >= n
          PROVE  NotBelow(r, y, n)
      <3>1. CASE i = 1
        <4>1. y >= n
          BY <1>2, <2>2, <3>1, <1>3
        <4>2. \A j \in 1 .. Len(r) : ~r[j].up => r[j].trip >= n
          <5>1. \A j \in 1 .. Len(r) : j + 1 \in i + 1 .. Len(q)
            BY <1>1, <3>1
          <5>2. QED
            BY <5>1, <2>2, <1>4
        <4>3. QED
          BY <4>1, <4>2 DEF NotBelow
      <3>2. CASE i # 1
        <4>1. i - 1 \in 1 .. Len(r) /\ r[i - 1] = q[i]
          BY <1>1, <3>2
        <4>2. \A j \in (i - 1) + 1 .. Len(r) : j + 1 \in i + 1 .. Len(q) /\ j \in 1 .. Len(r)
          BY <1>1, <3>2
        <4>3. \A j \in (i - 1) + 1 .. Len(r) : ~r[j].up => r[j].trip >= n
          BY <4>2, <2>2, <1>4
        <4>4. QED
          BY <4>1, <4>3, <2>2 DEF NotBelow
      <3>3. QED
        BY <3>1, <3>2
    <2>3. QED
      BY <1>6, <2>1, <2>2 DEF NotBelow
  <1>7. QED
    BY <1>5, <1>6 DEF r

\* What takes some zone to the level takes the level to itself.  What does so
\* takes no lower zone above it, and no higher zone below it.
LEMMA TellsLevel ==
  ASSUME NEW q \in Seq(Events), NEW z \in Nat, NEW n \in Nat
  PROVE  /\ Tells(q, z, n) => Tells(q, n, n)
         /\ Tells(q, n, n) /\ z <= n => NotAbove(q, z, n)
         /\ Tells(q, n, n) /\ z >= n => NotBelow(q, z, n)
  BY DEF Tells, NotAbove, NotBelow

\* The events of a change of temperature, after those that wait, tell the new
\* level whatever the zone was told to be; after a rise the zone is not below
\* the level wherever it was.
LEMMA TellsCrossed ==
  ASSUME NEW q \in Seq(Events), NEW z \in Nat,
         NEW from \in 0 .. NTrips, NEW to \in 0 .. NTrips, from # to,
         NotAbove(q, z, from)
  PROVE  /\ NotAbove(q \o Crossed(from, to), z, to)
         /\ from < to \/ NotBelow(q, z, from) =>
              NotBelow(q \o Crossed(from, to), z, to)
  <1> DEFINE c == Crossed(from, to)
             s == q \o c
             low == IF from < to THEN from ELSE to
             n == IF from < to THEN to - from ELSE from - to
  <1>1. /\ c \in Seq(Events) /\ Len(c) = n /\ n \in Nat /\ n >= 1
        /\ \A i \in 1 .. n : c[i].trip = low + i - 1 /\ c[i].up = (from < to)
    <2>1. n \in Nat /\ n >= 1
      BY ThermalAssumption
    <2>2. c \in Seq(Events)
      BY CrossedType
    <2>3. c = [i \in 1 .. n |-> [trip |-> low + i - 1, up |-> from < to]]
      BY DEF Crossed
    <2> HIDE DEF n, low, c
    <2>4. DOMAIN c = 1 .. n
      BY <2>3
    <2>5. Len(c) = n
      BY <2>1, <2>2, <2>4, LenProperties
    <2>6. \A i \in 1 .. n : c[i] = [trip |-> low + i - 1, up |-> from < to]
      BY <2>3
    <2>7. QED
      BY <2>1, <2>2, <2>5, <2>6
  <1> HIDE DEF c, n, low
  <1>2. /\ Len(q) \in Nat /\ Len(s) = Len(q) + n
        /\ \A i \in 1 .. Len(q) + n :
             s[i] = IF i <= Len(q) THEN q[i] ELSE c[i - Len(q)]
    BY <1>1, ConcatProperties, LenProperties
  <1> HIDE DEF s
  <1>3. \A i \in 1 .. Len(q) : q[i] \in Events /\ q[i].trip \in Nat
    <2>1. \A d \in Events : d.trip \in Nat
      BY ThermalAssumption DEF Events
    <2>2. QED
      BY <2>1, ElementOfSeq, <1>2
  <1>4. from \in Nat /\ to \in Nat
    BY ThermalAssumption
  <1>5. \A i \in 1 .. Len(q) : i \in 1 .. Len(s) /\ s[i] = q[i]
    BY <1>1, <1>2
  <1>6. \A i \in 1 .. Len(s) : i \notin 1 .. Len(q) =>
          /\ i - Len(q) \in 1 .. n
          /\ s[i].trip = low + (i - Len(q)) - 1 /\ s[i].up = (from < to)
    <2>1. \A i \in 1 .. Len(s) : i \notin 1 .. Len(q) =>
            i - Len(q) \in 1 .. n /\ s[i] = c[i - Len(q)]
      BY <1>1, <1>2
    <2>2. QED
      BY <2>1, <1>1
  <1>7. CASE from < to
    <2>1. \A i \in 1 .. Len(s) : i \notin 1 .. Len(q) =>
            s[i].up /\ s[i].trip < to
      <3>1. low = from /\ n = to - from
        BY <1>7 DEF n, low
      <3>2. ASSUME NEW i \in 1 .. Len(s), i \notin 1 .. Len(q)
            PROVE  s[i].up /\ s[i].trip < to
        <4>1. /\ i - Len(q) \in 1 .. n /\ s[i].trip = low + (i - Len(q)) - 1
              /\ s[i].up = (from < to)
          BY <1>6, <3>2
        <4>2. s[i].up
          BY <4>1, <1>7
        <4>3. s[i].trip < to
          <5> DEFINE k == i - Len(q)
          <5>1. k \in 1 .. to - from /\ s[i].trip = from + k - 1
            BY <4>1, <3>1
          <5> HIDE DEF k
          <5>2. QED
            BY <5>1, <1>4
        <4>4. QED
          BY <4>2, <4>3
      <3>3. QED
        BY <3>2
    <2>2. NotAbove(s, z, to)
      <3>1. CASE z <= from /\ \A j \in 1 .. Len(q) : q[j].up => q[j].trip < from
        <4>1. \A j \in 1 .. Len(s) : s[j].up => s[j].trip < to
          BY <3>1, <2>1, <1>3, <1>4, <1>5, <1>7
        <4>2. z <= to
          BY <3>1, <1>4, <1>7
        <4>3. QED
          BY <4>1, <4>2 DEF NotAbove
      <3>2. ASSUME NEW i \in 1 .. Len(q), ~q[i].up, q[i].trip <= from,
                   \A j \in i + 1 .. Len(q) : q[j].up => q[j].trip < from
            PROVE  NotAbove(s, z, to)
        <4>1. i \in 1 .. Len(s) /\ ~s[i].up /\ s[i].trip <= to
          BY <3>2, <1>3, <1>4, <1>5, <1>7
        <4>2. \A j \in i + 1 .. Len(s) : s[j].up => s[j].trip < to
          <5>1. \A j \in i + 1 .. Len(s) : j \in 1 .. Len(q) => j \in i + 1 .. Len(q)
            BY <1>2
          <5>2. \A j \in i + 1 .. Len(s) : j \in 1 .. Len(s)
            BY <1>2
          <5>3. \A j \in i + 1 .. Len(s) : j \in 1 .. Len(q) /\ s[j].up => s[j].trip < to
            BY <5>1, <3>2, <1>3, <1>4, <1>5, <1>7
          <5>4. QED
            BY <5>2, <5>3, <2>1
        <4>3. QED
          BY <4>1, <4>2 DEF NotAbove
      <3>3. QED
        BY <3>1, <3>2 DEF NotAbove
    <2>3. NotBelow(s, z, to)
      <3>1. Len(s) \in 1 .. Len(s) /\ Len(s) \notin 1 .. Len(q) /\ Len(s) - Len(q) = n
        BY <1>1, <1>2
      <3>2. s[Len(s)].up /\ s[Len(s)].trip = low + n - 1
        BY <3>1, <1>6, <1>7
      <3>3. low + n - 1 = to - 1
        BY <1>4, <1>7 DEF n, low
      <3>4. \A j \in Len(s) + 1 .. Len(s) : FALSE
        BY <1>1, <1>2
      <3>5. QED
        BY <3>1, <3>2, <3>3, <3>4, <1>4 DEF NotBelow
    <2>4. QED
      BY <2>2, <2>3 DEF s, c
  <1>8. CASE to < from
    <2>1. \A i \in 1 .. Len(s) : i \notin 1 .. Len(q) =>
            ~s[i].up /\ s[i].trip >= to
      <3>1. low = to /\ ~(from < to)
        BY <1>4, <1>8 DEF low
      <3>2. ASSUME NEW i \in 1 .. Len(s), i \notin 1 .. Len(q)
            PROVE  ~s[i].up /\ s[i].trip >= to
        <4>1. /\ i - Len(q) \in 1 .. n /\ s[i].trip = low + (i - Len(q)) - 1
              /\ s[i].up = (from < to)
          BY <1>6, <3>2
        <4>2. ~s[i].up
          BY <4>1, <3>1
        <4>3. s[i].trip >= to
          <5> DEFINE k == i - Len(q)
          <5>1. k \in 1 .. n /\ s[i].trip = to + k - 1
            BY <4>1, <3>1
          <5> HIDE DEF k
          <5>2. QED
            BY <5>1, <1>1, <1>4
        <4>4. QED
          BY <4>2, <4>3
      <3>3. QED
        BY <3>2
    <2>2. ASSUME NotBelow(q, z, from)
          PROVE  NotBelow(s, z, to)
      <3>1. CASE z >= from /\ \A j \in 1 .. Len(q) : ~q[j].up => q[j].trip >= from
        <4>1. \A j \in 1 .. Len(s) : ~s[j].up => s[j].trip >= to
          BY <3>1, <2>1, <1>3, <1>4, <1>5, <1>8
        <4>2. z >= to
          BY <3>1, <1>4, <1>8
        <4>3. QED
          BY <4>1, <4>2 DEF NotBelow
      <3>2. ASSUME NEW i \in 1 .. Len(q), q[i].up, q[i].trip >= from - 1,
                   \A j \in i + 1 .. Len(q) : ~q[j].up => q[j].trip >= from
            PROVE  NotBelow(s, z, to)
        <4>1. i \in 1 .. Len(s) /\ s[i].up /\ s[i].trip >= to - 1
          BY <3>2, <1>3, <1>4, <1>5, <1>8
        <4>2. \A j \in i + 1 .. Len(s) : ~s[j].up => s[j].trip >= to
          <5>1. \A j \in i + 1 .. Len(s) : j \in 1 .. Len(q) => j \in i + 1 .. Len(q)
            BY <1>2
          <5>2. \A j \in i + 1 .. Len(s) : j \in 1 .. Len(s)
            BY <1>2
          <5>3. \A j \in i + 1 .. Len(s) : j \in 1 .. Len(q) /\ ~s[j].up => s[j].trip >= to
            BY <5>1, <3>2, <1>3, <1>4, <1>5, <1>8
          <5>4. QED
            BY <5>2, <5>3, <2>1
        <4>3. QED
          BY <4>1, <4>2 DEF NotBelow
      <3>3. QED
        BY <2>2, <3>1, <3>2 DEF NotBelow
    <2>3. NotAbove(s, z, to)
      <3> DEFINE f == Len(q) + 1
      <3>1. f \in 1 .. Len(s) /\ f \notin 1 .. Len(q) /\ f - Len(q) = 1
        BY <1>1, <1>2
      <3>2. ~s[f].up /\ s[f].trip = to
        <4>1. low = to /\ ~(from < to)
          BY <1>4, <1>8 DEF low
        <4>2. s[f].trip = low + 1 - 1 /\ s[f].up = (from < to)
          BY <3>1, <1>6
        <4>3. ~s[f].up
          BY <4>1, <4>2
        <4>4. s[f].trip = to
          BY <4>1, <4>2, <1>4
        <4>5. QED
          BY <4>3, <4>4
      <3>3. \A j \in f + 1 .. Len(s) : j \in 1 .. Len(s) /\ j \notin 1 .. Len(q)
        BY <1>2
      <3>4. \A j \in f + 1 .. Len(s) : ~s[j].up
        BY <3>3, <2>1
      <3> HIDE DEF f
      <3>5. QED
        BY <3>1, <3>2, <3>4, <1>4 DEF NotAbove
    <2>4. QED
      BY <1>4, <1>8, <2>2, <2>3 DEF s, c
  <1>9. QED
    BY <1>4, <1>7, <1>8

\* No trip point is crossed, and nothing is sent.
LEMMA NothingCrossed ==
  ASSUME NEW q \in Seq(Events), NEW n \in 0 .. NTrips
  PROVE  q \o Crossed(n, n) = q
  <1>1. Crossed(n, n) = <<>>
    <2>1. n - n = 0 /\ ~(n < n)
      BY ThermalAssumption
    <2>2. Crossed(n, n) \in Seq(Events) /\ DOMAIN Crossed(n, n) = 1 .. 0
      BY <2>1, CrossedType DEF Crossed
    <2>3. Len(Crossed(n, n)) = 0
      BY <2>2, LenProperties
    <2>4. QED
      BY <2>2, <2>3, EmptySeq
  <1>2. QED
    BY <1>1, ConcatEmptySeq

-----------------------------------------------------------------------------
\* A change of temperature: the level it leads to, and the events it sends.
LEMMA ChangeIs ==
  ASSUME TypeOK, TemperatureChanges
  PROVE  /\ level' \in 0 .. NTrips /\ reached' \in 0 .. NTrips
         /\ reached' <= level'
         /\ inBand' = (inBand /\ zone < level' /\ level' <= level)
         /\ LET sent == queue \o Crossed(level, level') IN
            IF thread \notin Listening THEN UNCHANGED <<queue, lost>>
            ELSE IF Len(sent) <= QueueCap THEN queue' = sent /\ UNCHANGED lost
            ELSE queue' = SubSeq(sent, 1, QueueCap) /\ lost' = TRUE
         /\ UNCHANGED <<running, ctlVars, thread, zoneVars, callback>>
  <1>1. PICK at \in 0 .. NTrips : \E hold \in at .. NTrips :
          LET to == Settled(at, hold)
              sent == queue \o Crossed(level, to)
          IN  /\ reached' = at
              /\ level' = to
              /\ inBand' = (inBand /\ zone < to /\ to <= level)
              /\ IF thread \notin Listening THEN UNCHANGED <<queue, lost>>
                 ELSE IF Len(sent) <= QueueCap
                      THEN queue' = sent /\ UNCHANGED lost
                 ELSE queue' = SubSeq(sent, 1, QueueCap) /\ lost' = TRUE
    BY DEF TemperatureChanges
  <1>2. PICK hold \in at .. NTrips :
          LET to == Settled(at, hold)
              sent == queue \o Crossed(level, to)
          IN  /\ reached' = at
              /\ level' = to
              /\ inBand' = (inBand /\ zone < to /\ to <= level)
              /\ IF thread \notin Listening THEN UNCHANGED <<queue, lost>>
                 ELSE IF Len(sent) <= QueueCap
                      THEN queue' = sent /\ UNCHANGED lost
                 ELSE queue' = SubSeq(sent, 1, QueueCap) /\ lost' = TRUE
    BY <1>1
  <1>3. Settled(at, hold) \in 0 .. NTrips /\ at <= Settled(at, hold)
    BY ThermalAssumption DEF TypeOK, Settled, AtMost
  <1> HIDE DEF Settled
  <1>4. QED
    BY <1>2, <1>3 DEF TemperatureChanges

\* The kernel's events fit into the buffer, or the first of them do; those
\* that wait stay.
LEMMA QueueStep ==
  ASSUME TypeOK, TemperatureChanges
  PROVE  /\ QueueOK' /\ lost' \in BOOLEAN /\ level' \in 0 .. NTrips
         /\ reached' \in 0 .. NTrips /\ reached' <= level'
         /\ inBand' \in BOOLEAN
         /\ queue # <<>> => queue' # <<>>
         /\ UNCHANGED <<running, ctlVars, thread, zoneVars, callback>>
  <1> DEFINE sent == queue \o Crossed(level, level')
  <1>1. /\ queue \in Seq(Events) /\ Len(queue) <= QueueCap
        /\ sent \in Seq(Events)
        /\ Len(queue) \in Nat /\ Len(sent) \in Nat
        /\ Len(sent) >= Len(queue)
    <2>1. Crossed(level, level') \in Seq(Events)
      BY ChangeIs, CrossedType DEF TypeOK
    <2>2. QED
      BY <2>1, ConcatProperties, LenProperties DEF TypeOK
  <1>2. \/ UNCHANGED <<queue, lost>>
        \/ Len(sent) <= QueueCap /\ queue' = sent /\ UNCHANGED lost
        \/ /\ Len(sent) > QueueCap /\ lost' = TRUE
           /\ queue' = SubSeq(sent, 1, QueueCap)
    <2> HIDE DEF sent
    <2>1. IF thread \notin Listening THEN UNCHANGED <<queue, lost>>
          ELSE IF Len(sent) <= QueueCap THEN queue' = sent /\ UNCHANGED lost
          ELSE queue' = SubSeq(sent, 1, QueueCap) /\ lost' = TRUE
      BY ChangeIs DEF sent
    <2>2. Len(sent) <= QueueCap \/ Len(sent) > QueueCap
      BY <1>1, ThermalAssumption
    <2>3. QED
      BY <2>1, <2>2
  <1> HIDE DEF sent
  <1>3. /\ lost \in BOOLEAN /\ level' \in 0 .. NTrips
        /\ reached' \in 0 .. NTrips /\ reached' <= level'
        /\ inBand' \in BOOLEAN
        /\ UNCHANGED <<running, ctlVars, thread, zoneVars, callback>>
    BY ChangeIs DEF TypeOK
  <1>4. CASE UNCHANGED <<queue, lost>>
    BY <1>1, <1>3, <1>4 DEF QueueOK
  <1>5. CASE Len(sent) <= QueueCap /\ queue' = sent /\ UNCHANGED lost
    <2>1. queue # <<>> => sent # <<>>
      BY <1>1, EmptySeq
    <2>2. QED
      BY <1>1, <1>3, <1>5, <2>1 DEF QueueOK
  <1>6. CASE /\ Len(sent) > QueueCap /\ lost' = TRUE
             /\ queue' = SubSeq(sent, 1, QueueCap)
    <2>1. \A i \in 1 .. QueueCap : sent[i] \in Events
      BY <1>1, <1>6, ElementOfSeq, ThermalAssumption
    <2>2. /\ SubSeq(sent, 1, QueueCap) \in Seq(Events)
          /\ Len(SubSeq(sent, 1, QueueCap)) = QueueCap
      BY <2>1, SubSeqProperties, ThermalAssumption
    <2>3. queue # <<>> => SubSeq(sent, 1, QueueCap) # <<>>
      BY <1>1, <2>2, EmptySeq, ThermalAssumption
    <2>4. QED
      BY <1>3, <1>6, <2>2, <2>3, ThermalAssumption DEF QueueOK
  <1>7. QED
    BY <1>2, <1>3, <1>4, <1>5, <1>6

\* The steps of Start and Stop.
LEMMA ControlKeeps ==
  ASSUME IndInv, Start \/ Stop \/ RegisterThermalCallback \/ ControlSteps
  PROVE  IndInv'
  <1>1. ScalarsOK /\ QueueOK
    BY TypeParts DEF IndInv
  <1>2. QueueOK'
    BY <1>1
    DEF ControlSteps, Start, StartPair, StartThread, Stop, StopWake, StopJoin,
        StopClose, RegisterThermalCallback, QueueOK
  <1>3. ScalarsOK'
    <2> USE DEF ScalarsOK
    <2>1. CASE Start \/ StartPair \/ RegisterThermalCallback
      BY <1>1, <2>1 DEF Start, StartPair, RegisterThermalCallback
    <2>2. CASE Stop
      BY <1>1, <2>2 DEF Stop
    <2>3. CASE StopWake \/ StopJoin \/ StopClose
      BY <1>1, <2>3 DEF StopWake, StopJoin, StopClose
    <2>4. CASE StartThread
      <3>1. thread' \in Alive \cup {"none", "ended"} /\ handle' \in BOOLEAN
        BY <1>1, <2>4 DEF StartThread, Alive
      <3>2. ctl' = "idle"
        BY <2>4 DEF StartThread
      <3>3. UNCHANGED <<running, sock, wake, zoneVars, callback, kernelVars>>
        BY <2>4 DEF StartThread
      <3>4. QED
        BY <1>1, <3>1, <3>2, <3>3
    <2>5. QED
      BY <2>1, <2>2, <2>3, <2>4 DEF ControlSteps
  <1>4. TypeOK'
    BY <1>2, <1>3, TypeParts
  <1> USE DEF IndInv, CallsInOrder, EventWaits, ThreadUnderControl, CoolingFollowsZone,
              Alive, Listening, SetupPcs, LoopPcs
  <1>5. CASE Start
    BY <1>4, <1>5 DEF Start
  <1>6. CASE StartPair
    BY <1>4, <1>6 DEF StartPair
  <1>7. CASE StartThread
    BY <1>4, <1>7 DEF StartThread
  <1>8. CASE Stop
    BY <1>4, <1>8 DEF Stop
  <1>9. CASE StopWake
    BY <1>4, <1>9 DEF StopWake
  <1>10. CASE StopJoin
    BY <1>4, <1>10 DEF StopJoin
  <1>11. CASE StopClose
    BY <1>4, <1>11 DEF StopClose
  <1>12. CASE RegisterThermalCallback
    BY <1>4, <1>12 DEF RegisterThermalCallback
  <1>13. QED
    BY <1>5, <1>6, <1>7, <1>8, <1>9, <1>10, <1>11, <1>12 DEF ControlSteps

\* A thread that ends, at whatever point.
LEMMA ExitKeeps ==
  ASSUME IndInv, thread \in Alive, Exit,
         UNCHANGED <<ctlVars, cur, fps, callback, tempVars>>
  PROVE  IndInv'
  <1>1. ScalarsOK' /\ QueueOK'
    <2>1. 0 \in Zones /\ <<>> \in Seq(Events) /\ Len(<<>>) <= QueueCap
      BY ThermalAssumption, EmptySeq DEF Zones, TableSize
    <2>2. ScalarsOK
      BY TypeParts DEF IndInv
    <2>3. ScalarsOK'
      BY <2>1, <2>2 DEF ScalarsOK, Exit
    <2>4. QueueOK'
      BY <2>1 DEF QueueOK, Exit
    <2>5. QED
      BY <2>3, <2>4
  <1>2. QED
    BY <1>1, TypeParts
    DEF IndInv, CallsInOrder, EventWaits, ThreadUnderControl,
        CoolingFollowsZone, Exit,
        Alive, Listening, SetupPcs, LoopPcs

\* A thread that goes on, with the zone, the cooling state and the frame rate
\* it then has.
LEMMA ThreadGoesOn ==
  ASSUME IndInv, thread \in Alive, thread' \in Alive,
         UNCHANGED <<running, ctlVars, callback, tempVars>>,
         inBand' \in BOOLEAN,
         zone' \in Zones, cur' \in Zones \cup {-1},
         fps' \in {Fps[z] : z \in Zones} \cup {-1}, lost' \in BOOLEAN,
         QueueOK',
         thread' = "recv" => queue' # <<>>,
         thread' \in LoopPcs => cur' = AtMost(Cooling[zone'], MaxState)
  PROVE  IndInv'
  <1>1. ScalarsOK'
    BY TypeParts DEF IndInv, ScalarsOK
  <1>2. QED
    BY <1>1, TypeParts
    DEF IndInv, CallsInOrder, EventWaits, ThreadUnderControl,
        CoolingFollowsZone

\* The steps of the thread.
LEMMA ThreadKeeps ==
  ASSUME IndInv, ThreadSteps \/ SelectTimeout
  PROVE  IndInv'
  <1>0. /\ ScalarsOK /\ QueueOK
        /\ thread \in LoopPcs => cur = AtMost(Cooling[zone], MaxState)
    BY TypeParts DEF IndInv, CoolingFollowsZone
  <1> USE DEF Alive, Listening, SetupPcs, LoopPcs
  <1>1. CASE SetupSocket
    <2>1. CASE Exit
      BY <1>1, <2>1, ExitKeeps DEF SetupSocket
    <2>2. CASE Keep("temp") /\ UNCHANGED <<zone, eventVars>>
      BY <1>0, <1>1, <2>2, ThreadGoesOn
      DEF SetupSocket, Keep, ScalarsOK, QueueOK
    <2>3. QED
      BY <1>1, <2>1, <2>2 DEF SetupSocket
  <1>2. CASE ReadTemp
    <2>1. CASE Exit
      BY <1>2, <2>1, ExitKeeps DEF ReadTemp
    <2>2. CASE /\ Keep("zone") /\ zone' = reached
               /\ inBand' = (reached # level) /\ UNCHANGED <<queue, lost>>
      <3>1. zone' \in Zones
        BY <1>0, <2>2, ThermalAssumption DEF ScalarsOK, Zones, TableSize
      <3>2. QED
        BY <1>0, <1>2, <2>2, <3>1, ThreadGoesOn
        DEF ReadTemp, Keep, ScalarsOK, QueueOK
    <2>3. QED
      BY <1>2, <2>1, <2>2 DEF ReadTemp
  <1>3. CASE InitZone
    <2>1. /\ cur' = AtMost(Cooling[zone'], MaxState)
          /\ cur' \in Zones \cup {-1} /\ zone' \in Zones
      BY <1>0, <1>3, CoolingType DEF InitZone, ScalarsOK
    <2>2. fps' \in {Fps[z] : z \in Zones} \cup {-1}
      BY <1>0, <1>3, FpsType DEF InitZone, ScalarsOK
    <2>3. QED
      BY <1>0, <1>3, <2>1, <2>2, ThreadGoesOn
      DEF InitZone, Keep, ScalarsOK, QueueOK
  <1>4. CASE CheckRunning
    <2>1. CASE Exit
      BY <1>4, <2>1, ExitKeeps DEF CheckRunning
    <2>2. CASE Keep("select") /\ UNCHANGED <<zone, eventVars>>
      BY <1>0, <1>4, <2>2, ThreadGoesOn
      DEF CheckRunning, Keep, ScalarsOK, QueueOK
    <2>3. QED
      BY <1>4, <2>1, <2>2 DEF CheckRunning
  <1>5. CASE SelectWoken
    BY <1>5, ExitKeeps DEF SelectWoken
  <1>6. CASE SelectEvent
    BY <1>0, <1>6, ThreadGoesOn DEF SelectEvent, Keep, ScalarsOK, QueueOK
  <1>7. CASE SelectTimeout
    BY <1>0, <1>7, ThreadGoesOn DEF SelectTimeout, Keep, ScalarsOK, QueueOK
  <1>8. ASSUME HandleEvent \/ ReceiveFails
        PROVE  /\ thread = "recv" /\ Head(queue) \in Events
               /\ QueueOK'
    <2>1. thread = "recv" /\ queue # <<>> /\ queue' = Tail(queue)
      BY <1>8 DEF IndInv, EventWaits, HandleEvent, ReceiveFails
    <2>2. /\ Head(queue) \in Events /\ Tail(queue) \in Seq(Events)
          /\ Len(Tail(queue)) = Len(queue) - 1 /\ Len(queue) \in Nat
      BY <1>0, <2>1, HeadTailProperties, LenProperties DEF QueueOK
    <2>3. QED
      BY <1>0, <2>1, <2>2, ThermalAssumption DEF QueueOK
  <1>9. CASE HandleEvent
    <2> DEFINE next == NextZone(zone, Head(queue))
    <2>1. /\ Keep("loop") /\ UNCHANGED <<ctlVars, callback, tempVars, lost, inBand>>
          /\ \/ /\ next < TableSize
                /\ zone' = next
                /\ cur' = AtMost(Cooling[next], MaxState)
                /\ fps' = IF callback THEN Fps[next] ELSE fps
             \/ UNCHANGED <<zone, cur, fps>>
      BY <1>9 DEF HandleEvent
    <2>2. zone \in Zones /\ Head(queue) \in Events
      BY <1>0, <1>8, <1>9 DEF ScalarsOK
    <2>3. next < TableSize => next \in Zones
      BY <2>2, NextZoneType
    <2> HIDE DEF next
    <2>4. /\ zone' \in Zones /\ cur' \in Zones \cup {-1}
          /\ fps' \in {Fps[z] : z \in Zones} \cup {-1}
          /\ cur' = AtMost(Cooling[zone'], MaxState)
      BY <1>0, <1>8, <1>9, <2>1, <2>3, CoolingType, FpsType DEF ScalarsOK
    <2>5. QED
      BY <1>0, <1>8, <1>9, <2>1, <2>4, ThreadGoesOn DEF Keep, ScalarsOK
  <1>10. CASE ReceiveFails
    BY <1>0, <1>8, <1>10, ThreadGoesOn DEF ReceiveFails, Keep, ScalarsOK
  <1>11. QED
    BY <1>1, <1>2, <1>3, <1>4, <1>5, <1>6, <1>7, <1>9, <1>10 DEF ThreadSteps

-----------------------------------------------------------------------------
\* No thread, no call and no event at first.
LEMMA InitRight == Init => IndInv
  <1> SUFFICES ASSUME Init PROVE IndInv
    OBVIOUS
  <1>1. <<>> \in Seq(Events) /\ Len(<<>>) <= QueueCap /\ 0 \in Zones
    BY ThermalAssumption, EmptySeq DEF Zones, TableSize
  <1>2. TypeOK
    <2>1. ScalarsOK
      <3>1. reached \in 0 .. NTrips /\ level \in 0 .. NTrips /\ reached <= level
        BY ThermalAssumption DEF Init
      <3>2. /\ thread \in Alive \cup {"none", "ended"}
            /\ zone \in Zones /\ cur \in Zones \cup {-1}
            /\ fps \in {Fps[z] : z \in Zones} \cup {-1}
        BY <1>1 DEF Init
      <3>3. /\ running \in BOOLEAN /\ handle \in BOOLEAN /\ wake \in BOOLEAN
            /\ callback \in BOOLEAN /\ lost \in BOOLEAN /\ inBand \in BOOLEAN
            /\ sock \in {"none", "open", "closed"} /\ ctl = "idle"
        BY DEF Init
      <3>4. QED
        BY <3>1, <3>2, <3>3 DEF ScalarsOK
    <2>2. QueueOK
      BY <1>1 DEF Init, QueueOK
    <2>3. QED
      BY <2>1, <2>2, TypeParts
  <1>3. QED
    BY <1>2 DEF Init, IndInv, CallsInOrder, EventWaits, ThreadUnderControl,
                CoolingFollowsZone, Alive, Listening, SetupPcs, LoopPcs

\* Every step keeps the invariant.
LEMMA StepRight == IndInv /\ [Next]_vars => IndInv'
  <1> SUFFICES ASSUME IndInv, [Next]_vars PROVE IndInv'
    OBVIOUS
  <1>1. CASE Start \/ Stop \/ RegisterThermalCallback \/ ControlSteps
    BY <1>1, ControlKeeps
  <1>2. CASE ThreadSteps \/ SelectTimeout
    BY <1>2, ThreadKeeps
  <1>3. CASE TemperatureChanges
    <2>1. ScalarsOK
      BY TypeParts DEF IndInv
    <2>2. /\ QueueOK' /\ lost' \in BOOLEAN /\ level' \in 0 .. NTrips
          /\ reached' \in 0 .. NTrips /\ reached' <= level'
          /\ inBand' \in BOOLEAN
          /\ queue # <<>> => queue' # <<>>
          /\ UNCHANGED <<running, ctlVars, thread, zoneVars, callback>>
      BY <1>3, QueueStep DEF IndInv
    <2>3. ScalarsOK'
      BY <2>1, <2>2 DEF ScalarsOK
    <2>4. QED
      BY <2>2, <2>3, TypeParts
      DEF IndInv, CallsInOrder, EventWaits, ThreadUnderControl,
          CoolingFollowsZone
  <1>4. CASE UNCHANGED vars
    BY <1>4, TypeParts
    DEF IndInv, CallsInOrder, EventWaits, ThreadUnderControl,
        CoolingFollowsZone, ScalarsOK, QueueOK
  <1>5. QED
    BY <1>1, <1>2, <1>3, <1>4 DEF Next

-----------------------------------------------------------------------------
\* A change of temperature: its events are appended, or not all fit, or
\* nobody listens.
LEMMA TemperatureTells ==
  ASSUME IndInv, EventsTell, TemperatureChanges
  PROVE  EventsTell'
  <1> DEFINE sent == queue \o Crossed(level, level')
  <1>1. /\ level' \in 0 .. NTrips
        /\ inBand' = (inBand /\ zone < level' /\ level' <= level)
        /\ IF thread \notin Listening THEN UNCHANGED <<queue, lost>>
           ELSE IF Len(sent) <= QueueCap THEN queue' = sent /\ UNCHANGED lost
           ELSE queue' = SubSeq(sent, 1, QueueCap) /\ lost' = TRUE
        /\ UNCHANGED <<thread, zone>>
    BY ChangeIs DEF IndInv
  <1>2. /\ queue \in Seq(Events) /\ level \in 0 .. NTrips /\ level \in Nat
        /\ zone \in Nat /\ level' \in Nat /\ sent \in Seq(Events)
    <2>1. /\ queue \in Seq(Events) /\ level \in 0 .. NTrips
          /\ zone \in 0 .. TableSize - 1
      BY TypeParts DEF IndInv, QueueOK, ScalarsOK, Zones
    <2>2. Crossed(level, level') \in Seq(Events)
      BY <1>1, <2>1, CrossedType
    <2>3. sent \in Seq(Events)
      BY <2>1, <2>2, ConcatProperties
    <2> HIDE DEF sent
    <2>4. QED
      BY <1>1, <2>1, <2>3, ThermalAssumption DEF TableSize
  <1> HIDE DEF sent
  <1> USE DEF Listening, SetupPcs, LoopPcs
  <1>3. CASE thread \notin Listening
    BY <1>1, <1>3 DEF EventsTell
  <1>4. CASE thread \in Listening /\ lost'
    BY <1>1, <1>4 DEF EventsTell
  <1>5. CASE thread \in Listening /\ ~lost'
    <2>1. queue' = sent /\ ~lost
      BY <1>1, <1>5
    <2>2. Tells(queue, level, level)
      BY <1>5, <2>1 DEF EventsTell
    <2>3. Tells(sent, level', level')
      <3>1. CASE level' = level
        BY <1>2, <2>2, <3>1, NothingCrossed DEF sent
      <3>2. CASE level' # level
        <4>1. Tells(sent, level, level')
          BY <1>1, <1>2, <2>2, <3>2, TellsCrossed DEF Tells, sent
        <4>2. QED
          BY <1>2, <4>1, TellsLevel
      <3>3. QED
        BY <3>1, <3>2
    <2>4. ASSUME thread \in {"zone"} \cup LoopPcs
          PROVE  /\ NotAbove(sent, zone, level')
                 /\ ~inBand' => Tells(sent, zone, level')
      <3>1. /\ NotAbove(queue, zone, level)
            /\ ~inBand => Tells(queue, zone, level)
        BY <2>1, <2>4 DEF EventsTell
      <3>2. NotAbove(sent, zone, level')
        <4>1. CASE level' = level
          BY <1>2, <3>1, <4>1, NothingCrossed DEF sent
        <4>2. CASE level' # level
          BY <1>1, <1>2, <3>1, <4>2, TellsCrossed DEF sent
        <4>3. QED
          BY <4>1, <4>2
      <3>3. ASSUME ~inBand'
            PROVE  NotBelow(sent, zone, level')
        <4>1. CASE zone >= level'
          BY <1>2, <2>3, <4>1, TellsLevel
        <4>2. CASE level < level'
          BY <1>1, <1>2, <3>1, <4>2, TellsCrossed DEF sent
        <4>3. CASE ~inBand
          <5>1. CASE level' = level
            BY <1>2, <3>1, <4>3, <5>1, NothingCrossed DEF sent, Tells
          <5>2. CASE level' # level
            BY <1>1, <1>2, <3>1, <4>3, <5>2, TellsCrossed DEF sent, Tells
          <5>3. QED
            BY <5>1, <5>2
        <4>4. zone >= level' \/ level < level' \/ ~inBand
          <5>1. inBand' = (inBand /\ zone < level' /\ level' <= level)
            BY <1>1
          <5>2. ~(inBand /\ zone < level' /\ level' <= level)
            BY <3>3, <5>1, Zenon
          <5>3. QED
            BY <1>2, <5>2
        <4>5. QED
          BY <4>1, <4>2, <4>3, <4>4
      <3>4. QED
        BY <3>2, <3>3 DEF Tells
    <2>5. QED
      BY <1>1, <2>1, <2>3, <2>4 DEF EventsTell
  <1>6. QED
    BY <1>3, <1>4, <1>5

\* An event that is handled.  No zone is beyond the table: a trip point is
\* below NTrips.
LEMMA HandleTells ==
  ASSUME IndInv, EventsTell, HandleEvent
  PROVE  EventsTell'
  <1>1. /\ thread = "recv" /\ queue # <<>> /\ queue \in Seq(Events)
        /\ zone \in Nat /\ zone < TableSize /\ level \in Nat
    BY TypeParts, ThermalAssumption
    DEF IndInv, EventWaits, HandleEvent, QueueOK, ScalarsOK, Zones, TableSize
  <1>2. Head(queue) \in Events
    BY <1>1, HeadTailProperties
  <1>3. zone' = NextZone(zone, Head(queue))
    <2>1. Head(queue).trip < NTrips /\ Head(queue).trip \in Nat
      BY <1>2, ThermalAssumption DEF Events
    <2>2. NextZone(zone, Head(queue)) < TableSize
      BY <1>1, <1>2, <2>1, NextZoneIs, ThermalAssumption DEF TableSize
    <2>3. QED
      BY <2>2 DEF HandleEvent
  <1>4. /\ thread' = "loop" /\ queue' = Tail(queue)
        /\ UNCHANGED <<level, lost, inBand>>
    BY DEF HandleEvent, Keep
  <1>5. CASE lost
    BY <1>4, <1>5 DEF EventsTell, Listening, LoopPcs
  <1>6. CASE ~lost
    <2>1. /\ Tells(queue, level, level) /\ NotAbove(queue, zone, level)
          /\ ~inBand => NotBelow(queue, zone, level)
      BY <1>1, <1>6 DEF EventsTell, Listening, LoopPcs, Tells
    <2>2. /\ Tells(queue', level, level) /\ NotAbove(queue', zone', level)
          /\ ~inBand => NotBelow(queue', zone', level)
      BY <2>1, <1>1, <1>3, <1>4, TellsAfterHead DEF Tells
    <2>3. QED
      BY <2>2, <1>4 DEF EventsTell, Listening, LoopPcs, Tells
  <1>7. QED
    BY <1>5, <1>6

\* A thread that ends leaves no events.
LEMMA ExitTells ==
  ASSUME Exit
  PROVE  EventsTell'
  BY DEF Exit, EventsTell, Listening, SetupPcs, LoopPcs

\* Every step keeps what the events tell.
LEMMA StepTells == IndInv /\ EventsTell /\ [Next]_vars => EventsTell'
  <1> SUFFICES ASSUME IndInv, EventsTell, [Next]_vars PROVE EventsTell'
    OBVIOUS
  <1> USE DEF Listening, SetupPcs, LoopPcs, Alive
  <1>1. CASE UNCHANGED <<zone, level, eventVars, thread>>
    BY <1>1 DEF EventsTell
  <1>2. CASE StartThread
    BY <1>2 DEF StartThread, EventsTell, IndInv, CallsInOrder
  <1>3. CASE StopJoin
    BY <1>3 DEF StopJoin, EventsTell
  <1>4. CASE SetupSocket
    <2>1. CASE Exit
      BY <2>1, ExitTells
    <2>2. CASE Keep("temp") /\ UNCHANGED <<zone, eventVars>>
      <3>1. queue = <<>> /\ UNCHANGED level
        BY <1>4 DEF SetupSocket, EventsTell
      <3>2. Tells(<<>>, level, level)
        <4>1. level \in Nat
          BY TypeParts, ThermalAssumption DEF IndInv, ScalarsOK
        <4>2. QED
          BY <4>1, TellsNothing
      <3>3. QED
        BY <2>2, <3>1, <3>2 DEF Keep, EventsTell
    <2>3. QED
      BY <1>4, <2>1, <2>2 DEF SetupSocket
  <1>5. CASE ReadTemp
    <2>1. CASE Exit
      BY <2>1, ExitTells
    <2>2. CASE /\ Keep("zone") /\ zone' = reached
               /\ inBand' = (reached # level) /\ UNCHANGED <<queue, lost>>
      <3>1. /\ reached \in Nat /\ level \in Nat /\ reached <= level
            /\ queue \in Seq(Events)
        BY TypeParts, ThermalAssumption DEF IndInv, ScalarsOK, QueueOK
      <3>2. /\ thread = "temp" /\ thread' = "zone" /\ UNCHANGED level
        BY <1>5, <2>2 DEF ReadTemp, Keep
      <3>3. ASSUME ~lost
            PROVE  /\ Tells(queue, level, level) /\ NotAbove(queue, reached, level)
                   /\ reached = level => Tells(queue, reached, level)
        <4>1. Tells(queue, level, level)
          BY <3>2, <3>3 DEF EventsTell
        <4>2. QED
          BY <3>1, <4>1, TellsLevel
      <3>4. QED
        <4>1. CASE lost
          BY <2>2, <3>2, <4>1 DEF EventsTell
        <4>2. CASE ~lost
          <5>1. ~inBand' => reached = level
            <6>1. inBand' = (reached # level)
              BY <2>2
            <6>2. QED
              BY <6>1, Zenon
          <5>2. /\ NotAbove(queue', zone', level')
                /\ ~inBand' => Tells(queue', zone', level')
            BY <2>2, <3>2, <3>3, <4>2, <5>1
          <5>3. Tells(queue', level', level')
            BY <2>2, <3>2, <3>3, <4>2
          <5>4. QED
            BY <3>2, <5>2, <5>3 DEF EventsTell
        <4>3. QED
          BY <4>1, <4>2
    <2>3. QED
      BY <1>5, <2>1, <2>2 DEF ReadTemp
  <1>6. CASE /\ thread \in {"zone"} \cup LoopPcs /\ thread' \in LoopPcs
             /\ UNCHANGED <<zone, level, eventVars>>
    BY <1>6 DEF EventsTell
  <1>7. CASE CheckRunning \/ SelectWoken
    <2>1. CASE Exit
      BY <2>1, ExitTells
    <2>2. CASE ~Exit
      BY <1>6, <1>7, <2>2 DEF CheckRunning, SelectWoken, Keep
    <2>3. QED
      BY <2>1, <2>2
  <1>8. CASE ReceiveFails
    BY <1>8 DEF ReceiveFails, Keep, EventsTell
  <1>9. QED
    BY <1>1, <1>2, <1>3, <1>4, <1>5, <1>6, <1>7, <1>8, HandleTells, TemperatureTells
    DEF Next, ControlSteps, ThreadSteps, Start, StartPair, Stop, StopWake, StopClose,
        RegisterThermalCallback, InitZone, SelectEvent, SelectTimeout, Keep

-----------------------------------------------------------------------------
\* Every variable keeps its type: the zone stays inside the tables it indexes.
THEOREM TypeCorrect == Spec => []TypeOK
  <1>1. IndInv => TypeOK
    BY DEF IndInv
  <1>2. QED
    BY InitRight, StepRight, <1>1, PTL DEF Spec

\* A thread that is alive is the one that Stop wakes and joins, on a pair that
\* is open (cvi_thermal.c:632-675).
THEOREM Controlled == Spec => []ThreadUnderControl
  <1>1. IndInv => ThreadUnderControl
    BY DEF IndInv
  <1>2. QED
    BY InitRight, StepRight, <1>1, PTL DEF Spec

\* Once the thread is in its loop the cooling device is set for the zone
\* (cvi_thermal.c:555, 605-610).
THEOREM CoolingRight == Spec => []CoolingFollowsZone
  <1>1. IndInv => CoolingFollowsZone
    BY DEF IndInv
  <1>2. QED
    BY InitRight, StepRight, <1>1, PTL DEF Spec

\* When no event waits and none was lost, the zone is the kernel's level,
\* whatever happened while the thread set itself up and whatever hysteresis
\* the trip points have, unless it was read within one and no event took the
\* level past it since; and it is never above the level
\* (cvi_thermal.c:459-470, 544-548, 594-604).
THEOREM ZoneRight == Spec => []ZoneCatchesUp
  <1>1. IndInv /\ EventsTell => ZoneCatchesUp
    <2> SUFFICES ASSUME IndInv, EventsTell, thread \in LoopPcs, ~lost, queue = <<>>
                 PROVE  zone <= level /\ (~inBand => zone = level)
      BY DEF ZoneCatchesUp
    <2>1. /\ NotAbove(<<>>, zone, level)
          /\ ~inBand => Tells(<<>>, zone, level)
      BY DEF EventsTell
    <2>2. zone \in Nat /\ level \in Nat
      BY TypeParts, ThermalAssumption DEF IndInv, ScalarsOK, Zones, TableSize
    <2>3. QED
      BY <2>1, <2>2, TellsNothing
  <1>2. Init => EventsTell
    BY DEF Init, EventsTell, Listening, SetupPcs, LoopPcs
  <1>3. QED
    BY InitRight, StepRight, StepTells, <1>1, <1>2, PTL DEF Spec

\* An event leaves the zone on the side of its trip point that it tells of,
\* whatever events were lost before (cvi_thermal.c:594-604).
THEOREM EventRight == Spec => EventSettlesZone
  <1> DEFINE Settles == HandleEvent => LET e == Head(queue) IN
                          IF e.up THEN zone' > e.trip ELSE zone' <= e.trip
  <1>1. IndInv /\ [Next]_vars => [Settles]_vars
    <2> SUFFICES ASSUME IndInv, HandleEvent
                 PROVE  LET e == Head(queue) IN
                        IF e.up THEN zone' > e.trip ELSE zone' <= e.trip
      OBVIOUS
    <2>1. Head(queue) \in Events /\ zone \in Zones
      BY TypeParts, HeadTailProperties
      DEF IndInv, EventWaits, HandleEvent, QueueOK, ScalarsOK
    <2>2. PICK e \in Events : e = Head(queue)
      BY <2>1
    <2>3. /\ e.trip \in 0 .. NTrips - 1 /\ e.up \in BOOLEAN
          /\ zone \in 0 .. 3 /\ NTrips \in Nat /\ NTrips < 4
      BY <2>1, ThermalAssumption DEF Events, Zones, TableSize
    <2>4. zone' = IF NextZone(zone, e) # zone /\ NextZone(zone, e) < 4
                  THEN NextZone(zone, e) ELSE zone
      BY <2>2 DEF HandleEvent, TableSize
    <2>5. CASE e.up
      <3>1. NextZone(zone, e) = IF e.trip = zone THEN zone + 1
                                ELSE IF e.trip > zone THEN e.trip + 1 ELSE zone
        BY <2>3, <2>5 DEF NextZone
      <3>2. zone' > e.trip
        BY <2>3, <2>4, <3>1
      <3>3. QED
        BY <2>2, <2>5, <3>2
    <2>6. CASE ~e.up
      <3>1. NextZone(zone, e) = IF e.trip = zone - 1 THEN zone - 1
                                ELSE IF e.trip < zone - 1 THEN e.trip ELSE zone
        BY <2>3, <2>6 DEF NextZone
      <3>2. zone' <= e.trip
        BY <2>3, <2>4, <3>1
      <3>3. QED
        BY <2>2, <2>6, <3>2
    <2>7. QED
      BY <2>3, <2>5, <2>6
  <1>2. Spec => []IndInv
    BY InitRight, StepRight, PTL DEF Spec
  <1>3. QED
    BY <1>1, <1>2, PTL DEF Spec, EventSettlesZone
=============================================================================
