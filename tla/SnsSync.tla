------------------------------ MODULE SnsSync ------------------------------
(***************************************************************************)
(* How a sensor driver keeps the sensor's registers, as its AE callbacks   *)
(* and cmos_get_sns_regs_info do it.  The definitions follow               *)
(* component/isp/sensor/cv182x/sony_imx327; the drivers of the other I2C   *)
(* sensors repeat the same code with other registers.                      *)
(*                                                                         *)
(* The AE callbacks write exposure, gain and frame length, byte by byte,   *)
(* into cur, the register data of the current frame.  Once a frame the ISP *)
(* asks for the registers to write: the first time, after a change of mode *)
(* and when the last answer was not taken over all of them, otherwise the  *)
(* ones that differ from prev, the data of the frame before.               *)
(*                                                                         *)
(* The ISP library is not in the repository.  It is modelled from the      *)
(* interface: it takes an answer over as a whole and says so in bConfig,   *)
(* or it loses it and bConfig stays as the driver left it.                 *)
(***************************************************************************)
EXTENDS Integers

CONSTANTS
  VtsDef,         \* lines of a frame at the full rate, the same in all modes
  BRL,            \* lines of a WDR frame before the short exposure is read
  FullLinesMax,   \* IMX327_FULL_LINES_MAX
  GainMode,       \* g_au16Imx327_GainMode
  Rates,          \* frame rates asked for
  IntTimes,       \* linear exposures the AE sets, in lines
  Ratios,         \* WDR exposure ratios, 64 is 1:1
  Steps,          \* how far from a limit the AE's WDR exposures are
  Gains,          \* <<again short, again long, dgain short, dgain long>>
  OtherThread,    \* whether a thread beside the ISP's calls the AE callbacks
  MaxCalls        \* bound: calls into the driver besides the ISP's

ASSUME LinesAssumption ==
  /\ BRL \in Nat /\ VtsDef \in Nat /\ VtsDef >= BRL + 13 /\ VtsDef >= 200
  /\ FullLinesMax \in Nat /\ VtsDef <= FullLinesMax /\ FullLinesMax < 262144

ASSUME AeAssumption ==
  /\ Rates \subseteq 1 .. 60 /\ IntTimes \subseteq Nat /\ Steps \subseteq Nat
  /\ Ratios \subseteq Nat /\ \A r \in Ratios : r >= 64

ASSUME GainAssumption ==
  /\ GainMode \in {"SNS_GAIN_MODE_SHARE", "SNS_GAIN_MODE_WDR_2F"}
  /\ Gains \subseteq Nat \X Nat \X Nat \X Nat

ASSUME CallAssumption == OtherThread \in BOOLEAN /\ MaxCalls \in Nat

VARIABLES
  imgMode,    \* u8ImgMode
  wdrMode,    \* enWDRMode
  bInit,      \* bInit
  brl,        \* u32BRL
  hcg,        \* u8Hcg
  rhs1Max,    \* u32RHS1_MAX
  fl,         \* au32FL, <<of the current frame, of the frame before>>
  wdrInt,     \* au32WDRIntTime, <<short, long>>
  cur,        \* u32Data of astSyncInfo[0]
  prev,       \* u32Data of astSyncInfo[1]
  delay,      \* u8DelayFrmNum of astSyncInfo[0]
  upd,        \* the slots of astSyncInfo[0] with bUpdate
  regMode,    \* the mode whose registers astSyncInfo[0] lists, or "none"
  bSyncInit,  \* bSyncInit
  pc,         \* where cmos_get_sns_regs_info is
  out,        \* the ISP's copy: the answer given last
  waiting,    \* whether the ISP has an answer not yet taken over or lost
  bConfig,    \* bConfig of the ISP's copy
  held,       \* what the sensor's registers hold, or will after the delays
  stage,      \* "moded", "framed", "exposed": how far the AE has come
  calls       \* counts towards MaxCalls

modeVars == <<imgMode, wdrMode, bInit, brl, hcg>>
lineVars == <<rhs1Max, fl, wdrInt, stage>>
regVars == <<delay, upd, regMode>>
ispVars == <<out, waiting, bConfig, held>>
vars == <<modeVars, lineVars, cur, prev, regVars, bSyncInit, pc, ispVars, calls>>

-----------------------------------------------------------------------------
\* Register slots, and the addresses they stand for

Linear == "WDR_MODE_NONE"
Wdr == "WDR_MODE_2To1_LINE"
WdrModes == {Linear, Wdr}
ImgModes == {"1080P30", "1080P60", "1080P30_WDR"}

SHS1 == 1
GAIN == 4
HCG == 5
LINEAR_VMAX == 6
DOL2_GAIN1 == 6
DOL2_RHS1 == 7
DOL2_SHS2 == 10
DOL2_VMAX == 13
DOL2_YOUT_SIZE == 16

Slots == 0 .. 18
RegNum(m) == IF m = Wdr THEN 19 ELSE IF m = Linear THEN 10 ELSE 0
Listed(m) == 0 .. RegNum(m) - 1
HOLD == 0
REL(m) == RegNum(m) - 1
Payload(m) == 1 .. RegNum(m) - 2

\* The registers of more than one byte: first slot and number of bytes.
Words(m) ==
  IF m = Wdr THEN {<<SHS1, 3>>, <<DOL2_RHS1, 3>>, <<DOL2_SHS2, 3>>,
                   <<DOL2_VMAX, 3>>, <<DOL2_YOUT_SIZE, 2>>}
             ELSE {<<SHS1, 3>>, <<LINEAR_VMAX, 3>>}

\* Mutant: the last byte of a word is left out.
DelayedButLast(m) ==
  IF m = Wdr THEN {HCG} \cup DOL2_RHS1 .. DOL2_RHS1 + 2
                  \cup DOL2_VMAX .. DOL2_VMAX + 1
                  \cup DOL2_YOUT_SIZE .. DOL2_YOUT_SIZE + 1
             ELSE {HCG}

\* The slots that a listing of the registers gives a delay of one frame; the
\* delay of the others stays what it is.
Delayed(m) == IF m = Wdr THEN {HCG} \cup DOL2_RHS1 .. DOL2_RHS1 + 2
                              \cup DOL2_VMAX .. DOL2_VMAX + 2
                              \cup DOL2_YOUT_SIZE .. DOL2_YOUT_SIZE + 1
                         ELSE {HCG}

\* u32RegAddr of a payload slot.
Addr(m, i) ==
  IF i <= 3 THEN 12319 + i                       \* SHS1, 0x3020
  ELSE IF i = GAIN THEN 12308                    \* 0x3014
  ELSE IF i = HCG THEN 12297                     \* 0x3009
  ELSE IF m = Linear THEN 12306 + i              \* VMAX, 0x3018
  ELSE IF i = DOL2_GAIN1 THEN 12530              \* 0x30F2
  ELSE IF i <= 9 THEN 12329 + i                  \* RHS1, 0x3030
  ELSE IF i <= 12 THEN 12314 + i                 \* SHS2, 0x3024
  ELSE IF i <= 15 THEN 12299 + i                 \* VMAX, 0x3018
  ELSE 13320 + i                                 \* YOUT_SIZE, 0x3418
Addrs == {Addr(Wdr, i) : i \in Payload(Wdr)}

\* Mutant: the low bytes are not masked.
Put3Unmasked(d, s, v, top) ==
  [d EXCEPT ![s] = v, ![s + 1] = v \div 256, ![s + 2] = (v \div 65536) % top]

\* A value written over three slots, the third cut to its low bits, and read
\* back.
Put3(d, s, v, top) ==
  [d EXCEPT ![s] = v % 256, ![s + 1] = (v \div 256) % 256,
            ![s + 2] = (v \div 65536) % top]
Get3(d, s) == d[s] + 256 * d[s + 1] + 65536 * d[s + 2]

Blank == [i \in Slots |-> 0]
NoAnswer == [mode |-> "none", upd |-> {}, data |-> Blank, delay |-> Blank]

Lesser(a, b) == IF a <= b THEN a ELSE b

-----------------------------------------------------------------------------
\* Modes and frame length

\* sensor_global_init, with the driver's own tables as the program starts.
Init ==
  /\ imgMode = "1080P30" /\ wdrMode = Linear /\ bInit = FALSE
  /\ brl = 0 /\ hcg = 0 /\ rhs1Max = 0
  /\ fl = <<VtsDef, VtsDef>> /\ wdrInt = <<0, 0>>
  /\ cur = Blank /\ prev = Blank /\ delay = Blank
  /\ upd = {} /\ regMode = "none" /\ bSyncInit = FALSE
  /\ pc = "idle" /\ out = NoAnswer /\ waiting = FALSE /\ bConfig = FALSE
  /\ held = [a \in Addrs |-> 0]
  /\ stage = "moded" /\ calls = 0

\* A call of another thread may come at any point of cmos_get_sns_regs_info.
Call ==
  /\ calls < MaxCalls
  /\ OtherThread \/ pc = "idle"
  /\ calls' = calls + 1

GlobalInit ==
  /\ Call /\ pc = "idle"
  /\ imgMode' = "1080P30" /\ wdrMode' = Linear /\ bInit' = FALSE
  /\ fl' = <<VtsDef, VtsDef>>
  /\ cur' = Blank /\ prev' = Blank /\ delay' = Blank
  /\ upd' = {} /\ regMode' = "none" /\ bSyncInit' = FALSE
  /\ stage' = "moded"
  /\ UNCHANGED <<brl, hcg, rhs1Max, wdrInt, pc, ispVars>>

SetWdrMode(m) ==
  LET img == IF m = Wdr /\ imgMode = "1080P30" THEN "1080P30_WDR"
             ELSE IF m = Linear /\ imgMode = "1080P30_WDR" THEN "1080P30"
             ELSE imgMode
      std == IF m = Linear THEN VtsDef
             ELSE IF img = "1080P30_WDR" THEN 2 * VtsDef ELSE fl[1]
  IN  /\ Call /\ pc = "idle"
      /\ bSyncInit' = FALSE
      /\ imgMode' = img /\ wdrMode' = m
      /\ hcg' = IF m = Linear /\ img # "1080P60" THEN 2 ELSE 1
      /\ brl' = IF m = Wdr /\ img = "1080P30_WDR" THEN BRL ELSE brl
      /\ fl' = <<std, std>> /\ wdrInt' = <<0, 0>>
      /\ stage' = "moded"
      /\ UNCHANGED <<bInit, rhs1Max, cur, prev, regVars, pc, ispVars>>

\* cmos_set_image_mode for a picture of at most 1920 x 1080.  It fails when the
\* mode is the one the sensor was initialised for.
SetImageMode(fps) ==
  LET img == IF fps > 30 THEN "1080P60"
             ELSE IF wdrMode = Linear THEN "1080P30" ELSE "1080P30_WDR"
  IN  /\ Call /\ pc = "idle"
      /\ bSyncInit' = FALSE
      /\ brl' = IF img = "1080P30_WDR" THEN BRL ELSE brl
      /\ imgMode' = IF bInit /\ img = imgMode THEN imgMode ELSE img
      /\ stage' = "moded"
      /\ UNCHANGED <<wdrMode, bInit, hcg, rhs1Max, fl, wdrInt,
                     cur, prev, regVars, pc, ispVars>>

\* cmos_set_wdr_mode and cmos_set_image_mode on a mode they do not know.
RefuseMode ==
  /\ Call /\ pc = "idle"
  /\ bSyncInit' = FALSE
  /\ UNCHANGED <<modeVars, lineVars, cur, prev, regVars, pc, ispVars>>

MaxFps == IF imgMode = "1080P60" THEN 60 ELSE 30

FpsSet(fps) ==
  LET vmax == Lesser((VtsDef * MaxFps) \div fps, FullLinesMax)
  IN  /\ Call
      /\ fps <= MaxFps
      /\ cur' = Put3(cur, IF wdrMode = Linear THEN LINEAR_VMAX ELSE DOL2_VMAX,
                     vmax, 16)
      /\ IF wdrMode = Wdr
           THEN fl' = <<2 * vmax, fl[2]>> /\ rhs1Max' = (vmax - brl) * 2 - 21
           ELSE fl' = <<vmax, fl[2]>> /\ rhs1Max' = rhs1Max
      /\ stage' = "framed"
      /\ UNCHANGED <<modeVars, wdrInt, prev, regVars, bSyncInit, pc, ispVars>>

-----------------------------------------------------------------------------
\* Exposure and gain

\* The stage after exposures were set that keep to the limits asked for.
Exposed(keeps) == IF stage # "moded" /\ keeps THEN "exposed"
                  ELSE IF stage = "moded" THEN "moded" ELSE "framed"

\* cmos_inttime_update, linear.  The AE's own limit is u32MaxIntTime.
IntTimeLinear(t) ==
  /\ Call
  /\ wdrMode = Linear
  /\ t # 0 /\ fl[1] >= t - 1
  /\ cur' = Put3(cur, SHS1, fl[1] - t - 1, 4)
  /\ stage' = Exposed(t <= fl[1] - 2)
  /\ UNCHANGED <<modeVars, rhs1Max, fl, wdrInt, prev, regVars, bSyncInit, pc,
                 ispVars>>

\* Mutant: the readout's distance from the exposure is forgotten.
LongestShortToTop(r) ==
  LET own == ((fl[1] - 6) * 64) \div (r + 64)
  IN  IF rhs1Max = 0 THEN own ELSE Lesser(own, rhs1Max)

\* au32IntTimeMax[0] of cmos_get_inttime_max.  A difference below zero wraps
\* around to a number above all others and bounds nothing.
LongestShort(r) ==
  LET own == ((fl[1] - 6) * 64) \div (r + 64)
      before == IF fl[2] - 6 < wdrInt[1] THEN own
                ELSE ((fl[2] - 6 - wdrInt[1]) * 64) \div r
      top == IF rhs1Max < 3 THEN own ELSE rhs1Max - 3
  IN  Lesser(Lesser(own, before), top)

\* <<shortest and longest of the short exposure, and of the long one>>
IntTimeMax(r) ==
  LET s == LongestShort(r)
  IN  IF s >= 2 THEN <<2, s, (2 * r) \div 64, (s * r) \div 64>>
                ELSE <<2, 2, 127, 127>>

\* What the AE picks between two limits: near one of them.
Near(low, high) ==
  {t \in {low + k : k \in Steps} \cup {high - k : k \in Steps} :
     low <= t /\ t <= high}

ShortShs(s) == (s % 2) + 2
ShortRhs(s) == s + ShortShs(s) + 1
YoutSize(rhs1) == Lesser((BRL + (rhs1 - 1) \div 2) * 2, 8191)

\* cmos_inttime_update, WDR, after the AE asked for its limits.
IntTimeWdr(r, s, l) ==
  LET shs2 == fl[1] - l - 1
      yout == YoutSize(ShortRhs(s))
      exposures == Put3(Put3(Put3(cur, SHS1, ShortShs(s), 16),
                             DOL2_SHS2, shs2, 16),
                        DOL2_RHS1, ShortRhs(s), 16)
  IN  /\ Call
      /\ fl[1] >= l - 1
      /\ wdrInt' = <<s, l>>
      /\ cur' = [exposures EXCEPT ![DOL2_YOUT_SIZE] = yout % 256,
                                  ![DOL2_YOUT_SIZE + 1] = (yout \div 256) % 32]
      /\ stage' = Exposed(TRUE)
      /\ UNCHANGED <<modeVars, rhs1Max, fl, prev, regVars, bSyncInit, pc,
                     ispVars>>

IntTimeWdrAny ==
  /\ wdrMode = Wdr
  /\ \E r \in Ratios :
       LET lim == IntTimeMax(r)
       IN  \E s \in Near(lim[1], lim[2]), l \in Near(lim[3], lim[4]) :
             IntTimeWdr(r, s, l)

\* cmos_gains_update: the analogue gain beyond the step of the conversion gain
\* is taken off and the conversion gain's bit set.
GainsUpdate(g) ==
  LET shared == wdrMode = Linear \/ GainMode = "SNS_GAIN_MODE_SHARE"
      boost == IF shared THEN g[1] >= 27 ELSE g[1] >= 20 /\ g[2] >= 20
      off == IF boost THEN (IF shared THEN 27 ELSE 20) ELSE 0
      Sum(a, d) == IF wdrMode = Linear THEN (a - off + d) % 256
                                       ELSE Lesser(a - off + d, 255)
      base == [cur EXCEPT ![HCG] = IF boost THEN 16 + hcg ELSE hcg]
  IN  /\ Call
      /\ cur' = IF shared THEN [base EXCEPT ![GAIN] = Sum(g[1], g[3])]
                ELSE [base EXCEPT ![GAIN] = Sum(g[2], g[4]),
                                  ![DOL2_GAIN1] = Sum(g[1], g[3])]
      /\ UNCHANGED <<modeVars, lineVars, prev, regVars, bSyncInit, pc, ispVars>>

-----------------------------------------------------------------------------
\* cmos_get_sns_regs_info, cut where another thread's change makes a difference

\* Mutant: a lost answer is not made up for.
MustListAfterMode == ~bSyncInit

\* Mutant: a change of mode is not noticed.
MustListUnlessTaken == ~bConfig

MustList == ~bSyncInit \/ ~bConfig

\* All registers of the mode.
ListRegs ==
  /\ pc = "idle" /\ ~waiting
  /\ MustList
  /\ regMode' = wdrMode
  /\ upd' = Listed(wdrMode)
  /\ delay' = [i \in Slots |-> IF i \in Delayed(wdrMode) THEN 1 ELSE delay[i]]
  /\ cur' = [cur EXCEPT ![HOLD] = 1, ![REL(wdrMode)] = 0]
  /\ bSyncInit' = TRUE
  /\ pc' = "copy"
  /\ UNCHANGED <<modeVars, lineVars, prev, ispVars, calls>>

Changed == {i \in Listed(regMode) : cur[i] # prev[i]}

\* The registers that changed, between a hold and its release.
DiffRegs ==
  /\ pc = "idle" /\ ~waiting
  /\ ~MustList
  /\ IF Changed = {}
       THEN upd' = {} /\ cur' = cur
       ELSE /\ upd' = Changed \cup {HOLD, REL(wdrMode)}
            /\ cur' = [cur EXCEPT ![HOLD] = 1, ![REL(wdrMode)] = 0]
  /\ pc' = "copy"
  /\ UNCHANGED <<modeVars, lineVars, prev, delay, regMode, bSyncInit, ispVars,
                 calls>>

\* The copy to the ISP; with it bConfig becomes the driver's own, FALSE.
CopyOut ==
  /\ pc = "copy"
  /\ out' = [mode |-> regMode, upd |-> upd, data |-> cur, delay |-> delay]
  /\ bConfig' = FALSE
  /\ pc' = "remember"
  /\ UNCHANGED <<modeVars, lineVars, cur, prev, regVars, bSyncInit, waiting,
                 held, calls>>

Remember ==
  /\ pc = "remember"
  /\ prev' = cur
  /\ fl' = <<fl[1], fl[1]>>
  /\ waiting' = TRUE
  /\ pc' = "idle"
  /\ UNCHANGED <<modeVars, rhs1Max, wdrInt, stage, cur, regVars, bSyncInit,
                 out, bConfig, held, calls>>

-----------------------------------------------------------------------------
\* The ISP and the sensor

Written(m, slots, data) ==
  [a \in Addrs |-> IF \E i \in slots \cap Payload(m) : Addr(m, i) = a
                     THEN data[CHOOSE i \in slots \cap Payload(m) : Addr(m, i) = a]
                     ELSE held[a]]

Apply ==
  /\ waiting
  /\ held' = Written(out.mode, out.upd, out.data)
  /\ waiting' = FALSE /\ bConfig' = TRUE
  /\ UNCHANGED <<modeVars, lineVars, cur, prev, regVars, bSyncInit, pc, out,
                 calls>>

Lose ==
  /\ waiting
  /\ waiting' = FALSE
  /\ UNCHANGED <<modeVars, lineVars, cur, prev, regVars, bSyncInit, pc, out,
                 bConfig, held, calls>>

Supported == wdrMode = Wdr => imgMode = "1080P30_WDR"

\* imx327_init on a sensor that lost its registers, at the start and when the
\* system resumes.  The pipeline stands: no exposure was set since the registers
\* were asked for last.
SensorInit ==
  /\ Call /\ pc = "idle" /\ ~waiting
  /\ cur = prev
  /\ held' = [a \in Addrs |->
                IF Supported /\ \E i \in Payload(regMode) : Addr(regMode, i) = a
                  THEN cur[CHOOSE i \in Payload(regMode) : Addr(regMode, i) = a]
                  ELSE 0]
  /\ bInit' = TRUE
  /\ UNCHANGED <<imgMode, wdrMode, brl, hcg, lineVars, cur, prev, regVars,
                 bSyncInit, pc, out, waiting, bConfig>>

-----------------------------------------------------------------------------
GetRegsInfo == ListRegs \/ DiffRegs \/ CopyOut \/ Remember

Next ==
  \/ GlobalInit \/ RefuseMode \/ SensorInit
  \/ \E m \in WdrModes : SetWdrMode(m)
  \/ \E fps \in Rates : SetImageMode(fps) \/ FpsSet(fps)
  \/ \E t \in IntTimes : IntTimeLinear(t)
  \/ IntTimeWdrAny
  \/ \E g \in Gains : GainsUpdate(g)
  \/ GetRegsInfo
  \/ Apply \/ Lose

Spec == Init /\ [][Next]_vars

\* The ISP asks for the registers every frame, and does not lose every answer.
FairSpec == Spec /\ WF_vars(GetRegsInfo) /\ SF_vars(Apply)

-----------------------------------------------------------------------------
ModesOK ==
  /\ imgMode \in ImgModes /\ wdrMode \in WdrModes /\ bInit \in BOOLEAN
  /\ brl \in {0, BRL} /\ hcg \in 0 .. 2

LinesOK ==
  /\ rhs1Max \in Nat /\ fl \in Nat \X Nat /\ wdrInt \in Nat \X Nat
  /\ stage \in {"moded", "framed", "exposed"}

DataOK ==
  /\ cur \in [Slots -> 0 .. 255] /\ prev \in [Slots -> 0 .. 255]
  /\ delay \in [Slots -> {0, 1}] /\ upd \subseteq Slots
  /\ regMode \in WdrModes \cup {"none"} /\ bSyncInit \in BOOLEAN

IspOK ==
  /\ pc \in {"idle", "copy", "remember"}
  /\ out \in [mode : WdrModes \cup {"none"}, upd : SUBSET Slots,
              data : [Slots -> 0 .. 255], delay : [Slots -> {0, 1}]]
  /\ waiting \in BOOLEAN /\ bConfig \in BOOLEAN
  /\ held \in [Addrs -> 0 .. 255] /\ calls \in 0 .. MaxCalls

TypeOK == ModesOK /\ LinesOK /\ DataOK /\ IspOK

\* What is compared against is what the sensor has: whenever the ISP has said
\* that it took the registers over, each register of the mode holds the data
\* remembered for the frame before, so a register found unchanged really needs
\* no write.  This has to survive lost answers, changes of mode, and a sensor
\* that is powered off and initialised again.
ConfirmedIsHeld ==
  pc = "idle" /\ bConfig /\ bSyncInit /\ Supported =>
    \A i \in Payload(regMode) : held[Addr(regMode, i)] = prev[i]

OneDelay(w) == \A k \in 0 .. w[2] - 1 : out.delay[w[1] + k] = out.delay[w[1]]

\* A WDR listing was made before the answer; the slot is used by no other mode.
LeftByWdr == out.delay[DOL2_YOUT_SIZE] = 1

\* The registers of one answer change together: an answer that writes anything
\* begins with the hold and ends with its release, and in WDR the bytes of one
\* word have one delay and the brackets none, whatever modes came before
\* (cmos_get_sns_regs_info).  In linear mode that is so exactly until the first
\* WDR listing.  A linear listing (imx327_cmos.c:834-848) does not reset the
\* delays that WDR has left in its slots 7 to 9: from then on the low byte of the
\* frame length goes out one frame before the other two and before the release.
WritesTogether ==
  /\ out.upd # {} => /\ {HOLD, REL(out.mode)} \subseteq out.upd
                     /\ out.data[HOLD] = 1 /\ out.data[REL(out.mode)] = 0
  /\ out.delay[HOLD] = 0
  /\ out.mode = Wdr => /\ \A w \in Words(Wdr) : OneDelay(w)
                       /\ out.delay[REL(Wdr)] = 0
  /\ out.mode = Linear => /\ OneDelay(<<SHS1, 3>>)
                          /\ OneDelay(<<LINEAR_VMAX, 3>>) <=> ~LeftByWdr
                          /\ out.delay[REL(Linear)] = 0 <=> ~LeftByWdr

\* Exposures within the limits that the driver gave are what the registers
\* say, and fit into the frame: the short one lies between its shutter and its
\* readout, which ends by RHS1_MAX and before the long one begins.
ExposuresFit ==
  stage = "exposed" =>
    IF wdrMode = Linear
      THEN Get3(cur, SHS1) \in 1 .. fl[1] - 2
      ELSE LET shs1 == Get3(cur, SHS1)
               rhs1 == Get3(cur, DOL2_RHS1)
               shs2 == Get3(cur, DOL2_SHS2)
           IN  /\ rhs1 - (shs1 + 1) = wdrInt[1] /\ fl[1] - (shs2 + 1) = wdrInt[2]
               /\ 2 <= shs1 /\ shs1 < rhs1 /\ rhs1 <= rhs1Max
               /\ rhs1 < shs2 /\ shs2 < fl[1]

\* astSyncInfo[1] is the register information of the frame before, that is,
\* what the last answer said.
PrevIsAnswered ==
  pc = "idle" /\ bSyncInit => \A i \in Listed(regMode) : prev[i] = out.data[i]

\* Once nothing changes any more, the sensor ends up with the current registers
\* and stays there.
SensorCatchesUp ==
  <>[](Supported => \A i \in Payload(wdrMode) : held[Addr(wdrMode, i)] = cur[i])
=============================================================================
