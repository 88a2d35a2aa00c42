--------------------------- MODULE SnsSyncProofs ---------------------------
(***************************************************************************)
(* Proofs about SnsSync, for any number of lines, rates, exposures and     *)
(* gains within the assumptions.  That an answer is what is remembered of *)
(* it needs the AE's callbacks to run on the ISP's thread.                 *)
(***************************************************************************)
EXTENDS SnsSync, TLAPS

-----------------------------------------------------------------------------
\* The inductive invariant

\* What is listed is listed for the present mode, once it is listed; while an
\* answer is being made there is none to be taken over.
Modes ==
  /\ bSyncInit => regMode = wdrMode
  /\ pc # "idle" => bSyncInit /\ ~waiting
  /\ pc = "remember" => ~bConfig
  /\ waiting => ~bConfig

\* What the sensor does not hold already is in the answer.
Covered(slots, data) ==
  \A i \in Payload(regMode) : i \in slots \/ held[Addr(regMode, i)] = data[i]

Delivery ==
  bSyncInit /\ Supported =>
    /\ pc = "copy" => Covered(upd, cur)
    /\ pc = "remember" =>
         out.mode = regMode /\ out.data = cur /\ Covered(out.upd, cur)
    /\ waiting => out.mode = regMode /\ out.data = prev /\ Covered(out.upd, prev)
    /\ pc = "idle" /\ bConfig => Covered({}, prev)

Bracketed(m, slots, data) ==
  slots # {} => /\ m \in WdrModes
                /\ {HOLD, REL(m)} \subseteq slots
                /\ data[HOLD] = 1 /\ data[REL(m)] = 0

\* Either no WDR listing has been made since the data was cleared, or its
\* delays are all there.
DelaysOf(m, d) ==
  /\ \A i \in Slots : i \notin Delayed(Wdr) => d[i] = 0
  /\ \/ \A i \in Delayed(Wdr) : d[i] = 1
     \/ m # Wdr /\ \A i \in Slots : i # HCG => d[i] = 0

Grouped ==
  /\ pc = "copy" => Bracketed(regMode, upd, cur)
  /\ Bracketed(out.mode, out.upd, out.data)
  /\ DelaysOf(regMode, delay) /\ DelaysOf(out.mode, out.delay)

\* The frame the exposures are to fit into.
Frame ==
  /\ fl[1] >= VtsDef
  /\ stage # "moded" /\ wdrMode = Linear => fl[1] <= FullLinesMax
  /\ stage # "moded" /\ wdrMode = Wdr =>
       \E vmax \in VtsDef .. FullLinesMax :
         fl[1] = 2 * vmax /\ rhs1Max = (vmax - brl) * 2 - 21

IndInv == TypeOK /\ Modes /\ Grouped /\ Frame /\ ExposuresFit

-----------------------------------------------------------------------------
\* The register data

\* The data is the same but for three slots.
Beside(e, d, s) == \A i \in Slots \ s .. s + 2 : e[i] = d[i]

\* A value written over three slots leaves bytes, and the other slots as they
\* were.
LEMMA PutBytes ==
  ASSUME NEW d \in [Slots -> 0 .. 255], NEW s \in 1 .. 16, NEW v \in Int,
         NEW top \in {4, 16}
  PROVE  /\ Put3(d, s, v, top) \in [Slots -> 0 .. 255]
         /\ Beside(Put3(d, s, v, top), d, s)
<1> DEFINE lo == v % 256
           mid == (v \div 256) % 256
           hi == (v \div 65536) % top
<1>1. lo \in 0 .. 255 /\ mid \in 0 .. 255
  OBVIOUS
<1>2. hi \in 0 .. 255
  <2>1. CASE top = 4
    BY <2>1
  <2>2. CASE top = 16
    BY <2>2
  <2> QED
    BY <2>1, <2>2
<1>3. Put3(d, s, v, top) =
        [d EXCEPT ![s] = lo, ![s + 1] = mid, ![s + 2] = hi]
  BY DEF Put3
<1> HIDE DEF lo, mid, hi
<1>4. {s, s + 1, s + 2} \subseteq Slots
  BY DEF Slots
<1>5. [d EXCEPT ![s] = lo, ![s + 1] = mid, ![s + 2] = hi] \in [Slots -> 0 .. 255]
  BY <1>1, <1>2, <1>4
<1>6. ASSUME NEW i \in Slots \ s .. s + 2
      PROVE  [d EXCEPT ![s] = lo, ![s + 1] = mid, ![s + 2] = hi][i] = d[i]
  <2>1. i # s /\ i # s + 1 /\ i # s + 2
    BY <1>6
  <2> QED
    BY <1>4, <2>1
<1> QED
  BY <1>3, <1>5, <1>6 DEF Beside

\* A value that fits into the three slots is read back from them.
LEMMA PutThenGet ==
  ASSUME NEW d \in [Slots -> 0 .. 255], NEW s \in 1 .. 16, NEW v \in Nat,
         NEW top \in {4, 16}, v < 65536 * top
  PROVE  Get3(Put3(d, s, v, top), s) = v
<1> DEFINE lo == v % 256
           mid == (v \div 256) % 256
           hi == v \div 65536
<1>1. v = lo + 256 * mid + 65536 * hi
  OBVIOUS
<1>2. hi % top = hi
  <2>1. CASE top = 4
    BY <2>1
  <2>2. CASE top = 16
    BY <2>2
  <2> QED
    BY <2>1, <2>2
<1>3. /\ Put3(d, s, v, top)[s] = lo
      /\ Put3(d, s, v, top)[s + 1] = mid
      /\ Put3(d, s, v, top)[s + 2] = hi % top
  BY DEF Put3, Slots
<1> HIDE DEF lo, mid, hi
<1> QED
  BY <1>1, <1>2, <1>3 DEF Get3

\* No two registers of a mode have one address.
LEMMA AddressesDiffer ==
  ASSUME NEW m \in WdrModes, NEW i \in Payload(m), NEW j \in Payload(m),
         Addr(m, i) = Addr(m, j)
  PROVE  i = j
BY DEF WdrModes, Wdr, Linear, Payload, RegNum, Addr, GAIN, HCG, DOL2_GAIN1

\* The registers of every mode are among those of WDR.
LEMMA AddressesKnown ==
  ASSUME NEW m \in WdrModes, NEW i \in Payload(m)
  PROVE  i \in Slots \ {HOLD, REL(m)} /\ Addr(m, i) \in Addrs
<1>1. i \in Slots \ {HOLD, REL(m)}
  BY DEF WdrModes, Wdr, Linear, Payload, RegNum, Slots, HOLD, REL
<1>2. CASE m = Wdr
  BY <1>1, <1>2 DEF Addrs
<1>3. CASE m = Linear
  <2> DEFINE j == IF i <= HCG THEN i ELSE i + 7
  <2>1. j \in Payload(Wdr)
    BY <1>3 DEF Payload, RegNum, Wdr, Linear, HCG
  <2>2. Addr(m, i) = Addr(Wdr, j)
    BY <1>3 DEF Payload, RegNum, Wdr, Linear, HCG, GAIN, DOL2_GAIN1, Addr
  <2> QED
    BY <1>1, <2>1, <2>2 DEF Addrs
<1> QED
  BY <1>1, <1>2, <1>3 DEF WdrModes

-----------------------------------------------------------------------------
\* The limits of frame and exposure

LEMMA TimesMonotone ==
  ASSUME NEW a \in Nat, NEW b \in Nat, NEW c \in Nat, a <= b
  PROVE  a * c <= b * c
<1>1. PICK k \in Nat : b = a + k
  BY b - a \in Nat, b = a + (b - a)
<1>2. b * c = a * c + k * c
  BY <1>1
<1>3. k * c \in Nat /\ a * c \in Nat
  OBVIOUS
<1> QED
  BY <1>2, <1>3

\* Rounding down a quotient.
LEMMA QuotientBelow ==
  ASSUME NEW a \in Nat, NEW b \in Nat \ {0}
  PROVE  a \div b \in Nat /\ (a \div b) * b <= a /\ a < (a \div b + 1) * b
OBVIOUS

LEMMA QuotientAbove ==
  ASSUME NEW a \in Nat, NEW b \in Nat \ {0}, NEW q \in Nat, q * b <= a
  PROVE  q <= a \div b
<1> DEFINE p == a \div b
<1>1. p \in Nat /\ a < (p + 1) * b
  BY QuotientBelow
<1> HIDE DEF p
<1> SUFFICES ASSUME p + 1 <= q
             PROVE  FALSE
  BY <1>1 DEF p
<1>2. (p + 1) * b <= q * b
  BY <1>1, TimesMonotone
<1> QED
  BY <1>1, <1>2

LEMMA LinesPositive == VtsDef \in Nat /\ VtsDef >= 200 /\ BRL \in Nat
BY LinesAssumption

LEMMA RatesPositive == \A fps \in Rates : fps \in Nat \ {0}
BY AeAssumption

\* At any rate a frame is at least as long as at the full rate.
LEMMA FrameLength ==
  ASSUME NEW fps \in Rates, fps <= MaxFps
  PROVE  Lesser((VtsDef * MaxFps) \div fps, FullLinesMax) \in VtsDef .. FullLinesMax
<1>1. fps \in Nat \ {0} /\ MaxFps \in Nat /\ VtsDef \in Nat /\ FullLinesMax \in Nat
      /\ VtsDef <= FullLinesMax
  <2>1. fps \in Nat \ {0}
    BY RatesPositive
  <2>2. MaxFps \in Nat
    BY DEF MaxFps
  <2>3. VtsDef \in Nat /\ FullLinesMax \in Nat /\ VtsDef <= FullLinesMax
    BY LinesAssumption
  <2> QED
    BY <2>1, <2>2, <2>3
<1>2. VtsDef * fps <= VtsDef * MaxFps /\ VtsDef * MaxFps \in Nat
  <2>1. fps * VtsDef <= MaxFps * VtsDef
    BY <1>1, TimesMonotone
  <2> QED
    BY <1>1, <2>1
<1>3. VtsDef <= (VtsDef * MaxFps) \div fps
  BY <1>1, <1>2, QuotientAbove
<1>4. (VtsDef * MaxFps) \div fps \in Nat
  BY <1>1, <1>2, QuotientBelow
<1> QED
  BY <1>1, <1>3, <1>4 DEF Lesser

\* The longest short exposure, by its share of the frame and by its readout.
LEMMA LongestShortBounds ==
  ASSUME TypeOK, Frame, NEW r \in Ratios
  PROVE  /\ LongestShort(r) \in Int
         /\ LongestShort(r) <= ((fl[1] - 6) * 64) \div (r + 64)
         /\ rhs1Max >= 3 => LongestShort(r) <= rhs1Max - 3
<1> DEFINE own == ((fl[1] - 6) * 64) \div (r + 64)
           rest == (fl[2] - 6 - wdrInt[1]) * 64
           before == IF fl[2] - 6 < wdrInt[1] THEN own ELSE rest \div r
           top == IF rhs1Max < 3 THEN own ELSE rhs1Max - 3
<1>1. /\ fl[1] \in Nat /\ fl[2] \in Nat /\ wdrInt[1] \in Nat /\ rhs1Max \in Nat
      /\ fl[1] >= 6 /\ r \in Nat /\ r >= 64
  BY LinesAssumption, AeAssumption DEF TypeOK, ModesOK, LinesOK, Frame
<1>2. own \in Nat
  BY <1>1, QuotientBelow
<1>3. before \in Int
  <2>1. CASE fl[2] - 6 < wdrInt[1]
    BY <1>2, <2>1
  <2>2. CASE ~(fl[2] - 6 < wdrInt[1])
    <3>1. rest \in Nat
      BY <1>1, <2>2
    <3> HIDE DEF rest
    <3>2. rest \div r \in Nat
      BY <1>1, <3>1, QuotientBelow
    <3> QED
      BY <2>2, <3>2
  <2> QED
    BY <2>1, <2>2
<1>4. LongestShort(r) = Lesser(Lesser(own, before), top)
  BY DEF LongestShort
<1> HIDE DEF own, before
<1>5. top \in Int /\ (rhs1Max >= 3 => top = rhs1Max - 3)
  BY <1>1, <1>2
<1> HIDE DEF top
<1>6. /\ Lesser(Lesser(own, before), top) \in Int
      /\ Lesser(Lesser(own, before), top) <= own
      /\ Lesser(Lesser(own, before), top) <= top
  BY <1>2, <1>3, <1>5 DEF Lesser
<1> QED
  BY <1>4, <1>5, <1>6 DEF own

\* Two exposures near their limits share a frame.
LEMMA ExposuresShare ==
  ASSUME NEW r \in Nat, r >= 64, NEW frame \in Nat, frame >= 6, NEW longest \in Nat,
         longest <= ((frame - 6) * 64) \div (r + 64),
         NEW l \in Nat, l <= (longest * r) \div 64
  PROVE  l <= frame - 6 - longest
<1> DEFINE room == (frame - 6) * 64
           q == room \div (r + 64)
<1>1. room \in Nat /\ r + 64 \in Nat \ {0}
  OBVIOUS
<1>2. q \in Nat /\ q * (r + 64) <= room
  BY <1>1, QuotientBelow
<1>3. longest <= q
  OBVIOUS
<1> HIDE DEF q
<1>4. longest * (r + 64) <= q * (r + 64)
  BY <1>1, <1>2, <1>3, TimesMonotone
<1>5. longest * (r + 64) = longest * r + longest * 64
  OBVIOUS
<1>6. longest * r \in Nat
  OBVIOUS
<1>7. l * 64 <= longest * r
  <2> DEFINE x == longest * r
  <2>1. x \in Nat /\ l <= x \div 64
    BY <1>6
  <2> HIDE DEF x
  <2>2. l * 64 <= x
    BY <2>1
  <2> QED
    BY <2>2 DEF x
<1> DEFINE y == longest * r
<1>8. q * (r + 64) \in Int
  BY <1>2
<1> HIDE DEF y
<1>9. y \in Nat /\ l * 64 <= y /\ y + longest * 64 <= room
  BY <1>1, <1>2, <1>4, <1>5, <1>6, <1>7, <1>8 DEF y
<1> QED
  BY <1>9

\* What the AE picks within the limits of WDR are numbers of lines, and once
\* the frame is known they fit into it.
LEMMA ChoicesFit ==
  ASSUME TypeOK, Frame, NEW r \in Ratios,
         NEW s \in Near(IntTimeMax(r)[1], IntTimeMax(r)[2]),
         NEW l \in Near(IntTimeMax(r)[3], IntTimeMax(r)[4])
  PROVE  /\ s \in Nat /\ s >= 2 /\ l \in Nat
         /\ stage # "moded" /\ wdrMode = Wdr =>
              ShortRhs(s) <= rhs1Max /\ ShortRhs(s) < fl[1] - l - 1
<1> DEFINE longest == LongestShort(r)
           low == (2 * r) \div 64
           high == (longest * r) \div 64
<1>1. /\ r \in Nat /\ r >= 64 /\ fl[1] \in Nat /\ rhs1Max \in Nat
      /\ fl[1] >= VtsDef /\ VtsDef >= 200 /\ VtsDef \in Nat
  BY LinesAssumption, AeAssumption DEF TypeOK, ModesOK, LinesOK, Frame
<1>2. /\ longest \in Int /\ longest <= ((fl[1] - 6) * 64) \div (r + 64)
      /\ rhs1Max >= 3 => longest <= rhs1Max - 3
  BY LongestShortBounds
<1>3. IntTimeMax(r) = IF longest >= 2 THEN <<2, longest, low, high>>
                                      ELSE <<2, 2, 127, 127>>
  BY DEF IntTimeMax
<1> HIDE DEF longest
<1>4. low \in Nat /\ (longest >= 2 => high \in Int)
  <2>1. low \in Nat
    BY <1>1
  <2>2. ASSUME longest >= 2
        PROVE  high \in Int
    <3>1. longest * r \in Nat
      BY <1>1, <1>2, <2>2
    <3> QED
      BY <3>1, QuotientBelow
  <2> QED
    BY <2>1, <2>2
<1>5. \A a, b \in Int : \A t \in Near(a, b) : t \in Int /\ a <= t /\ t <= b
  BY AeAssumption DEF Near
<1>6. /\ s \in Int /\ 2 <= s /\ l \in Nat
      /\ longest >= 2 => s <= longest /\ l <= high
      /\ ~(longest >= 2) => s = 2 /\ l = 127
  <2>1. CASE longest >= 2
    <3> HIDE DEF low, high
    <3>1. s \in Near(2, longest) /\ l \in Near(low, high)
      BY <1>3, <2>1
    <3>2. s \in Int /\ 2 <= s /\ s <= longest
      BY <1>2, <1>5, <3>1
    <3>3. l \in Int /\ low <= l /\ l <= high
      BY <1>4, <1>5, <2>1, <3>1
    <3> QED
      BY <1>4, <2>1, <3>2, <3>3
  <2>2. CASE ~(longest >= 2)
    <3>1. s \in Near(2, 2) /\ l \in Near(127, 127)
      BY <1>3, <2>2
    <3>2. s \in Int /\ 2 <= s /\ s <= 2 /\ l \in Int /\ 127 <= l /\ l <= 127
      BY <1>5, <3>1
    <3> QED
      BY <2>2, <3>2
  <2> QED
    BY <2>1, <2>2
<1>7. ASSUME longest >= 2
      PROVE  l <= fl[1] - 6 - longest
  BY <1>1, <1>2, <1>6, <1>7, ExposuresShare
<1> HIDE DEF low, high
<1>8. ASSUME stage # "moded", wdrMode = Wdr
      PROVE  ShortRhs(s) <= rhs1Max /\ ShortRhs(s) < fl[1] - l - 1
  <2>1. PICK vmax \in VtsDef .. FullLinesMax :
          fl[1] = 2 * vmax /\ rhs1Max = (vmax - brl) * 2 - 21
    BY <1>8 DEF Frame
  <2>2. vmax \in Nat /\ brl \in Nat /\ vmax - brl >= 13
    BY LinesAssumption DEF TypeOK, ModesOK
  <2>3. s <= rhs1Max - 3 /\ s <= fl[1] - l - 6
    <3>1. CASE longest >= 2
      BY <1>1, <1>2, <1>6, <1>7, <2>1, <2>2, <3>1
    <3>2. CASE ~(longest >= 2)
      BY <1>1, <1>6, <2>1, <2>2, <3>2
    <3> QED
      BY <3>1, <3>2
  <2>4. s % 2 = 0 => ShortRhs(s) = s + 3
    BY <1>6 DEF ShortRhs, ShortShs
  <2>5. s % 2 = 1 => ShortRhs(s) = s + 4
    BY <1>6 DEF ShortRhs, ShortShs
  <2>6. s % 2 = 1 => s # rhs1Max - 3
    BY <1>6, <2>1, <2>2
  <2>7. s % 2 = 0 \/ s % 2 = 1
    BY <1>6
  <2> QED
    BY <1>1, <1>6, <2>3, <2>4, <2>5, <2>6, <2>7
<1> QED
  BY <1>6, <1>8

-----------------------------------------------------------------------------
\* Changes of mode

LEMMA BlankBytes == Blank \in [Slots -> 0 .. 255] /\ Blank \in [Slots -> {0, 1}]
BY DEF Blank

LEMMA InitRight == Init => IndInv
<1> SUFFICES ASSUME Init
             PROVE  IndInv
  OBVIOUS
<1> USE DEF Init
<1>1. ModesOK
  <2>1. imgMode \in ImgModes /\ wdrMode \in WdrModes /\ bInit \in BOOLEAN
    BY DEF ImgModes, WdrModes
  <2>2. brl \in {0, BRL} /\ hcg \in 0 .. 2
    OBVIOUS
  <2> QED
    BY <2>1, <2>2 DEF ModesOK
<1>2. LinesOK
  BY LinesPositive DEF LinesOK
<1>3. DataOK
  BY BlankBytes DEF DataOK
<1>4. IspOK
  <2>1. out \in [mode : WdrModes \cup {"none"}, upd : SUBSET Slots,
                 data : [Slots -> 0 .. 255], delay : [Slots -> {0, 1}]]
    BY BlankBytes DEF NoAnswer
  <2>2. held \in [Addrs -> 0 .. 255] /\ calls \in 0 .. MaxCalls
    BY CallAssumption
  <2> QED
    BY <2>1, <2>2 DEF IspOK
<1>5. Modes
  BY DEF Modes
<1>6. Grouped
  BY DEF Grouped, Bracketed, DelaysOf, NoAnswer, Blank, Wdr, Linear
<1>7. Frame
  BY LinesPositive DEF Frame
<1>8. ExposuresFit
  BY DEF ExposuresFit
<1> QED
  BY <1>1, <1>2, <1>3, <1>4, <1>5, <1>6, <1>7, <1>8 DEF IndInv, TypeOK

LEMMA GlobalInitRight ==
  ASSUME IndInv, GlobalInit
  PROVE  IndInv'
<1> USE DEF IndInv, TypeOK, GlobalInit, Call, ispVars
<1>1. ModesOK'
  BY DEF ModesOK, ImgModes, WdrModes, Linear
<1>2. LinesOK'
  BY LinesPositive DEF LinesOK
<1>3. DataOK'
  BY BlankBytes DEF DataOK
<1>4. IspOK'
  BY CallAssumption DEF IspOK
<1>5. Modes'
  BY DEF Modes
<1>6. Grouped'
  BY DEF Grouped, Bracketed, DelaysOf, Blank, Wdr, Linear
<1>7. Frame'
  BY LinesPositive DEF Frame
<1>8. ExposuresFit'
  BY DEF ExposuresFit
<1> QED
  BY <1>1, <1>2, <1>3, <1>4, <1>5, <1>6, <1>7, <1>8

LEMMA SetWdrModeRight ==
  ASSUME IndInv, NEW m \in WdrModes, SetWdrMode(m)
  PROVE  IndInv'
<1> USE DEF IndInv, TypeOK, SetWdrMode, Call, ispVars, regVars
<1>1. ModesOK'
  BY DEF ModesOK, ImgModes, WdrModes
<1>2. LinesOK'
  BY LinesPositive DEF LinesOK
<1>3. DataOK'
  BY DEF DataOK
<1>4. IspOK'
  BY CallAssumption DEF IspOK
<1>5. Modes'
  BY DEF Modes
<1>6. Grouped'
  BY DEF Grouped, Bracketed, DelaysOf
<1>7. Frame'
  BY LinesPositive DEF Frame, LinesOK
<1>8. ExposuresFit'
  BY DEF ExposuresFit
<1> QED
  BY <1>1, <1>2, <1>3, <1>4, <1>5, <1>6, <1>7, <1>8

LEMMA SetImageModeRight ==
  ASSUME IndInv, NEW fps \in Rates, SetImageMode(fps)
  PROVE  IndInv'
<1> USE DEF IndInv, TypeOK, SetImageMode, Call, ispVars, regVars
<1>1. ModesOK'
  BY DEF ModesOK, ImgModes
<1>2. LinesOK'
  BY DEF LinesOK
<1>3. DataOK'
  BY DEF DataOK
<1>4. IspOK'
  BY CallAssumption DEF IspOK
<1>5. Modes'
  BY DEF Modes
<1>6. Grouped'
  BY DEF Grouped, Bracketed, DelaysOf
<1>7. Frame'
  BY DEF Frame
<1>8. ExposuresFit'
  BY DEF ExposuresFit
<1> QED
  BY <1>1, <1>2, <1>3, <1>4, <1>5, <1>6, <1>7, <1>8

LEMMA RefuseModeRight ==
  ASSUME IndInv, RefuseMode
  PROVE  IndInv'
<1> USE DEF IndInv, TypeOK, RefuseMode, Call, modeVars, lineVars, ispVars, regVars
<1>1. ModesOK'
  BY DEF ModesOK
<1>2. LinesOK'
  BY DEF LinesOK
<1>3. DataOK'
  BY DEF DataOK
<1>4. IspOK'
  BY CallAssumption DEF IspOK
<1>5. Modes'
  BY DEF Modes
<1>6. Grouped'
  BY DEF Grouped, Bracketed, DelaysOf
<1>7. Frame'
  BY DEF Frame
<1>8. ExposuresFit'
  BY DEF ExposuresFit, Get3
<1> QED
  BY <1>1, <1>2, <1>3, <1>4, <1>5, <1>6, <1>7, <1>8

-----------------------------------------------------------------------------
\* The callbacks of the AE

\* Data that an AE callback changes leaves hold and release as they are.
LEMMA CallbackKeeps ==
  ASSUME IndInv, Call, UNCHANGED <<modeVars, prev, regVars, bSyncInit, pc, ispVars>>,
         cur' \in [Slots -> 0 .. 255],
         cur'[HOLD] = cur[HOLD], cur'[REL(wdrMode)] = cur[REL(wdrMode)]
  PROVE  ModesOK' /\ DataOK' /\ IspOK' /\ Modes' /\ Grouped'
<1> USE DEF IndInv, TypeOK, Call, modeVars, regVars, ispVars
<1>1. ModesOK'
  BY DEF ModesOK
<1>2. DataOK'
  BY DEF DataOK
<1>3. IspOK'
  BY CallAssumption DEF IspOK
<1>4. Modes'
  BY DEF Modes
<1>5. Grouped'
  <2>1. pc = "copy" => regMode = wdrMode
    BY DEF Modes
  <2>2. pc' = "copy" => Bracketed(regMode, upd, cur)'
    BY <2>1 DEF Grouped, Bracketed
  <2>3. Bracketed(out.mode, out.upd, out.data)'
    BY DEF Grouped, Bracketed
  <2>4. DelaysOf(regMode, delay)' /\ DelaysOf(out.mode, out.delay)'
    BY DEF Grouped, DelaysOf
  <2> QED
    BY <2>2, <2>3, <2>4 DEF Grouped
<1> QED
  BY <1>1, <1>2, <1>3, <1>4, <1>5

\* Where hold and release are.
LEMMA Brackets ==
  ASSUME NEW m \in WdrModes
  PROVE  /\ HOLD \in Slots /\ REL(m) \in Slots /\ HOLD \notin 1 .. 8
         /\ m = Linear => REL(m) = 9
         /\ m = Wdr => REL(m) = 18
         /\ m # Linear => m = Wdr
BY DEF WdrModes, Wdr, Linear, RegNum, Slots, HOLD, REL

LEMMA FpsSetRight ==
  ASSUME IndInv, NEW fps \in Rates, FpsSet(fps)
  PROVE  IndInv'
<1> DEFINE vmax == Lesser((VtsDef * MaxFps) \div fps, FullLinesMax)
           slot == IF wdrMode = Linear THEN LINEAR_VMAX ELSE DOL2_VMAX
<1>1. vmax \in VtsDef .. FullLinesMax
  BY FrameLength DEF FpsSet
<1>2. /\ Call /\ cur' = Put3(cur, slot, vmax, 16)
      /\ IF wdrMode = Wdr
           THEN fl' = <<2 * vmax, fl[2]>> /\ rhs1Max' = (vmax - brl) * 2 - 21
           ELSE fl' = <<vmax, fl[2]>> /\ rhs1Max' = rhs1Max
      /\ stage' = "framed"
      /\ UNCHANGED <<modeVars, wdrInt, prev, regVars, bSyncInit, pc, ispVars>>
  BY DEF FpsSet
<1>3. vmax \in Nat /\ VtsDef <= vmax /\ vmax <= FullLinesMax
  BY <1>1, LinesAssumption
<1> HIDE DEF vmax
<1>4. /\ wdrMode \in WdrModes /\ cur \in [Slots -> 0 .. 255] /\ brl \in {0, BRL}
      /\ rhs1Max \in Nat /\ fl \in Nat \X Nat /\ wdrInt \in Nat \X Nat
  BY DEF IndInv, TypeOK, ModesOK, LinesOK, DataOK
<1>5. slot \in 1 .. 16 /\ (wdrMode = Linear => slot = 6) /\ (wdrMode = Wdr => slot = 13)
  BY DEF LINEAR_VMAX, DOL2_VMAX, Linear, Wdr
<1> HIDE DEF slot
<1>6. /\ cur' \in [Slots -> 0 .. 255]
      /\ \A i \in Slots \ slot .. slot + 2 : cur'[i] = cur[i]
  <2> DEFINE new == Put3(cur, slot, vmax, 16)
  <2>1. /\ new \in [Slots -> 0 .. 255]
        /\ Beside(new, cur, slot)
    <3>1. cur \in [Slots -> 0 .. 255] /\ slot \in 1 .. 16 /\ vmax \in Int
      BY <1>3, <1>4, <1>5
    <3> QED
      BY ONLY <3>1, PutBytes
  <2>2. cur' = new
    BY <1>2
  <2> HIDE DEF new
  <2> QED
    BY <2>1, <2>2 DEF Beside
<1>7. cur'[HOLD] = cur[HOLD] /\ cur'[REL(wdrMode)] = cur[REL(wdrMode)]
  BY <1>4, <1>5, <1>6, Brackets DEF HOLD
<1>8. ModesOK' /\ DataOK' /\ IspOK' /\ Modes' /\ Grouped'
  BY <1>2, <1>6, <1>7, CallbackKeeps
<1>9. LinesOK' /\ Frame'
  <2>1. wdrMode' = wdrMode /\ brl' = brl /\ wdrInt' = wdrInt
    BY <1>2 DEF modeVars
  <2>2. CASE wdrMode = Wdr
    <3>1. (vmax - brl) * 2 - 21 \in Nat
      BY <1>3, <1>4, LinesAssumption
    <3>2. LinesOK'
      BY <1>2, <1>3, <1>4, <2>1, <2>2, <3>1 DEF LinesOK
    <3>3. Frame'
      BY <1>1, <1>2, <1>3, <2>1, <2>2, LinesPositive DEF Frame, Wdr, Linear
    <3> QED
      BY <3>2, <3>3
  <2>3. CASE wdrMode # Wdr
    <3>1. LinesOK'
      BY <1>2, <1>3, <1>4, <2>1, <2>3 DEF LinesOK
    <3>2. Frame'
      BY <1>2, <1>3, <2>1, <2>3, LinesPositive DEF Frame
    <3> QED
      BY <3>1, <3>2
  <2> QED
    BY <2>2, <2>3
<1>10. ExposuresFit'
  BY <1>2 DEF ExposuresFit
<1> QED
  BY <1>8, <1>9, <1>10 DEF IndInv, TypeOK

LEMMA IntTimeLinearRight ==
  ASSUME IndInv, NEW t \in IntTimes, IntTimeLinear(t)
  PROVE  IndInv'
<1>1. /\ Call /\ wdrMode = Linear /\ t # 0
      /\ cur' = Put3(cur, SHS1, fl[1] - t - 1, 4)
      /\ stage' = Exposed(t <= fl[1] - 2)
      /\ UNCHANGED <<modeVars, rhs1Max, fl, wdrInt, prev, regVars, bSyncInit, pc,
                     ispVars>>
  BY DEF IntTimeLinear
<1>2. /\ wdrMode \in WdrModes /\ cur \in [Slots -> 0 .. 255] /\ t \in Nat
      /\ rhs1Max \in Nat /\ fl \in Nat \X Nat /\ wdrInt \in Nat \X Nat
      /\ stage \in {"moded", "framed", "exposed"}
  BY AeAssumption DEF IndInv, TypeOK, ModesOK, LinesOK, DataOK
<1>3. SHS1 \in 1 .. 16 /\ SHS1 = 1 /\ fl[1] - t - 1 \in Int
  BY <1>2 DEF SHS1
<1>4. /\ cur' \in [Slots -> 0 .. 255]
      /\ \A i \in Slots \ SHS1 .. SHS1 + 2 : cur'[i] = cur[i]
  <2> DEFINE new == Put3(cur, SHS1, fl[1] - t - 1, 4)
  <2>1. /\ new \in [Slots -> 0 .. 255]
        /\ Beside(new, cur, SHS1)
    BY <1>2, <1>3, PutBytes
  <2>2. cur' = new
    BY <1>1
  <2> HIDE DEF new
  <2> QED
    BY <2>1, <2>2 DEF Beside
<1>5. cur'[HOLD] = cur[HOLD] /\ cur'[REL(wdrMode)] = cur[REL(wdrMode)]
  BY <1>1, <1>2, <1>3, <1>4, Brackets DEF HOLD
<1>6. ModesOK' /\ DataOK' /\ IspOK' /\ Modes' /\ Grouped'
  BY <1>1, <1>4, <1>5, CallbackKeeps
<1>7. LinesOK'
  BY <1>1, <1>2 DEF LinesOK, Exposed
<1>8. Frame'
  BY <1>1 DEF IndInv, Frame, Exposed, modeVars
<1>9. ExposuresFit'
  <2> SUFFICES ASSUME stage' = "exposed"
               PROVE  Get3(cur', SHS1) \in 1 .. fl[1] - 2
    BY <1>1 DEF ExposuresFit, modeVars
  <2>1. t <= fl[1] - 2 /\ stage # "moded"
    BY <1>1 DEF Exposed
  <2>2. fl[1] <= FullLinesMax
    BY <1>1, <2>1 DEF IndInv, Frame
  <2>3. fl[1] - t - 1 \in Nat /\ fl[1] - t - 1 \in 1 .. fl[1] - 2
    BY <1>1, <1>2, <2>1
  <2>4. fl[1] - t - 1 < 65536 * 4
    BY <1>2, <2>2, <2>3, LinesAssumption, SMT
  <2> QED
    BY <1>1, <1>2, <1>3, <2>3, <2>4, PutThenGet
<1> QED
  BY <1>6, <1>7, <1>8, <1>9 DEF IndInv, TypeOK

\* A value over three slots is read as it was when the change is elsewhere.
LEMMA GetBeside ==
  ASSUME NEW d, NEW e, NEW s \in 1 .. 16, NEW z \in 1 .. 16, Beside(e, d, s),
         s + 2 < z \/ z + 2 < s
  PROVE  Get3(e, z) = Get3(d, z)
<1>1. \A i \in {z, z + 1, z + 2} : i \in Slots \ s .. s + 2
  BY DEF Slots
<1>2. e[z] = d[z] /\ e[z + 1] = d[z + 1] /\ e[z + 2] = d[z + 2]
  BY <1>1 DEF Beside
<1> QED
  BY <1>2 DEF Get3

LEMMA IntTimeWdrRight ==
  ASSUME IndInv, wdrMode = Wdr, NEW r \in Ratios,
         NEW s \in Near(IntTimeMax(r)[1], IntTimeMax(r)[2]),
         NEW l \in Near(IntTimeMax(r)[3], IntTimeMax(r)[4]),
         IntTimeWdr(r, s, l)
  PROVE  IndInv'
<1> DEFINE shs1 == ShortShs(s)
           rhs1 == ShortRhs(s)
           shs2 == fl[1] - l - 1
           yout == YoutSize(rhs1)
           one == Put3(cur, SHS1, shs1, 16)
           two == Put3(one, DOL2_SHS2, shs2, 16)
           three == Put3(two, DOL2_RHS1, rhs1, 16)
           all == [three EXCEPT ![DOL2_YOUT_SIZE] = yout % 256,
                                ![DOL2_YOUT_SIZE + 1] = (yout \div 256) % 32]
<1>1. /\ Call /\ cur' = all
      /\ wdrInt' = <<s, l>> /\ stage' = Exposed(TRUE)
      /\ UNCHANGED <<modeVars, rhs1Max, fl, prev, regVars, bSyncInit, pc, ispVars>>
  BY DEF IntTimeWdr
<1>2. /\ s \in Nat /\ s >= 2 /\ l \in Nat
      /\ stage # "moded" => rhs1 <= rhs1Max /\ rhs1 < shs2
  BY ChoicesFit DEF IndInv
<1>3. /\ wdrMode \in WdrModes /\ cur \in [Slots -> 0 .. 255] /\ brl \in {0, BRL}
      /\ rhs1Max \in Nat /\ fl \in Nat \X Nat
      /\ stage \in {"moded", "framed", "exposed"}
  BY DEF IndInv, TypeOK, ModesOK, LinesOK, DataOK
<1>4. shs1 \in 2 .. 3 /\ rhs1 \in Nat /\ rhs1 - (shs1 + 1) = s /\ shs2 \in Int
  BY <1>2, <1>3 DEF ShortShs, ShortRhs
<1>5. yout \in Int
  BY <1>4, LinesPositive DEF YoutSize, Lesser
<1> HIDE DEF shs1, rhs1, shs2, yout
<1>6. SHS1 = 1 /\ DOL2_SHS2 = 10 /\ DOL2_RHS1 = 7 /\ DOL2_YOUT_SIZE = 16
  BY DEF SHS1, DOL2_SHS2, DOL2_RHS1, DOL2_YOUT_SIZE
<1>7. one \in [Slots -> 0 .. 255] /\ Beside(one, cur, 1)
  <2>1. SHS1 \in 1 .. 16 /\ shs1 \in Int
    BY <1>4, <1>6
  <2> QED
    BY <1>3, <1>6, <2>1, PutBytes
<1>8. two \in [Slots -> 0 .. 255] /\ Beside(two, one, 10)
  <2> HIDE DEF one
  <2>1. DOL2_SHS2 \in 1 .. 16
    BY <1>6
  <2> QED
    BY <1>4, <1>6, <1>7, <2>1, PutBytes
<1>9. three \in [Slots -> 0 .. 255] /\ Beside(three, two, 7)
  <2> HIDE DEF two
  <2>1. DOL2_RHS1 \in 1 .. 16 /\ rhs1 \in Int /\ two \in [Slots -> 0 .. 255]
    BY <1>4, <1>6, <1>8
  <2>2. three \in [Slots -> 0 .. 255] /\ Beside(three, two, DOL2_RHS1)
    BY ONLY <2>1, PutBytes
  <2> QED
    BY <1>6, <2>2
<1>10. /\ all \in [Slots -> 0 .. 255]
       /\ \A i \in Slots \ 16 .. 17 : all[i] = three[i]
  <2> HIDE DEF three
  <2> DEFINE low == yout % 256
             high == (yout \div 256) % 32
  <2>1. low \in 0 .. 255 /\ high \in 0 .. 255
    BY <1>5
  <2>2. 16 \in Slots /\ 17 \in Slots
    BY DEF Slots
  <2>3. all = [three EXCEPT ![16] = low, ![17] = high]
    BY <1>6
  <2> HIDE DEF all, low, high
  <2>4. all \in [Slots -> 0 .. 255]
    BY <1>9, <2>1, <2>2, <2>3
  <2>5. ASSUME NEW i \in Slots \ 16 .. 17
        PROVE  all[i] = three[i]
    BY <1>9, <2>2, <2>3
  <2> QED
    BY <2>4, <2>5
<1>11. \A z \in {1, 7, 10} : Get3(all, z) = Get3(three, z)
  <2> HIDE DEF all, three
  <2> SUFFICES ASSUME NEW z \in {1, 7, 10}
               PROVE  Get3(all, z) = Get3(three, z)
    OBVIOUS
  <2>1. all[z] = three[z] /\ all[z + 1] = three[z + 1] /\ all[z + 2] = three[z + 2]
    BY <1>10 DEF Slots
  <2> QED
    BY <2>1 DEF Get3
<1>12. all[HOLD] = cur[HOLD] /\ all[REL(wdrMode)] = cur[REL(wdrMode)]
  <2> HIDE DEF all, three, two, one
  <2>1. HOLD = 0 /\ REL(wdrMode) = 18
    BY <1>3, Brackets DEF HOLD
  <2>2. \A i \in {0, 18} : all[i] = three[i]
    BY <1>10 DEF Slots
  <2>3. \A i \in {0, 18} : /\ i \in Slots \ 7 .. 9 /\ i \in Slots \ 10 .. 12
                         /\ i \in Slots \ 1 .. 3
    BY DEF Slots
  <2>4. \A i \in {0, 18} : three[i] = two[i] /\ two[i] = one[i] /\ one[i] = cur[i]
    BY <1>7, <1>8, <1>9, <2>3 DEF Beside
  <2> QED
    BY <2>1, <2>2, <2>4
<1>13. ModesOK' /\ DataOK' /\ IspOK' /\ Modes' /\ Grouped'
  <2> HIDE DEF all
  <2>1. cur' \in [Slots -> 0 .. 255]
    BY <1>1, <1>10
  <2>2. cur'[HOLD] = cur[HOLD] /\ cur'[REL(wdrMode)] = cur[REL(wdrMode)]
    BY <1>1, <1>12
  <2> QED
    BY <1>1, <2>1, <2>2, CallbackKeeps
<1>14. LinesOK'
  BY <1>1, <1>2, <1>3 DEF LinesOK, Exposed
<1>15. Frame'
  BY <1>1 DEF IndInv, Frame, Exposed, modeVars
<1>16. ASSUME stage # "moded"
       PROVE  Get3(all, 1) = shs1 /\ Get3(all, 7) = rhs1 /\ Get3(all, 10) = shs2
  <2>1. /\ rhs1 <= rhs1Max /\ rhs1 < shs2 /\ shs2 < fl[1]
        /\ rhs1Max < 65536 * 16 /\ fl[1] < 65536 * 16
    <3>1. PICK vmax \in VtsDef .. FullLinesMax :
            fl[1] = 2 * vmax /\ rhs1Max = (vmax - brl) * 2 - 21
      BY <1>16 DEF IndInv, Frame
    <3>2. vmax \in Nat /\ vmax < 262144 /\ brl \in Nat
      BY <1>3, LinesAssumption, SMT
    <3>3. rhs1Max < 65536 * 16 /\ fl[1] < 65536 * 16
      BY <3>1, <3>2, SMT
    <3> QED
      BY <1>2, <1>3, <1>16, <3>3, SMT DEF shs2
  <2>2. Get3(one, 1) = shs1
    <3>1. SHS1 \in 1 .. 16 /\ shs1 \in Nat /\ shs1 < 65536 * 16
      BY <1>4, <1>6, SMT
    <3> QED
      BY <1>3, <1>6, <3>1, PutThenGet
  <2>3. Get3(two, 10) = shs2
    <3> HIDE DEF one
    <3>1. DOL2_SHS2 \in 1 .. 16 /\ shs2 \in Nat /\ shs2 < 65536 * 16
      BY <1>3, <1>4, <1>6, <2>1, SMT
    <3> QED
      BY <1>6, <1>7, <3>1, PutThenGet
  <2>4. Get3(three, 7) = rhs1
    <3> HIDE DEF two
    <3>1. DOL2_RHS1 \in 1 .. 16 /\ rhs1 \in Nat /\ rhs1 < 65536 * 16
      BY <1>3, <1>4, <1>6, <2>1, SMT
    <3> QED
      BY <1>6, <1>8, <3>1, PutThenGet
  <2> HIDE DEF all, three, two, one
  <2>5. Get3(three, 1) = Get3(two, 1) /\ Get3(two, 1) = Get3(one, 1)
    BY <1>8, <1>9, GetBeside
  <2>6. Get3(three, 10) = Get3(two, 10)
    BY <1>9, GetBeside
  <2> QED
    BY <1>11, <2>2, <2>3, <2>4, <2>5, <2>6
<1>17. ExposuresFit'
  <2> HIDE DEF all
  <2> SUFFICES ASSUME stage' = "exposed"
               PROVE  ExposuresFit'
    BY DEF ExposuresFit
  <2>1. stage # "moded"
    BY <1>1 DEF Exposed
  <2>2. /\ Get3(all, SHS1) = shs1 /\ Get3(all, DOL2_RHS1) = rhs1
        /\ Get3(all, DOL2_SHS2) = shs2
    BY <1>6, <1>16, <2>1
  <2>3. /\ rhs1 - (shs1 + 1) = s /\ fl[1] - (shs2 + 1) = l
        /\ 2 <= shs1 /\ shs1 < rhs1 /\ rhs1 <= rhs1Max /\ rhs1 < shs2 /\ shs2 < fl[1]
    BY <1>2, <1>3, <1>4, <2>1 DEF shs2
  <2>4. /\ cur' = all /\ wdrInt' = <<s, l>> /\ fl' = fl /\ rhs1Max' = rhs1Max
        /\ wdrMode' = Wdr
    BY <1>1 DEF modeVars
  <2> QED
    BY <2>2, <2>3, <2>4 DEF ExposuresFit, Wdr, Linear
<1> QED
  BY <1>13, <1>14, <1>15, <1>17 DEF IndInv, TypeOK

LEMMA GainsAreBytes ==
  ASSUME NEW a \in Nat, NEW d \in Nat, NEW o \in Nat, o <= a
  PROVE  (a - o + d) % 256 \in 0 .. 255 /\ Lesser(a - o + d, 255) \in 0 .. 255
<1>1. (a - o + d) % 256 \in 0 .. 255
  OBVIOUS
<1>2. Lesser(a - o + d, 255) \in 0 .. 255
  BY DEF Lesser
<1> QED
  BY <1>1, <1>2

LEMMA GainsUpdateRight ==
  ASSUME IndInv, NEW g \in Gains, GainsUpdate(g)
  PROVE  IndInv'
<1>1. /\ wdrMode \in WdrModes /\ cur \in [Slots -> 0 .. 255] /\ hcg \in 0 .. 2
      /\ g[1] \in Nat /\ g[2] \in Nat /\ g[3] \in Nat /\ g[4] \in Nat
  BY GainAssumption DEF IndInv, TypeOK, ModesOK, DataOK
<1>2. HCG = 5 /\ GAIN = 4 /\ DOL2_GAIN1 = 6
  BY DEF HCG, GAIN, DOL2_GAIN1
<1> DEFINE shared == wdrMode = Linear \/ GainMode = "SNS_GAIN_MODE_SHARE"
           boost == IF shared THEN g[1] >= 27 ELSE g[1] >= 20 /\ g[2] >= 20
           off == IF boost THEN (IF shared THEN 27 ELSE 20) ELSE 0
           Sum(a, d) == IF wdrMode = Linear THEN (a - off + d) % 256
                                            ELSE Lesser(a - off + d, 255)
           h == IF boost THEN 16 + hcg ELSE hcg
           base == [cur EXCEPT ![HCG] = h]
           new == IF shared THEN [base EXCEPT ![GAIN] = Sum(g[1], g[3])]
                  ELSE [base EXCEPT ![GAIN] = Sum(g[2], g[4]),
                                    ![DOL2_GAIN1] = Sum(g[1], g[3])]
<1>3. /\ Call /\ cur' = new
      /\ UNCHANGED <<modeVars, lineVars, prev, regVars, bSyncInit, pc, ispVars>>
  BY DEF GainsUpdate
<1>4. off \in Nat /\ off <= g[1] /\ (~shared => off <= g[2])
  BY <1>1
<1>5. h \in 0 .. 255
  BY <1>1
<1> HIDE DEF boost, off
<1>6. Sum(g[1], g[3]) \in 0 .. 255
  <2>1. /\ (g[1] - off + g[3]) % 256 \in 0 .. 255
        /\ Lesser(g[1] - off + g[3], 255) \in 0 .. 255
    BY <1>1, <1>4, GainsAreBytes
  <2> QED
    BY <2>1
<1>7. ~shared => Sum(g[2], g[4]) \in 0 .. 255
  <2> SUFFICES ASSUME ~shared
               PROVE  Sum(g[2], g[4]) \in 0 .. 255
    OBVIOUS
  <2>1. /\ (g[2] - off + g[4]) % 256 \in 0 .. 255
        /\ Lesser(g[2] - off + g[4], 255) \in 0 .. 255
    BY <1>1, <1>4, GainsAreBytes
  <2> QED
    BY <2>1
<1>8. {4, 5, 6} \subseteq Slots
  BY DEF Slots
<1> HIDE DEF Sum, h
<1>9. base \in [Slots -> 0 .. 255] /\ \A i \in Slots \ {4, 5, 6} : base[i] = cur[i]
  BY <1>1, <1>2, <1>5, <1>8
<1>10. /\ new \in [Slots -> 0 .. 255]
       /\ \A i \in Slots \ {4, 5, 6} : new[i] = cur[i]
  <2>1. CASE shared
    BY <1>1, <1>2, <1>5, <1>6, <1>8, <2>1
  <2>2. CASE ~shared
    <3> HIDE DEF base, shared
    <3>1. new = [base EXCEPT ![4] = Sum(g[2], g[4]), ![6] = Sum(g[1], g[3])]
      BY <1>2, <2>2
    <3> HIDE DEF new
    <3>2. new \in [Slots -> 0 .. 255]
      <4> DEFINE x == Sum(g[2], g[4])
                 y == Sum(g[1], g[3])
      <4>1. x \in 0 .. 255 /\ y \in 0 .. 255
        BY <1>6, <1>7, <2>2
      <4>2. new = [base EXCEPT ![4] = x, ![6] = y]
        BY <3>1
      <4> HIDE DEF x, y
      <4> QED
        BY <1>8, <1>9, <4>1, <4>2
    <3>3. \A i \in Slots \ {4, 5, 6} : new[i] = base[i]
      BY <1>8, <1>9, <3>1
    <3> QED
      BY <1>9, <2>2, <3>2, <3>3
  <2> QED
    BY <2>1, <2>2
<1> HIDE DEF new, shared
<1>11. cur'[HOLD] = cur[HOLD] /\ cur'[REL(wdrMode)] = cur[REL(wdrMode)]
  <2>1. HOLD = 0 /\ REL(wdrMode) \in Slots \ {4, 5, 6} /\ 0 \in Slots \ {4, 5, 6}
    BY <1>1, Brackets DEF HOLD
  <2> QED
    BY <1>3, <1>10, <2>1
<1>12. ModesOK' /\ DataOK' /\ IspOK' /\ Modes' /\ Grouped'
  BY <1>3, <1>10, <1>11, CallbackKeeps
<1>13. LinesOK' /\ Frame'
  BY <1>3 DEF IndInv, TypeOK, LinesOK, Frame, lineVars, modeVars
<1>14. ExposuresFit'
  <2>1. \A i \in {1, 2, 3, 7, 8, 9, 10, 11, 12} : i \in Slots \ {4, 5, 6}
    BY DEF Slots
  <2>2. \A i \in {1, 2, 3, 7, 8, 9, 10, 11, 12} : cur'[i] = cur[i]
    BY <1>3, <1>10, <2>1
  <2>3. /\ Get3(cur', SHS1) = Get3(cur, SHS1)
        /\ Get3(cur', DOL2_RHS1) = Get3(cur, DOL2_RHS1)
        /\ Get3(cur', DOL2_SHS2) = Get3(cur, DOL2_SHS2)
    BY <2>2 DEF Get3, SHS1, DOL2_RHS1, DOL2_SHS2
  <2>4. /\ wdrInt' = wdrInt /\ fl' = fl /\ rhs1Max' = rhs1Max /\ wdrMode' = wdrMode
        /\ stage' = stage
    BY <1>3 DEF modeVars, lineVars
  <2> QED
    BY <2>3, <2>4 DEF IndInv, ExposuresFit
<1> QED
  BY <1>12, <1>13, <1>14 DEF IndInv, TypeOK

-----------------------------------------------------------------------------
\* An answer and what becomes of it

\* Hold set and release cleared, the rest as it was.
Held(d, m) == [d EXCEPT ![HOLD] = 1, ![REL(m)] = 0]

LEMMA HoldAndRelease ==
  ASSUME NEW m \in WdrModes, NEW d \in [Slots -> 0 .. 255]
  PROVE  /\ Held(d, m) \in [Slots -> 0 .. 255]
         /\ Held(d, m)[HOLD] = 1 /\ Held(d, m)[REL(m)] = 0
         /\ \A i \in Slots \ {HOLD, REL(m)} : Held(d, m)[i] = d[i]
<1>1. /\ HOLD \in Slots /\ REL(m) \in Slots /\ HOLD = 0
      /\ REL(m) \in {9, 18} /\ HOLD # REL(m)
  BY Brackets DEF HOLD
<1>2. 0 \in 0 .. 255 /\ 1 \in 0 .. 255
  OBVIOUS
<1> QED
  BY <1>1, <1>2 DEF Held

\* They are no part of an exposure.
LEMMA ExposuresKept ==
  ASSUME IndInv, UNCHANGED <<modeVars, lineVars>>,
         \A i \in Slots \ {HOLD, REL(wdrMode)} : cur'[i] = cur[i]
  PROVE  ExposuresFit'
<1>1. wdrMode \in WdrModes
  BY DEF IndInv, TypeOK, ModesOK
<1>2. HOLD = 0 /\ REL(wdrMode) \in {9, 18}
  BY <1>1, Brackets DEF HOLD
<1>3. \A i \in {1, 2, 3} : i \in Slots \ {HOLD, REL(wdrMode)}
  BY <1>2 DEF Slots
<1>4. wdrMode # Linear => \A i \in 7 .. 12 : i \in Slots \ {HOLD, REL(wdrMode)}
  BY <1>1, <1>2, Brackets DEF Slots
<1>5. /\ Get3(cur', SHS1) = Get3(cur, SHS1)
      /\ wdrMode # Linear => /\ Get3(cur', DOL2_RHS1) = Get3(cur, DOL2_RHS1)
                             /\ Get3(cur', DOL2_SHS2) = Get3(cur, DOL2_SHS2)
  BY <1>3, <1>4 DEF Get3, SHS1, DOL2_RHS1, DOL2_SHS2
<1>6. /\ wdrInt' = wdrInt /\ fl' = fl /\ rhs1Max' = rhs1Max /\ wdrMode' = wdrMode
      /\ stage' = stage
  BY DEF modeVars, lineVars
<1> QED
  BY <1>5, <1>6 DEF IndInv, ExposuresFit

LEMMA ListRegsRight ==
  ASSUME IndInv, ListRegs
  PROVE  IndInv'
<1> USE DEF ListRegs
<1>1. /\ wdrMode \in WdrModes /\ cur \in [Slots -> 0 .. 255]
      /\ delay \in [Slots -> {0, 1}]
  BY DEF IndInv, TypeOK, ModesOK, DataOK
<1>3. /\ cur' \in [Slots -> 0 .. 255] /\ cur'[HOLD] = 1 /\ cur'[REL(wdrMode)] = 0
      /\ \A i \in Slots \ {HOLD, REL(wdrMode)} : cur'[i] = cur[i]
  <2>1. cur' = Held(cur, wdrMode)
    BY DEF Held
  <2> HIDE DEF ListRegs
  <2> QED
    BY <1>1, <2>1, HoldAndRelease
<1>4. Listed(wdrMode) \subseteq Slots /\ {HOLD, REL(wdrMode)} \subseteq Listed(wdrMode)
  BY <1>1 DEF Listed, RegNum, Slots, WdrModes, Wdr, Linear, HOLD, REL
<1>5. /\ delay' \in [Slots -> {0, 1}]
      /\ \A i \in Slots :
           delay'[i] = IF i \in Delayed(wdrMode) THEN 1 ELSE delay[i]
  BY <1>1
<1>6. ModesOK' /\ LinesOK' /\ Frame'
  BY DEF IndInv, TypeOK, ModesOK, LinesOK, Frame, modeVars, lineVars
<1>7. DataOK'
  BY <1>1, <1>3, <1>4, <1>5 DEF IndInv, TypeOK, DataOK
<1>8. IspOK'
  BY DEF IndInv, TypeOK, IspOK, ispVars
<1>9. Modes'
  BY DEF IndInv, Modes, modeVars, ispVars
<1>10. Grouped'
  <2>1. Bracketed(regMode, upd, cur)'
    BY <1>1, <1>3, <1>4 DEF Bracketed
  <2>2. Bracketed(out.mode, out.upd, out.data)' /\ DelaysOf(out.mode, out.delay)'
    BY DEF IndInv, Grouped, Bracketed, DelaysOf, ispVars
  <2>3. DelaysOf(regMode, delay)'
    <3>1. \A i \in Delayed(wdrMode) : i \in Delayed(Wdr) /\ (wdrMode = Linear => i = HCG)
      BY <1>1 DEF Delayed, Wdr, Linear, WdrModes
    <3>2. Delayed(Wdr) \subseteq Slots
      BY DEF Delayed, Wdr, Slots, HCG, DOL2_RHS1, DOL2_VMAX, DOL2_YOUT_SIZE
    <3>3. \A i \in Slots : i \notin Delayed(Wdr) => delay'[i] = 0
      BY <1>5, <3>1 DEF IndInv, Grouped, DelaysOf
    <3>4. CASE wdrMode = Wdr
      BY <1>5, <3>2, <3>3, <3>4 DEF DelaysOf
    <3>5. CASE wdrMode # Wdr
      <4>1. wdrMode = Linear
        BY <1>1, <3>5 DEF WdrModes
      <4>2. \/ \A i \in Delayed(Wdr) : delay[i] = 1
            \/ \A i \in Slots : i # HCG => delay[i] = 0
        BY DEF IndInv, Grouped, DelaysOf
      <4>3. \/ \A i \in Delayed(Wdr) : delay'[i] = 1
            \/ \A i \in Slots : i # HCG => delay'[i] = 0
        <5>1. CASE \A i \in Delayed(Wdr) : delay[i] = 1
          BY <1>5, <3>2, <5>1
        <5>2. CASE \A i \in Slots : i # HCG => delay[i] = 0
          BY <1>5, <3>1, <4>1, <5>2
        <5> QED
          BY <4>2, <5>1, <5>2
      <4> QED
        BY <3>3, <3>5, <4>3 DEF DelaysOf
    <3> QED
      BY <3>4, <3>5
  <2> QED
    BY <2>1, <2>2, <2>3 DEF Grouped
<1>11. ExposuresFit'
  BY <1>3, ExposuresKept DEF ListRegs
<1> QED
  BY <1>6, <1>7, <1>8, <1>9, <1>10, <1>11 DEF IndInv, TypeOK

LEMMA DiffRegsRight ==
  ASSUME IndInv, DiffRegs
  PROVE  IndInv'
<1>1. /\ wdrMode \in WdrModes /\ cur \in [Slots -> 0 .. 255]
      /\ regMode = wdrMode /\ bSyncInit
  BY DEF DiffRegs, MustList, IndInv, TypeOK, ModesOK, DataOK, Modes
<1>2. /\ pc' = "copy" /\ ~waiting
      /\ UNCHANGED <<modeVars, lineVars, prev, delay, regMode, bSyncInit, ispVars,
                     calls>>
  BY DEF DiffRegs
<1>3. \/ upd' = {} /\ cur' = cur
      \/ /\ upd' = Changed \cup {HOLD, REL(wdrMode)}
         /\ cur' = [cur EXCEPT ![HOLD] = 1, ![REL(wdrMode)] = 0]
  BY DEF DiffRegs
<1>4. /\ cur' \in [Slots -> 0 .. 255]
      /\ \A i \in Slots \ {HOLD, REL(wdrMode)} : cur'[i] = cur[i]
      /\ upd' # {} => /\ {HOLD, REL(wdrMode)} \subseteq upd'
                      /\ cur'[HOLD] = 1 /\ cur'[REL(wdrMode)] = 0
      /\ upd' \subseteq Slots
  <2>1. CASE upd' = {} /\ cur' = cur
    BY <1>1, <2>1
  <2>2. CASE /\ upd' = Changed \cup {HOLD, REL(wdrMode)}
             /\ cur' = [cur EXCEPT ![HOLD] = 1, ![REL(wdrMode)] = 0]
    <3>1. /\ cur' \in [Slots -> 0 .. 255] /\ cur'[HOLD] = 1 /\ cur'[REL(wdrMode)] = 0
          /\ \A i \in Slots \ {HOLD, REL(wdrMode)} : cur'[i] = cur[i]
      <4>1. cur' = Held(cur, wdrMode)
        BY <2>2 DEF Held
      <4> QED
        BY <1>1, <4>1, HoldAndRelease
    <3>2. Changed \subseteq Slots
      BY <1>1 DEF Changed, Listed, RegNum, Slots, WdrModes, Wdr, Linear
    <3>3. HOLD \in Slots /\ REL(wdrMode) \in Slots
      BY <1>1, Brackets
    <3> QED
      BY <2>2, <3>1, <3>2, <3>3
  <2> QED
    BY <1>3, <2>1, <2>2
<1>5. ModesOK' /\ LinesOK' /\ Frame'
  BY <1>2 DEF IndInv, TypeOK, ModesOK, LinesOK, Frame, modeVars, lineVars
<1>6. DataOK'
  BY <1>2, <1>4 DEF IndInv, TypeOK, DataOK
<1>7. IspOK'
  BY <1>2 DEF IndInv, TypeOK, IspOK, ispVars
<1>8. Modes'
  BY <1>1, <1>2 DEF IndInv, Modes, modeVars, ispVars
<1>9. Grouped'
  <2>1. Bracketed(regMode, upd, cur)'
    BY <1>1, <1>2, <1>4 DEF Bracketed
  <2>2. /\ Bracketed(out.mode, out.upd, out.data)' /\ DelaysOf(out.mode, out.delay)'
        /\ DelaysOf(regMode, delay)'
    BY <1>2 DEF IndInv, Grouped, Bracketed, DelaysOf, ispVars
  <2> QED
    BY <2>1, <2>2 DEF Grouped
<1>10. ExposuresFit'
  BY <1>2, <1>4, ExposuresKept
<1> QED
  BY <1>5, <1>6, <1>7, <1>8, <1>9, <1>10 DEF IndInv, TypeOK

LEMMA CopyOutRight ==
  ASSUME IndInv, CopyOut
  PROVE  IndInv'
<1> USE DEF IndInv, TypeOK, CopyOut, modeVars, lineVars, regVars
<1>1. ModesOK' /\ LinesOK' /\ DataOK' /\ Frame'
  BY DEF ModesOK, LinesOK, DataOK, Frame
<1>2. IspOK'
  BY DEF DataOK, IspOK
<1>3. Modes'
  BY DEF Modes
<1>4. Grouped'
  BY DEF Grouped, Bracketed, DelaysOf
<1>5. ExposuresFit'
  BY DEF ExposuresFit, Get3
<1> QED
  BY <1>1, <1>2, <1>3, <1>4, <1>5

LEMMA RememberRight ==
  ASSUME IndInv, Remember
  PROVE  IndInv'
<1> USE DEF IndInv, TypeOK, Remember, modeVars, regVars
<1>1. ModesOK' /\ DataOK' /\ IspOK'
  BY DEF ModesOK, DataOK, IspOK
<1>2. LinesOK' /\ Frame'
  BY DEF LinesOK, Frame
<1>3. Modes'
  BY DEF Modes
<1>4. Grouped'
  BY DEF Grouped, Bracketed, DelaysOf
<1>5. ExposuresFit'
  BY DEF ExposuresFit, Get3
<1> QED
  BY <1>1, <1>2, <1>3, <1>4, <1>5

\* What is written to the sensor are bytes.
LEMMA WrittenBytes ==
  ASSUME NEW m, NEW slots \in SUBSET Slots, NEW data \in [Slots -> 0 .. 255],
         held \in [Addrs -> 0 .. 255]
  PROVE  Written(m, slots, data) \in [Addrs -> 0 .. 255]
<1> SUFFICES ASSUME NEW a \in Addrs
             PROVE  Written(m, slots, data)[a] \in 0 .. 255
  BY DEF Written
<1>1. CASE \E i \in slots \cap Payload(m) : Addr(m, i) = a
  <2> DEFINE c == CHOOSE i \in slots \cap Payload(m) : Addr(m, i) = a
  <2>1. c \in slots \cap Payload(m)
    BY <1>1
  <2>2. Written(m, slots, data)[a] = data[c]
    BY <1>1 DEF Written
  <2> QED
    BY <2>1, <2>2
<1>2. CASE ~ \E i \in slots \cap Payload(m) : Addr(m, i) = a
  BY <1>2 DEF Written
<1> QED
  BY <1>1, <1>2

LEMMA ApplyRight ==
  ASSUME IndInv, Apply
  PROVE  IndInv'
<1> USE DEF IndInv, TypeOK, Apply, modeVars, lineVars, regVars
<1>1. ModesOK' /\ LinesOK' /\ DataOK' /\ Frame'
  BY DEF ModesOK, LinesOK, DataOK, Frame
<1>2. IspOK'
  <2>1. /\ out.upd \in SUBSET Slots /\ out.data \in [Slots -> 0 .. 255]
        /\ held \in [Addrs -> 0 .. 255]
    BY DEF IspOK
  <2>2. Written(out.mode, out.upd, out.data) \in [Addrs -> 0 .. 255]
    BY <2>1, WrittenBytes
  <2> QED
    BY <2>2 DEF IspOK
<1>3. Modes'
  BY DEF Modes
<1>4. Grouped'
  BY DEF Grouped, Bracketed, DelaysOf
<1>5. ExposuresFit'
  BY DEF ExposuresFit, Get3
<1> QED
  BY <1>1, <1>2, <1>3, <1>4, <1>5

LEMMA LoseRight ==
  ASSUME IndInv, Lose
  PROVE  IndInv'
<1> USE DEF IndInv, TypeOK, Lose, modeVars, lineVars, regVars
<1>1. ModesOK' /\ LinesOK' /\ DataOK' /\ Frame'
  BY DEF ModesOK, LinesOK, DataOK, Frame
<1>5. IspOK'
  BY DEF IspOK
<1>2. Modes'
  BY DEF Modes
<1>3. Grouped'
  BY DEF Grouped, Bracketed, DelaysOf
<1>4. ExposuresFit'
  BY DEF ExposuresFit, Get3
<1> QED
  BY <1>1, <1>2, <1>3, <1>4, <1>5

LEMMA SensorInitRight ==
  ASSUME IndInv, SensorInit
  PROVE  IndInv'
<1> USE DEF IndInv, TypeOK, SensorInit, Call, lineVars, regVars
<1>1. ModesOK' /\ LinesOK' /\ DataOK' /\ Frame'
  BY DEF ModesOK, LinesOK, DataOK, Frame
<1>2. IspOK'
  <2>1. held' \in [Addrs -> 0 .. 255]
    <3> SUFFICES ASSUME NEW a \in Addrs, Supported,
                        \E i \in Payload(regMode) : Addr(regMode, i) = a
                 PROVE  cur[CHOOSE i \in Payload(regMode) : Addr(regMode, i) = a]
                          \in 0 .. 255
      OBVIOUS
    <3> DEFINE c == CHOOSE i \in Payload(regMode) : Addr(regMode, i) = a
    <3>1. c \in Payload(regMode)
      OBVIOUS
    <3>2. c \in Slots
      <4>1. regMode \in WdrModes \/ regMode = "none"
        BY DEF DataOK
      <4>2. Payload("none") = {}
        BY DEF Payload, RegNum, Wdr, Linear
      <4> HIDE DEF c
      <4> QED
        BY <3>1, <4>1, <4>2, AddressesKnown
    <3> QED
      BY <3>2 DEF DataOK
  <2> QED
    BY <2>1, CallAssumption DEF IspOK
<1>3. Modes'
  BY DEF Modes
<1>4. Grouped'
  BY DEF Grouped, Bracketed, DelaysOf
<1>5. ExposuresFit'
  BY DEF ExposuresFit, Get3
<1> QED
  BY <1>1, <1>2, <1>3, <1>4, <1>5

-----------------------------------------------------------------------------
\* The invariant holds throughout

LEMMA StepRight == IndInv /\ [Next]_vars => IndInv'
<1> SUFFICES ASSUME IndInv, [Next]_vars
             PROVE  IndInv'
  OBVIOUS
<1>1. CASE GlobalInit
  BY <1>1, GlobalInitRight
<1>2. CASE RefuseMode
  BY <1>2, RefuseModeRight
<1>3. CASE SensorInit
  BY <1>3, SensorInitRight
<1>4. CASE \E m \in WdrModes : SetWdrMode(m)
  BY <1>4, SetWdrModeRight
<1>5. CASE \E fps \in Rates : SetImageMode(fps) \/ FpsSet(fps)
  BY <1>5, SetImageModeRight, FpsSetRight
<1>6. CASE \E t \in IntTimes : IntTimeLinear(t)
  BY <1>6, IntTimeLinearRight
<1>7. CASE IntTimeWdrAny
  BY <1>7, IntTimeWdrRight DEF IntTimeWdrAny
<1>8. CASE \E g \in Gains : GainsUpdate(g)
  BY <1>8, GainsUpdateRight
<1>9. CASE GetRegsInfo
  BY <1>9, ListRegsRight, DiffRegsRight, CopyOutRight, RememberRight DEF GetRegsInfo
<1>10. CASE Apply
  BY <1>10, ApplyRight
<1>11. CASE Lose
  BY <1>11, LoseRight
<1>12. CASE UNCHANGED vars
  <2> USE <1>12 DEF IndInv, TypeOK, vars, modeVars, lineVars, regVars, ispVars
  <2>1. ModesOK' /\ LinesOK' /\ DataOK' /\ Frame'
    BY DEF ModesOK, LinesOK, DataOK, Frame
  <2>2. IspOK'
    BY DEF IspOK
  <2>3. Modes' /\ Grouped'
    BY DEF Modes, Grouped, Bracketed, DelaysOf
  <2>4. ExposuresFit'
    BY DEF ExposuresFit, Get3
  <2> QED
    BY <2>1, <2>2, <2>3, <2>4
<1> QED
  BY <1>1, <1>2, <1>3, <1>4, <1>5, <1>6, <1>7, <1>8, <1>9, <1>10, <1>11, <1>12
     DEF Next

THEOREM Invariance == Spec => []IndInv
BY InitRight, StepRight, PTL DEF Spec

\* The driver's state keeps its types whatever the AE asks for: the registers
\* hold bytes, and no number of lines becomes negative.
THEOREM TypeCorrect == Spec => []TypeOK
<1>1. IndInv => TypeOK
  BY DEF IndInv
<1> QED
  BY <1>1, Invariance, PTL

\* The registers of an answer change together (cmos_get_sns_regs_info): they
\* lie between hold and release, and the bytes of a word have one delay, in WDR
\* always and in linear mode exactly as long as WDR was not listed before.
THEOREM TogetherRight == Spec => []WritesTogether
<1>1. IndInv => WritesTogether
  <2> SUFFICES ASSUME IndInv
               PROVE  WritesTogether
    OBVIOUS
  <2>1. /\ Bracketed(out.mode, out.upd, out.data) /\ DelaysOf(out.mode, out.delay)
        /\ out.mode \in WdrModes \cup {"none"}
    BY DEF IndInv, Grouped, TypeOK, IspOK
  <2>2. ASSUME out.upd # {}
        PROVE  /\ {HOLD, REL(out.mode)} \subseteq out.upd
               /\ out.data[HOLD] = 1 /\ out.data[REL(out.mode)] = 0
    BY <2>1, <2>2 DEF Bracketed
  <2> DEFINE d == out.delay
             late == {5, 7, 8, 9, 13, 14, 15, 16, 17}
             prompt == {0, 1, 2, 3, 10, 11, 12, 18}
  <2>3. Delayed(Wdr) = late /\ HCG = 5
    BY DEF Delayed, HCG, DOL2_RHS1, DOL2_VMAX, DOL2_YOUT_SIZE
  <2>4. \A i \in prompt : d[i] = 0
    <3>1. \A i \in Slots : i \notin late => d[i] = 0
      BY <2>1, <2>3 DEF DelaysOf
    <3> HIDE DEF d
    <3> QED
      BY <3>1 DEF Slots
  <2>5. /\ HOLD = 0 /\ DOL2_YOUT_SIZE = 16
        /\ REL(Wdr) = 18 /\ REL(Linear) = 9
    BY Brackets DEF WdrModes, HOLD, DOL2_YOUT_SIZE
  <2>6. \/ \A i \in late : d[i] = 1
        \/ out.mode # Wdr /\ d[6] = 0 /\ \A i \in late : i # 5 => d[i] = 0
    <3>1. \/ \A i \in late : d[i] = 1
          \/ out.mode # Wdr /\ \A i \in Slots : i # 5 => d[i] = 0
      BY <2>1, <2>3 DEF DelaysOf
    <3> HIDE DEF d
    <3> QED
      BY <3>1 DEF Slots
  <2>7. ASSUME out.mode = Wdr
        PROVE  /\ \A w \in Words(Wdr) : OneDelay(w)
               /\ d[REL(Wdr)] = 0
    <3>1. \A i \in late : d[i] = 1
      BY <2>6, <2>7
    <3>2. Words(Wdr) = {<<1, 3>>, <<7, 3>>, <<10, 3>>, <<13, 3>>, <<16, 2>>}
      BY DEF Words, SHS1, DOL2_RHS1, DOL2_SHS2, DOL2_VMAX, DOL2_YOUT_SIZE
    <3> HIDE DEF d
    <3>3. /\ \A k \in 0 .. 2 : /\ d[1 + k] = d[1] /\ d[7 + k] = d[7]
                               /\ d[10 + k] = d[10] /\ d[13 + k] = d[13]
          /\ \A k \in 0 .. 1 : d[16 + k] = d[16]
      BY <2>4, <3>1
    <3>4. \A w \in Words(Wdr) : \A k \in 0 .. w[2] - 1 : d[w[1] + k] = d[w[1]]
      BY <3>2, <3>3
    <3> QED
      BY <2>4, <2>5, <3>4 DEF OneDelay, d
  <2>8. ASSUME out.mode = Linear
        PROVE  /\ OneDelay(<<SHS1, 3>>)
               /\ OneDelay(<<LINEAR_VMAX, 3>>) <=> ~LeftByWdr
               /\ d[REL(Linear)] = 0 <=> ~LeftByWdr
    <3>1. /\ OneDelay(<<SHS1, 3>>) <=> \A k \in 0 .. 2 : d[1 + k] = d[1]
          /\ OneDelay(<<LINEAR_VMAX, 3>>) <=> \A k \in 0 .. 2 : d[6 + k] = d[6]
          /\ LeftByWdr <=> d[16] = 1
      BY <2>5 DEF OneDelay, SHS1, LINEAR_VMAX, LeftByWdr
    <3>2. d[6] = 0
      <4>1. 6 \in Slots /\ 6 \notin Delayed(Wdr)
        BY <2>3 DEF Slots
      <4> QED
        BY <2>1, <4>1 DEF DelaysOf
    <3> HIDE DEF d
    <3>3. \A k \in 0 .. 2 : d[1 + k] = d[1]
      BY <2>4
    <3>4. CASE \A i \in late : d[i] = 1
      <4>1. d[16] = 1 /\ d[9] = 1 /\ d[7] = 1
        BY <3>4
      <4>2. ~ \A k \in 0 .. 2 : d[6 + k] = d[6]
        BY <3>2, <4>1
      <4> QED
        BY <2>5, <3>1, <3>3, <4>1, <4>2
    <3>5. CASE \A i \in late : i # 5 => d[i] = 0
      <4>1. d[16] = 0 /\ d[9] = 0 /\ d[7] = 0 /\ d[8] = 0
        BY <3>5
      <4>2. \A k \in 0 .. 2 : d[6 + k] = d[6]
        BY <3>2, <4>1
      <4> QED
        BY <2>5, <3>1, <3>3, <4>1, <4>2
    <3> QED
      BY <2>6, <3>4, <3>5
  <2> QED
    BY <2>2, <2>4, <2>5, <2>7, <2>8 DEF WritesTogether
<1> QED
  BY <1>1, Invariance, PTL

\* Exposures within the limits of cmos_get_inttime_max fit into the frame, in
\* both modes, at every rate and for every choice of the AE.
THEOREM ExposuresRight == Spec => []ExposuresFit
<1>1. IndInv => ExposuresFit
  BY DEF IndInv
<1> QED
  BY <1>1, Invariance, PTL

-----------------------------------------------------------------------------
\* Nothing gets lost on the way to the sensor

\* Writing an answer leaves each register with the data it was answered with,
\* if what is not written was there already.
LEMMA WrittenRight ==
  ASSUME NEW m \in WdrModes, NEW slots, NEW data,
         \A i \in Payload(m) : i \in slots \/ held[Addr(m, i)] = data[i]
  PROVE  \A i \in Payload(m) : Written(m, slots, data)[Addr(m, i)] = data[i]
<1> SUFFICES ASSUME NEW i \in Payload(m)
             PROVE  Written(m, slots, data)[Addr(m, i)] = data[i]
  OBVIOUS
<1>1. Addr(m, i) \in Addrs
  BY AddressesKnown
<1>2. CASE i \in slots
  <2> DEFINE P(j) == j \in slots \cap Payload(m) /\ Addr(m, j) = Addr(m, i)
             c == CHOOSE j \in slots \cap Payload(m) : Addr(m, j) = Addr(m, i)
  <2>1. c \in slots \cap Payload(m) /\ Addr(m, c) = Addr(m, i)
    BY <1>2
  <2>2. c = i
    <3> HIDE DEF c
    <3> QED
      BY <2>1, AddressesDiffer
  <2>3. Written(m, slots, data)[Addr(m, i)] = data[c]
    BY <1>1, <1>2 DEF Written
  <2> QED
    BY <2>2, <2>3
<1>3. CASE i \notin slots
  <2>1. ~ \E j \in slots \cap Payload(m) : Addr(m, j) = Addr(m, i)
    BY <1>3, AddressesDiffer
  <2>2. Written(m, slots, data)[Addr(m, i)] = held[Addr(m, i)]
    BY <1>1, <2>1 DEF Written
  <2> QED
    BY <1>3, <2>2
<1> QED
  BY <1>2, <1>3

\* With the callbacks on the ISP's thread, what a step leaves alone keeps the
\* delivery.
LEMMA DeliveryKept ==
  ASSUME Delivery,
         UNCHANGED <<imgMode, wdrMode, prev, upd, regMode, bSyncInit, pc, out,
                     waiting, bConfig, held>>,
         pc = "idle" \/ cur' = cur
  PROVE  Delivery'
BY DEF Delivery, Covered, Supported

LEMMA DeliveryStep ==
  ASSUME ~OtherThread, IndInv, Delivery, [Next]_vars
  PROVE  Delivery'
<1>1. CASE GlobalInit \/ RefuseMode
  BY <1>1 DEF GlobalInit, RefuseMode, Delivery
<1>2. CASE \E m \in WdrModes : SetWdrMode(m)
  BY <1>2 DEF SetWdrMode, Delivery
<1>3. CASE \E fps \in Rates : SetImageMode(fps)
  BY <1>3 DEF SetImageMode, Delivery
<1>4. CASE \E fps \in Rates : FpsSet(fps)
  BY <1>4, DeliveryKept DEF FpsSet, Call, modeVars, regVars, ispVars
<1>5. CASE \E t \in IntTimes : IntTimeLinear(t)
  BY <1>5, DeliveryKept DEF IntTimeLinear, Call, modeVars, regVars, ispVars
<1>6. CASE IntTimeWdrAny
  BY <1>6, DeliveryKept DEF IntTimeWdrAny, IntTimeWdr, Call, modeVars, regVars, ispVars
<1>7. CASE \E g \in Gains : GainsUpdate(g)
  BY <1>7, DeliveryKept DEF GainsUpdate, Call, modeVars, regVars, ispVars
<1>8. CASE ListRegs
  <2>1. upd' = Listed(wdrMode) /\ regMode' = wdrMode /\ pc' = "copy" /\ ~waiting'
    BY <1>8 DEF ListRegs, ispVars
  <2>2. Payload(wdrMode) \subseteq Listed(wdrMode)
    BY DEF Payload, Listed, RegNum, Wdr, Linear
  <2> QED
    BY <2>1, <2>2 DEF Delivery, Covered
<1>9. CASE DiffRegs
  <2>1. /\ bSyncInit /\ bConfig /\ pc = "idle" /\ pc' = "copy" /\ ~waiting'
        /\ UNCHANGED <<modeVars, prev, regMode, bSyncInit, ispVars>>
        /\ regMode = wdrMode /\ wdrMode \in WdrModes /\ cur \in [Slots -> 0 .. 255]
    BY <1>9 DEF DiffRegs, MustList, ispVars, IndInv, Modes, TypeOK, ModesOK, DataOK
  <2>2. /\ \A i \in Payload(wdrMode) : cur'[i] = cur[i]
        /\ \A i \in Payload(wdrMode) : i \in upd' \/ cur[i] = prev[i]
    <3>1. Payload(wdrMode) \subseteq Listed(regMode)
      BY <2>1 DEF Payload, Listed, RegNum, Wdr, Linear
    <3>2. \A i \in Payload(wdrMode) : i \in Slots \ {HOLD, REL(wdrMode)}
      BY <2>1, AddressesKnown
    <3>3. CASE upd' = {} /\ cur' = cur /\ Changed = {}
      BY <3>1, <3>3 DEF Changed
    <3>4. CASE /\ upd' = Changed \cup {HOLD, REL(wdrMode)}
               /\ cur' = [cur EXCEPT ![HOLD] = 1, ![REL(wdrMode)] = 0]
      <4>1. cur' = Held(cur, wdrMode)
        BY <3>4 DEF Held
      <4>2. \A i \in Slots \ {HOLD, REL(wdrMode)} : cur'[i] = cur[i]
        BY <2>1, <4>1, HoldAndRelease
      <4>3. \A i \in Payload(wdrMode) : i \in upd' \/ cur[i] = prev[i]
        BY <3>1, <3>4 DEF Changed
      <4> QED
        BY <3>2, <4>2, <4>3
    <3> QED
      BY <1>9, <3>3, <3>4 DEF DiffRegs
  <2>3. ASSUME Supported
        PROVE  Covered(upd, cur)'
    <3>1. \A i \in Payload(regMode) : held[Addr(regMode, i)] = prev[i]
      BY <2>1, <2>3 DEF Delivery, Covered
    <3> QED
      BY <2>1, <2>2, <3>1 DEF Covered, ispVars
  <2> QED
    BY <2>1, <2>3 DEF Delivery, Supported, modeVars
<1>10. CASE CopyOut
  <2>1. /\ pc = "copy" /\ pc' = "remember" /\ ~bConfig' /\ ~waiting'
        /\ out' = [mode |-> regMode, upd |-> upd, data |-> cur, delay |-> delay]
        /\ UNCHANGED <<imgMode, wdrMode, cur, regMode, bSyncInit, held>>
    BY <1>10 DEF CopyOut, IndInv, Modes, modeVars, regVars
  <2> QED
    BY <2>1 DEF Delivery, Covered, Supported
<1>11. CASE Remember
  <2>1. /\ pc = "remember" /\ pc' = "idle" /\ ~bConfig' /\ prev' = cur
        /\ UNCHANGED <<imgMode, wdrMode, cur, regMode, bSyncInit, held, out>>
    BY <1>11 DEF Remember, IndInv, Modes, modeVars, regVars
  <2> QED
    BY <2>1 DEF Delivery, Covered, Supported
<1>12. CASE Apply
  <2>1. /\ waiting /\ ~waiting' /\ held' = Written(out.mode, out.upd, out.data)
        /\ UNCHANGED <<imgMode, wdrMode, cur, prev, regMode, bSyncInit, pc, out>>
    BY <1>12 DEF Apply, modeVars, regVars
  <2>2. pc = "idle" /\ (bSyncInit => regMode = wdrMode) /\ wdrMode \in WdrModes
    BY <2>1 DEF IndInv, Modes, TypeOK, ModesOK, IspOK
  <2>3. ASSUME bSyncInit, Supported
        PROVE  Covered({}, prev)'
    <3>1. out.mode = regMode /\ out.data = prev /\ Covered(out.upd, prev)
      BY <2>1, <2>3 DEF Delivery
    <3>2. \A i \in Payload(regMode) :
            Written(regMode, out.upd, prev)[Addr(regMode, i)] = prev[i]
      BY <2>2, <2>3, <3>1, WrittenRight DEF Covered
    <3> QED
      BY <2>1, <3>1, <3>2 DEF Covered
  <2> QED
    BY <2>1, <2>2, <2>3 DEF Delivery, Supported
<1>13. CASE Lose
  <2>1. /\ waiting /\ ~waiting' /\ ~bConfig'
        /\ UNCHANGED <<imgMode, wdrMode, cur, prev, upd, regMode, bSyncInit, pc, out,
                       held>>
    BY <1>13 DEF Lose, IndInv, Modes, modeVars, regVars
  <2> QED
    BY <2>1 DEF Delivery, Covered, Supported
<1>14. CASE SensorInit
  <2>1. /\ pc = "idle" /\ ~waiting /\ cur = prev
        /\ UNCHANGED <<imgMode, wdrMode, cur, prev, regMode, bSyncInit, pc, waiting>>
    BY <1>14 DEF SensorInit, Call, regVars
  <2>2. ASSUME bSyncInit, Supported
        PROVE  Covered({}, prev)'
    <3>1. regMode \in WdrModes
      BY <2>2 DEF IndInv, Modes, TypeOK, ModesOK
    <3> SUFFICES ASSUME NEW i \in Payload(regMode)
                 PROVE  held'[Addr(regMode, i)] = prev[i]
      BY <2>1 DEF Covered
    <3> DEFINE c == CHOOSE j \in Payload(regMode) : Addr(regMode, j) = Addr(regMode, i)
    <3>2. Addr(regMode, i) \in Addrs
      BY <3>1, AddressesKnown
    <3>3. held'[Addr(regMode, i)] = cur[c]
      BY <1>14, <2>2, <3>2 DEF SensorInit
    <3>4. c \in Payload(regMode) /\ Addr(regMode, c) = Addr(regMode, i)
      OBVIOUS
    <3> HIDE DEF c
    <3>5. c = i
      BY <3>1, <3>4, AddressesDiffer
    <3> QED
      BY <2>1, <3>3, <3>5
  <2> QED
    BY <2>1, <2>2 DEF Delivery, Supported
<1>15. CASE UNCHANGED vars
  BY <1>15, DeliveryKept DEF vars, modeVars, regVars, ispVars
<1> QED
  BY <1>1, <1>2, <1>3, <1>4, <1>5, <1>6, <1>7, <1>8, <1>9, <1>10, <1>11, <1>12,
     <1>13, <1>14, <1>15 DEF Next, GetRegsInfo

\* Once the ISP has taken an answer over, the sensor has what the driver
\* compares with (astSyncInfo[1]), whatever was lost, however the mode changed
\* and whenever the sensor was initialised again.
THEOREM DeliveryRight ==
  ASSUME ~OtherThread
  PROVE  Spec => []ConfirmedIsHeld
<1>1. Init => Delivery
  BY DEF Init, Delivery
<1>2. IndInv /\ Delivery /\ [Next]_vars => Delivery'
  BY DeliveryStep
<1>3. Delivery => ConfirmedIsHeld
  BY DEF Delivery, Covered, ConfirmedIsHeld
<1> QED
  BY <1>1, <1>2, <1>3, Invariance, PTL DEF Spec
=============================================================================
