--------------------------- MODULE OsdCmprProofs ---------------------------
(***************************************************************************)
(* Proofs about OsdCmpr, for any picture, cache size, length of runs and   *)
(* truncation.                                                             *)
(*                                                                         *)
(* The invariant says of the pending run which pixels it stands for (those *)
(* that the decoder has not written and that are not left over), that they *)
(* have its colour, and that reading it will bring the two caches          *)
(* together.  WriteRight is the heart of it: from that, the decoder makes  *)
(* of the bits of the run what the encoder meant.                          *)
(***************************************************************************)
EXTENDS OsdCmpr, TLAPS, WellFoundedInduction

Rgb == [a : Nat, c : Nat]
Caches(d) == [0 .. Size(d) - 1 -> Rgb]

\* The pending run stands for the pixels after those the decoder has written
\* and before those that are left over.
Counted ==
  /\ pos <= N
  /\ api = "frame" => left = 0
  /\ api = "canvas" => depth > 0
  /\ md = "palette" => depth > 0
  /\ left > 0 => md # "none" /\ rl = MaxRun
  /\ phase = "end" => md # "none" /\ left = 0
  /\ md = "none" => pos = 0 /\ done = 0 /\ left = 0
  /\ phase = "draw" /\ md # "none" => pos = done + rl + left /\ rl \in 1 .. MaxRun

\* Its pixels, and those left over, have its colour.
Pending == phase = "draw" => \A i \in done + 1 .. pos : Pixel(i) = last

\* No pixel has cost more than a literal one.
BitsCounted == bits <= done * (LitBits + 1)

IndInv ==
  /\ TypeOK
  /\ Counted
  /\ Pending
  /\ BitsCounted
  /\ RoundTrip
  /\ CachesAgree

-----------------------------------------------------------------------------
\* Numbers

\* Products keep the order.
LEMMA TimesMonotone ==
  ASSUME NEW a \in Nat, NEW b \in Nat, NEW k \in Nat, a <= b
  PROVE  a * k \in Nat /\ b * k \in Nat /\ a * k <= b * k
<1>1. a * k \in Nat /\ b * k \in Nat
  OBVIOUS
<1>2. PICK d \in Nat : b = a + d
  <2>1. b - a \in Nat /\ b = a + (b - a)
    OBVIOUS
  <2>2. QED
    BY <2>1
<1>3. b * k = a * k + d * k
  BY <1>2
<1>4. d * k \in Nat
  OBVIOUS
<1>5. QED
  BY <1>1, <1>3, <1>4

\* Products distribute over sums.
LEMMA TimesPlus ==
  ASSUME NEW a \in Nat, NEW b \in Nat, NEW k \in Nat
  PROVE  (a + b) * k = a * k + b * k
OBVIOUS

\* A quotient of a number is a number.
LEMMA QuotientNat ==
  ASSUME NEW v \in Nat, NEW k \in Nat \ {0}
  PROVE  v \div k \in Nat
OBVIOUS

\* The powers of two that occur are positive.
LEMMA Powers ==
  /\ MaxRun \in Nat \ {0}
  /\ \A d \in Depths : Size(d) \in Nat \ {0} /\ d \in Nat
  /\ RunBits \in Nat /\ LitBits \in Nat /\ N \in Nat \ {0}
BY CmprAssumption, PowerAssumption DEF MaxRun, Size

-----------------------------------------------------------------------------
\* Pixels and caches

\* A preprocessed pixel is a pixel.
LEMMA PreprocessType ==
  ASSUME NEW p \in Rgb
  PROVE  Preprocess(p) \in Rgb
<1>1. ASSUME NEW v \in Nat, NEW b, 2 ^ b \in Nat \ {0}
      PROVE  Truncate(v, b) \in Nat
  <2>1. v \div 2 ^ b \in Nat
    BY <1>1, QuotientNat
  <2>2. ASSUME NEW q \in Nat, NEW k \in Nat
        PROVE  q * k \in Nat
    OBVIOUS
  <2>3. QED
    BY <1>1, <2>1, <2>2 DEF Truncate
<1>2. p.a \in Nat /\ p.c \in Nat
  BY DEF Rgb
<1>3. Truncate(p.a, AlphaTrunc) \in Nat /\ Truncate(p.c, RgbTrunc) \in Nat
  BY <1>1, <1>2, PowerAssumption
<1>4. QED
  BY <1>3 DEF Preprocess, Rgb

\* Every pixel of the picture is one.
LEMMA PixelType ==
  ASSUME TypeOK, NEW i \in 1 .. N
  PROVE  Pixel(i) \in Rgb /\ image[i] \in Rgb
<1>1. image[i] \in Rgb
  BY CmprAssumption DEF TypeOK, Rgb
<1>2. QED
  BY <1>1, PreprocessType DEF Pixel

\* The cache of the start is a cache.
LEMMA InitCacheType ==
  ASSUME NEW d \in Depths
  PROVE  InitCache(d) \in Caches(d)
<1>1. 256 \div Size(d) \in Nat
  BY Powers, QuotientNat
<1>2. ASSUME NEW i \in Nat, NEW q \in Nat
      PROVE  Gray(IF i * q > 255 THEN 255 ELSE i * q) \in Rgb
  BY DEF Gray, Rgb
<1>3. \A i \in 0 .. Size(d) - 1 : InitCache(d)[i] \in Rgb
  BY <1>1, <1>2, Powers DEF InitCache
<1>4. QED
  BY <1>3 DEF InitCache, Caches

\* A colour that is hit has a place, and it is there.
LEMMA PlaceRight ==
  ASSUME NEW d \in Depths, NEW h \in Caches(d), NEW c, Hit(h, c)
  PROVE  Place(h, c) \in 0 .. Size(d) - 1 /\ h[Place(h, c)] = c
<1> DEFINE T == {i \in DOMAIN h : h[i] = c}
<1>1. DOMAIN h = 0 .. Size(d) - 1 /\ 0 .. Size(d) - 1 \subseteq Nat
  BY Powers DEF Caches
<1>2. T \subseteq Nat /\ T # {}
  BY <1>1 DEF Hit
<1>3. PICK k \in T : \A j \in T : ~ (<<j, k>> \in OpToRel(<, Nat))
  BY <1>2, WFMin, NatLessThanWellFounded, Zenon
<1>4. \A j \in T : ~ (j < k)
  BY <1>2, <1>3, Zenon DEF OpToRel
<1>5. \A j \in 0 .. k - 1 : h[j] # c
  BY <1>1, <1>2, <1>4, Powers
<1>6. \E i \in DOMAIN h : h[i] = c /\ \A j \in 0 .. i - 1 : h[j] # c
  BY <1>3, <1>5
<1>7. Place(h, c) \in DOMAIN h /\ h[Place(h, c)] = c
  BY <1>6, Zenon DEF Place
<1>8. QED
  BY <1>1, <1>7

\* The two ways to change a cache give a cache with the colour in front.
LEMMA ToFrontRight ==
  ASSUME NEW d \in Depths, NEW h \in Caches(d), NEW i \in 0 .. Size(d) - 1
  PROVE  ToFront(h, i) \in Caches(d) /\ ToFront(h, i)[0] = h[i]
BY Powers DEF ToFront, Caches

LEMMA PushRight ==
  ASSUME NEW d \in Depths, NEW h \in Caches(d), NEW c \in Rgb
  PROVE  Push(h, c) \in Caches(d) /\ Push(h, c)[0] = c
BY Powers DEF Push, Caches

-----------------------------------------------------------------------------
\* Writing the pending run

\* The decoder finds the mode that was written, whatever bits come after it.
LEMMA PeekRight ==
  ASSUME md \in {"palette", "literal"}, md = "palette" => depth > 0, depth \in Nat,
         NEW len \in Nat,
         NEW v \in Peeked(Prefix(md, len))
  PROVE  ModeOf(v)[1] = md /\ (ModeOf(v)[2] <=> len > 1)
<1> DEFINE p == Prefix(md, len)
<1>1. v \in 0 .. 7
  BY Zenon DEF Peeked
<1>2. p[1] = CASE p[2] = 3 -> v [] p[2] = 2 -> v % 4 [] OTHER -> v % 2
  BY Zenon DEF Peeked
<1>3. /\ p[2] = 3 => p[1] = v
      /\ p[2] = 2 => p[1] = v % 4
      /\ p[2] = 1 => p[1] = v % 2
  BY <1>2
<1>4. CASE depth > 0 /\ md = "palette" /\ len > 1
  <2>1. p[1] = 0 /\ p[2] = 3
    BY <1>4 DEF Prefix
  <2>2. v = 0
    BY <1>3, <2>1
  <2>3. QED
    BY <1>4, <2>2 DEF ModeOf
<1>5. CASE depth > 0 /\ md = "palette" /\ ~(len > 1)
  <2>1. p[1] = 2 /\ p[2] = 2
    BY <1>5 DEF Prefix
  <2>2. v % 4 = 2 /\ v # 0 /\ v # 4
    BY <1>1, <1>3, <2>1
  <2>3. QED
    BY <1>5, <2>2 DEF ModeOf
<1>6. CASE depth > 0 /\ md = "literal" /\ len > 1
  <2>1. p[1] = 4 /\ p[2] = 3
    BY <1>6 DEF Prefix
  <2>2. v = 4
    BY <1>3, <2>1
  <2>3. QED
    BY <1>6, <2>2 DEF ModeOf
<1>7. CASE depth > 0 /\ md = "literal" /\ ~(len > 1)
  <2>1. p[1] = 1 /\ p[2] = 1
    BY <1>7 DEF Prefix
  <2>2. v # 0 /\ v # 4 /\ v % 4 # 2
    BY <1>1, <1>3, <2>1
  <2>3. QED
    BY <1>7, <2>2 DEF ModeOf
<1>8. CASE ~(depth > 0)
  <2>1. p[1] = (IF len > 1 THEN 0 ELSE 1) /\ p[2] = 1
    BY <1>8 DEF Prefix
  <2>2. (v % 2 = 0) <=> len > 1
    BY <1>3, <2>1
  <2>3. md = "literal"
    BY <1>8
  <2>4. CASE len > 1
    <3>1. ModeOf(v) = <<"literal", TRUE>>
      BY <1>8, <2>2, <2>4 DEF ModeOf
    <3>2. QED
      BY <2>3, <2>4, <3>1
  <2>5. CASE ~(len > 1)
    <3>1. ModeOf(v) = <<"literal", FALSE>>
      BY <1>8, <2>2, <2>5 DEF ModeOf
    <3>2. QED
      BY <2>3, <2>5, <3>1
  <2>6. QED
    BY <2>4, <2>5
<1>9. QED
  BY <1>4, <1>5, <1>6, <1>7, <1>8

\* A run costs no more than its pixels as literals.
LEMMA RunCost ==
  ASSUME depth \in Depths, NEW len \in Nat \ {0}
  PROVE  BitsOf(md, len) \in Nat /\ BitsOf(md, len) <= len * (LitBits + 1)
<1>1. depth \in Nat /\ depth < LitBits /\ RunBits < LitBits
      /\ LitBits \in Nat /\ RunBits \in Nat
  BY WidthAssumption, Powers
<1>2. CASE len = 1
  BY <1>1, <1>2 DEF BitsOf, Prefix
<1>3. CASE len > 1
  <2>1. BitsOf(md, len) \in Nat /\ BitsOf(md, len) <= 2 * (LitBits + 1)
    BY <1>1, <1>3 DEF BitsOf, Prefix
  <2>2. 2 * (LitBits + 1) <= len * (LitBits + 1) /\ len * (LitBits + 1) \in Nat
    <3>1. LitBits + 1 \in Nat /\ 2 \in Nat /\ len \in Nat /\ 2 <= len
      BY <1>1, <1>3
    <3>2. QED
      BY ONLY <3>1, TimesMonotone
  <2>3. QED
    BY <1>1, <2>1, <2>2
<1>4. QED
  BY <1>2, <1>3

\* The decoder's cache becomes the encoder's, and the run's pixels its colour.
LEMMA WriteRight ==
  ASSUME IndInv, phase = "draw", md # "none", Write
  PROVE  /\ done' = done + rl
         /\ out' = [i \in 1 .. done + rl |-> IF i <= done THEN out[i] ELSE last]
         /\ dcache' \in Caches(depth)
         /\ depth > 0 => dcache' = cache
         /\ bits' = bits + BitsOf(md, rl)
<1>1. /\ md \in {"palette", "literal"} /\ depth \in Depths /\ depth \in Nat
      /\ md = "palette" => depth > 0
      /\ rl \in 1 .. MaxRun /\ rl \in Nat
      /\ idx \in 0 .. Size(depth) - 1
      /\ dcache \in Caches(depth) /\ color \in Rgb
  BY Powers DEF IndInv, TypeOK, Counted, Slots, Caches, Rgb
<1>2. PICK v \in Peeked(Prefix(md, rl)) : Decode(v)
  BY Zenon DEF Write
<1>3. ModeOf(v)[1] = md /\ (ModeOf(v)[2] <=> rl > 1)
  BY <1>1, <1>2, PeekRight
<1>4. /\ ModeOf(v)[1] = "palette" <=> md = "palette"
      /\ (IF ModeOf(v)[2] THEN rl ELSE 1) = rl
  BY <1>1, <1>3
<1> DEFINE c == IF md = "palette" THEN dcache[idx] ELSE color
<1>5. /\ dcache' = IF md = "palette" THEN ToFront(dcache, idx) ELSE Push(dcache, c)
      /\ done' = done + rl
      /\ out' = [i \in 1 .. done + rl |-> IF i <= done THEN out[i] ELSE c]
  BY <1>2, <1>4, Zenon DEF Decode
<1>6. CASE md = "palette"
  <2>1. cache = ToFront(dcache, idx) /\ cache[0] = last /\ depth > 0 /\ ~(depth = 0)
    BY <1>1, <1>6 DEF IndInv, CachesAgree
  <2>2. c = last /\ dcache' = cache /\ dcache' \in Caches(depth)
    BY <1>1, <1>5, <1>6, <2>1, ToFrontRight
  <2>3. QED
    BY <1>5, <2>2 DEF Write
<1>7. CASE md = "literal"
  <2>1. color = last /\ (depth > 0 => cache = Push(dcache, color))
    BY <1>1, <1>7 DEF IndInv, CachesAgree
  <2>2. c = last /\ dcache' = Push(dcache, color)
    BY <1>5, <1>7, <2>1
  <2>3. QED
    BY <1>1, <1>5, <2>1, <2>2, PushRight DEF Write
<1>8. QED
  BY <1>1, <1>6, <1>7

\* What the invariant says of the decoder and of the bits written, when the
\* first n pixels have been.
Decoded(n) ==
  /\ done' = n
  /\ DOMAIN out' = 1 .. n
  /\ \A i \in 1 .. n : out'[i] = Pixel(i)
  /\ dcache' \in Caches(depth)
  /\ depth > 0 => dcache' = cache
  /\ bits' \in Nat /\ bits' <= n * (LitBits + 1)
  /\ n > done => rl = MaxRun \/ left = 0

\* Once the pending run is written, so are all pixels but those left over.
LEMMA PendingRight ==
  ASSUME IndInv, phase = "draw", WritePending
  PROVE  Decoded(pos - left)
<1>1. /\ depth \in Depths /\ done \in Nat /\ pos \in Nat /\ left \in Nat /\ bits \in Nat
      /\ LitBits \in Nat /\ bits <= done * (LitBits + 1)
      /\ dcache \in Caches(depth)
      /\ DOMAIN out = 1 .. done
      /\ \A i \in 1 .. done : out[i] = Pixel(i)
  BY Powers DEF IndInv, TypeOK, RoundTrip, Slots, Caches, Rgb, BitsCounted
<1>2. CASE md = "none"
  <2>1. cache = dcache
    BY <1>2, Zenon DEF IndInv, CachesAgree
  <2>2. QED
    BY <1>1, <1>2, <2>1 DEF IndInv, Counted, WritePending, Decoded, decoder
<1>3. CASE md # "none"
  <2>1. rl \in Nat \ {0} /\ pos - left = done + rl /\ (left > 0 => rl = MaxRun)
    BY <1>1, <1>3, Powers DEF IndInv, Counted
  <2>2. Write
    BY <1>3, Zenon DEF WritePending
  <2>3. /\ done' = done + rl
        /\ out' = [i \in 1 .. done + rl |-> IF i <= done THEN out[i] ELSE last]
        /\ dcache' \in Caches(depth)
        /\ depth > 0 => dcache' = cache
        /\ bits' = bits + BitsOf(md, rl)
    BY <1>3, <2>2, WriteRight
  <2>4. \A i \in 1 .. done + rl : out'[i] = Pixel(i)
    <3>1. \A i \in done + 1 .. pos : Pixel(i) = last
      BY DEF IndInv, Pending
    <3>2. QED
      BY <1>1, <2>1, <2>3, <3>1
  <2>5. bits' \in Nat /\ bits' <= (done + rl) * (LitBits + 1)
    <3>1. BitsOf(md, rl) \in Nat /\ BitsOf(md, rl) <= rl * (LitBits + 1)
      BY <1>1, <2>1, RunCost
    <3>2. (done + rl) * (LitBits + 1) = done * (LitBits + 1) + rl * (LitBits + 1)
      BY <1>1, <2>1, TimesPlus
    <3>3. done * (LitBits + 1) \in Nat /\ rl * (LitBits + 1) \in Nat
      BY <1>1, <2>1, TimesMonotone
    <3>4. QED
      BY <1>1, <2>3, <3>1, <3>2, <3>3
  <2>6. QED
    BY <1>1, <2>1, <2>3, <2>4, <2>5 DEF Decoded
<1>4. QED
  BY <1>2, <1>3

-----------------------------------------------------------------------------
\* The encoder's actions

\* What a run that begins is.
Begun(c, len) ==
  /\ cache' \in Caches(depth)
  /\ md' \in {"palette", "literal"}
  /\ idx' \in 0 .. Size(depth) - 1
  /\ color' \in Rgb
  /\ rl' = len /\ last' = c
  /\ md' = "palette" => /\ depth > 0
                        /\ cache' = ToFront(cache, idx') /\ cache'[0] = c
  /\ md' = "literal" => /\ color' = c
                        /\ depth > 0 => cache' = Push(cache, c) /\ cache'[0] = c

LEMMA BeginRunRight ==
  ASSUME IndInv, NEW c \in Rgb, NEW len, BeginRun(c, len)
  PROVE  Begun(c, len)
<1>1. /\ depth \in Depths /\ depth \in Nat
      /\ cache \in Caches(depth) /\ color \in Rgb
      /\ idx \in 0 .. Size(depth) - 1
  BY Powers DEF IndInv, TypeOK, Slots, Caches, Rgb
<1>2. CASE depth > 0 /\ Hit(cache, c)
  <2>1. /\ md' = "palette" /\ idx' = Place(cache, c) /\ color' = color
        /\ cache' = ToFront(cache, Place(cache, c))
        /\ rl' = len /\ last' = c
    BY <1>1, <1>2 DEF BeginRun
  <2>2. Place(cache, c) \in 0 .. Size(depth) - 1 /\ cache[Place(cache, c)] = c
    BY <1>1, <1>2, PlaceRight
  <2>3. cache' \in Caches(depth) /\ cache'[0] = c
    BY <1>1, <2>1, <2>2, ToFrontRight
  <2>4. QED
    BY <1>1, <1>2, <2>1, <2>2, <2>3 DEF Begun
<1>3. CASE ~(depth > 0 /\ Hit(cache, c))
  <2>1. /\ md' = "literal" /\ idx' = idx /\ color' = c
        /\ cache' = IF depth = 0 THEN cache ELSE Push(cache, c)
        /\ rl' = len /\ last' = c
    BY <1>3, Zenon DEF BeginRun
  <2>2. Push(cache, c) \in Caches(depth) /\ Push(cache, c)[0] = c
    BY <1>1, PushRight
  <2>3. cache' \in Caches(depth) /\ (depth > 0 => cache' = Push(cache, c) /\ cache'[0] = c)
    BY <1>1, <2>1, <2>2
  <2>4. QED
    BY <1>1, <2>1, <2>3 DEF Begun
<1>4. QED
  BY <1>2, <1>3

\* A run that begins after the pending one was written.
LEMMA BeginStep ==
  ASSUME IndInv, phase = "draw", NEW c \in Rgb, NEW len \in 1 .. MaxRun,
         BeginRun(c, len), WritePending, UNCHANGED <<config, phase>>,
         NEW l \in Nat, NEW p \in Nat, left' = l, pos' = p, p <= N,
         p = pos - left + len + l,
         l > 0 => len = MaxRun,
         api = "frame" => l = 0,
         \A i \in pos - left + 1 .. p : Pixel(i) = c
  PROVE  IndInv'
<1>1. Begun(c, len)
  BY BeginRunRight
<1>2. Decoded(pos - left)
  BY PendingRight
<1>3. /\ depth \in Depths /\ depth \in Nat
      /\ done' = pos - left /\ done' \in Nat
      /\ pos \in Nat /\ left \in Nat
      /\ pos' <= N /\ N \in Nat
      /\ len \in Nat
  <2>1. pos \in Nat /\ left \in Nat /\ done' = pos - left /\ depth \in Depths
    BY <1>2 DEF IndInv, TypeOK, Decoded
  <2>2. left <= pos
    BY <2>1 DEF IndInv, TypeOK, Counted
  <2>3. MaxRun \in Nat /\ N \in Nat /\ depth \in Nat /\ len \in Nat
    BY <2>1, Powers
  <2>4. pos - left \in Nat
    BY <2>1, <2>2
  <2>5. QED
    BY <2>1, <2>3, <2>4
<1>4. \A i : Pixel(i)' = Pixel(i)
  BY DEF Pixel, config
<1>5. TypeOK'
  <2>1. /\ api' \in {"frame", "canvas"} /\ depth' \in Depths
        /\ image' \in [1 .. N -> Colors] /\ phase' \in {"draw", "end"}
    BY DEF IndInv, TypeOK, config
  <2>2. /\ cache' \in [Slots' -> [a : Nat, c : Nat]]
        /\ dcache' \in [Slots' -> [a : Nat, c : Nat]]
        /\ idx' \in Slots'
    BY <1>1, <1>2 DEF Begun, Decoded, Slots, Caches, Rgb, config
  <2>3. /\ color' \in [a : Nat, c : Nat] /\ last' \in [a : Nat, c : Nat]
        /\ md' \in {"none", "palette", "literal"}
        /\ rl' \in -1 .. MaxRun
    BY <1>1, Powers DEF Begun, Rgb
  <2>4. bits' \in Nat /\ DOMAIN out' = 1 .. done'
    BY <1>2 DEF Decoded
  <2>5. QED
    BY <1>3, <2>1, <2>2, <2>3, <2>4 DEF TypeOK
<1>6. Counted'
  BY <1>1, <1>3 DEF IndInv, Counted, Begun, config
<1>7. Pending'
  BY <1>1, <1>3, <1>4 DEF Pending, Begun
<1>8. BitsCounted'
  BY <1>2 DEF BitsCounted, Decoded
<1>9. RoundTrip'
  <2>1. done' <= N
    <3>1. pos - left <= p
      BY <1>3
    <3>2. QED
      BY <1>3, <3>1
  <2>2. \A i \in 1 .. done' : out'[i] = Pixel(i)
    BY <1>2, <1>3 DEF Decoded
  <2>3. QED
    BY <1>4, <2>1, <2>2 DEF RoundTrip
<1>10. CachesAgree'
  <2>1. md' # "none" /\ depth' = depth /\ (depth > 0 => dcache' = cache)
    BY <1>1, <1>2 DEF Begun, Decoded, config
  <2>2. CASE md' = "palette"
    BY <1>1, <1>3, <2>1, <2>2 DEF Begun, CachesAgree
  <2>3. CASE md' = "literal"
    BY <1>1, <1>3, <2>1, <2>3 DEF Begun, CachesAgree
  <2>4. QED
    BY <1>1, <2>2, <2>3 DEF Begun
<1>11. QED
  BY <1>5, <1>6, <1>7, <1>8, <1>9, <1>10 DEF IndInv

\* A run to which pixels of its colour are added.
LEMMA ExtendStep ==
  ASSUME IndInv, phase = "draw", md # "none", left = 0,
         NEW len \in Nat \ {0}, NEW r \in Nat, NEW l \in Nat, NEW p \in Nat,
         rl' = r, left' = l, pos' = p,
         r <= MaxRun, r >= rl, r + l = rl + len, l > 0 => r = MaxRun,
         api = "frame" => l = 0,
         p = pos + len, p <= N,
         \A i \in pos + 1 .. p : Pixel(i) = last,
         UNCHANGED <<config, cache, md, color, idx, last, bits, decoder, phase>>
  PROVE  IndInv'
<1>1. \A i : Pixel(i)' = Pixel(i)
  BY DEF Pixel, config
<1>2. /\ done \in Nat /\ pos \in Nat /\ left \in Nat /\ MaxRun \in Nat /\ N \in Nat
  BY Powers DEF IndInv, TypeOK
<1>3. rl \in 1 .. MaxRun /\ pos = done + rl
  BY <1>2 DEF IndInv, Counted
<1>4. r \in 1 .. MaxRun /\ p = done + r + l
  BY <1>2, <1>3
<1>5. TypeOK'
  BY <1>2, <1>4 DEF IndInv, TypeOK, Slots, config, decoder
<1>6. Counted'
  BY <1>2, <1>4 DEF IndInv, Counted, config, decoder
<1>7. Pending'
  <2>1. \A i \in done + 1 .. pos : Pixel(i) = last
    BY DEF IndInv, Pending
  <2>2. \A i \in done + 1 .. p : Pixel(i) = last
    BY <1>2, <2>1
  <2>3. QED
    BY <1>1, <2>2 DEF Pending, decoder
<1>8. BitsCounted' /\ RoundTrip'
  BY <1>1 DEF IndInv, BitsCounted, RoundTrip, decoder
<1>9. CachesAgree'
  BY DEF IndInv, CachesAgree, config, decoder
<1>10. QED
  BY <1>5, <1>6, <1>7, <1>8, <1>9 DEF IndInv

\* The last run is written.
LEMMA EndStep ==
  ASSUME IndInv, phase = "draw", md # "none", left = 0, pos = N,
         WritePending, phase' = "end", UNCHANGED <<config, pos, left>>,
         cache' \in Caches(depth), idx' \in 0 .. Size(depth) - 1,
         color' \in Rgb, last' \in Rgb, rl' \in 0 .. MaxRun,
         md' \in {"palette", "literal"}, md' = "palette" => depth > 0
  PROVE  IndInv'
<1>1. Decoded(N)
  <2>1. Decoded(pos - left)
    BY PendingRight
  <2>2. pos - left = N
    BY Powers
  <2>3. QED
    BY <2>1, <2>2
<1>2. \A i : Pixel(i)' = Pixel(i)
  BY DEF Pixel, config
<1>3. MaxRun \in Nat /\ N \in Nat /\ pos \in Nat /\ left \in Nat /\ depth \in Depths
  BY Powers DEF IndInv, TypeOK
<1>4. TypeOK'
  <2>1. /\ api' \in {"frame", "canvas"} /\ depth' \in Depths
        /\ image' \in [1 .. N -> Colors] /\ phase' \in {"draw", "end"}
        /\ pos' \in Nat /\ left' \in Nat
    BY DEF IndInv, TypeOK, config
  <2>2. /\ cache' \in [Slots' -> [a : Nat, c : Nat]]
        /\ dcache' \in [Slots' -> [a : Nat, c : Nat]]
        /\ idx' \in Slots'
    BY <1>1 DEF Decoded, Slots, Caches, Rgb, config
  <2>3. /\ color' \in [a : Nat, c : Nat] /\ last' \in [a : Nat, c : Nat]
        /\ md' \in {"none", "palette", "literal"}
    BY DEF Rgb
  <2>4. bits' \in Nat /\ DOMAIN out' = 1 .. done' /\ done' \in Nat
    BY <1>1, <1>3 DEF Decoded
  <2>5. rl' \in -1 .. MaxRun
    BY <1>3
  <2>6. QED
    BY <2>1, <2>2, <2>3, <2>4, <2>5 DEF TypeOK
<1>5. Counted'
  BY <1>1, <1>3 DEF IndInv, Counted, Decoded, config
<1>6. Pending' /\ CachesAgree'
  BY DEF Pending, CachesAgree
<1>7. BitsCounted'
  BY <1>1 DEF BitsCounted, Decoded
<1>8. RoundTrip'
  <2>1. done' = N /\ \A i \in 1 .. done' : out'[i] = Pixel(i)
    BY <1>1 DEF Decoded
  <2>2. QED
    BY <1>2, <1>3, <2>1 DEF RoundTrip
<1>9. QED
  BY <1>4, <1>5, <1>6, <1>7, <1>8 DEF IndInv

\* One action after the other.
LEMMA EncodePixelRight ==
  ASSUME IndInv, EncodePixel
  PROVE  IndInv'
<1>1. /\ phase = "draw" /\ api = "frame" /\ pos < N
      /\ pos' = pos + 1 /\ UNCHANGED <<config, left, phase>>
  BY DEF EncodePixel
<1>2. /\ left = 0 /\ pos \in Nat /\ MaxRun \in Nat \ {0} /\ N \in Nat
  BY <1>1, Powers DEF IndInv, TypeOK, Counted
<1> DEFINE c == Pixel(pos + 1)
           p == pos + 1
<1>3. c \in Rgb /\ p \in Nat /\ p <= N /\ pos' = p
  <2>1. pos + 1 \in 1 .. N
    BY <1>1, <1>2
  <2>2. QED
    BY <1>1, <1>2, <2>1, PixelType DEF IndInv
<1>4. CASE pos = 0 \/ rl >= MaxRun \/ c # last
  <2>1. BeginRun(c, 1) /\ WritePending
    BY <1>4, Zenon DEF EncodePixel
  <2>2. \A i \in pos - left + 1 .. p : Pixel(i) = c
    BY <1>2
  <2>3. p = pos - left + 1 + 0 /\ 1 \in 1 .. MaxRun /\ left' = 0
    BY <1>1, <1>2
  <2> HIDE DEF c, p
  <2>4. QED
    BY <1>1, <1>3, <2>1, <2>2, <2>3, BeginStep
<1>5. CASE ~(pos = 0 \/ rl >= MaxRun \/ c # last)
  <2>1. rl' = rl + 1 /\ UNCHANGED <<cache, md, color, idx, last, bits, decoder>>
    BY <1>5, Zenon DEF EncodePixel
  <2>2. md # "none"
    BY <1>5 DEF IndInv, Counted
  <2>3. rl \in 1 .. MaxRun
    BY <1>1, <2>2 DEF IndInv, Counted
  <2> DEFINE r == rl + 1
  <2>4. r \in Nat /\ r <= MaxRun /\ r >= rl /\ r + 0 = rl + 1 /\ rl' = r
        /\ left' = 0
    BY <1>1, <1>2, <1>5, <2>1, <2>3
  <2>5. \A i \in pos + 1 .. p : Pixel(i) = last
    BY <1>2, <1>5
  <2>6. 1 \in Nat \ {0} /\ p = pos + 1
    OBVIOUS
  <2> HIDE DEF r, c, p
  <2>7. QED
    BY <1>1, <1>2, <1>3, <2>1, <2>2, <2>4, <2>5, <2>6, ExtendStep
<1>6. QED
  BY <1>4, <1>5

LEMMA EncodeEndRight ==
  ASSUME IndInv, EncodeEnd
  PROVE  IndInv'
<1>1. /\ phase = "draw" /\ api = "frame" /\ pos = N /\ WritePending
      /\ phase' = "end" /\ UNCHANGED <<config, pos, left, cache, run>>
  BY DEF EncodeEnd
<1>2. left = 0 /\ md # "none" /\ rl \in 1 .. MaxRun /\ MaxRun \in Nat
  BY <1>1, Powers DEF IndInv, Counted
<1>3. /\ cache' \in Caches(depth) /\ idx' \in 0 .. Size(depth) - 1
      /\ color' \in Rgb /\ last' \in Rgb
      /\ md' \in {"palette", "literal"} /\ (md' = "palette" => depth > 0)
  BY <1>1, <1>2 DEF IndInv, TypeOK, Counted, Slots, Caches, Rgb, run
<1>4. rl' \in 0 .. MaxRun
  BY <1>1, <1>2 DEF run
<1>5. QED
  BY <1>1, <1>2, <1>3, <1>4, EndStep

LEMMA DrawFinishRight ==
  ASSUME IndInv, DrawFinish, api = "canvas", pos = N
  PROVE  IndInv'
<1>1. /\ phase = "draw" /\ left = 0 /\ WritePending
      /\ phase' = "end" /\ UNCHANGED <<config, pos, left>>
  BY DEF DrawFinish
<1>2. PICK c \in Colors : BeginRun(c, 0)
  BY DEF DrawFinish
<1>3. Begun(c, 0)
  BY <1>2, BeginRunRight, CmprAssumption DEF Rgb
<1>4. md # "none" /\ MaxRun \in Nat
  BY <1>1, Powers DEF IndInv, Counted
<1>5. last' \in Rgb /\ rl' \in 0 .. MaxRun
  BY <1>2, <1>3, <1>4, CmprAssumption DEF Begun, Rgb
<1>6. QED
  BY <1>1, <1>3, <1>4, <1>5, EndStep DEF Begun

\* What of m pixels goes into a run of at most k, and what is left.
LEMMA LesserRight ==
  ASSUME NEW m \in Nat, NEW k \in Nat, m > 0, k > 0
  PROVE  /\ Lesser(m, k) \in 1 .. k /\ Lesser(m, k) \in Nat
         /\ m - Lesser(m, k) \in Nat
         /\ m - Lesser(m, k) > 0 => Lesser(m, k) = k
         /\ m = Lesser(m, k) + (m - Lesser(m, k))
         /\ \A i \in Nat : i <= m /\ i <= k => i <= Lesser(m, k)
BY DEF Lesser

LEMMA DrawSpanRight ==
  ASSUME IndInv, NEW len \in 1 .. N, DrawSpan(len)
  PROVE  IndInv'
<1> DEFINE c == image[pos + 1]
           p == pos + len
<1>1. /\ api = "canvas" /\ p <= N /\ phase = "draw" /\ left = 0
      /\ \A i \in pos + 1 .. p : image[i] = c
      /\ ConstPixel(c, len, pos = 0)
      /\ pos' = p /\ UNCHANGED <<config, phase>>
  BY DEF DrawSpan, DrawPixel
<1>2. /\ pos \in Nat /\ len \in Nat \ {0} /\ len \in Nat /\ p \in Nat
      /\ MaxRun \in Nat \ {0} /\ N \in Nat
  BY Powers DEF IndInv, TypeOK
<1>3. c \in Rgb
  <2>1. pos + 1 \in 1 .. N
    BY <1>1, <1>2
  <2>2. QED
    BY <2>1, PixelType DEF IndInv
<1>4. \A i \in pos + 1 .. p : Pixel(i) = c
  BY <1>1 DEF Pixel
<1>5. CASE c # last \/ pos = 0 \/ rl = MaxRun
  <2> DEFINE n == Lesser(len, MaxRun)
             l == len - n
  <2>1. BeginRun(c, n) /\ WritePending /\ left' = l
    BY <1>1, <1>5, Zenon DEF ConstPixel
  <2>2. n \in 1 .. MaxRun /\ l \in Nat /\ (l > 0 => n = MaxRun) /\ len = n + l
    <3>1. len > 0 /\ MaxRun > 0 /\ MaxRun \in Nat /\ len \in Nat
      BY <1>2
    <3>2. QED
      BY ONLY <3>1, LesserRight
  <2> HIDE DEF n, l
  <2>3. p = pos - left + n + l
    BY <1>1, <1>2, <2>2
  <2>4. \A i \in pos - left + 1 .. p : Pixel(i) = c
    BY <1>1, <1>2, <1>4
  <2> HIDE DEF c, p
  <2>5. QED
    BY <1>1, <1>2, <1>3, <2>1, <2>2, <2>3, <2>4, BeginStep
<1>6. CASE ~(c # last \/ pos = 0 \/ rl = MaxRun)
  <2> DEFINE n == Lesser(rl + len, MaxRun)
             l == len - (n - rl)
  <2>1. /\ rl' = n /\ left' = l
        /\ UNCHANGED <<cache, md, color, idx, last, bits, decoder>>
    BY <1>1, <1>6, Zenon DEF ConstPixel
  <2>2. md # "none"
    BY <1>6 DEF IndInv, Counted
  <2>3. rl \in 1 .. MaxRun
    BY <1>1, <2>2 DEF IndInv, Counted
  <2>4. /\ n \in Nat /\ n <= MaxRun /\ n >= rl /\ l \in Nat
        /\ n + l = rl + len /\ (l > 0 => n = MaxRun)
    <3> DEFINE m == rl + len
    <3>1. /\ m \in Nat /\ m > 0 /\ rl \in Nat /\ rl <= m /\ rl <= MaxRun
          /\ MaxRun \in Nat /\ MaxRun > 0
      BY <1>2, <2>3
    <3>2. /\ n \in Nat /\ n <= MaxRun
          /\ m - n \in Nat /\ (m - n > 0 => n = MaxRun)
          /\ rl <= n
      <4> HIDE DEF m
      <4>1. /\ Lesser(m, MaxRun) \in Nat /\ Lesser(m, MaxRun) \in 1 .. MaxRun
            /\ m - Lesser(m, MaxRun) \in Nat
            /\ m - Lesser(m, MaxRun) > 0 => Lesser(m, MaxRun) = MaxRun
            /\ rl <= Lesser(m, MaxRun)
        BY <3>1, LesserRight
      <4>2. n = Lesser(m, MaxRun)
        BY DEF m
      <4>3. QED
        BY <3>1, <4>1, <4>2
    <3> HIDE DEF n
    <3>3. l = rl + len - n
      BY <1>2, <3>1, <3>2
    <3>4. QED
      BY <1>2, <3>1, <3>2, <3>3
  <2>5. \A i \in pos + 1 .. p : Pixel(i) = last
    BY <1>4, <1>6
  <2>6. p = pos + len
    OBVIOUS
  <2> HIDE DEF n, l, c, p
  <2>7. QED
    BY <1>1, <1>2, <2>1, <2>2, <2>4, <2>5, <2>6, ExtendStep
<1>7. QED
  BY <1>5, <1>6

LEMMA FollowedRunRight ==
  ASSUME IndInv, FollowedRun
  PROVE  IndInv'
<1> DEFINE n == Lesser(left, MaxRun)
           l == left - n
<1>1. /\ phase = "draw" /\ left > 0 /\ WritePending
      /\ rl' = n /\ left' = l /\ md' = "palette" /\ idx' = 0
      /\ UNCHANGED <<config, pos, cache, color, last, phase>>
  BY DEF FollowedRun
<1>2. /\ left \in Nat /\ pos \in Nat /\ MaxRun \in Nat \ {0} /\ N \in Nat
      /\ depth \in Depths /\ depth \in Nat
  BY Powers DEF IndInv, TypeOK
<1>3. n \in 1 .. MaxRun /\ l \in Nat /\ (l > 0 => n = MaxRun) /\ left = n + l
  <2>1. left > 0 /\ MaxRun > 0 /\ MaxRun \in Nat /\ left \in Nat
    BY <1>1, <1>2
  <2>2. QED
    BY ONLY <2>1, LesserRight
<1> HIDE DEF n, l
<1>4. md # "none" /\ api = "canvas" /\ depth > 0
  BY <1>1, <1>2 DEF IndInv, TypeOK, Counted
<1>5. Decoded(pos - left)
  BY <1>1, PendingRight
<1>6. /\ done' = pos - left /\ done \in Nat /\ rl \in 1 .. MaxRun
      /\ pos = done + rl + left /\ done' = done + rl /\ done' \in Nat /\ pos <= N
      /\ pos = done' + n + l
  <2>1. done' = pos - left
    BY <1>5 DEF Decoded
  <2>2. rl \in 1 .. MaxRun /\ pos = done + rl + left /\ done \in Nat /\ pos <= N
    BY <1>1, <1>4 DEF IndInv, TypeOK, Counted
  <2>3. done' = done + rl
    BY <1>2, <2>1, <2>2
  <2>4. QED
    BY <1>2, <1>3, <2>1, <2>2, <2>3
<1>7. \A i : Pixel(i)' = Pixel(i)
  BY <1>1 DEF Pixel, config
<1>8. cache \in Caches(depth) /\ cache[0] = last
  BY <1>1, <1>2, <1>4 DEF IndInv, TypeOK, CachesAgree, Slots, Caches, Rgb
<1>9. TypeOK'
  <2>1. /\ api' \in {"frame", "canvas"} /\ depth' \in Depths
        /\ image' \in [1 .. N -> Colors] /\ phase' \in {"draw", "end"}
        /\ pos' \in Nat /\ left' \in Nat
        /\ color' \in [a : Nat, c : Nat] /\ last' \in [a : Nat, c : Nat]
    BY <1>1, <1>3 DEF IndInv, TypeOK, config
  <2>2. /\ cache' \in [Slots' -> [a : Nat, c : Nat]]
        /\ dcache' \in [Slots' -> [a : Nat, c : Nat]]
    BY <1>1, <1>5, <1>8 DEF Decoded, Slots, Caches, Rgb, config
  <2>3. idx' \in Slots' /\ md' \in {"none", "palette", "literal"}
    BY <1>1, <1>2, Powers DEF Slots, config
  <2>4. bits' \in Nat /\ DOMAIN out' = 1 .. done' /\ done' \in Nat
    BY <1>5, <1>6 DEF Decoded
  <2>5. rl' \in -1 .. MaxRun
    BY <1>1, <1>2, <1>3
  <2>6. QED
    BY <2>1, <2>2, <2>3, <2>4, <2>5 DEF TypeOK
<1>10. Counted'
  BY <1>1, <1>2, <1>3, <1>4, <1>6 DEF Counted, config
<1>11. Pending'
  <2>1. \A i \in done + 1 .. pos : Pixel(i) = last
    BY <1>1 DEF IndInv, Pending
  <2>2. \A i \in done' + 1 .. pos : Pixel(i) = last
    BY <1>2, <1>6, <2>1
  <2>3. QED
    BY <1>1, <1>7, <2>2 DEF Pending
<1>12. BitsCounted'
  BY <1>5 DEF BitsCounted, Decoded
<1>13. RoundTrip'
  <2>1. \A i \in 1 .. done' : out'[i] = Pixel(i)
    BY <1>5, <1>6 DEF Decoded
  <2>2. done' <= N
    BY <1>2, <1>6
  <2>3. QED
    BY <1>1, <1>7, <2>1, <2>2 DEF RoundTrip
<1>14. CachesAgree'
  <2>1. ToFront(cache, 0) = cache
    BY <1>2, <1>8, Powers DEF ToFront, Caches
  <2>2. dcache' = cache
    BY <1>4, <1>5 DEF Decoded
  <2>3. QED
    BY <1>1, <1>8, <2>1, <2>2 DEF CachesAgree
<1>15. QED
  BY <1>9, <1>10, <1>11, <1>12, <1>13, <1>14 DEF IndInv

-----------------------------------------------------------------------------
\* The invariant

LEMMA InitRight ==
  ASSUME Init
  PROVE  IndInv
<1>1. /\ api \in {"frame", "canvas"} /\ depth \in Depths
      /\ api = "canvas" => depth > 0
      /\ pos = 0 /\ left = 0 /\ bits = 0 /\ done = 0
      /\ cache = InitCache(depth) /\ dcache = cache
      /\ md = "none" /\ idx = 0 /\ color \in Colors /\ last \in Colors
      /\ rl \in -1 .. 1
      /\ out = [i \in 1 .. 0 |-> last]
      /\ phase = "draw"
      /\ image \in [1 .. N -> Colors]
  BY DEF Init, CmprInit
<1>2. /\ N \in Nat \ {0} /\ MaxRun \in Nat \ {0}
      /\ Size(depth) \in Nat \ {0} /\ LitBits \in Nat
  BY <1>1, Powers
<1>3. TypeOK
  <2>1. cache \in [Slots -> [a : Nat, c : Nat]] /\ dcache \in [Slots -> [a : Nat, c : Nat]]
    BY <1>1, InitCacheType DEF Slots, Caches, Rgb
  <2>2. idx \in Slots
    BY <1>1, <1>2 DEF Slots
  <2>3. color \in [a : Nat, c : Nat] /\ last \in [a : Nat, c : Nat]
    BY <1>1, CmprAssumption
  <2>4. DOMAIN out = 1 .. done
    BY <1>1
  <2>5. rl \in -1 .. MaxRun
    BY <1>1, <1>2
  <2>6. QED
    BY <1>1, <2>1, <2>2, <2>3, <2>4, <2>5 DEF TypeOK
<1>4. Counted /\ Pending /\ RoundTrip /\ CachesAgree
  BY <1>1, <1>2 DEF Counted, Pending, RoundTrip, CachesAgree
<1>5. BitsCounted
  BY <1>1, <1>2 DEF BitsCounted
<1>6. QED
  BY <1>3, <1>4, <1>5 DEF IndInv

LEMMA StepRight ==
  ASSUME IndInv, [Next]_vars
  PROVE  IndInv'
<1>1. CASE EncodePixel
  BY <1>1, EncodePixelRight
<1>2. CASE EncodeEnd
  BY <1>2, EncodeEndRight
<1>3. ASSUME NEW len \in 1 .. N, DrawSpan(len)
      PROVE  IndInv'
  BY <1>3, DrawSpanRight
<1>4. CASE FollowedRun
  BY <1>4, FollowedRunRight
<1>5. CASE api = "canvas" /\ pos = N /\ DrawFinish
  BY <1>5, DrawFinishRight
<1>6. CASE UNCHANGED vars
  BY <1>6 DEF IndInv, TypeOK, Counted, Pending, BitsCounted, RoundTrip, CachesAgree,
              Pixel, Slots, vars, config, run, decoder
<1>7. QED
  BY <1>1, <1>2, <1>3, <1>4, <1>5, <1>6 DEF Next

THEOREM Invariance == Spec => []IndInv
BY InitRight, StepRight, PTL DEF Spec

-----------------------------------------------------------------------------
\* The properties

\* The variables stay in their types.
THEOREM TypeCorrect == Spec => []TypeOK
<1>1. IndInv => TypeOK
  BY DEF IndInv
<1>2. QED
  BY Invariance, <1>1, PTL

\* The decoder writes the picture, whatever bits of the next run it sees.
THEOREM RoundTripRight == Spec => []RoundTrip
<1>1. IndInv => RoundTrip
  BY DEF IndInv
<1>2. QED
  BY Invariance, <1>1, PTL

\* Reading the pending run brings the two caches together.
THEOREM CachesRight == Spec => []CachesAgree
<1>1. IndInv => CachesAgree
  BY DEF IndInv
<1>2. QED
  BY Invariance, <1>1, PTL

\* The stream fits into the buffer of the size that is computed for it.
THEOREM BufferRight == Spec => []FitsBuffer
<1>1. ASSUME IndInv
      PROVE  FitsBuffer
  <2>1. /\ bits \in Nat /\ done \in Nat /\ done <= N /\ N \in Nat
        /\ LitBits + 1 \in Nat /\ bits <= done * (LitBits + 1)
    BY <1>1, Powers DEF IndInv, TypeOK, RoundTrip, BitsCounted
  <2> DEFINE most == N * (LitBits + 1)
  <2>2. most \in Nat /\ bits <= most
    <3>1. done * (LitBits + 1) \in Nat /\ most \in Nat /\ done * (LitBits + 1) <= most
      BY <2>1, TimesMonotone
    <3> HIDE DEF most
    <3>2. QED
      BY <2>1, <3>1
  <2> HIDE DEF most
  <2>3. most <= 128 * ((most + 127) \div 128)
    BY <2>2
  <2>4. bits < HdrBits + 128 * ((most + 127) \div 128)
    BY <2>1, <2>2, <2>3 DEF HdrBits
  <2>5. QED
    BY <2>4 DEF FitsBuffer, BufBits, most
<1>2. QED
  BY Invariance, <1>1, PTL

\* A step that writes a run ends it for one of the three reasons.
LEMMA LongestStep ==
  ASSUME IndInv, [Next]_vars, done' > done
  PROVE  \/ rl = MaxRun
         \/ done' = N
         \/ Pixel(done' + 1) # Pixel(done')
<1>1. /\ done \in Nat /\ pos \in Nat /\ left \in Nat /\ N \in Nat
      /\ MaxRun \in Nat
  BY Powers DEF IndInv, TypeOK
<1>2. ASSUME phase = "draw", WritePending
      PROVE  /\ done' = pos - left /\ (rl = MaxRun \/ left = 0)
             /\ pos > 0 /\ rl <= MaxRun
             /\ Pixel(pos) = last
  <2>1. Decoded(pos - left)
    BY <1>2, PendingRight
  <2>2. done' = pos - left /\ pos > done /\ pos > 0 /\ (rl = MaxRun \/ left = 0)
    BY <1>1, <2>1 DEF Decoded
  <2>3. pos \in done + 1 .. pos
    BY <1>1, <2>2
  <2>4. md # "none"
    BY <1>2, <2>2 DEF IndInv, Counted
  <2>5. rl <= MaxRun
    BY <1>1, <1>2, <2>4 DEF IndInv, Counted
  <2>6. QED
    BY <1>2, <2>2, <2>3, <2>5 DEF IndInv, Pending
<1>3. CASE EncodePixel
  <2>1. CASE pos = 0 \/ rl >= MaxRun \/ Pixel(pos + 1) # last
    <3>1. phase = "draw" /\ WritePending /\ left = 0
      BY <1>3, <2>1 DEF EncodePixel, IndInv, Counted
    <3>2. done' = pos /\ pos # 0 /\ rl <= MaxRun /\ Pixel(pos) = last
      BY <1>1, <1>2, <3>1
    <3>3. CASE rl >= MaxRun
      BY <1>1, <3>1, <3>2, <3>3, <1>2 DEF IndInv, TypeOK
    <3>4. CASE Pixel(pos + 1) # last
      BY <3>2, <3>4
    <3>5. QED
      BY <2>1, <3>2, <3>3, <3>4
  <2>2. CASE ~(pos = 0 \/ rl >= MaxRun \/ Pixel(pos + 1) # last)
    <3>1. done' = done
      BY <1>3, <2>2 DEF EncodePixel, decoder
    <3>2. QED
      BY <1>1, <3>1
  <2>3. QED
    BY <2>1, <2>2
<1>4. CASE EncodeEnd
  <2>1. phase = "draw" /\ WritePending /\ left = 0 /\ pos = N
    BY <1>4 DEF EncodeEnd, IndInv, Counted
  <2>2. QED
    BY <1>1, <1>2, <2>1
<1>5. ASSUME NEW len \in 1 .. N, DrawSpan(len)
      PROVE  \/ rl = MaxRun \/ Pixel(done' + 1) # Pixel(done')
  <2>1. phase = "draw" /\ left = 0 /\ ConstPixel(image[pos + 1], len, pos = 0)
        /\ Pixel(pos + 1) = image[pos + 1]
    BY <1>5 DEF DrawSpan, DrawPixel, Pixel
  <2>2. CASE image[pos + 1] # last \/ pos = 0 \/ rl = MaxRun
    <3>1. WritePending
      BY <2>1, <2>2 DEF ConstPixel
    <3>2. done' = pos /\ pos # 0 /\ Pixel(pos) = last
      BY <1>1, <1>2, <2>1, <3>1
    <3>3. QED
      BY <2>1, <2>2, <3>2
  <2>3. CASE ~(image[pos + 1] # last \/ pos = 0 \/ rl = MaxRun)
    <3>1. done' = done
      BY <2>1, <2>3 DEF ConstPixel, decoder
    <3>2. QED
      BY <1>1, <3>1
  <2>4. QED
    BY <2>2, <2>3
<1>6. CASE FollowedRun
  <2>1. phase = "draw" /\ WritePending /\ left > 0
    BY <1>6 DEF FollowedRun
  <2>2. QED
    BY <1>1, <1>2, <2>1
<1>7. CASE api = "canvas" /\ pos = N /\ DrawFinish
  <2>1. phase = "draw" /\ WritePending /\ left = 0 /\ pos = N
    BY <1>7 DEF DrawFinish
  <2>2. QED
    BY <1>1, <1>2, <2>1
<1>8. CASE UNCHANGED vars
  BY <1>1, <1>8 DEF vars, decoder
<1>9. QED
  BY <1>3, <1>4, <1>5, <1>6, <1>7, <1>8 DEF Next

\* No run ends before it must.
THEOREM RunsRight == Spec => RunsLongest
<1>1. IndInv /\ [Next]_vars =>
        [done' > done => \/ rl = MaxRun
                         \/ done' = N
                         \/ Pixel(done' + 1) # Pixel(done')]_vars
  BY LongestStep
<1>2. QED
  BY Invariance, <1>1, PTL DEF Spec, RunsLongest
=============================================================================
