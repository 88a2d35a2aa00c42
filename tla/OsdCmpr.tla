------------------------------ MODULE OsdCmpr ------------------------------
(***************************************************************************)
(* The compression of on-screen display pictures,                          *)
(* modules/osdc/src/osd_cmpr.cpp.                                          *)
(*                                                                         *)
(* The encoder turns a picture into runs of equal pixels.  A run carries   *)
(* its colour (literal), or the place of its colour in a cache of the      *)
(* colours last used (palette).  The decoder keeps a cache of its own and  *)
(* must change it as the encoder does, for the stream carries no cache.    *)
(*                                                                         *)
(* The encoder has two interfaces: "frame", osd_cmpr_enc_one_frame, which  *)
(* looks at one pixel after the other, and "canvas", draw_cmpr_pixel       *)
(* (cmpr_canvas.cpp), which is handed spans of one colour and splits them  *)
(* itself.  The decoder is deterministic and the stream only grows, so the *)
(* model lets it read each run as soon as it is written.                   *)
(*                                                                         *)
(* A pixel is in the generic form that get_color gives it: alpha, and one  *)
(* value for the three colours, which are all treated alike.               *)
(***************************************************************************)
EXTENDS Integers

CONSTANTS
  Colors,       \* the colours that occur
  Depths,       \* values of palette_idx_bd; 0 when the palette mode is off
  N,            \* the number of pixels of the picture
  RunBits,      \* run_len_bd
  LitBits,      \* bits of a literal colour
  RgbTrunc,     \* rgb_trunc_bit
  AlphaTrunc,   \* alpha_trunc_bit
  Zeroize       \* zeroize_by_alpha

MaxRun == 2 ^ RunBits
HdrBits == 64   \* HDR_SZ

ASSUME CmprAssumption ==
  /\ Colors # {} /\ Colors \subseteq [a : Nat, c : Nat]
  /\ Depths \subseteq Nat
  /\ N \in Nat \ {0}
  /\ RunBits \in Nat /\ LitBits \in Nat
  /\ RgbTrunc \in Nat /\ AlphaTrunc \in Nat
  /\ Zeroize \in BOOLEAN

\* A run is never longer to write than its pixels one by one.
ASSUME WidthAssumption ==
  /\ RunBits < LitBits
  /\ \A d \in Depths : d < LitBits

\* The powers of two in use are positive numbers.
ASSUME PowerAssumption ==
  \A b \in Depths \cup {RunBits, RgbTrunc, AlphaTrunc} : 2 ^ b \in Nat \ {0}

VARIABLES
  api,      \* the interface in use, "frame" or "canvas"
  depth,    \* reg_palette_idx_bd
  image,    \* the picture
  pos,      \* pixels handed to the encoder so far
  left,     \* length in draw_cmpr_pixel: pixels of the span not yet in a run
  cache,    \* the encoder's palette_cache
  md,       \* mode of the pending run; "none" is NUM_OF_MODE
  color,    \* code.color, in a literal run
  idx,      \* code.palette_idx, in a palette run
  rl,       \* rl_cnt
  last,     \* last_color
  bits,     \* bit_pos of the stream
  dcache,   \* the decoder's palette_cache
  out,      \* the pixels the decoder has written
  done,     \* their number
  phase     \* "draw", then "end"

config == <<api, depth, image>>
run == <<md, color, idx, rl, last>>
decoder == <<dcache, out, done>>
vars == <<config, pos, left, cache, run, bits, decoder, phase>>

-----------------------------------------------------------------------------
\* The palette cache

Size(d) == 2 ^ d
Slots == 0 .. Size(depth) - 1

\* Shades from black to white: the steps stop at the largest byte.
Gray(v) == [a |-> v, c |-> v]
InitCache(d) ==
  [i \in 0 .. Size(d) - 1 |->
     LET v == i * (256 \div Size(d)) IN Gray(IF v > 255 THEN 255 ELSE v)]

ToFront(h, i) ==
  [j \in DOMAIN h |-> IF j = 0 THEN h[i] ELSE IF j <= i THEN h[j - 1] ELSE h[j]]

Push(h, c) == [j \in DOMAIN h |-> IF j = 0 THEN c ELSE h[j - 1]]

Hit(h, c) == \E i \in DOMAIN h : h[i] = c
Place(h, c) == CHOOSE i \in DOMAIN h : h[i] = c /\ \A j \in 0 .. i - 1 : h[j] # c

-----------------------------------------------------------------------------
\* Pixels

Truncate(v, b) == (v \div 2 ^ b) * 2 ^ b

Preprocess(p) ==
  LET t == [a |-> Truncate(p.a, AlphaTrunc), c |-> Truncate(p.c, RgbTrunc)]
  IN  IF Zeroize /\ t.a = 0 THEN [a |-> 0, c |-> 0] ELSE t

\* The pixel the encoder works on: only the frame encoder preprocesses.
Pixel(i) == IF api = "frame" THEN Preprocess(image[i]) ELSE image[i]

-----------------------------------------------------------------------------
\* The syntax of a run

\* The first bits of a run, as a number, and how many they are.
Prefix(m, len) ==
  IF depth > 0
  THEN IF m = "palette" THEN IF len > 1 THEN <<0, 3>> ELSE <<2, 2>>
                        ELSE IF len > 1 THEN <<4, 3>> ELSE <<1, 1>>
  ELSE IF len > 1 THEN <<0, 1>> ELSE <<1, 1>>

\* Mutant: the length of a literal run is not looked for.
ModeOfShort(v) ==
  IF depth > 0
  THEN IF v = 0 THEN <<"palette", TRUE>>
       ELSE IF v % 4 = 2 THEN <<"palette", FALSE>> ELSE <<"literal", FALSE>>
  ELSE <<"literal", FALSE>>

\* The mode the decoder finds when the next three bits are v, and whether a
\* length follows.
ModeOf(v) ==
  IF depth > 0
  THEN IF v = 0 THEN <<"palette", TRUE>>
       ELSE IF v = 4 THEN <<"literal", TRUE>>
       ELSE IF v % 4 = 2 THEN <<"palette", FALSE>> ELSE <<"literal", FALSE>>
  ELSE <<"literal", v % 2 = 0>>

\* Mutant: a colour is written with twice the bits it has.
BitsOfTwice(m, len) ==
  Prefix(m, len)[2] + (IF len > 1 THEN RunBits ELSE 0)
    + (IF depth > 0 /\ m = "palette" THEN depth ELSE 2 * LitBits)

\* The bits of a run.
BitsOf(m, len) ==
  Prefix(m, len)[2] + (IF len > 1 THEN RunBits ELSE 0)
    + (IF depth > 0 /\ m = "palette" THEN depth ELSE LitBits)

\* The decoder reads a run of which the first three bits are v.
Decode(v) ==
  LET isPalette == ModeOf(v)[1] = "palette"
      len == IF ModeOf(v)[2] THEN rl ELSE 1
      c == IF isPalette THEN dcache[idx] ELSE color
  IN  /\ dcache' = IF isPalette THEN ToFront(dcache, idx) ELSE Push(dcache, c)
      /\ done' = done + len
      /\ out' = [i \in 1 .. done + len |-> IF i <= done THEN out[i] ELSE c]

\* What three bits can be that begin with the prefix; the others are whatever
\* comes next.
Peeked(p) ==
  {v \in 0 .. 7 : p[1] = CASE p[2] = 3 -> v [] p[2] = 2 -> v % 4 [] OTHER -> v % 2}

\* enc_mode_syntax writes the pending run.
Write ==
  /\ bits' = bits + BitsOf(md, rl)
  /\ \E v \in Peeked(Prefix(md, rl)) : Decode(v)

\* In palette mode nothing is written before the first run.
WritePending ==
  IF md = "none" THEN UNCHANGED <<bits, decoder>> ELSE Write

\* Mutant: the cache is looked up but the colour is not kept.
BeginRunForgets(c, len) ==
  LET hit == depth > 0 /\ Hit(cache, c) IN
  /\ md' = IF hit THEN "palette" ELSE "literal"
  /\ idx' = IF hit THEN Place(cache, c) ELSE idx
  /\ color' = IF hit THEN color ELSE c
  /\ cache' = IF hit THEN ToFront(cache, Place(cache, c)) ELSE cache
  /\ rl' = len
  /\ last' = c

\* Mode detection, for a run of c that begins with len pixels.
BeginRun(c, len) ==
  LET hit == depth > 0 /\ Hit(cache, c) IN
  /\ md' = IF hit THEN "palette" ELSE "literal"
  /\ idx' = IF hit THEN Place(cache, c) ELSE idx
  /\ color' = IF hit THEN color ELSE c
  /\ cache' = IF depth = 0 THEN cache
              ELSE IF hit THEN ToFront(cache, Place(cache, c))
              ELSE Push(cache, c)
  /\ rl' = len
  /\ last' = c

Lesser(m, n) == IF m <= n THEN m ELSE n

-----------------------------------------------------------------------------
\* What is uninitialised in the code, last_color and code, is arbitrary.  The
\* canvas always uses the palette mode (OSDEC_PAL_BD).
CmprInit ==
  /\ api \in {"frame", "canvas"}
  /\ depth \in Depths
  /\ api = "canvas" => depth > 0
  /\ pos = 0 /\ left = 0 /\ bits = 0 /\ done = 0
  /\ cache = InitCache(depth) /\ dcache = cache
  /\ md = "none" /\ idx = 0 /\ color \in Colors /\ last \in Colors
  /\ rl = IF api = "frame" THEN 1 ELSE -1
  /\ out = [i \in 1 .. 0 |-> last]
  /\ phase = "draw"

Init == CmprInit /\ image \in [1 .. N -> Colors]

\* Mutant: a run may become one pixel too long.
EncodePixelLong ==
  /\ phase = "draw" /\ api = "frame" /\ pos < N
  /\ IF pos = 0 \/ rl > MaxRun \/ Pixel(pos + 1) # last
     THEN BeginRun(Pixel(pos + 1), 1) /\ WritePending
     ELSE /\ rl' = rl + 1
          /\ UNCHANGED <<cache, md, color, idx, last, bits, decoder>>
  /\ pos' = pos + 1
  /\ UNCHANGED <<config, left, phase>>

\* One pixel of osd_cmpr_enc_one_frame.
EncodePixel ==
  /\ phase = "draw" /\ api = "frame" /\ pos < N
  /\ IF pos = 0 \/ rl >= MaxRun \/ Pixel(pos + 1) # last
     THEN BeginRun(Pixel(pos + 1), 1) /\ WritePending
     ELSE /\ rl' = rl + 1
          /\ UNCHANGED <<cache, md, color, idx, last, bits, decoder>>
  /\ pos' = pos + 1
  /\ UNCHANGED <<config, left, phase>>

\* Its last run.
EncodeEnd ==
  /\ phase = "draw" /\ api = "frame" /\ pos = N
  /\ WritePending
  /\ phase' = "end"
  /\ UNCHANGED <<config, pos, left, cache, run>>

\* osd_cmpr_enc_const_pixel: len pixels of c, in a new run or in the pending
\* one; what does not fit is left.
ConstPixel(c, len, force) ==
  IF c # last \/ force \/ rl = MaxRun
  THEN LET n == Lesser(len, MaxRun) IN
       BeginRun(c, n) /\ WritePending /\ left' = len - n
  ELSE LET n == Lesser(rl + len, MaxRun) IN
       /\ rl' = n /\ left' = len - (n - rl)
       /\ UNCHANGED <<cache, md, color, idx, last, bits, decoder>>

\* draw_cmpr_pixel is called with len pixels of c.
DrawPixel(c, len, isFirst) ==
  /\ phase = "draw" /\ left = 0
  /\ ConstPixel(c, len, isFirst)
  /\ pos' = pos + len
  /\ UNCHANGED <<config, phase>>

\* osd_cmpr_enc_followed_run, while the span is not used up: its colour is the
\* one looked up last and is taken to be at the front of the cache.
FollowedRun ==
  /\ phase = "draw" /\ left > 0
  /\ WritePending
  /\ rl' = Lesser(left, MaxRun) /\ left' = left - rl'
  /\ md' = "palette" /\ idx' = 0
  /\ UNCHANGED <<config, pos, cache, color, last, phase>>

\* draw_cmpr_finish: an empty run of an arbitrary colour writes the last one.
DrawFinish ==
  /\ phase = "draw" /\ left = 0
  /\ \E c \in Colors : BeginRun(c, 0)
  /\ WritePending
  /\ phase' = "end"
  /\ UNCHANGED <<config, pos, left>>

\* A canvas hands over any span of equal pixels, not only the longest.
DrawSpan(len) ==
  /\ api = "canvas" /\ pos + len <= N
  /\ \A i \in pos + 1 .. pos + len : image[i] = image[pos + 1]
  /\ DrawPixel(image[pos + 1], len, pos = 0)

Next ==
  \/ EncodePixel \/ EncodeEnd
  \/ \E len \in 1 .. N : DrawSpan(len)
  \/ FollowedRun
  \/ api = "canvas" /\ pos = N /\ DrawFinish

Spec == Init /\ [][Next]_vars

-----------------------------------------------------------------------------
TypeOK ==
  /\ api \in {"frame", "canvas"}
  /\ depth \in Depths
  /\ image \in [1 .. N -> Colors]
  /\ pos \in Nat /\ left \in Nat
  /\ cache \in [Slots -> [a : Nat, c : Nat]]
  /\ dcache \in [Slots -> [a : Nat, c : Nat]]
  /\ md \in {"none", "palette", "literal"}
  /\ color \in [a : Nat, c : Nat] /\ last \in [a : Nat, c : Nat]
  /\ idx \in Slots
  /\ rl \in -1 .. MaxRun
  /\ bits \in Nat /\ done \in Nat
  /\ DOMAIN out = 1 .. done
  /\ phase \in {"draw", "end"}

\* What the decoder has written is the beginning of the picture, and all of it
\* in the end: the comparison at v2/sample/osdc/sample_osdc.cpp:301.
RoundTrip ==
  /\ done <= N
  /\ \A i \in 1 .. done : out[i] = Pixel(i)
  /\ phase = "end" => done = N

\* Reading the pending run will make the decoder's cache the encoder's, with
\* the run's colour in front, where a run that follows takes it from
\* (osd_cmpr.cpp:412-418, 498-500).
CachesAgree ==
  phase = "draw" =>
    /\ md = "none" => cache = dcache
    /\ md = "literal" => color = last
    /\ md # "none" /\ depth > 0 =>
         /\ cache = IF md = "palette" THEN ToFront(dcache, idx) ELSE Push(dcache, color)
         /\ cache[0] = last

\* osd_cmpr_get_bs_buf_max_sz: however the runs fall, the stream fits into a
\* buffer of that size, of which write_stream lets it use all but the last bit
\* (osd_cmpr.cpp:52, 592-596).
BufBits == HdrBits + 128 * ((N * (LitBits + 1) + 127) \div 128)
FitsBuffer == bits < BufBits

\* A run that ends before it is full ends because the next pixel is another:
\* a canvas writes the same runs as the frame encoder, however its spans are
\* cut (sample_osdc.cpp:297).
RunsLongest ==
  [][done' > done => \/ rl = MaxRun
                     \/ done' = N
                     \/ Pixel(done' + 1) # Pixel(done')]_vars
=============================================================================
