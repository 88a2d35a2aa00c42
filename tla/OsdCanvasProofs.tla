-------------------------- MODULE OsdCanvasProofs --------------------------
(***************************************************************************)
(* Drawing a canvas implements the encoder of OsdCmpr: for every size of   *)
(* the canvas and every sequence of well-formed objects, the spans that    *)
(* draw_cmpr_canvas hands over are the painter's picture, pixel by pixel.  *)
(* What OsdCmprProofs proves of the encoder then holds of a canvas.        *)
(*                                                                         *)
(* The invariant says, of the three stages in turn: the slices that are    *)
(* not over are those of the objects on the line (SlicesRight), the sweep  *)
(* stands at one of them or at none (SweepRight); the segments cut the     *)
(* line (Cut) and have the picture's colours on every line up to nextY     *)
(* (Steady, SegmentsShow); the segments of bitmaps read where the bitmap's *)
(* pixels are (SegmentsRead), which for compressed ones takes that every   *)
(* line has one segment (OneSegment) and the object's offset moves with it *)
(* (Offsets).                                                              *)
(***************************************************************************)
EXTENDS OsdCanvas, OsdCmprProofs, FiniteSetTheorems

Img(px, py) == image[py * W + px + 1]

\* k is the uppermost object at the pixel.
TopAt(k, px, py) ==
  /\ Covers(objs[k], px, py)
  /\ \A j \in DOMAIN objs : j > k => ~Covers(objs[j], px, py)

IsVector(s) == Len(s) \in Nat /\ DOMAIN s = 1 .. Len(s)

\* In no picture does an object begin empty at the first pixel.
CornersDrawn == \A p \in Pictures : CornerDrawn(p)

Objects ==
  /\ IsVector(objs)
  /\ \A k \in DOMAIN objs : WellFormed(objs[k]) /\ objs[k].off \in Nat
  /\ CmprOnTop(objs)
  /\ y = 0 /\ CornersDrawn => CornerDrawn(objs)

\* What is still to be drawn is what the objects that are left show.
PictureLeft ==
  \A py \in y .. H - 1, px \in 0 .. W - 1 :
    /\ \A k \in DOMAIN objs : TopAt(k, px, py) => Img(px, py) = ColourAt(objs[k], px, py)
    /\ (\A k \in DOMAIN objs : ~Covers(objs[k], px, py)) => Img(px, py) = Ground

\* How far the canvas is drawn.
Position ==
  /\ y \in 0 .. H /\ stage \in {"project", "plot", "draw"}
  /\ stage \in {"project", "plot"} => pos = y * W
  /\ stage = "draw" =>
       /\ line \in Nat /\ y + line <= nextY
       /\ seg \in 1 .. Len(segs) + 1 /\ pel \in Nat
       /\ y + line = nextY => seg = 1 /\ pel = 0
       /\ seg <= Len(segs) => /\ pel <= segs[seg].width
                              /\ segs[seg].const => pel = 0
       /\ seg > Len(segs) => pel = 0
       /\ pos = (y + line) * W + (IF seg <= Len(segs) THEN segs[seg].from + pel ELSE W)

\* Until nextY every object looks as it does on line y.
Steady ==
  stage # "project" =>
    /\ nextY \in Nat /\ y < nextY /\ nextY <= H
    /\ \A k \in DOMAIN objs : nextY <= LastsTo(objs[k])

HasSide(o, r, s0, s1) ==
  \E i \in DOMAIN Sides(o, r) : s0 = Sides(o, r)[i][1] /\ s1 = Sides(o, r)[i][2]

InSlice(k, px) == slices[k].x0 <= px /\ px < slices[k].x1

\* The slices that are not over are those of the objects on the line.
SlicesRight ==
  stage = "plot" /\ x < W =>
    /\ IsVector(slices)
    /\ \A k \in DOMAIN slices :
         /\ slices[k].id \in DOMAIN objs
         /\ slices[k].x0 \in Nat /\ slices[k].x1 \in slices[k].x0 .. W
         /\ HasSide(objs[slices[k].id], y, slices[k].x0, slices[k].x1)
    /\ \A k, j \in DOMAIN slices :
         k < j => /\ slices[k].id <= slices[j].id
                  /\ slices[k].id = slices[j].id => objs[slices[k].id].type = "stroke"
    /\ \A m \in DOMAIN objs, px \in x .. W - 1 :
         Covers(objs[m], px, y) => \E k \in DOMAIN slices : slices[k].id = m /\ InSlice(k, px)

\* A slice that began before x is not over, and the one to draw next is the
\* uppermost of those that begin at x.
SweepRight ==
  stage = "plot" /\ x < W =>
    /\ \A k \in DOMAIN slices : slices[k].x0 < x => x < slices[k].x1
    /\ next \in Int /\ next <= Len(slices)
    /\ next > 0 => /\ slices[next].x0 = x
                   /\ \A k \in DOMAIN slices : k > next => x < slices[k].x0
    /\ Len(segs) = 0 => next <= 0

Fields == {"const", "cmpr", "from", "width", "color", "at", "row", "id"}

\* The segments cut the line.
Cut ==
  stage # "project" =>
    /\ IsVector(segs) /\ x \in 0 .. W
    /\ stage = "draw" => x = W
    /\ Len(segs) = 0 => x = 0
    /\ \A i \in DOMAIN segs :
         /\ DOMAIN segs[i] = Fields
         /\ segs[i].const \in BOOLEAN /\ segs[i].cmpr \in BOOLEAN
         /\ segs[i].const => ~segs[i].cmpr
         /\ segs[i].from \in Nat /\ segs[i].width \in Nat
         /\ segs[i].from + segs[i].width <= x
         /\ segs[i].from + segs[i].width = IF i < Len(segs) THEN segs[i + 1].from ELSE x
         /\ i = 1 => segs[i].from = 0
         /\ i > 1 /\ y = 0 /\ CornersDrawn => segs[i].from > 0
    /\ y = 0 /\ CornersDrawn /\ Len(segs) > 0 => x > 0

\* On every line they are for, they have the picture's colours.
SegmentsShow ==
  stage # "project" =>
    \A i \in DOMAIN segs :
      \A px \in segs[i].from .. segs[i].from + segs[i].width - 1, r \in y .. nextY - 1 :
        IF segs[i].const THEN Img(px, r) = segs[i].color
        ELSE Img(px, r) = ColourAt(objs[segs[i].id], px, r)

\* The line a segment is for next.
LineOf(i) ==
  IF stage = "draw" THEN y + line + (IF i < seg THEN 1 ELSE 0) ELSE y

IsCmpr(o) == o.type = "cmpr" /\ o.w > 0

\* Where the segments of bitmaps read.
SegmentsRead ==
  stage # "project" =>
    \A i \in DOMAIN segs : ~segs[i].const =>
      LET s == segs[i]
          o == objs[s.id]
          b == LineBegins(o.lens)
          c == PairBegins(o.pairs, o.lens)
          r == LineOf(i) - o.y
      IN
      /\ s.id \in DOMAIN objs /\ OnLine(o, y)
      /\ o.type = IF s.cmpr THEN "cmpr" ELSE "bitmap"
      /\ o.x <= s.from /\ s.from + s.width <= o.x + o.w
      /\ s.row = r
      /\ ~s.cmpr => s.at = r * o.stride + (s.from - o.x)
      /\ IsCmpr(o) =>
           /\ s.from = o.x /\ s.width = o.w
           /\ stage = "draw" /\ i = seg /\ pel > 0 /\ pel < s.width =>
                /\ s.at \in b[r] .. b[r + 1] - 1
                /\ c[s.at + 1] = pel
           /\ ~(stage = "draw" /\ i = seg /\ pel > 0) => s.at = b[r]

\* A compressed bitmap has one segment on each of its lines.
OneSegment ==
  stage # "project" =>
    /\ \A i, j \in DOMAIN segs :
         i # j /\ segs[i].cmpr /\ segs[j].cmpr /\ segs[i].id = segs[j].id =>
           ~IsCmpr(objs[segs[i].id])
    /\ \A k \in DOMAIN objs : IsCmpr(objs[k]) /\ OnLine(objs[k], y) =>
         \/ \E i \in DOMAIN segs : segs[i].cmpr /\ segs[i].id = k
         \/ stage = "plot" /\ x < W /\ \E i \in DOMAIN slices : slices[i].id = k /\ x <= slices[i].x0
    /\ stage = "plot" /\ x < W =>
         \A i \in DOMAIN segs, k \in DOMAIN slices :
           segs[i].cmpr /\ segs[i].id = slices[k].id => ~IsCmpr(objs[slices[k].id])

Drawn(k) == stage = "draw" /\ \E i \in 1 .. seg - 1 : segs[i].cmpr /\ segs[i].id = k

\* The offset of a compressed bitmap is where its next line begins.
Offsets ==
  \A k \in DOMAIN objs : IsCmpr(objs[k]) /\ y < objs[k].maxY =>
    objs[k].off = LineBegins(objs[k].lens)
      [IF y < objs[k].y THEN 0
       ELSE (IF stage = "draw" THEN y + line ELSE y) + (IF Drawn(k) THEN 1 ELSE 0) - objs[k].y]

CanvasInv ==
  /\ api = "canvas"
  /\ Objects /\ PictureLeft /\ Position /\ Steady
  /\ SlicesRight /\ SweepRight
  /\ Cut /\ SegmentsShow /\ SegmentsRead /\ OneSegment /\ Offsets

-----------------------------------------------------------------------------
\* Vectors

\* The members of a set of places, in order.
LEMMA InOrderRight ==
  ASSUME NEW n \in Nat, NEW S \in SUBSET (1 .. n)
  PROVE  LET at == InOrder(S)
             place(k) == Cardinality({j \in S : j <= k})
         IN  /\ Cardinality(S) \in Nat
             /\ DOMAIN at = 1 .. Cardinality(S)
             /\ \A i \in DOMAIN at : at[i] \in S
             /\ \A i, j \in DOMAIN at : i < j => at[i] < at[j]
             /\ \A k \in S : place(k) \in DOMAIN at /\ at[place(k)] = k
<1> DEFINE below(k) == {j \in S : j < k}
           upto(k) == {j \in S : j <= k}
           m == Cardinality(S)
           at == InOrder(S)
<1>0. S \subseteq Nat
  OBVIOUS
<1>1. IsFiniteSet(S) /\ m \in Nat
  <2>1. IsFiniteSet(1 .. n)
    BY FS_Interval
  <2>2. IsFiniteSet(S)
    BY <2>1, FS_Subset
  <2>3. QED
    BY <2>2, FS_CardinalityType
<1>2. ASSUME NEW k
      PROVE  /\ IsFiniteSet(below(k)) /\ Cardinality(below(k)) \in Nat
             /\ IsFiniteSet(upto(k)) /\ Cardinality(upto(k)) \in 0 .. m
  <2>1. below(k) \in SUBSET S /\ upto(k) \in SUBSET S
    OBVIOUS
  <2>2. IsFiniteSet(below(k)) /\ IsFiniteSet(upto(k))
        /\ Cardinality(upto(k)) <= m
    BY <1>1, <2>1, FS_Subset
  <2>3. Cardinality(below(k)) \in Nat /\ Cardinality(upto(k)) \in Nat
    BY <2>2, FS_CardinalityType
  <2>4. QED
    BY <1>1, <2>2, <2>3
<1>3. ASSUME NEW k \in S
      PROVE  Cardinality(upto(k)) = Cardinality(below(k)) + 1
  <2>1. upto(k) = below(k) \cup {k} /\ k \notin below(k)
    <3>1. \A j \in S : (j <= k <=> j < k \/ j = k) /\ ~(k < k)
      BY <1>0
    <3>2. QED
      BY <3>1, Zenon
  <2>2. Cardinality(below(k) \cup {k}) = Cardinality(below(k)) + 1
    BY <1>2, <2>1, FS_AddElement
  <2>3. QED
    BY <2>1, <2>2
<1>4. ASSUME NEW k \in S, NEW j \in S, j < k
      PROVE  Cardinality(upto(j)) <= Cardinality(below(k))
  <2>1. upto(j) \in SUBSET below(k)
    <3>1. \A i \in S : i <= j => i < k
      BY <1>0, <1>4
    <3>2. QED
      BY <3>1, Zenon
  <2>2. QED
    BY <1>2, <2>1, FS_Subset
<1>5. ASSUME NEW k \in S, NEW j \in S, Cardinality(below(k)) = Cardinality(below(j))
      PROVE  k = j
  <2>1. k \in Nat /\ j \in Nat
    BY <1>0
  <2>2. Cardinality(upto(k)) = Cardinality(below(k)) + 1
        /\ Cardinality(upto(j)) = Cardinality(below(j)) + 1
    BY <1>3
  <2>3. Cardinality(below(k)) \in Nat /\ Cardinality(below(j)) \in Nat
    BY <1>2
  <2>4. ~(j < k)
    <3>1. SUFFICES ASSUME j < k PROVE FALSE
      OBVIOUS
    <3>2. Cardinality(upto(j)) <= Cardinality(below(k))
      BY <1>4, <3>1
    <3>3. QED
      BY <1>5, <2>2, <2>3, <3>2
  <2>5. ~(k < j)
    <3>1. SUFFICES ASSUME k < j PROVE FALSE
      OBVIOUS
    <3>2. Cardinality(upto(k)) <= Cardinality(below(j))
      BY <1>4, <3>1
    <3>3. QED
      BY <1>5, <2>2, <2>3, <3>2
  <2>6. QED
    BY <2>1, <2>4, <2>5
<1> DEFINE rank == [k \in S |-> Cardinality(below(k)) + 1]
<1>6. rank \in Injection(S, 1 .. m)
  <2>1. ASSUME NEW k \in S
        PROVE  rank[k] \in 1 .. m
    <3>1. rank[k] = Cardinality(below(k)) + 1
      OBVIOUS
    <3>2. Cardinality(below(k)) \in Nat /\ Cardinality(upto(k)) \in 0 .. m
      BY <1>2
    <3>3. Cardinality(upto(k)) = Cardinality(below(k)) + 1
      BY <1>3
    <3>4. QED
      BY <1>1, <3>1, <3>2, <3>3
  <2>2. ASSUME NEW k \in S, NEW j \in S, rank[k] = rank[j]
        PROVE  k = j
    <3>1. rank[k] = Cardinality(below(k)) + 1 /\ rank[j] = Cardinality(below(j)) + 1
      OBVIOUS
    <3>2. Cardinality(below(k)) \in Nat /\ Cardinality(below(j)) \in Nat
      BY <1>2
    <3>3. Cardinality(below(k)) = Cardinality(below(j))
      BY <2>2, <3>1, <3>2
    <3>4. QED
      BY <1>5, <3>3
  <2>3. QED
    BY <2>1, <2>2 DEF Injection, IsInjective
<1>7. rank \in Surjection(S, 1 .. m)
  <2>1. IsFiniteSet(1 .. m) /\ Cardinality(1 .. m) = m
    BY <1>1, FS_Interval
  <2>2. QED
    BY <1>6, <2>1, FS_Injection
<1>8. ASSUME NEW i \in 1 .. m
      PROVE  at[i] \in S /\ Cardinality(below(at[i])) = i - 1
  <2>1. \E k \in S : Cardinality(below(k)) = i - 1
    <3>1. PICK k \in S : rank[k] = i
      BY <1>7 DEF Surjection
    <3>2. Cardinality(below(k)) \in Nat /\ rank[k] = Cardinality(below(k)) + 1
      BY <1>2
    <3>3. Cardinality(below(k)) = i - 1
      BY <3>1, <3>2
    <3>4. QED
      BY <3>3
  <2>2. at[i] = CHOOSE k \in S : Cardinality(below(k)) = i - 1
    BY DEF InOrder
  <2>3. QED
    BY <2>1, <2>2
<1>9. DOMAIN at = 1 .. m
  BY DEF InOrder
<1>10. ASSUME NEW i \in 1 .. m, NEW j \in 1 .. m, i < j
       PROVE  at[i] < at[j]
  <2>1. /\ at[i] \in S /\ Cardinality(below(at[i])) = i - 1
        /\ at[j] \in S /\ Cardinality(below(at[j])) = j - 1
    BY <1>8
  <2>2. at[i] \in Nat /\ at[j] \in Nat
    BY <1>0, <2>1
  <2>3. at[i] # at[j]
    BY <1>10, <2>1
  <2>4. ~(at[j] < at[i])
    <3>1. SUFFICES ASSUME at[j] < at[i] PROVE FALSE
      OBVIOUS
    <3>2. Cardinality(upto(at[j])) <= Cardinality(below(at[i]))
      BY <1>4, <2>1, <3>1
    <3>3. Cardinality(upto(at[j])) = j - 1 + 1
      BY <1>3, <2>1
    <3>4. QED
      BY <1>10, <2>1, <3>2, <3>3
  <2>5. QED
    BY <2>2, <2>3, <2>4
<1>11. ASSUME NEW k \in S
       PROVE  Cardinality(upto(k)) \in 1 .. m /\ at[Cardinality(upto(k))] = k
  <2>1. Cardinality(upto(k)) = Cardinality(below(k)) + 1
    BY <1>3
  <2>2. Cardinality(below(k)) \in Nat /\ Cardinality(upto(k)) \in 0 .. m
    BY <1>2
  <2>3. Cardinality(upto(k)) \in 1 .. m
    BY <1>1, <2>1, <2>2
  <2>4. /\ at[Cardinality(upto(k))] \in S
        /\ Cardinality(below(at[Cardinality(upto(k))])) = Cardinality(upto(k)) - 1
    BY <1>8, <2>3
  <2>5. Cardinality(below(at[Cardinality(upto(k))])) = Cardinality(below(k))
    BY <2>1, <2>2, <2>4
  <2>6. QED
    BY <1>5, <2>3, <2>4, <2>5
<1>12. QED
  BY <1>1, <1>8, <1>9, <1>10, <1>11

\* What is left of a vector is one, in the order it was.
LEMMA KeepRight ==
  ASSUME NEW s, IsVector(s), NEW S \in SUBSET DOMAIN s
  PROVE  LET rest == KeepPlaces(s, S)
             at == InOrder(S)
         IN  /\ IsVector(rest) /\ DOMAIN at = DOMAIN rest
             /\ \A i \in DOMAIN rest : at[i] \in S /\ at[i] \in DOMAIN s /\ rest[i] = s[at[i]]
             /\ \A i, j \in DOMAIN rest : i < j => at[i] < at[j]
             /\ \A k \in S : \E i \in DOMAIN rest : at[i] = k
             /\ \A k \in S : LET i == Cardinality({j \in S : j <= k}) IN
                             i \in DOMAIN rest /\ at[i] = k
<1> DEFINE rest == KeepPlaces(s, S)
           at == InOrder(S)
<1>1. Len(s) \in Nat /\ S \in SUBSET (1 .. Len(s))
  BY DEF IsVector
<1>2. /\ Cardinality(S) \in Nat
      /\ DOMAIN at = 1 .. Cardinality(S)
      /\ \A i \in DOMAIN at : at[i] \in S
      /\ \A i, j \in DOMAIN at : i < j => at[i] < at[j]
      /\ \A k \in S : LET i == Cardinality({j \in S : j <= k}) IN
                      i \in DOMAIN at /\ at[i] = k
  BY <1>1, InOrderRight
<1>3. rest = [i \in 1 .. Cardinality(S) |-> s[at[i]]]
  BY <1>2 DEF KeepPlaces
<1>4. Len(rest) = Cardinality(S)
  BY <1>2, <1>3
<1>5. IsVector(rest) /\ DOMAIN rest = DOMAIN at
  BY <1>2, <1>3, <1>4 DEF IsVector
<1>6. QED
  BY <1>2, <1>3, <1>5

\* Erasing places before k moves it as far as they are many.
LEMMA PlaceAfter ==
  ASSUME NEW n \in Nat, NEW k \in 1 .. n, NEW R \in SUBSET (1 .. k - 1)
  PROVE  /\ Cardinality(R) \in Nat
         /\ Cardinality({j \in (1 .. n) \ R : j <= k}) = k - Cardinality(R)
<1> DEFINE T == {j \in (1 .. n) \ R : j <= k}
<1>1. IsFiniteSet(1 .. k) /\ Cardinality(1 .. k) = k
  BY FS_Interval
<1>2. R \in SUBSET (1 .. k)
  OBVIOUS
<1>3. IsFiniteSet(R) /\ Cardinality(R) \in Nat
  BY <1>1, <1>2, FS_Subset, FS_CardinalityType
<1>4. T = (1 .. k) \ R
  OBVIOUS
<1>5. Cardinality((1 .. k) \ R) = Cardinality(1 .. k) - Cardinality((1 .. k) \cap R)
  BY <1>1, FS_Difference
<1>6. (1 .. k) \cap R = R
  BY <1>2
<1>7. QED
  BY <1>1, <1>3, <1>4, <1>5, <1>6

-----------------------------------------------------------------------------
\* Numbers of pixels

\* A line before another is one of the canvas.
LEMMA LineBetween ==
  ASSUME NEW a \in Nat, NEW b \in Nat, NEW c \in Nat, b <= c, NEW r \in a .. b - 1
  PROVE  r \in Nat /\ a <= r /\ r < b /\ r \in a .. c - 1
OBVIOUS

\* The pixels of a line are numbered from left to right, line after line.
LEMMA PixelIndex ==
  ASSUME NEW py \in Nat, NEW px \in 0 .. W - 1
  PROVE  /\ (py * W + px) % W = px
         /\ (py * W + px) \div W = py
         /\ py * W \in Nat
         /\ py < H => py * W + px + 1 \in 1 .. N
         /\ (py + 1) * W = py * W + W
BY CanvasAssumption

\* A product of numbers is one.
LEMMA TimesNat ==
  ASSUME NEW a \in Nat, NEW b \in Nat
  PROVE  a * b \in Nat
OBVIOUS

\* Every number up to N is one of a pixel.
LEMMA IndexPixel ==
  ASSUME NEW i \in 1 .. N
  PROVE  (i - 1) % W \in 0 .. W - 1 /\ (i - 1) \div W \in 0 .. H - 1
BY CanvasAssumption

\* The first equal pixels are at least one.
LEMMA RepeatRight ==
  ASSUME NEW pic, NEW at, NEW n \in Nat \ {0}, pic[at + 0] = pic[at]
  PROVE  /\ Repeat(pic, at, n) \in 1 .. n
         /\ \A i \in 0 .. Repeat(pic, at, n) - 1 : pic[at + i] = pic[at]
<1> DEFINE good(k) == /\ \A i \in 0 .. k - 1 : pic[at + i] = pic[at]
                      /\ k = n \/ pic[at + k] # pic[at]
           T == {k \in 1 .. n : k = n \/ pic[at + k] # pic[at]}
<1>1. T \subseteq Nat /\ T # {}
  OBVIOUS
<1>2. PICK k \in T : \A j \in T : ~ (<<j, k>> \in OpToRel(<, Nat))
  BY <1>1, WFMin, NatLessThanWellFounded, Zenon
<1>3. \A j \in T : ~ (j < k)
  BY <1>1, <1>2, Zenon DEF OpToRel
<1>4. \A i \in 0 .. k - 1 : pic[at + i] = pic[at]
  BY <1>3
<1>5. \E j \in 1 .. n : good(j)
  BY <1>4
<1>6. Repeat(pic, at, n) = CHOOSE j \in 1 .. n : good(j)
  BY DEF Repeat
<1>7. QED
  BY <1>5, <1>6

-----------------------------------------------------------------------------
\* Objects on a line

IsPicture(o) == o.type \in {"bitmap", "cmpr"}

\* The sides of an object on a line lie on the canvas; only a stroked
\* rectangle has two.
LEMMA SidesRight ==
  ASSUME NEW o, WellFormed(o), NEW r \in Nat
  PROVE  /\ DOMAIN Sides(o, r) = IF ~OnLine(o, r) THEN {}
                                 ELSE IF o.type = "stroke" /\ Beside(o, r) THEN {1, 2} ELSE {1}
         /\ \A i \in DOMAIN Sides(o, r) :
              /\ Sides(o, r)[i][1] \in Nat /\ Sides(o, r)[i][2] \in Sides(o, r)[i][1] .. W
              /\ o.type \in {"rect", "bitmap", "cmpr"} =>
                   Sides(o, r)[i][1] = o.x /\ Sides(o, r)[i][2] = o.x + o.w
<1> USE CanvasAssumption
<1>1. o.minY \in Nat /\ o.maxY \in Nat
  BY DEF WellFormed
<1>2. CASE ~OnLine(o, r)
  BY <1>2 DEF Sides
<1>3. CASE OnLine(o, r) /\ o.type = "line"
  <2>1. Sides(o, r) = <<o.spans[r]>>
    BY <1>3 DEF Sides
  <2>2. r \in o.minY .. o.maxY - 1
    BY <1>1, <1>3 DEF OnLine
  <2>3. o.spans[r][1] \in 0 .. W /\ o.spans[r][2] \in o.spans[r][1] .. W
    BY <1>3, <2>2 DEF WellFormed
  <2>4. QED
    BY <1>3, <2>1, <2>3
<1>4. CASE OnLine(o, r) /\ o.type = "stroke" /\ Beside(o, r)
  <2>1. Sides(o, r) = <<<<o.x, o.x + o.thickness>>, <<o.x + o.w - o.thickness, o.x + o.w>>>>
    BY <1>4 DEF Sides
  <2>2. o.x \in Nat /\ o.w \in Nat /\ o.x + o.w <= W /\ o.thickness \in Nat /\ 2 * o.thickness <= o.w
    BY <1>4 DEF WellFormed
  <2>3. QED
    BY <1>4, <2>1, <2>2
<1>5. CASE OnLine(o, r) /\ o.type # "line" /\ ~(o.type = "stroke" /\ Beside(o, r))
  <2>1. Sides(o, r) = <<<<o.x, o.x + o.w>>>>
    BY <1>5 DEF Sides
  <2>2. o.x \in Nat /\ o.w \in Nat /\ o.x + o.w <= W
    BY <1>5 DEF WellFormed
  <2>3. QED
    BY <1>5, <2>1, <2>2
<1>6. QED
  BY <1>2, <1>3, <1>4, <1>5

\* The painter covers what is between the sides.
LEMMA CoversRight ==
  ASSUME NEW o, WellFormed(o), NEW r \in Nat, NEW px \in Nat
  PROVE  Covers(o, px, r) <=>
           \E i \in DOMAIN Sides(o, r) : Sides(o, r)[i][1] <= px /\ px < Sides(o, r)[i][2]
<1>1. CASE ~OnLine(o, r)
  BY <1>1 DEF Sides, Covers, OnLine
<1>2. CASE OnLine(o, r) /\ o.type = "line"
  <2>1. Sides(o, r) = <<o.spans[r]>>
    BY <1>2 DEF Sides
  <2>2. QED
    BY <1>2, <2>1 DEF Covers, OnLine
<1>3. CASE OnLine(o, r) /\ o.type = "stroke" /\ Beside(o, r)
  <2>1. Sides(o, r) = <<<<o.x, o.x + o.thickness>>, <<o.x + o.w - o.thickness, o.x + o.w>>>>
    BY <1>3 DEF Sides
  <2>2. /\ o.x \in Nat /\ o.w \in Nat /\ o.x + o.w <= W /\ o.thickness \in Nat /\ 2 * o.thickness <= o.w
        /\ o.y = o.minY /\ o.minY \in Nat /\ o.h \in Nat /\ o.maxY = o.y + o.h
    BY <1>3 DEF WellFormed
  <2>3. Covers(o, px, r) <=>
          \/ o.x <= px /\ px < o.x + o.thickness
          \/ o.x + o.w - o.thickness <= px /\ px < o.x + o.w
    BY <1>3, <2>2 DEF Covers, OnLine, Beside
  <2>4. QED
    BY <2>1, <2>3
<1>4. CASE OnLine(o, r) /\ o.type = "stroke" /\ ~Beside(o, r)
  <2>1. Sides(o, r) = <<<<o.x, o.x + o.w>>>>
    BY <1>4 DEF Sides
  <2>2. /\ o.x \in Nat /\ o.w \in Nat /\ o.x + o.w <= W /\ o.thickness \in Nat
        /\ o.y = o.minY /\ o.minY \in Nat /\ o.h \in Nat /\ o.maxY = o.y + o.h
    BY <1>4 DEF WellFormed
  <2>3. Covers(o, px, r) <=> o.x <= px /\ px < o.x + o.w
    BY <1>4, <2>2 DEF Covers, OnLine, Beside
  <2>4. QED
    BY <2>1, <2>3
<1>5. CASE OnLine(o, r) /\ o.type \notin {"line", "stroke"}
  <2>1. Sides(o, r) = <<<<o.x, o.x + o.w>>>>
    BY <1>5 DEF Sides
  <2>2. QED
    BY <1>5, <2>1 DEF Covers, OnLine
<1>6. QED
  BY <1>1, <1>2, <1>3, <1>4, <1>5

\* An object looks the same up to the line it says, which is a later one.
LEMMA LastsRight ==
  ASSUME NEW o, WellFormed(o), y \in Nat
  PROVE  /\ LastsTo(o) \in Nat /\ y < LastsTo(o)
         /\ \A r \in Nat : y <= r /\ r < LastsTo(o) =>
              /\ Sides(o, r) = Sides(o, y)
              /\ OnLine(o, r) <=> OnLine(o, y)
<1>1. o.minY \in Nat /\ o.maxY \in Nat /\ o.minY <= o.maxY
  BY CanvasAssumption DEF WellFormed
<1>2. CASE ~OnLine(o, y)
  <2>1. LastsTo(o) = Greater(o.minY, y + 1)
    BY <1>2 DEF LastsTo
  <2>2. LastsTo(o) \in Nat /\ y < LastsTo(o)
    BY <1>1, <2>1 DEF Greater
  <2>3. ASSUME NEW r \in Nat, y <= r, r < LastsTo(o)
        PROVE  ~OnLine(o, r)
    BY <1>1, <1>2, <2>1, <2>3 DEF OnLine, Greater
  <2>4. QED
    BY <1>2, <2>2, <2>3 DEF Sides
<1>3. CASE OnLine(o, y) /\ o.type = "line"
  <2>1. LastsTo(o) = y + 1
    BY <1>3 DEF LastsTo
  <2>2. QED
    BY <2>1
<1>4. CASE OnLine(o, y) /\ o.type = "stroke"
  <2>1. /\ o.w \in Nat /\ o.thickness \in Nat /\ 2 * o.thickness <= o.w
        /\ o.y = o.minY /\ o.minY \in Nat /\ o.h \in Nat /\ o.maxY = o.y + o.h
        /\ o.h > 0 => 2 * o.thickness < o.h
    BY <1>4 DEF WellFormed
  <2>2. o.h > 0
    BY <1>4, <2>1 DEF OnLine
  <2>3. LastsTo(o) = IF Beside(o, y) THEN o.y + o.h - o.thickness
                     ELSE IF y > o.y + o.thickness THEN o.y + o.h ELSE o.y + o.thickness
    BY <1>4 DEF LastsTo
  <2>4. LastsTo(o) \in Nat /\ y < LastsTo(o) /\ LastsTo(o) <= o.y + o.h
    BY <1>4, <2>1, <2>2, <2>3 DEF OnLine, Beside
  <2>5. ASSUME NEW r \in Nat, y <= r, r < LastsTo(o)
        PROVE  OnLine(o, r) /\ (Beside(o, r) <=> Beside(o, y))
    BY <1>4, <2>1, <2>2, <2>3, <2>4, <2>5 DEF OnLine, Beside
  <2>6. QED
    BY <1>4, <2>4, <2>5 DEF Sides
<1>5. CASE OnLine(o, y) /\ o.type \notin {"line", "stroke"}
  <2>1. LastsTo(o) = o.maxY
    BY <1>5 DEF LastsTo
  <2>2. ASSUME NEW r \in Nat, y <= r, r < LastsTo(o)
        PROVE  OnLine(o, r)
    BY <1>1, <1>5, <2>1, <2>2 DEF OnLine
  <2>3. QED
    BY <1>1, <1>5, <2>1, <2>2 DEF Sides, OnLine
<1>6. QED
  BY <1>2, <1>3, <1>4, <1>5

\* So it covers the same pixels.
LEMMA CoversSteady ==
  ASSUME NEW o, WellFormed(o), y \in Nat, NEW r \in Nat, y <= r, r < LastsTo(o),
         NEW px \in Nat
  PROVE  Covers(o, px, r) <=> Covers(o, px, y)
<1>1. Sides(o, r) = Sides(o, y)
  BY LastsRight
<1>2. QED
  BY <1>1, CoversRight

\* The offset into its pairs is no part of how an object looks.
LEMMA OffRight ==
  ASSUME NEW o, WellFormed(o), NEW v
  PROVE  LET n == [o EXCEPT !.off = v] IN
         /\ n.off = v
         /\ /\ n.type = o.type /\ n.x = o.x /\ n.y = o.y /\ n.w = o.w /\ n.h = o.h
            /\ n.minY = o.minY /\ n.maxY = o.maxY /\ n.thickness = o.thickness
            /\ n.color = o.color /\ n.pic = o.pic /\ n.stride = o.stride
            /\ n.pairs = o.pairs /\ n.lens = o.lens /\ n.spans = o.spans
         /\ WellFormed(n)
<1> DEFINE n == [o EXCEPT !.off = v]
<1>1. DOMAIN o = DOMAIN Object("rect", 0, 0, 0, 0)
  BY DEF WellFormed
<1>2. DOMAIN o = {"type", "x", "y", "w", "h", "minY", "maxY", "thickness", "color",
                  "pic", "stride", "pairs", "lens", "off", "spans"}
  BY <1>1 DEF Object
<1>3. n = [f \in DOMAIN o |-> IF f = "off" THEN v ELSE o[f]]
  OBVIOUS
<1>4. DOMAIN n = DOMAIN o /\ n.off = v
  BY <1>2, <1>3
<1>5. /\ n.type = o.type /\ n.x = o.x /\ n.y = o.y /\ n.w = o.w /\ n.h = o.h
      /\ n.minY = o.minY /\ n.maxY = o.maxY /\ n.thickness = o.thickness
      /\ n.color = o.color /\ n.pic = o.pic /\ n.stride = o.stride
      /\ n.pairs = o.pairs /\ n.lens = o.lens /\ n.spans = o.spans
  BY <1>2, <1>3
<1>6. CmprWellFormed(n) <=> CmprWellFormed(o)
  BY <1>5 DEF CmprWellFormed
<1>7. WellFormed(n)
  BY <1>4, <1>5, <1>6 DEF WellFormed
<1>8. QED
  BY <1>4, <1>5, <1>7

-----------------------------------------------------------------------------
\* The objects that set_rect_obj_attr and its like make are well formed: they are
\* clipped to the canvas.

\* A number is clipped into its bounds.
LEMMA ClipRight ==
  ASSUME NEW v \in Int, NEW low \in Int, NEW high \in Int, low <= high
  PROVE  /\ Clip(v, low, high) \in low .. high
         /\ v >= low => Clip(v, low, high) <= v
BY DEF Clip, Greater, Lesser

\* What every object is given by its place and its size.
LEMMA ObjectRight ==
  ASSUME NEW type, NEW px \in Int, NEW py \in Int, NEW w \in Int, NEW h \in Int
  PROVE  LET o == Object(type, px, py, w, h) IN
         /\ DOMAIN o = DOMAIN Object("rect", 0, 0, 0, 0)
         /\ o.type = type /\ o.color = Ground /\ o.thickness = 0 /\ o.off = 0
         /\ o.x \in Nat /\ o.w \in Nat /\ o.x + o.w <= W
         /\ o.y \in Nat /\ o.h \in Nat /\ o.y + o.h <= H
         /\ o.minY = o.y /\ o.maxY = o.y + o.h /\ o.stride = w
         /\ (w >= 0 => o.w <= w) /\ (h >= 0 => o.h <= h)
<1> DEFINE o == Object(type, px, py, w, h)
           rx == Clip(px, 0, W - 1)
           ry == Clip(py, 0, H - 1)
           rw == Clip(w, 0, W - rx)
           rh == Clip(h, 0, H - ry)
<1>1. W \in Nat /\ W > 0 /\ H \in Nat /\ H > 0
  BY CanvasAssumption
<1>2. rx \in 0 .. W - 1 /\ ry \in 0 .. H - 1
  <2>1. W - 1 \in Int /\ 0 <= W - 1 /\ H - 1 \in Int /\ 0 <= H - 1 /\ 0 \in Int
    BY <1>1
  <2>2. QED
    BY <2>1, ClipRight, Zenon
<1> HIDE DEF rx, ry
<1>3. /\ rw \in 0 .. W - rx /\ rh \in 0 .. H - ry
      /\ (w >= 0 => rw <= w) /\ (h >= 0 => rh <= h)
  <2>1. W - rx \in Int /\ 0 <= W - rx /\ H - ry \in Int /\ 0 <= H - ry /\ 0 \in Int
    BY <1>1, <1>2
  <2>2. QED
    BY <2>1, ClipRight, Zenon
<1> HIDE DEF rw, rh
<1>4. /\ DOMAIN o = DOMAIN Object("rect", 0, 0, 0, 0)
      /\ o.type = type /\ o.color = Ground /\ o.thickness = 0 /\ o.off = 0
      /\ o.x = rx /\ o.w = rw /\ o.y = ry /\ o.h = rh
      /\ o.minY = ry /\ o.maxY = ry + rh /\ o.stride = w
  BY DEF Object, rx, ry, rw, rh
<1> HIDE DEF o
<1>5. QED
  BY <1>1, <1>2, <1>3, <1>4 DEF o

\* Half of the smaller side, and one less, is the most a border can take.
LEMMA ThicknessRight ==
  ASSUME NEW w \in Nat, NEW h \in Nat, NEW t \in Int
  PROVE  LET k == Lesser(Greater(Lesser(h, w) \div 2 - 1, 0), Clip(t, 1, 32)) IN
         k \in Nat /\ 2 * k <= w /\ (h > 0 => 2 * k < h)
<1> DEFINE m == Lesser(h, w)
           g == Greater(m \div 2 - 1, 0)
           c == Clip(t, 1, 32)
           k == Lesser(g, c)
<1>1. m \in Nat /\ m <= h /\ m <= w
  BY DEF Lesser
<1>2. c \in 1 .. 32
  <2>1. 1 \in Int /\ 32 \in Int /\ 1 <= 32
    OBVIOUS
  <2>2. QED
    BY <2>1, ClipRight, Zenon
<1> HIDE DEF m, c
<1>3. m \div 2 \in Nat /\ 2 * (m \div 2) <= m
  BY <1>1
<1>4. g \in Nat /\ (g = 0 \/ g = m \div 2 - 1)
  BY <1>3 DEF Greater
<1> HIDE DEF g
<1>5. k \in Nat /\ k <= g
  BY <1>2, <1>4 DEF Lesser
<1> HIDE DEF k
<1>6. k = 0 \/ 2 * k <= m - 2
  <2>1. CASE g = 0
    BY <1>5, <2>1
  <2>2. CASE g = m \div 2 - 1
    <3> DEFINE v == m \div 2
    <3>1. v \in Nat /\ 2 * v <= m /\ g = v - 1
      BY <1>3, <2>2
    <3> HIDE DEF v
    <3>2. QED
      BY <1>1, <1>5, <3>1
  <2>3. QED
    BY <1>4, <2>1, <2>2
<1>7. k \in Nat /\ 2 * k <= w /\ (h > 0 => 2 * k < h)
  BY <1>1, <1>5, <1>6
<1>8. QED
  BY <1>7 DEF k, g, m, c

\* set_rect_obj_attr: wherever it is put and whatever its size, a rectangle is clipped
\* into the canvas, and its border leaves something of its inside.
THEOREM RectWellFormed ==
  ASSUME NEW c \in Colors, NEW px \in Int, NEW py \in Int, NEW w \in Int, NEW h \in Int,
         NEW filled \in BOOLEAN, NEW t \in Int
  PROVE  LET o == RectObj(c, px, py, w, h, filled, t) IN WellFormed(o) /\ o.off = 0
<1> DEFINE type == IF filled THEN "rect" ELSE "stroke"
           p == Object(type, px, py, w, h)
           k == Lesser(Greater(Lesser(p.h, p.w) \div 2 - 1, 0), Clip(t, 1, 32))
           o == RectObj(c, px, py, w, h, filled, t)
<1>1. type \in {"rect", "stroke"}
  OBVIOUS
<1> HIDE DEF type
<1>2. /\ DOMAIN p = DOMAIN Object("rect", 0, 0, 0, 0)
      /\ p.type = type /\ p.off = 0
      /\ p.x \in Nat /\ p.w \in Nat /\ p.x + p.w <= W
      /\ p.y \in Nat /\ p.h \in Nat /\ p.y + p.h <= H
      /\ p.minY = p.y /\ p.maxY = p.y + p.h
  BY ObjectRight
<1>3. k \in Nat /\ 2 * k <= p.w /\ (p.h > 0 => 2 * k < p.h)
  BY <1>2, ThicknessRight
<1>4. o = [p EXCEPT !.color = c, !.thickness = k]
  BY DEF RectObj, type
<1>5. DOMAIN p = {"type", "x", "y", "w", "h", "minY", "maxY", "thickness", "color",
                  "pic", "stride", "pairs", "lens", "off", "spans"}
  BY DEF Object
<1> HIDE DEF p, k
<1>6. /\ DOMAIN o = DOMAIN p /\ o.type = p.type /\ o.off = p.off /\ o.x = p.x /\ o.w = p.w
      /\ o.y = p.y /\ o.h = p.h /\ o.minY = p.minY /\ o.maxY = p.maxY
      /\ o.color = c /\ o.thickness = k
  BY <1>4, <1>5
<1> HIDE DEF o
<1>7. o.maxY \in o.minY .. H /\ o.minY \in Nat
  BY <1>2, <1>6, CanvasAssumption
<1>8. WellFormed(o) /\ o.off = 0
  BY <1>1, <1>2, <1>3, <1>6, <1>7 DEF WellFormed
<1>9. QED
  BY <1>8 DEF o

\* set_bitmap_obj_attr: a bitmap is read with the stride of its own width, of which the
\* canvas shows no more than there is.
THEOREM BitmapWellFormed ==
  ASSUME NEW px \in Int, NEW py \in Int, NEW w \in Nat, NEW h \in Nat, NEW pic,
         \A r \in 0 .. h - 1 : \A i \in 0 .. w - 1 : pic[r * w + i] \in Colors
  PROVE  LET o == BitmapObj(pic, px, py, w, h) IN WellFormed(o) /\ o.off = 0
<1> DEFINE p == Object("bitmap", px, py, w, h)
           o == BitmapObj(pic, px, py, w, h)
<1>1. /\ DOMAIN p = DOMAIN Object("rect", 0, 0, 0, 0)
      /\ p.type = "bitmap" /\ p.color = Ground /\ p.off = 0
      /\ p.x \in Nat /\ p.w \in Nat /\ p.x + p.w <= W
      /\ p.y \in Nat /\ p.h \in Nat /\ p.y + p.h <= H
      /\ p.minY = p.y /\ p.maxY = p.y + p.h /\ p.stride = w
      /\ p.w <= w /\ p.h <= h
  BY ObjectRight
<1>2. o = [p EXCEPT !.pic = pic]
  BY DEF BitmapObj
<1>3. DOMAIN p = {"type", "x", "y", "w", "h", "minY", "maxY", "thickness", "color",
                  "pic", "stride", "pairs", "lens", "off", "spans"}
  BY DEF Object
<1> HIDE DEF p
<1>4. /\ DOMAIN o = DOMAIN p /\ o.type = p.type /\ o.off = p.off /\ o.x = p.x /\ o.w = p.w
      /\ o.y = p.y /\ o.h = p.h /\ o.minY = p.minY /\ o.maxY = p.maxY
      /\ o.color = p.color /\ o.stride = p.stride /\ o.pic = pic
  BY <1>2, <1>3
<1> HIDE DEF o
<1>5. o.maxY \in o.minY .. H /\ o.minY \in Nat
  BY <1>1, <1>4, CanvasAssumption
<1>6. \A r \in 0 .. o.h - 1 : \A i \in 0 .. o.w - 1 : o.pic[r * o.stride + i] \in Colors
  <2>1. ASSUME NEW r \in 0 .. o.h - 1, NEW i \in 0 .. o.w - 1
        PROVE  o.pic[r * o.stride + i] \in Colors
    <3>1. r \in 0 .. h - 1 /\ i \in 0 .. w - 1
      BY <1>1, <1>4
    <3>2. o.pic = pic /\ o.stride = w
      BY <1>1, <1>4
    <3>3. QED
      BY <3>1, <3>2, Zenon
  <2>2. QED
    BY <2>1
<1>7. WellFormed(o) /\ o.off = 0
  BY <1>1, <1>4, <1>5, <1>6, CanvasAssumption DEF WellFormed
<1>8. QED
  BY <1>7 DEF o

\* set_line_obj_attr: a line along an axis, between any two points, is a rectangle.
THEOREM AxisLineWellFormed ==
  ASSUME NEW c \in Colors, NEW x0 \in Int, NEW y0 \in Int, NEW x1 \in Int, NEW y1 \in Int,
         NEW t \in Int
  PROVE  LET o == AxisLineObj(c, x0, y0, x1, y1, t) IN WellFormed(o) /\ o.off = 0
<1> DEFINE th == Clip(t, 1, 32)
           ax == Clip(x0, 0, W)
           bx == Clip(x1, 0, W)
           ay == Clip(y0, 0, H)
           by == Clip(y1, 0, H)
           px == Lesser(ax, bx) - th \div 2
           py == Lesser(ay, by) - th \div 2
           w == th + Greater(ax, bx) - Lesser(ax, bx)
           h == th + Greater(ay, by) - Lesser(ay, by)
<1>1. W \in Nat /\ H \in Nat
  BY CanvasAssumption
<1>2. th \in Nat /\ ax \in Nat /\ bx \in Nat /\ ay \in Nat /\ by \in Nat
  <2>1. 0 \in Int /\ 1 \in Int /\ 32 \in Int /\ W \in Int /\ H \in Int
        /\ 1 <= 32 /\ 0 <= W /\ 0 <= H
    BY <1>1
  <2>2. th \in 1 .. 32 /\ ax \in 0 .. W /\ bx \in 0 .. W /\ ay \in 0 .. H /\ by \in 0 .. H
    BY <2>1, ClipRight, Zenon
  <2> HIDE DEF th, ax, bx, ay, by
  <2>3. QED
    BY <1>1, <2>2
<1> HIDE DEF th, ax, bx, ay, by
<1>3. px \in Int /\ py \in Int /\ w \in Int /\ h \in Int
  BY <1>2 DEF Greater, Lesser
<1>4. AxisLineObj(c, x0, y0, x1, y1, t) = RectObj(c, px, py, w, h, TRUE, th)
  BY Zenon DEF AxisLineObj, th, ax, bx, ay, by
<1> HIDE DEF px, py, w, h
<1>5. th \in Int
  BY <1>2
<1>6. ASSUME NEW filled \in BOOLEAN
      PROVE  WellFormed(RectObj(c, px, py, w, h, filled, th))
             /\ RectObj(c, px, py, w, h, filled, th).off = 0
  BY <1>3, <1>5, RectWellFormed
<1>7. QED
  BY <1>4, <1>6, Zenon

-----------------------------------------------------------------------------
\* The picture

\* A set of numbers has a least member.
LEMMA LeastRight ==
  ASSUME NEW T \in SUBSET Nat, T # {}
  PROVE  \E k \in T : \A j \in T : k <= j
<1>1. PICK k \in T : \A j \in T : ~ (<<j, k>> \in OpToRel(<, Nat))
  BY WFMin, NatLessThanWellFounded, Zenon
<1>2. \A j \in T : ~ (j < k)
  BY <1>1, Zenon DEF OpToRel
<1>3. \A j \in T : j \in Nat /\ k \in Nat
  OBVIOUS
<1>4. \A j \in T : k <= j
  BY <1>2, <1>3
<1>5. QED
  BY <1>4

\* And a greatest one when they are bounded.
LEMMA GreatestRight ==
  ASSUME NEW n \in Nat, NEW T \in SUBSET (1 .. n), T # {}
  PROVE  \E k \in T : \A j \in T : j <= k
<1> DEFINE M == {m \in Nat : n - m \in T}
<1>1. M \in SUBSET Nat
  OBVIOUS
<1>2. PICK t \in T : TRUE
  OBVIOUS
<1>3. n - t \in Nat /\ n - (n - t) = t
  OBVIOUS
<1>4. M # {}
  BY <1>2, <1>3
<1>5. PICK m \in M : \A j \in M : m <= j
  BY <1>1, <1>4, LeastRight
<1>6. ASSUME NEW j \in T
      PROVE  j <= n - m
  <2>1. j \in Nat /\ n - j \in Nat /\ n - (n - j) = j
    OBVIOUS
  <2>2. n - j \in M
    BY <2>1
  <2>3. m \in Nat /\ m <= n - j
    BY <1>1, <1>5, <2>2
  <2>4. QED
    BY <2>1, <2>3
<1>7. QED
  BY <1>5, <1>6

\* The colour of an object is one.
LEMMA ColourType ==
  ASSUME NEW o, WellFormed(o), NEW px \in Nat, NEW py \in Nat, Covers(o, px, py)
  PROVE  ColourAt(o, px, py) \in Colors
<1>1. CASE IsPicture(o)
  <2>1. /\ o.x \in Nat /\ o.w \in Nat /\ o.y = o.minY /\ o.minY \in Nat
        /\ o.h \in Nat /\ o.maxY = o.y + o.h
        /\ \A r \in 0 .. o.h - 1 : \A i \in 0 .. o.w - 1 : o.pic[r * o.stride + i] \in Colors
        /\ o.stride \in Nat
    BY <1>1 DEF WellFormed, IsPicture
  <2>2. py - o.y \in 0 .. o.h - 1 /\ px - o.x \in 0 .. o.w - 1
    BY <1>1, <2>1 DEF Covers, IsPicture
  <2>3. (py - o.y) * o.stride + px - o.x = (py - o.y) * o.stride + (px - o.x)
    <3>1. (py - o.y) * o.stride \in Int
      BY <2>1, <2>2
    <3>2. QED
      BY <2>1, <3>1
  <2>4. QED
    BY <1>1, <2>1, <2>2, <2>3 DEF ColourAt, IsPicture
<1>2. CASE ~IsPicture(o)
  BY <1>2 DEF ColourAt, WellFormed, IsPicture
<1>3. QED
  BY <1>1, <1>2

\* The painter's picture shows the uppermost object, or the ground.
LEMMA PaintedRight ==
  ASSUME NEW p, IsVector(p), \A k \in DOMAIN p : WellFormed(p[k])
  PROVE  /\ Painted(p) \in [1 .. N -> Colors]
         /\ \A py \in 0 .. H - 1, px \in 0 .. W - 1 :
              /\ \A k \in DOMAIN p :
                   Covers(p[k], px, py) /\ (\A j \in DOMAIN p : j > k => ~Covers(p[j], px, py)) =>
                     Painted(p)[py * W + px + 1] = ColourAt(p[k], px, py)
              /\ (\A k \in DOMAIN p : ~Covers(p[k], px, py)) =>
                   Painted(p)[py * W + px + 1] = Ground
<1> DEFINE over(px, py) == {k \in DOMAIN p : Covers(p[k], px, py)}
           shown(px, py) == IF over(px, py) = {} THEN Ground
                            ELSE ColourAt(p[CHOOSE k \in over(px, py) :
                                              \A j \in over(px, py) : j <= k], px, py)
<1>1. Painted(p) = [i \in 1 .. N |-> shown((i - 1) % W, (i - 1) \div W)]
  BY DEF Painted
<1>2. ASSUME NEW px \in Nat, NEW py \in Nat, NEW k \in over(px, py),
             \A j \in DOMAIN p : j > k => ~Covers(p[j], px, py)
      PROVE  shown(px, py) = ColourAt(p[k], px, py)
  <2>1. \A j \in over(px, py) : j \in Nat /\ k \in Nat /\ ~(j > k)
    BY <1>2 DEF IsVector
  <2>2. \A j \in over(px, py) : j <= k
    BY <2>1
  <2>3. \A i \in over(px, py) : (\A j \in over(px, py) : j <= i) => i = k
    <3>1. \A i \in over(px, py) : k <= i => i = k
      BY <2>1, <2>2
    <3>2. QED
      BY <1>2, <3>1
  <2>4. (CHOOSE i \in over(px, py) : \A j \in over(px, py) : j <= i) = k
    BY <2>2, <2>3
  <2>5. QED
    BY <2>4
<1>3. ASSUME NEW px \in Nat, NEW py \in Nat
      PROVE  shown(px, py) \in Colors
  <2>1. CASE over(px, py) = {}
    BY <2>1, CanvasAssumption
  <2>2. CASE over(px, py) # {}
    <3>1. over(px, py) \in SUBSET (1 .. Len(p)) /\ Len(p) \in Nat
      BY DEF IsVector
    <3>2. \E k \in over(px, py) : \A j \in over(px, py) : j <= k
      BY <2>2, <3>1, GreatestRight
    <3>3. PICK k \in over(px, py) : \A j \in over(px, py) : j <= k
      BY <3>2
    <3>4. \A j \in DOMAIN p : j > k => ~Covers(p[j], px, py)
      <4>1. \A j \in DOMAIN p : j \in over(px, py) => ~(j > k)
        BY <3>1, <3>3
      <4>2. QED
        BY <4>1
    <3>5. shown(px, py) = ColourAt(p[k], px, py)
      BY <1>2, <3>3, <3>4
    <3>6. k \in DOMAIN p /\ Covers(p[k], px, py)
      BY <3>3
    <3>7. QED
      BY <3>5, <3>6, ColourType
  <2>3. QED
    BY <2>1, <2>2
<1>4. Painted(p) \in [1 .. N -> Colors]
  <2>1. ASSUME NEW i \in 1 .. N
        PROVE  shown((i - 1) % W, (i - 1) \div W) \in Colors
    <3>1. (i - 1) % W \in Nat /\ (i - 1) \div W \in Nat
      BY IndexPixel, CanvasAssumption
    <3>2. QED
      BY <1>3, <3>1
  <2>2. QED
    BY <1>1, <2>1
<1>5. ASSUME NEW py \in 0 .. H - 1, NEW px \in 0 .. W - 1
      PROVE  Painted(p)[py * W + px + 1] = shown(px, py)
  <2>1. px \in Nat /\ py \in Nat /\ py < H
    BY CanvasAssumption
  <2>2. /\ (py * W + px) % W = px /\ (py * W + px) \div W = py
        /\ py * W + px + 1 \in 1 .. N /\ py * W \in Nat
    BY <2>1, PixelIndex
  <2>3. py * W + px + 1 - 1 = py * W + px
    BY <2>1, <2>2
  <2>4. Painted(p)[py * W + px + 1] =
          shown((py * W + px + 1 - 1) % W, (py * W + px + 1 - 1) \div W)
    <3>1. \A i \in 1 .. N : Painted(p)[i] = shown((i - 1) % W, (i - 1) \div W)
      BY <1>1
    <3> HIDE DEF shown
    <3>2. QED
      BY <2>2, <3>1
  <2>5. QED
    BY <2>2, <2>3, <2>4, Zenon
<1>6. ASSUME NEW py \in 0 .. H - 1, NEW px \in 0 .. W - 1, NEW k \in DOMAIN p,
             Covers(p[k], px, py), \A j \in DOMAIN p : j > k => ~Covers(p[j], px, py)
      PROVE  Painted(p)[py * W + px + 1] = ColourAt(p[k], px, py)
  <2>1. k \in over(px, py) /\ px \in Nat /\ py \in Nat
    BY <1>6, CanvasAssumption
  <2>2. shown(px, py) = ColourAt(p[k], px, py)
    BY <1>2, <1>6, <2>1
  <2>3. QED
    BY <1>5, <2>2
<1>7. ASSUME NEW py \in 0 .. H - 1, NEW px \in 0 .. W - 1,
             \A k \in DOMAIN p : ~Covers(p[k], px, py)
      PROVE  Painted(p)[py * W + px + 1] = Ground
  <2>1. over(px, py) = {}
    BY <1>7
  <2>2. QED
    BY <1>5, <2>1
<1>8. QED
  BY <1>4, <1>6, <1>7

-----------------------------------------------------------------------------
\* The beginning

\* Nothing is drawn, and nothing is known of the line yet.
LEMMA CanvasInitRight ==
  ASSUME CanvasInit
  PROVE  Init /\ CanvasInv
<1>1. /\ CmprInit /\ api = "canvas" /\ objs \in Pictures /\ image = Painted(objs)
      /\ y = 0 /\ stage = "project" /\ pos = 0
  BY DEF CanvasInit, CmprInit
<1>2. /\ IsVector(objs) /\ CmprOnTop(objs) /\ (CornersDrawn => CornerDrawn(objs))
      /\ \A k \in DOMAIN objs : WellFormed(objs[k]) /\ objs[k].off = 0
  BY <1>1, PictureAssumption DEF IsVector, CornersDrawn
<1>3. Init
  BY <1>1, <1>2, PaintedRight DEF Init
<1>4. Objects
  BY <1>2 DEF Objects
<1>5. PictureLeft
  BY <1>1, <1>2, PaintedRight DEF PictureLeft, TopAt, Img
<1>6. Position
  BY <1>1, CanvasAssumption DEF Position
<1>7. Steady /\ SlicesRight /\ SweepRight /\ Cut /\ SegmentsShow /\ SegmentsRead /\ OneSegment
  BY <1>1 DEF Steady, SlicesRight, SweepRight, Cut, SegmentsShow, SegmentsRead, OneSegment
<1>8. Offsets
  <2>1. ASSUME NEW k \in DOMAIN objs, IsCmpr(objs[k])
        PROVE  LineBegins(objs[k].lens)[0] = 0 /\ objs[k].y \in Nat
    BY <1>2, <2>1 DEF WellFormed, IsCmpr, CmprWellFormed
  <2>2. ~Drawn(1) /\ \A k : ~Drawn(k)
    BY <1>1 DEF Drawn
  <2>3. ASSUME NEW k \in DOMAIN objs, IsCmpr(objs[k])
        PROVE  objs[k].off = LineBegins(objs[k].lens)
                 [IF y < objs[k].y THEN 0
                  ELSE (IF stage = "draw" THEN y + line ELSE y)
                         + (IF Drawn(k) THEN 1 ELSE 0) - objs[k].y]
    <3>1. (IF y < objs[k].y THEN 0
           ELSE (IF stage = "draw" THEN y + line ELSE y)
                  + (IF Drawn(k) THEN 1 ELSE 0) - objs[k].y) = 0
      BY <1>1, <2>1, <2>2, <2>3
    <3>2. QED
      BY <1>2, <2>1, <2>3, <3>1
  <2>4. QED
    BY <2>3 DEF Offsets
<1>9. QED
  BY <1>1, <1>3, <1>4, <1>5, <1>6, <1>7, <1>8 DEF CanvasInv

-----------------------------------------------------------------------------
\* Project

\* A slice that is pushed is one side of an object, and every side is pushed.
LEMMA PushedRight ==
  ASSUME Objects, y \in Nat
  PROVE  /\ \A n \in Pushed :
              /\ Slice(n).id = (n + 1) \div 2 /\ Slice(n).id \in DOMAIN objs
              /\ 2 - (n % 2) \in DOMAIN Sides(objs[Slice(n).id], y)
              /\ HasSide(objs[Slice(n).id], y, Slice(n).x0, Slice(n).x1)
         /\ \A k \in DOMAIN objs : \A i \in DOMAIN Sides(objs[k], y) :
              \E n \in Pushed :
                /\ Slice(n).id = k
                /\ Slice(n).x0 = Sides(objs[k], y)[i][1] /\ Slice(n).x1 = Sides(objs[k], y)[i][2]
<1>1. Len(objs) \in Nat /\ DOMAIN objs = 1 .. Len(objs)
  BY DEF Objects, IsVector
<1>2. ASSUME NEW n \in Nat
      PROVE  /\ Slice(n).id = (n + 1) \div 2
             /\ Slice(n).x0 = Sides(objs[(n + 1) \div 2], y)[2 - (n % 2)][1]
             /\ Slice(n).x1 = Sides(objs[(n + 1) \div 2], y)[2 - (n % 2)][2]
  BY DEF Slice
<1>3. ASSUME NEW n \in Pushed
      PROVE  /\ n \in Nat /\ (n + 1) \div 2 \in DOMAIN objs
             /\ 2 - (n % 2) \in DOMAIN Sides(objs[(n + 1) \div 2], y)
             /\ HasSide(objs[(n + 1) \div 2], y, Slice(n).x0, Slice(n).x1)
  <2>1. /\ n \in Nat /\ (n + 1) \div 2 \in DOMAIN objs
        /\ 2 - (n % 2) \in DOMAIN Sides(objs[(n + 1) \div 2], y)
    BY <1>1 DEF Pushed
  <2>2. /\ Slice(n).x0 = Sides(objs[(n + 1) \div 2], y)[2 - (n % 2)][1]
        /\ Slice(n).x1 = Sides(objs[(n + 1) \div 2], y)[2 - (n % 2)][2]
    BY <1>2, <2>1
  <2>3. QED
    BY <2>1, <2>2 DEF HasSide
<1>4. ASSUME NEW k \in DOMAIN objs, NEW i \in DOMAIN Sides(objs[k], y)
      PROVE  2 * k - 2 + i \in Pushed /\ (2 * k - 2 + i + 1) \div 2 = k
             /\ 2 - ((2 * k - 2 + i) % 2) = i
  <2>1. WellFormed(objs[k])
    BY DEF Objects
  <2>2. i \in {1, 2}
    BY <2>1, SidesRight
  <2>3. k \in Nat /\ 1 <= k /\ k <= Len(objs)
    BY <1>1
  <2>4. (2 * k - 2 + i + 1) \div 2 = k /\ 2 - ((2 * k - 2 + i) % 2) = i
        /\ 2 * k - 2 + i \in 1 .. 2 * Len(objs)
    <3>1. CASE i = 1
      BY <1>1, <2>3, <3>1
    <3>2. CASE i = 2
      <4>1. 2 * k - 2 + i = 2 * k /\ 2 * k \in 1 .. 2 * Len(objs)
        BY <1>1, <2>3, <3>2
      <4>2. (2 * k + 1) \div 2 = k /\ (2 * k) % 2 = 0
        BY <2>3
      <4>3. QED
        BY <3>2, <4>1, <4>2
    <3>3. QED
      BY <2>2, <3>1, <3>2
  <2>5. QED
    BY <2>4 DEF Pushed
<1>5. ASSUME NEW k \in DOMAIN objs, NEW i \in DOMAIN Sides(objs[k], y)
      PROVE  \E n \in Pushed :
               /\ Slice(n).id = k
               /\ Slice(n).x0 = Sides(objs[k], y)[i][1] /\ Slice(n).x1 = Sides(objs[k], y)[i][2]
  <2>1. PICK n \in Pushed : n = 2 * k - 2 + i
    BY <1>4
  <2>2. (n + 1) \div 2 = k /\ 2 - (n % 2) = i
    BY <1>4, <2>1
  <2>3. n \in Nat
    BY <1>3
  <2>4. QED
    BY <1>2, <2>2, <2>3
<1>6. QED
  BY <1>2, <1>3, <1>5

\* The vector of slices is in the order of their objects.
LEMMA ProjectSlices ==
  ASSUME Objects, y \in Nat, Project
  PROVE  /\ IsVector(slices')
         /\ \A i \in DOMAIN slices' :
              /\ slices'[i].id \in DOMAIN objs
              /\ slices'[i].x0 \in Nat /\ slices'[i].x1 \in slices'[i].x0 .. W
              /\ HasSide(objs[slices'[i].id], y, slices'[i].x0, slices'[i].x1)
         /\ \A i, j \in DOMAIN slices' :
              i < j => /\ slices'[i].id <= slices'[j].id
                       /\ slices'[i].id = slices'[j].id => objs[slices'[i].id].type = "stroke"
         /\ \A k \in DOMAIN objs : \A s \in DOMAIN Sides(objs[k], y) :
              \E i \in DOMAIN slices' :
                /\ slices'[i].id = k
                /\ slices'[i].x0 = Sides(objs[k], y)[s][1]
                /\ slices'[i].x1 = Sides(objs[k], y)[s][2]
<1> DEFINE all == [n \in 1 .. 2 * Len(objs) |-> Slice(n)]
           at == InOrder(Pushed)
<1>1. Len(objs) \in Nat /\ DOMAIN objs = 1 .. Len(objs)
      /\ \A k \in DOMAIN objs : WellFormed(objs[k])
  BY DEF Objects, IsVector
<1>2. slices' = KeepPlaces(all, Pushed)
  BY DEF Project
<1>3. IsVector(all)
  BY <1>1 DEF IsVector
<1>4. Pushed \in SUBSET DOMAIN all
  BY DEF Pushed
<1> HIDE DEF all
<1>5. /\ IsVector(slices')
      /\ \A i \in DOMAIN slices' : at[i] \in Pushed /\ slices'[i] = all[at[i]]
      /\ \A i, j \in DOMAIN slices' : i < j => at[i] < at[j]
      /\ \A n \in Pushed : \E i \in DOMAIN slices' : at[i] = n
  BY <1>2, <1>3, <1>4, KeepRight
<1> HIDE DEF at
<1>6. \A n \in Pushed : all[n] = Slice(n)
  BY <1>4 DEF all
<1>7. \A i \in DOMAIN slices' : at[i] \in Pushed /\ slices'[i] = Slice(at[i])
  BY <1>5, <1>6
<1>8. ASSUME NEW i \in DOMAIN slices'
      PROVE  /\ slices'[i].id \in DOMAIN objs
             /\ slices'[i].x0 \in Nat /\ slices'[i].x1 \in slices'[i].x0 .. W
             /\ HasSide(objs[slices'[i].id], y, slices'[i].x0, slices'[i].x1)
  <2>1. PICK n \in Pushed : n = at[i] /\ slices'[i] = Slice(n)
    BY <1>7
  <2>2. HasSide(objs[slices'[i].id], y, slices'[i].x0, slices'[i].x1)
    BY <2>1, PushedRight
  <2>3. slices'[i].id \in DOMAIN objs
    BY <2>1, PushedRight
  <2>4. WellFormed(objs[slices'[i].id])
    BY <1>1, <2>3
  <2>5. slices'[i].x0 \in Nat /\ slices'[i].x1 \in slices'[i].x0 .. W
    BY <2>2, <2>4, SidesRight DEF HasSide
  <2>6. QED
    BY <2>2, <2>3, <2>5
<1>9. ASSUME NEW i \in DOMAIN slices', NEW j \in DOMAIN slices', i < j
      PROVE  /\ slices'[i].id <= slices'[j].id
             /\ slices'[i].id = slices'[j].id => objs[slices'[i].id].type = "stroke"
  <2>1. PICK n \in Pushed : n = at[i] /\ slices'[i] = Slice(n)
    BY <1>7
  <2>2. PICK m \in Pushed : m = at[j] /\ slices'[j] = Slice(m)
    BY <1>7
  <2>3. n < m /\ n \in Nat /\ m \in Nat
    BY <1>1, <1>5, <1>9, <2>1, <2>2 DEF Pushed
  <2>4. /\ slices'[i].id = (n + 1) \div 2 /\ slices'[j].id = (m + 1) \div 2
        /\ slices'[j].id \in DOMAIN objs
        /\ 2 - (m % 2) \in DOMAIN Sides(objs[slices'[j].id], y)
    BY <2>1, <2>2, PushedRight
  <2>5. slices'[i].id <= slices'[j].id
    BY <2>3, <2>4
  <2>6. ASSUME slices'[i].id = slices'[j].id
        PROVE  objs[slices'[i].id].type = "stroke"
    <3>1. 2 - (m % 2) = 2
      BY <2>3, <2>4, <2>6
    <3>2. WellFormed(objs[slices'[j].id])
      BY <1>1, <2>4
    <3>3. QED
      BY <2>4, <2>6, <3>1, <3>2, SidesRight
  <2>7. QED
    BY <2>5, <2>6
<1>10. ASSUME NEW k \in DOMAIN objs, NEW s \in DOMAIN Sides(objs[k], y)
       PROVE  \E i \in DOMAIN slices' :
                /\ slices'[i].id = k
                /\ slices'[i].x0 = Sides(objs[k], y)[s][1]
                /\ slices'[i].x1 = Sides(objs[k], y)[s][2]
  <2>1. PICK n \in Pushed :
          /\ Slice(n).id = k
          /\ Slice(n).x0 = Sides(objs[k], y)[s][1] /\ Slice(n).x1 = Sides(objs[k], y)[s][2]
    BY PushedRight
  <2>2. PICK i \in DOMAIN slices' : at[i] = n
    BY <1>5
  <2>3. slices'[i] = Slice(n)
    BY <1>7, <2>2
  <2>4. QED
    BY <2>1, <2>3
<1>11. QED
  BY <1>5, <1>8, <1>9, <1>10

\* The next line to look at is a later one, up to which nothing changes.
LEMMA ProjectLines ==
  ASSUME Objects, y \in Nat, y < H, Project
  PROVE  /\ nextY' \in Nat /\ y < nextY' /\ nextY' <= H
         /\ \A k \in DOMAIN objs : nextY' <= LastsTo(objs[k])
<1> DEFINE ends == {H} \cup {LastsTo(objs[k]) : k \in DOMAIN objs}
<1>1. \A k \in DOMAIN objs : LastsTo(objs[k]) \in Nat /\ y < LastsTo(objs[k])
  BY LastsRight DEF Objects
<1>2. ends \in SUBSET Nat /\ ends # {} /\ \A e \in ends : y < e
  BY <1>1, CanvasAssumption
<1>3. nextY' = CHOOSE e \in ends : \A f \in ends : e <= f
  BY DEF Project
<1>4. nextY' \in ends /\ \A f \in ends : nextY' <= f
  <2> HIDE DEF ends
  <2>1. \E e \in ends : \A f \in ends : e <= f
    BY <1>2, LeastRight
  <2>2. QED
    BY <1>3, <2>1
<1>5. H \in ends /\ \A k \in DOMAIN objs : LastsTo(objs[k]) \in ends
  OBVIOUS
<1> HIDE DEF ends
<1>6. QED
  BY <1>2, <1>4, <1>5

\* Where a segment stands that shows the ground, no object is on the line.
LEMMA ProjectStep ==
  ASSUME CanvasInv, Project
  PROVE  CanvasInv'
<1>1. /\ Objects /\ PictureLeft /\ Position /\ Offsets
      /\ stage = "project"
  BY DEF CanvasInv, Project
<1>0. y \in Nat /\ y < H /\ H \in Nat /\ W \in Nat
  BY <1>1, CanvasAssumption DEF Position, Project
<1> USE <1>0
<1>2. /\ objs' = objs /\ y' = y /\ image' = image /\ api' = api /\ pos' = pos
      /\ stage' = "plot"
  BY DEF Project, vars, config
<1>3. /\ nextY' \in Nat /\ y < nextY' /\ nextY' <= H
      /\ \A k \in DOMAIN objs : nextY' <= LastsTo(objs[k])
  BY <1>1, ProjectLines
<1>4. Objects'
  BY <1>1, <1>2 DEF Objects
<1>5. PictureLeft'
  BY <1>1, <1>2 DEF PictureLeft, TopAt, Img
<1>6. Position'
  BY <1>1, <1>2 DEF Position
<1>7. Steady'
  BY <1>2, <1>3 DEF Steady, LastsTo
<1>8. Offsets'
  <2>1. \A k : ~Drawn(k) /\ ~Drawn(k)'
    BY <1>1, <1>2 DEF Drawn
  <2>2. QED
    BY <1>1, <1>2, <2>1 DEF Offsets
<1>9. CASE slices' = <<>>
  <2>1. x' = W /\ segs' = <<Segment(0, W)>>
    BY <1>9 DEF Project
  <2>2. /\ Len(segs') = 1 /\ DOMAIN segs' = {1}
        /\ segs'[1].const = TRUE /\ segs'[1].cmpr = FALSE /\ segs'[1].from = 0
        /\ segs'[1].width = W /\ segs'[1].color = Ground
    BY <2>1 DEF Segment
  <2>3. ASSUME NEW k \in DOMAIN objs
        PROVE  Sides(objs[k], y) = <<>> /\ DOMAIN Sides(objs[k], y) = {}
    <3>1. \A s \in DOMAIN Sides(objs[k], y) : FALSE
      BY <1>1, <1>9, ProjectSlices
    <3>2. WellFormed(objs[k])
      BY <1>1 DEF Objects
    <3>3. ~OnLine(objs[k], y)
      BY <1>1, <3>1, <3>2, SidesRight
    <3>4. QED
      BY <3>1, <3>3 DEF Sides
  <2>4. SlicesRight' /\ SweepRight'
    BY <2>1, CanvasAssumption DEF SlicesRight, SweepRight
  <2>5. Cut'
    <3>1. W \in Nat /\ W > 0 /\ x' = W /\ x' \in 0 .. W /\ ~(1 < Len(segs'))
      BY <2>1, <2>2, CanvasAssumption
    <3>2. IsVector(segs')
      BY <2>1, <2>2 DEF IsVector
    <3>3. \A i \in DOMAIN segs' :
            /\ DOMAIN segs'[i] = Fields
            /\ segs'[i].const \in BOOLEAN /\ segs'[i].cmpr \in BOOLEAN
            /\ segs'[i].const => ~segs'[i].cmpr
            /\ segs'[i].from \in Nat /\ segs'[i].width \in Nat
            /\ segs'[i].from + segs'[i].width <= x'
            /\ segs'[i].from + segs'[i].width = x'
            /\ i = 1 /\ segs'[i].from = 0
      <4>1. segs'[1].const \in BOOLEAN /\ segs'[1].cmpr \in BOOLEAN /\ ~segs'[1].cmpr
        BY <2>2
      <4>2. /\ segs'[1].from \in Nat /\ segs'[1].width \in Nat
            /\ segs'[1].from + segs'[1].width = x'
            /\ segs'[1].from + segs'[1].width <= x'
        BY <2>2, <3>1
      <4>3. segs'[1] = Segment(0, W)
        BY <2>1
      <4>4. DOMAIN segs'[1] = Fields
        BY <4>3 DEF Segment, Fields
      <4>5. QED
        BY <2>2, <4>1, <4>2, <4>4, Zenon
    <3>4. QED
      BY <1>2, <2>2, <3>1, <3>2, <3>3 DEF Cut
  <2>6. SegmentsShow'
    <3>1. ASSUME NEW px \in 0 .. W - 1, NEW r \in y .. nextY' - 1
          PROVE  Img(px, r) = Ground
      <4>1. px \in Nat /\ r \in Nat /\ r < nextY' /\ y <= r /\ r \in y .. H - 1
        <5>1. nextY' \in Nat /\ nextY' <= H
          BY <1>3
        <5>2. r \in Nat /\ y <= r /\ r < nextY' /\ r \in y .. H - 1
          BY <5>1, LineBetween
        <5>3. px \in Nat
          OBVIOUS
        <5>4. QED
          BY <5>2, <5>3
      <4>2. ASSUME NEW k \in DOMAIN objs
            PROVE  ~Covers(objs[k], px, r)
        <5>1. WellFormed(objs[k]) /\ r < LastsTo(objs[k])
          <6>1. WellFormed(objs[k])
            BY <1>1 DEF Objects
          <6>2. LastsTo(objs[k]) \in Nat
            BY <1>1, <6>1, LastsRight
          <6>3. QED
            BY <1>3, <4>1, <6>1, <6>2
        <5>2. Sides(objs[k], r) = Sides(objs[k], y)
          BY <1>1, <4>1, <5>1, LastsRight
        <5>3. QED
          BY <2>3, <4>1, <5>1, <5>2, CoversRight
      <4>3. QED
        BY <1>1, <4>1, <4>2 DEF PictureLeft
    <3>2. \A px, r : Img(px, r)' = Img(px, r)
      BY <1>2 DEF Img
    <3>3. 0 + W - 1 = W - 1
      BY CanvasAssumption
    <3>4. \A px \in 0 .. 0 + W - 1, r \in y' .. nextY' - 1 : Img(px, r)' = Ground
      BY <1>2, <3>1, <3>2, <3>3
    <3>5. QED
      BY <2>2, <3>4 DEF SegmentsShow
  <2>7. SegmentsRead'
    BY <2>2 DEF SegmentsRead
  <2>8. OneSegment'
    <3>1. ASSUME NEW k \in DOMAIN objs
          PROVE  ~OnLine(objs[k], y)
      <4>1. WellFormed(objs[k])
        BY <1>1 DEF Objects
      <4>2. DOMAIN Sides(objs[k], y) = {}
        BY <2>3
      <4>3. DOMAIN Sides(objs[k], y) =
              IF ~OnLine(objs[k], y) THEN {}
              ELSE IF objs[k].type = "stroke" /\ Beside(objs[k], y) THEN {1, 2} ELSE {1}
        BY <4>1, SidesRight
      <4>4. QED
        BY <4>2, <4>3
    <3>2. ~(x' < W)
      BY <2>1, CanvasAssumption
    <3>3. QED
      BY <1>2, <2>2, <3>1, <3>2 DEF OneSegment
  <2>9. QED
    BY <1>1, <1>2, <1>4, <1>5, <1>6, <1>7, <1>8, <2>4, <2>5, <2>6, <2>7, <2>8 DEF CanvasInv
<1>10. CASE slices' # <<>>
  <2>1. x' = 0 /\ segs' = <<>> /\ next' = 0
    BY <1>10 DEF Project
  <2>2. Len(segs') = 0 /\ DOMAIN segs' = {}
    BY <2>1
  <2>3. SlicesRight'
    <3>1. ASSUME NEW m \in DOMAIN objs, NEW px \in 0 .. W - 1, Covers(objs[m], px, y)
          PROVE  \E k \in DOMAIN slices' : /\ slices'[k].id = m
                                           /\ slices'[k].x0 <= px /\ px < slices'[k].x1
      <4>1. WellFormed(objs[m]) /\ px \in Nat
        BY <1>1, CanvasAssumption DEF Objects
      <4>2. PICK s \in DOMAIN Sides(objs[m], y) :
              Sides(objs[m], y)[s][1] <= px /\ px < Sides(objs[m], y)[s][2]
        BY <1>1, <3>1, <4>1, CoversRight
      <4>3. QED
        BY <1>1, <4>2, ProjectSlices
    <3>2. QED
      BY <1>1, <1>2, <2>1, <3>1, ProjectSlices DEF SlicesRight, InSlice, HasSide, IsVector
  <2>4. SweepRight'
    <3>1. \A k \in DOMAIN slices' : slices'[k].x0 \in Nat
      BY <1>1, ProjectSlices
    <3>2. Len(slices') \in Nat
      BY <1>1, ProjectSlices DEF IsVector
    <3>3. QED
      BY <2>1, <3>1, <3>2 DEF SweepRight
  <2>5. Cut'
    BY <1>2, <2>1, <2>2, CanvasAssumption DEF Cut, IsVector
  <2>6. SegmentsShow' /\ SegmentsRead'
    BY <2>2 DEF SegmentsShow, SegmentsRead
  <2>7. OneSegment'
    <3>1. ASSUME NEW k \in DOMAIN objs, OnLine(objs[k], y)
          PROVE  \E i \in DOMAIN slices' : slices'[i].id = k /\ 0 <= slices'[i].x0
      <4>1. WellFormed(objs[k])
        BY <1>1 DEF Objects
      <4>2. 1 \in DOMAIN Sides(objs[k], y)
        BY <1>1, <3>1, <4>1, SidesRight
      <4>3. PICK i \in DOMAIN slices' : slices'[i].id = k
        BY <1>1, <4>2, ProjectSlices
      <4>4. slices'[i].x0 \in Nat
        BY <1>1, ProjectSlices
      <4>5. QED
        BY <4>3, <4>4
    <3>2. QED
      BY <1>2, <2>1, <2>2, <3>1, CanvasAssumption DEF OneSegment
  <2>8. QED
    BY <1>1, <1>2, <1>4, <1>5, <1>6, <1>7, <1>8, <2>3, <2>4, <2>5, <2>6, <2>7 DEF CanvasInv
<1>11. QED
  BY <1>9, <1>10

-----------------------------------------------------------------------------
\* Plot

Plotting == stage = "plot" /\ x \in Nat /\ x < W /\ SlicesRight /\ SweepRight

\* What is known of the slices.
LEMMA SlicesType ==
  ASSUME Plotting
  PROVE  /\ Len(slices) \in Nat /\ DOMAIN slices = 1 .. Len(slices) /\ W \in Nat
         /\ \A k \in DOMAIN slices :
              /\ slices[k].x0 \in Nat /\ slices[k].x1 \in Nat
              /\ slices[k].x0 <= slices[k].x1 /\ slices[k].x1 <= W
              /\ slices[k].x0 < x => x < slices[k].x1
         /\ next \in Int /\ next <= Len(slices)
<1>1. W \in Nat
  BY CanvasAssumption
<1>2. /\ IsVector(slices) /\ next \in Int /\ next <= Len(slices)
      /\ \A k \in DOMAIN slices :
           /\ slices[k].x0 \in Nat /\ slices[k].x1 \in slices[k].x0 .. W
           /\ slices[k].x0 < x => x < slices[k].x1
  BY DEF Plotting, SlicesRight, SweepRight
<1>3. QED
  BY <1>1, <1>2 DEF IsVector

\* The slice drawn is at x, and none above it is.
LEMMA CurrentRight ==
  ASSUME Plotting
  PROVE  /\ Current \in 0 .. Len(slices)
         /\ Current > 0 => slices[Current].x0 <= x /\ x <= slices[Current].x1
         /\ Current > 0 /\ ~(next > 0) => x < slices[Current].x1
         /\ \A k \in DOMAIN slices : k > Current =>
              x <= slices[k].x0 /\ (~(next > 0) /\ slices[k].x0 = x => slices[k].x1 = x)
<1> DEFINE at == {k \in DOMAIN slices : slices[k].x0 <= x /\ x < slices[k].x1}
<1>1. /\ Len(slices) \in Nat /\ DOMAIN slices = 1 .. Len(slices) /\ W \in Nat
      /\ \A k \in DOMAIN slices :
           /\ slices[k].x0 \in Nat /\ slices[k].x1 \in Nat
           /\ slices[k].x0 <= slices[k].x1 /\ slices[k].x1 <= W
           /\ slices[k].x0 < x => x < slices[k].x1
      /\ next \in Int /\ next <= Len(slices) /\ x \in Nat
  BY SlicesType DEF Plotting
<1>2. CASE next > 0
  <2>1. Current = next
    BY <1>2 DEF Current
  <2>2. slices[next].x0 = x /\ \A k \in DOMAIN slices : k > next => x < slices[k].x0
    BY <1>2 DEF Plotting, SweepRight
  <2>3. QED
    BY <1>1, <1>2, <2>1, <2>2
<1>3. CASE ~(next > 0) /\ at = {}
  <2>1. Current = 0
    BY <1>3 DEF Current
  <2>2. ASSUME NEW k \in DOMAIN slices
        PROVE  x <= slices[k].x0 /\ (slices[k].x0 = x => slices[k].x1 = x)
    <3>1. ~(slices[k].x0 <= x /\ x < slices[k].x1)
      BY <1>3
    <3>2. QED
      BY <1>1, <3>1
  <2>3. QED
    BY <1>1, <1>3, <2>1, <2>2
<1>4. CASE ~(next > 0) /\ at # {}
  <2>1. at \in SUBSET (1 .. Len(slices))
    BY <1>1
  <2>2. \E k \in at : \A j \in at : j <= k
    <3> HIDE DEF at
    <3>1. QED
      BY <1>1, <1>4, <2>1, GreatestRight
  <2>3. Current = CHOOSE k \in at : \A j \in at : j <= k
    BY <1>4 DEF Current
  <2>4. Current \in at /\ \A j \in at : j <= Current
    <3> HIDE DEF at
    <3>1. QED
      BY <2>2, <2>3
  <2>5. Current \in 1 .. Len(slices) /\ slices[Current].x0 <= x /\ x < slices[Current].x1
    BY <1>1, <2>4
  <2>6. ASSUME NEW k \in DOMAIN slices, k > Current
        PROVE  x <= slices[k].x0 /\ (slices[k].x0 = x => slices[k].x1 = x)
    <3>1. k \notin at
      BY <1>1, <2>4, <2>5, <2>6
    <3>2. ~(slices[k].x0 <= x /\ x < slices[k].x1)
      BY <3>1
    <3>3. QED
      BY <1>1, <3>2
  <2>7. Current \in 0 .. Len(slices)
    BY <1>1, <2>5
  <2>8. slices[Current].x0 <= x /\ x <= slices[Current].x1 /\ x < slices[Current].x1
    BY <1>1, <2>5
  <2>9. QED
    BY <2>6, <2>7, <2>8
<1>5. QED
  BY <1>2, <1>3, <1>4

\* The segment ends where the slice does or the first one above it begins.
LEMMA EndRight ==
  ASSUME Plotting
  PROVE  /\ End \in Nat /\ x <= End /\ End <= CurEnd /\ CurEnd \in Nat /\ CurEnd <= W
         /\ \A k \in DOMAIN slices : k > Current => End <= slices[k].x0
         /\ Top = 0 => End = CurEnd
         /\ Top # 0 => /\ Top \in DOMAIN slices /\ Top > Current
                       /\ slices[Top].x0 = End /\ End < CurEnd
                       /\ \A k \in DOMAIN slices : k > Top => End < slices[k].x0
<1> DEFINE first == {k \in Above : \A j \in Above : slices[k].x0 <= slices[j].x0}
           begins == {slices[k].x0 : k \in Above}
<1>1. /\ Len(slices) \in Nat /\ DOMAIN slices = 1 .. Len(slices) /\ W \in Nat
      /\ \A k \in DOMAIN slices :
           /\ slices[k].x0 \in Nat /\ slices[k].x1 \in Nat
           /\ slices[k].x0 <= slices[k].x1 /\ slices[k].x1 <= W
      /\ x \in Nat /\ x < W
  BY SlicesType DEF Plotting
<1>2. /\ Current \in 0 .. Len(slices) /\ Current \in Nat
      /\ Current > 0 => Current \in DOMAIN slices
      /\ Current > 0 => slices[Current].x0 <= x /\ x <= slices[Current].x1
      /\ \A k \in DOMAIN slices : k > Current => x <= slices[k].x0
  BY <1>1, CurrentRight
<1>3. CurBegin \in Nat /\ CurBegin <= x /\ CurEnd \in Nat /\ x <= CurEnd /\ CurEnd <= W
  <2>1. CASE Current = 0
    BY <1>1, <2>1 DEF CurBegin, CurEnd
  <2>2. CASE Current > 0
    BY <1>1, <1>2, <2>2 DEF CurBegin, CurEnd
  <2>3. QED
    BY <1>2, <2>1, <2>2
<1>4. ASSUME NEW k
      PROVE  k \in Above <=> k \in DOMAIN slices /\ k > Current /\ slices[k].x0 < CurEnd
  <2>1. k \in Above <=> /\ k \in Current + 1 .. Len(slices)
                        /\ CurBegin <= slices[k].x0 /\ slices[k].x0 < CurEnd
    BY DEF Above
  <2>2. k \in Current + 1 .. Len(slices) <=> k \in DOMAIN slices /\ k > Current
    BY <1>1, <1>2
  <2>3. k \in DOMAIN slices /\ k > Current => CurBegin <= slices[k].x0
    BY <1>1, <1>2, <1>3
  <2>4. QED
    BY <2>1, <2>2, <2>3
<1>5. CASE Above = {}
  <2>1. first = {}
    BY <1>5
  <2>2. Top = 0 /\ End = CurEnd
    BY <2>1 DEF Top, End
  <2>3. ASSUME NEW k \in DOMAIN slices, k > Current
        PROVE  End <= slices[k].x0
    <3>1. ~(slices[k].x0 < CurEnd)
      BY <1>4, <1>5, <2>3
    <3>2. QED
      BY <1>1, <1>3, <2>2, <3>1
  <2>4. QED
    BY <1>3, <2>2, <2>3
<1>6. CASE Above # {}
  <2>1. begins \in SUBSET Nat /\ begins # {}
    BY <1>1, <1>4, <1>6
  <2>2. PICK e \in begins : \A f \in begins : e <= f
    <3> HIDE DEF begins
    <3>1. QED
      BY <2>1, LeastRight
  <2>3. \A j \in Above : slices[j].x0 \in begins
    OBVIOUS
  <2>4. PICK m \in Above : slices[m].x0 = e
    OBVIOUS
  <2> HIDE DEF begins
  <2>5. \A j \in Above : slices[m].x0 <= slices[j].x0
    BY <2>2, <2>3, <2>4
  <2>6. first # {} /\ first \in SUBSET (1 .. Len(slices))
    BY <1>1, <1>4, <2>5
  <2>7. \E k \in first : \A j \in first : j <= k
    <3> HIDE DEF first
    <3>1. QED
      BY <1>1, <2>6, GreatestRight
  <2>8. Top = CHOOSE k \in first : \A j \in first : j <= k
    BY <2>6 DEF Top
  <2>9. Top \in first /\ \A j \in first : j <= Top
    <3> HIDE DEF first
    <3>1. QED
      BY <2>7, <2>8
  <2>10. Top \in Above /\ \A j \in Above : slices[Top].x0 <= slices[j].x0
    BY <2>9
  <2>11. /\ Top \in DOMAIN slices /\ Top > Current /\ slices[Top].x0 < CurEnd
         /\ Top \in Nat /\ Top # 0
    BY <1>1, <1>2, <1>4, <2>10
  <2>12. End = slices[Top].x0
    BY <2>11 DEF End
  <2>13. End \in Nat /\ x <= End /\ End < CurEnd
    BY <1>1, <1>2, <2>11, <2>12
  <2>14. ASSUME NEW k \in DOMAIN slices, k > Current
         PROVE  End <= slices[k].x0
    <3>1. CASE slices[k].x0 < CurEnd
      BY <1>4, <2>10, <2>12, <2>14, <3>1
    <3>2. CASE ~(slices[k].x0 < CurEnd)
      BY <1>1, <1>3, <2>13, <3>2
    <3>3. QED
      BY <3>1, <3>2
  <2>15. ASSUME NEW k \in DOMAIN slices, k > Top
         PROVE  End < slices[k].x0
    <3>1. k > Current /\ k \in Nat /\ ~(k <= Top)
      BY <1>1, <1>2, <2>11, <2>15
    <3>2. End <= slices[k].x0
      BY <2>14, <3>1
    <3>3. slices[k].x0 # End
      <4>1. SUFFICES ASSUME slices[k].x0 = End PROVE FALSE
        OBVIOUS
      <4>2. k \in Above
        BY <1>4, <2>11, <2>12, <3>1, <4>1
      <4>3. k \in first
        BY <2>10, <2>12, <4>1, <4>2
      <4>4. QED
        BY <2>9, <3>1, <4>3
    <3>4. QED
      BY <1>1, <2>13, <3>2, <3>3
  <2>16. QED
    BY <1>3, <2>11, <2>12, <2>13, <2>14, <2>15
<1>7. QED
  BY <1>5, <1>6

\* A slice is a side of an object that is on the line.
LEMMA SliceRight ==
  ASSUME Objects, Plotting, y \in Nat, NEW k \in DOMAIN slices
  PROVE  LET o == objs[slices[k].id] IN
         /\ slices[k].id \in DOMAIN objs /\ WellFormed(o) /\ OnLine(o, y)
         /\ HasSide(o, y, slices[k].x0, slices[k].x1)
         /\ o.type \in {"rect", "bitmap", "cmpr"} =>
              slices[k].x0 = o.x /\ slices[k].x1 = o.x + o.w
         /\ \A px \in Nat : InSlice(k, px) => Covers(o, px, y)
<1> DEFINE o == objs[slices[k].id]
<1>1. slices[k].id \in DOMAIN objs /\ HasSide(o, y, slices[k].x0, slices[k].x1)
  BY DEF Plotting, SlicesRight
<1>2. WellFormed(o)
  BY <1>1 DEF Objects
<1> HIDE DEF o
<1>3. PICK i \in DOMAIN Sides(o, y) :
        slices[k].x0 = Sides(o, y)[i][1] /\ slices[k].x1 = Sides(o, y)[i][2]
  BY <1>1 DEF HasSide
<1>4. OnLine(o, y)
  BY <1>2, <1>3, SidesRight
<1>5. o.type \in {"rect", "bitmap", "cmpr"} =>
        slices[k].x0 = o.x /\ slices[k].x1 = o.x + o.w
  BY <1>2, <1>3, SidesRight
<1>6. ASSUME NEW px \in Nat, InSlice(k, px)
      PROVE  Covers(o, px, y)
  <2>1. slices[k].x0 <= px /\ px < slices[k].x1
    BY <1>6 DEF InSlice
  <2>2. QED
    BY <1>2, <1>3, <2>1, CoversRight
<1>7. QED
  BY <1>1, <1>2, <1>4, <1>5, <1>6 DEF o

\* The slices are in the order of the objects, and only a stroked rectangle has
\* two of them.
LEMMA SliceOrder ==
  ASSUME Objects, Plotting, NEW k \in DOMAIN slices, NEW j \in DOMAIN slices
  PROVE  /\ slices[k].id \in Nat /\ slices[j].id \in Nat /\ k \in Nat /\ j \in Nat
         /\ slices[k].id < slices[j].id => k < j
         /\ slices[k].id = slices[j].id => k = j \/ objs[slices[k].id].type = "stroke"
<1>1. /\ \A i \in DOMAIN slices : slices[i].id \in DOMAIN objs
      /\ \A i, l \in DOMAIN slices :
           i < l => /\ slices[i].id <= slices[l].id
                    /\ slices[i].id = slices[l].id => objs[slices[i].id].type = "stroke"
      /\ IsVector(slices) /\ IsVector(objs)
  BY DEF Plotting, SlicesRight, Objects
<1>2. k \in Nat /\ j \in Nat /\ slices[k].id \in Nat /\ slices[j].id \in Nat
  BY <1>1 DEF IsVector
<1>3. k < j => /\ slices[k].id <= slices[j].id
               /\ slices[k].id = slices[j].id => objs[slices[k].id].type = "stroke"
  BY <1>1
<1>4. j < k => /\ slices[j].id <= slices[k].id
               /\ slices[j].id = slices[k].id => objs[slices[j].id].type = "stroke"
  BY <1>1
<1>5. QED
  BY <1>2, <1>3, <1>4

\* What is drawn up to the segment's end is uppermost there.
LEMMA UppermostRight ==
  ASSUME Objects, Plotting, y \in Nat, NEW px \in Nat, x <= px, px < End
  PROVE  /\ Current > 0 => TopAt(slices[Current].id, px, y)
         /\ ~(Current > 0) => \A m \in DOMAIN objs : ~Covers(objs[m], px, y)
<1>1. /\ Len(slices) \in Nat /\ DOMAIN slices = 1 .. Len(slices) /\ W \in Nat
      /\ \A k \in DOMAIN slices : slices[k].x0 \in Nat /\ slices[k].x1 \in Nat
  BY SlicesType
<1>2. x \in Nat /\ End \in Nat /\ CurEnd \in Nat /\ End <= CurEnd /\ CurEnd <= W
      /\ \A k \in DOMAIN slices : k > Current => End <= slices[k].x0
  BY EndRight DEF Plotting
<1>3. px \in x .. W - 1
  BY <1>1, <1>2
<1>4. ASSUME NEW m \in DOMAIN objs, Covers(objs[m], px, y)
      PROVE  \E k \in DOMAIN slices : slices[k].id = m /\ ~(k > Current)
  <2>1. PICK k \in DOMAIN slices : slices[k].id = m /\ InSlice(k, px)
    BY <1>3, <1>4 DEF Plotting, SlicesRight
  <2>2. slices[k].x0 <= px
    BY <2>1 DEF InSlice
  <2>3. ~(k > Current)
    BY <1>1, <1>2, <2>2
  <2>4. QED
    BY <2>1, <2>3
<1>5. Current \in 0 .. Len(slices) /\ (Current > 0 => slices[Current].x0 <= x)
  BY CurrentRight
<1>6. CASE Current > 0
  <2>1. Current \in DOMAIN slices
    BY <1>1, <1>5, <1>6
  <2>2. CurEnd = slices[Current].x1
    BY <1>6 DEF CurEnd
  <2>3. InSlice(Current, px)
    <3>1. slices[Current].x0 \in Nat /\ slices[Current].x0 <= x
      BY <1>1, <1>5, <1>6, <2>1
    <3>2. slices[Current].x0 <= px
      BY <1>2, <3>1
    <3>3. px < slices[Current].x1
      BY <1>2, <2>2
    <3>4. QED
      BY <3>2, <3>3 DEF InSlice
  <2>4. Covers(objs[slices[Current].id], px, y)
    BY <2>1, <2>3, SliceRight
  <2>5. ASSUME NEW m \in DOMAIN objs, m > slices[Current].id
        PROVE  ~Covers(objs[m], px, y)
    <3>1. SUFFICES ASSUME Covers(objs[m], px, y) PROVE FALSE
      OBVIOUS
    <3>2. PICK k \in DOMAIN slices : slices[k].id = m /\ ~(k > Current)
      BY <1>4, <3>1
    <3>3. slices[Current].id < slices[k].id
      BY <2>1, <2>5, <3>2, SliceOrder
    <3>4. Current < k /\ k \in Nat
      BY <2>1, <3>3, SliceOrder
    <3>5. QED
      BY <1>1, <1>5, <3>2, <3>4
  <2>6. QED
    BY <1>6, <2>4, <2>5 DEF TopAt
<1>7. CASE ~(Current > 0)
  <2>1. ASSUME NEW m \in DOMAIN objs
        PROVE  ~Covers(objs[m], px, y)
    <3>1. \A k \in DOMAIN slices : k > Current
      BY <1>1, <1>5, <1>7
    <3>2. QED
      BY <1>4, <3>1
  <2>2. QED
    BY <1>7, <2>1
<1>8. QED
  BY <1>6, <1>7

\* Up to nextY the lines show what line y does.
LEMMA ShowsRight ==
  ASSUME Objects, PictureLeft, Steady, stage # "project", y \in Nat,
         NEW px \in 0 .. W - 1, NEW r \in y .. nextY - 1
  PROVE  /\ \A k \in DOMAIN objs : TopAt(k, px, y) => Img(px, r) = ColourAt(objs[k], px, r)
         /\ (\A k \in DOMAIN objs : ~Covers(objs[k], px, y)) => Img(px, r) = Ground
<1>1. nextY \in Nat /\ nextY <= H
  BY DEF Steady
<1>2. r \in Nat /\ y <= r /\ r < nextY /\ r \in y .. H - 1
  <2>1. H \in Nat
    BY CanvasAssumption
  <2>2. QED
    BY <1>1, <2>1, LineBetween
<1>3. px \in Nat
  BY CanvasAssumption
<1>4. ASSUME NEW k \in DOMAIN objs
      PROVE  Covers(objs[k], px, r) <=> Covers(objs[k], px, y)
  <2>1. WellFormed(objs[k])
    BY DEF Objects
  <2>2. LastsTo(objs[k]) \in Nat
    BY <2>1, LastsRight
  <2>3. nextY <= LastsTo(objs[k])
    BY DEF Steady
  <2>4. r < LastsTo(objs[k])
    BY <1>1, <1>2, <2>2, <2>3
  <2>5. QED
    BY <1>2, <1>3, <2>1, <2>4, CoversSteady
<1>5. /\ \A k \in DOMAIN objs : TopAt(k, px, r) => Img(px, r) = ColourAt(objs[k], px, r)
      /\ (\A k \in DOMAIN objs : ~Covers(objs[k], px, r)) => Img(px, r) = Ground
  BY <1>2 DEF PictureLeft
<1>6. \A k \in DOMAIN objs : TopAt(k, px, y) => TopAt(k, px, r)
  BY <1>4 DEF TopAt
<1>7. QED
  BY <1>4, <1>5, <1>6

\* A compressed bitmap is drawn from its beginning to its end.
LEMMA CmprPlot ==
  ASSUME CanvasInv, Plotting, y \in Nat, Current > 0,
         IsCmpr(objs[slices[Current].id])
  PROVE  LET o == objs[slices[Current].id] IN
         x = o.x /\ End = o.x + o.w /\ End = slices[Current].x1
<1> DEFINE o == objs[slices[Current].id]
<1>1. /\ Len(slices) \in Nat /\ DOMAIN slices = 1 .. Len(slices) /\ W \in Nat
      /\ \A k \in DOMAIN slices : slices[k].x0 \in Nat /\ slices[k].x1 \in Nat
  BY SlicesType
<1>2. x \in Nat /\ End \in Nat /\ x <= End
  BY EndRight DEF Plotting
<1>3. Current \in 0 .. Len(slices) /\ slices[Current].x0 <= x
  BY CurrentRight
<1>4. Current \in DOMAIN slices
  BY <1>1, <1>3
<1>5. Objects /\ OneSegment /\ stage = "plot" /\ x < W
  BY DEF CanvasInv, Plotting
<1>6. /\ slices[Current].id \in DOMAIN objs /\ WellFormed(o) /\ OnLine(o, y)
      /\ o.type = "cmpr"
      /\ slices[Current].x0 = o.x /\ slices[Current].x1 = o.x + o.w
  BY <1>4, <1>5, SliceRight DEF IsCmpr
<1>7. x = o.x
  <2>1. \A i \in DOMAIN segs : ~(segs[i].cmpr /\ segs[i].id = slices[Current].id)
    BY <1>4, <1>5 DEF OneSegment
  <2>2. PICK i \in DOMAIN slices : slices[i].id = slices[Current].id /\ x <= slices[i].x0
    BY <1>5, <1>6, <2>1 DEF OneSegment
  <2>3. i = Current
    BY <1>4, <1>5, <1>6, <2>2, SliceOrder
  <2>4. QED
    BY <1>1, <1>2, <1>3, <1>4, <1>6, <2>2, <2>3
<1>8. Top = 0
  <2>1. SUFFICES ASSUME Top # 0 PROVE FALSE
    OBVIOUS
  <2>2. /\ Top \in DOMAIN slices /\ Top > Current /\ slices[Top].x0 = End /\ End < CurEnd
    BY <2>1, EndRight
  <2>3. CurEnd = o.x + o.w
    BY <1>6 DEF CurEnd
  <2>4. /\ slices[Top].id \in DOMAIN objs /\ OnLine(objs[slices[Top].id], y)
        /\ HasSide(objs[slices[Top].id], y, slices[Top].x0, slices[Top].x1)
    BY <1>5, <2>2, SliceRight
  <2>5. slices[Current].id < slices[Top].id
    <3>1. slices[Current].id # slices[Top].id
      BY <1>1, <1>4, <1>5, <1>6, <2>2, SliceOrder
    <3>2. ~(slices[Top].id < slices[Current].id)
      BY <1>1, <1>4, <1>5, <2>2, SliceOrder
    <3>3. slices[Current].id \in Nat /\ slices[Top].id \in Nat
      BY <1>4, <1>5, <2>2, SliceOrder
    <3>4. QED
      BY <3>1, <3>2, <3>3
  <2>6. y \in 0 .. H - 1
    BY <1>6, CanvasAssumption DEF OnLine, WellFormed
  <2>7. PICK i \in DOMAIN Sides(objs[slices[Top].id], y) :
          Sides(objs[slices[Top].id], y)[i][1] = End
    BY <2>2, <2>4 DEF HasSide
  <2>8. End >= o.x + o.w \/ End < o.x
    <3>1. o.w > 0
      BY DEF IsCmpr
    <3>2. CmprOnTop(objs)
      BY <1>5 DEF Objects
    <3>3. QED
      BY <1>6, <2>4, <2>5, <2>6, <2>7, <3>1, <3>2 DEF CmprOnTop
  <2>9. QED
    BY <1>1, <1>2, <1>4, <1>6, <1>7, <2>2, <2>3, <2>8
<1>9. End = slices[Current].x1
  BY <1>8, EndRight DEF CurEnd
<1>10. QED
  BY <1>6, <1>7, <1>9

\* A compressed bitmap below what is drawn that is not drawn yet begins after it.
LEMMA CmprBelow ==
  ASSUME CanvasInv, Plotting, y \in Nat, NEW i \in DOMAIN slices,
         IsCmpr(objs[slices[i].id]), x <= slices[i].x0, i # Current
  PROVE  End <= slices[i].x0
<1> DEFINE o == objs[slices[i].id]
<1>1. /\ Len(slices) \in Nat /\ DOMAIN slices = 1 .. Len(slices) /\ W \in Nat
      /\ \A k \in DOMAIN slices : slices[k].x0 \in Nat /\ slices[k].x1 \in Nat
  BY SlicesType
<1>2. x \in Nat /\ End \in Nat /\ x <= End /\ End <= CurEnd /\ CurEnd \in Nat
      /\ \A k \in DOMAIN slices : k > Current => End <= slices[k].x0
  BY EndRight DEF Plotting
<1>3. Current \in 0 .. Len(slices) /\ (Current > 0 => slices[Current].x0 <= x)
  BY CurrentRight
<1>4. CASE i > Current
  BY <1>2, <1>4
<1>5. CASE ~(i > Current)
  <2>1. Current > 0 /\ Current \in DOMAIN slices /\ i < Current
    BY <1>1, <1>3, <1>5
  <2>2. Objects /\ CmprOnTop(objs)
    BY DEF CanvasInv, Objects
  <2>3. /\ slices[i].id \in DOMAIN objs /\ WellFormed(o) /\ OnLine(o, y)
        /\ o.type = "cmpr" /\ o.w > 0
        /\ slices[i].x0 = o.x /\ slices[i].x1 = o.x + o.w
    BY <2>2, SliceRight DEF IsCmpr
  <2>4. /\ slices[Current].id \in DOMAIN objs
        /\ HasSide(objs[slices[Current].id], y, slices[Current].x0, slices[Current].x1)
    BY <2>1, <2>2, SliceRight
  <2>5. slices[i].id < slices[Current].id
    <3>1. slices[i].id # slices[Current].id
      BY <2>1, <2>2, <2>3, SliceOrder
    <3>2. ~(slices[Current].id < slices[i].id)
      BY <1>1, <2>1, <2>2, SliceOrder
    <3>3. slices[i].id \in Nat /\ slices[Current].id \in Nat
      BY <2>1, <2>2, SliceOrder
    <3>4. QED
      BY <3>1, <3>2, <3>3
  <2>6. y \in 0 .. H - 1
    BY <2>3, CanvasAssumption DEF OnLine, WellFormed
  <2>7. PICK s \in DOMAIN Sides(objs[slices[Current].id], y) :
          /\ Sides(objs[slices[Current].id], y)[s][1] = slices[Current].x0
          /\ Sides(objs[slices[Current].id], y)[s][2] = slices[Current].x1
    BY <2>4 DEF HasSide
  <2>8. \/ slices[Current].x0 >= o.x + o.w
        \/ slices[Current].x1 <= o.x
    BY <2>2, <2>3, <2>4, <2>5, <2>6, <2>7 DEF CmprOnTop
  <2>9. o.x \in Nat /\ o.w \in Nat
    BY <2>3 DEF WellFormed
  <2>10. slices[Current].x0 <= x
    BY <1>3, <2>1
  <2>11. slices[Current].x0 \in Nat /\ slices[Current].x1 \in Nat
    BY <1>1, <2>1
  <2>12. slices[i].x0 = o.x /\ o.w > 0
    BY <2>3
  <2> HIDE DEF o
  <2>13. ~(slices[Current].x0 >= o.x + o.w)
    BY <1>2, <2>9, <2>10, <2>11, <2>12
  <2>14. End <= slices[Current].x1
    BY <1>2, <2>1 DEF CurEnd
  <2>15. slices[Current].x1 <= o.x
    BY <2>8, <2>13
  <2>16. QED
    BY <1>2, <2>9, <2>11, <2>12, <2>14, <2>15
<1>6. QED
  BY <1>4, <1>5

\* The segment that is added.
NewSegment ==
  IF Current = 0 THEN Segment(x, End - x) ELSE SegmentOf(Current, End - x)

\* What the segment that is cut off is for, the background or the object of the
\* slice at x, and where it lies.
LEMMA NewSegmentRight ==
  ASSUME CanvasInv, Plotting, y \in Nat
  PROVE  LET s == NewSegment
             o == objs[slices[Current].id]
         IN
         /\ DOMAIN s = Fields /\ s.const \in BOOLEAN /\ s.cmpr \in BOOLEAN
         /\ s.from = x /\ s.width = End - x
         /\ s.const => ~s.cmpr
         /\ s.const => IF Current > 0 THEN ~IsPicture(o) /\ s.color = o.color
                       ELSE s.color = Ground
         /\ ~s.const => /\ Current > 0 /\ Current \in DOMAIN slices
                        /\ s.id = slices[Current].id /\ s.row = y - o.y
                        /\ o.type = IF s.cmpr THEN "cmpr" ELSE "bitmap"
                        /\ s.at = IF s.cmpr THEN o.off
                                  ELSE (y - o.y) * o.stride + x - slices[Current].x0
         /\ Current > 0 /\ IsPicture(o) => ~s.const
<1> DEFINE o == objs[slices[Current].id]
<1>1. Current \in 0 .. Len(slices) /\ Len(slices) \in Nat /\ DOMAIN slices = 1 .. Len(slices)
  BY CurrentRight, SlicesType
<1>2. CASE Current = 0
  <2>1. NewSegment = Segment(x, End - x)
    BY <1>2 DEF NewSegment
  <2>2. /\ NewSegment.const = TRUE /\ NewSegment.cmpr = FALSE
        /\ NewSegment.from = x /\ NewSegment.width = End - x /\ NewSegment.color = Ground
    BY <2>1 DEF Segment
  <2>3. DOMAIN NewSegment = Fields
    BY <2>1 DEF Segment, Fields
  <2>4. ~(Current > 0)
    BY <1>2
  <2>5. QED
    BY <2>2, <2>4, <2>3, Zenon
<1>3. CASE Current # 0 /\ IsPicture(o)
  <2>1. NewSegment =
          [const |-> FALSE, cmpr |-> o.type = "cmpr", from |-> x, width |-> End - x,
           color |-> Ground, id |-> slices[Current].id, row |-> y - o.y,
           at |-> IF o.type = "cmpr" THEN o.off
                  ELSE (y - o.y) * o.stride + x - slices[Current].x0]
    BY <1>3 DEF NewSegment, SegmentOf, IsPicture
  <2>2. /\ NewSegment.const = FALSE /\ NewSegment.cmpr = (o.type = "cmpr")
        /\ NewSegment.from = x /\ NewSegment.width = End - x
        /\ NewSegment.id = slices[Current].id /\ NewSegment.row = y - o.y
        /\ NewSegment.at = IF o.type = "cmpr" THEN o.off
                           ELSE (y - o.y) * o.stride + x - slices[Current].x0
    BY <2>1, Zenon
  <2>3. DOMAIN NewSegment = Fields
    BY <2>1 DEF Fields
  <2>4. Current > 0 /\ Current \in DOMAIN slices
    BY <1>1, <1>3
  <2>5. NewSegment.const \in BOOLEAN /\ NewSegment.cmpr \in BOOLEAN /\ ~NewSegment.const
        /\ (NewSegment.cmpr <=> o.type = "cmpr")
    BY <2>2, Zenon
  <2>6. o.type = IF NewSegment.cmpr THEN "cmpr" ELSE "bitmap"
    BY <1>3, <2>5 DEF IsPicture
  <2>7. NewSegment.at = IF NewSegment.cmpr THEN o.off
                        ELSE (y - o.y) * o.stride + x - slices[Current].x0
    BY <2>2, <2>5, Zenon
  <2>8. QED
    BY <2>2, <2>4, <2>5, <2>6, <2>7, <2>3, Zenon
<1>4. CASE Current # 0 /\ ~IsPicture(o)
  <2>1. NewSegment = [Segment(x, End - x) EXCEPT !.color = o.color]
    BY <1>4 DEF NewSegment, SegmentOf, IsPicture
  <2>2. /\ NewSegment.const = TRUE /\ NewSegment.cmpr = FALSE
        /\ NewSegment.from = x /\ NewSegment.width = End - x /\ NewSegment.color = o.color
    BY <2>1 DEF Segment
  <2>3. DOMAIN NewSegment = Fields
    BY <2>1 DEF Segment, Fields
  <2>4. Current > 0
    BY <1>1, <1>4
  <2>5. QED
    BY <1>4, <2>2, <2>4, <2>3, Zenon
<1>5. QED
  BY <1>2, <1>3, <1>4

\* The segments are those there were and the new one.
LEMMA PlotFrame ==
  ASSUME CanvasInv, Plot
  PROVE  /\ Plotting /\ y \in Nat /\ y < H /\ x \in Nat /\ End \in Nat
         /\ objs' = objs /\ y' = y /\ nextY' = nextY /\ stage' = "plot" /\ x' = End
         /\ image' = image /\ api' = api /\ pos' = pos
         /\ Len(segs) \in Nat /\ DOMAIN segs = 1 .. Len(segs)
         /\ Len(segs') = Len(segs) + 1 /\ DOMAIN segs' = 1 .. Len(segs) + 1
         /\ \A i \in DOMAIN segs : segs'[i] = segs[i]
         /\ segs'[Len(segs) + 1] = NewSegment
<1>1. stage = "plot" /\ x < W
  BY DEF Plot
<1>2. IsVector(segs) /\ x \in Nat
  BY <1>1, CanvasAssumption DEF CanvasInv, Cut
<1>3. Plotting
  BY <1>1, <1>2 DEF Plotting, CanvasInv
<1>4. y \in Nat /\ y < H
  BY <1>1, CanvasAssumption DEF CanvasInv, Position, Steady
<1>5. segs' = Append(segs, NewSegment)
  BY DEF Plot, NewSegment
<1>6. Len(segs) \in Nat /\ DOMAIN segs = 1 .. Len(segs)
  BY <1>2 DEF IsVector
<1>7. /\ Len(segs') = Len(segs) + 1 /\ DOMAIN segs' = 1 .. Len(segs) + 1
      /\ \A i \in DOMAIN segs : segs'[i] = segs[i]
      /\ segs'[Len(segs) + 1] = NewSegment
  BY <1>5, <1>6
<1>8. /\ objs' = objs /\ y' = y /\ nextY' = nextY /\ stage' = "plot" /\ x' = End
      /\ image' = image /\ api' = api /\ pos' = pos
  BY <1>1 DEF Plot, vars, config
<1>9. End \in Nat
  BY <1>3, EndRight
<1>10. QED
  BY <1>2, <1>3, <1>4, <1>6, <1>7, <1>8, <1>9

\* The slices are those that are not over.
LEMMA PlotKept ==
  ASSUME CanvasInv, Plot
  PROVE  LET at == InOrder(DOMAIN slices \ Recycled) IN
         /\ IsVector(slices')
         /\ \A i \in DOMAIN slices' :
              /\ at[i] \in DOMAIN slices /\ slices'[i] = slices[at[i]]
              /\ at[i] > Current \/ End < slices[at[i]].x1
         /\ \A i, j \in DOMAIN slices' : i < j => at[i] < at[j]
         /\ \A k \in DOMAIN slices : k > Current \/ End < slices[k].x1 =>
              \E i \in DOMAIN slices' : at[i] = k
         /\ next' \in Int
         /\ next' > 0 => /\ Top # 0 /\ next' \in DOMAIN slices' /\ at[next'] = Top
         /\ next' <= Len(slices')
<1> DEFINE K == DOMAIN slices \ Recycled
           at == InOrder(K)
<1>1. Plotting
  BY PlotFrame
<1>2. /\ Len(slices) \in Nat /\ DOMAIN slices = 1 .. Len(slices)
      /\ \A k \in DOMAIN slices : slices[k].x0 \in Nat /\ slices[k].x1 \in Nat
  BY <1>1, SlicesType
<1>3. Current \in 0 .. Len(slices) /\ Current \in Nat
  BY <1>1, <1>2, CurrentRight
<1>4. End \in Nat
  BY <1>1, EndRight
<1>5. Recycled \in SUBSET (1 .. Current)
  BY DEF Recycled
<1>6. ASSUME NEW k \in DOMAIN slices
      PROVE  k \in Recycled <=> ~(k > Current \/ End < slices[k].x1)
  <2>1. k \in Recycled <=> k \in 1 .. Current /\ End >= slices[k].x1
    BY DEF Recycled
  <2>2. k \in 1 .. Current <=> ~(k > Current)
    BY <1>2, <1>3
  <2>3. End >= slices[k].x1 <=> ~(End < slices[k].x1)
    BY <1>2, <1>4
  <2>4. QED
    BY <2>1, <2>2, <2>3
<1>7. slices' = KeepPlaces(slices, K) /\ next' = Top - Cardinality(Recycled)
  BY DEF Plot
<1>8. IsVector(slices) /\ K \in SUBSET DOMAIN slices
  BY <1>2 DEF IsVector
<1> HIDE DEF K
<1>9. /\ IsVector(slices')
      /\ \A i \in DOMAIN slices' : at[i] \in K /\ slices'[i] = slices[at[i]]
      /\ \A i, j \in DOMAIN slices' : i < j => at[i] < at[j]
      /\ \A k \in K : \E i \in DOMAIN slices' : at[i] = k
      /\ \A k \in K : LET i == Cardinality({j \in K : j <= k}) IN
                      i \in DOMAIN slices' /\ at[i] = k
  BY <1>7, <1>8, KeepRight
<1>10. \A k : k \in K <=> k \in DOMAIN slices /\ (k > Current \/ End < slices[k].x1)
  BY <1>6 DEF K
<1> HIDE DEF at
<1>11. \A i \in DOMAIN slices' :
         /\ at[i] \in DOMAIN slices /\ slices'[i] = slices[at[i]]
         /\ at[i] > Current \/ End < slices[at[i]].x1
  BY <1>9, <1>10
<1>12. \A k \in DOMAIN slices : k > Current \/ End < slices[k].x1 =>
         \E i \in DOMAIN slices' : at[i] = k
  BY <1>9, <1>10
<1>13. Cardinality(Recycled) \in Nat
  <2>1. IsFiniteSet(1 .. Current)
    BY <1>3, FS_Interval
  <2>2. IsFiniteSet(Recycled)
    BY <1>5, <2>1, FS_Subset
  <2>3. QED
    BY <2>2, FS_CardinalityType
<1>14. CASE Top = 0
  <2>1. next' \in Int /\ ~(next' > 0) /\ next' <= 0
    BY <1>7, <1>13, <1>14
  <2>2. Len(slices') \in Nat
    BY <1>9 DEF IsVector
  <2>3. next' <= Len(slices')
    BY <2>1, <2>2
  <2>4. QED
    BY <1>9, <1>11, <1>12, <2>1, <2>3 DEF at, K
<1>15. CASE Top # 0
  <2>1. Top \in DOMAIN slices /\ Top > Current
    BY <1>1, <1>15, EndRight
  <2>2. Top \in 1 .. Len(slices)
    BY <1>2, <2>1
  <2>3. Recycled \in SUBSET (1 .. Top - 1)
    <3>1. \A k \in 1 .. Current : k \in 1 .. Top - 1
      BY <1>3, <2>1, <2>2
    <3>2. QED
      BY <1>5, <3>1
  <2>4. Cardinality({j \in (1 .. Len(slices)) \ Recycled : j <= Top}) = Top - Cardinality(Recycled)
    BY <1>2, <2>2, <2>3, PlaceAfter
  <2>5. {j \in (1 .. Len(slices)) \ Recycled : j <= Top} = {j \in K : j <= Top}
    BY <1>2 DEF K
  <2>6. Top \in K
    BY <1>10, <2>1
  <2>7. next' \in DOMAIN slices' /\ at[next'] = Top
    BY <1>7, <1>9, <2>4, <2>5, <2>6
  <2>8. next' \in Int /\ next' <= Len(slices')
    BY <1>9, <2>7 DEF IsVector
  <2>9. QED
    BY <1>9, <1>11, <1>12, <1>15, <2>7, <2>8 DEF at, K
<1>16. QED
  BY <1>14, <1>15

\* A segment moves the sweep on, ends a slice, or hands over to a later one.
LEMMA PlotMoves ==
  ASSUME CanvasInv, Plot
  PROVE  \/ x' > x
         \/ x' = x /\ Len(slices') < Len(slices)
         \/ x' = x /\ Len(slices') = Len(slices) /\ next < next' /\ 0 < next'
<1> DEFINE K == DOMAIN slices \ Recycled
<1>1. /\ Plotting /\ x \in Nat /\ x < W /\ W \in Nat /\ x' = End
      /\ slices' = KeepPlaces(slices, K) /\ next' = Top - Cardinality(Recycled)
  BY PlotFrame, CanvasAssumption DEF Plot
<1>2. Len(slices) \in Nat /\ DOMAIN slices = 1 .. Len(slices) /\ next \in Int
  BY <1>1, SlicesType
<1>3. /\ Current \in 0 .. Len(slices)
      /\ next > 0 => Current = next
  BY <1>1, CurrentRight DEF Current
<1>4. /\ End \in Nat /\ x <= End
      /\ Top = 0 => End = CurEnd
      /\ Top # 0 => Top \in DOMAIN slices /\ Top > Current
  BY <1>1, EndRight
<1>5. /\ Recycled \in SUBSET (1 .. Len(slices)) /\ IsFiniteSet(Recycled)
      /\ Cardinality(Recycled) \in Nat
  <2>1. Recycled \in SUBSET (1 .. Current)
    BY DEF Recycled
  <2>2. Recycled \in SUBSET (1 .. Len(slices))
    BY <1>2, <1>3, <2>1
  <2>3. IsFiniteSet(1 .. Len(slices))
    BY <1>2, FS_Interval
  <2>4. QED
    BY <2>2, <2>3, FS_Subset, FS_CardinalityType
<1>6. Len(slices') = Len(slices) - Cardinality(Recycled)
  <2>1. K = (1 .. Len(slices)) \ Recycled /\ K \in SUBSET (1 .. Len(slices))
    BY <1>2
  <2>2. IsFiniteSet(1 .. Len(slices)) /\ Cardinality(1 .. Len(slices)) = Len(slices)
    <3>1. \A n \in Nat : IsFiniteSet(1 .. n) /\ Cardinality(1 .. n) = n
      BY FS_Interval
    <3>2. QED
      BY <1>2, <3>1
  <2>3. (1 .. Len(slices)) \cap Recycled = Recycled
    BY <1>5
  <2>4. Cardinality(K) = Len(slices) - Cardinality(Recycled)
    <3>1. Cardinality((1 .. Len(slices)) \ Recycled) =
            Cardinality(1 .. Len(slices)) - Cardinality((1 .. Len(slices)) \cap Recycled)
      BY <2>2, FS_Difference
    <3>2. QED
      BY <2>1, <2>2, <2>3, <3>1
  <2> HIDE DEF K
  <2>5. Cardinality(K) \in Nat /\ DOMAIN InOrder(K) = 1 .. Cardinality(K)
    BY <1>2, <2>1, InOrderRight
  <2>6. slices' = [i \in 1 .. Cardinality(K) |-> slices[InOrder(K)[i]]]
    BY <1>1, <2>5 DEF KeepPlaces
  <2>7. QED
    BY <2>4, <2>5, <2>6
<1>7. CASE End > x
  BY <1>1, <1>7
<1>8. CASE End = x /\ Cardinality(Recycled) > 0
  BY <1>1, <1>2, <1>5, <1>6, <1>8
<1>9. CASE End = x /\ ~(Cardinality(Recycled) > 0)
  <2>1. Cardinality(Recycled) = 0 /\ Recycled = {}
    BY <1>5, <1>9, FS_EmptySet
  <2>2. Top # 0
    <3>1. SUFFICES ASSUME Top = 0 PROVE FALSE
      OBVIOUS
    <3>2. Current # 0
      BY <1>1, <1>4, <1>9, <3>1 DEF CurEnd
    <3>3. Current \in 1 .. Current /\ End >= slices[Current].x1
      BY <1>2, <1>3, <1>4, <3>1, <3>2 DEF CurEnd
    <3>4. Current \in Recycled
      BY <3>3 DEF Recycled
    <3>5. QED
      BY <2>1, <3>4
  <2>3. Top \in Nat /\ Top > 0 /\ Top > Current
    BY <1>2, <1>4, <2>2
  <2>4. next < Top
    BY <1>2, <1>3, <2>3
  <2>5. QED
    BY <1>1, <1>2, <1>6, <1>9, <2>1, <2>3, <2>4
<1>10. QED
  BY <1>1, <1>4, <1>5, <1>7, <1>8, <1>9

\* So they are still the right ones.
LEMMA PlotSlices ==
  ASSUME CanvasInv, Plot
  PROVE  SlicesRight' /\ SweepRight'
<1> DEFINE at == InOrder(DOMAIN slices \ Recycled)
<1>1. /\ Plotting /\ y \in Nat /\ x \in Nat /\ End \in Nat
      /\ objs' = objs /\ y' = y /\ stage' = "plot" /\ x' = End
      /\ Len(segs) \in Nat /\ Len(segs') = Len(segs) + 1
  BY PlotFrame
<1>2. /\ IsVector(slices')
      /\ \A i \in DOMAIN slices' :
           /\ at[i] \in DOMAIN slices /\ slices'[i] = slices[at[i]]
           /\ at[i] > Current \/ End < slices[at[i]].x1
      /\ \A i, j \in DOMAIN slices' : i < j => at[i] < at[j]
      /\ \A k \in DOMAIN slices : k > Current \/ End < slices[k].x1 =>
           \E i \in DOMAIN slices' : at[i] = k
      /\ next' \in Int
      /\ next' > 0 => Top # 0 /\ next' \in DOMAIN slices' /\ at[next'] = Top
      /\ next' <= Len(slices')
  BY PlotKept
<1> HIDE DEF at
<1>3. /\ W \in Nat /\ Len(slices) \in Nat /\ DOMAIN slices = 1 .. Len(slices)
      /\ \A k \in DOMAIN slices : slices[k].x0 \in Nat /\ slices[k].x1 \in Nat
  BY <1>1, SlicesType
<1>4. /\ \A k \in DOMAIN slices :
           /\ slices[k].id \in DOMAIN objs
           /\ slices[k].x0 \in Nat /\ slices[k].x1 \in slices[k].x0 .. W
           /\ HasSide(objs[slices[k].id], y, slices[k].x0, slices[k].x1)
      /\ \A k, j \in DOMAIN slices :
           k < j => /\ slices[k].id <= slices[j].id
                    /\ slices[k].id = slices[j].id => objs[slices[k].id].type = "stroke"
      /\ \A m \in DOMAIN objs, px \in x .. W - 1 :
           Covers(objs[m], px, y) => \E k \in DOMAIN slices : slices[k].id = m /\ InSlice(k, px)
  BY <1>1 DEF Plotting, SlicesRight
<1>5. x <= End /\ \A k \in DOMAIN slices : k > Current => End <= slices[k].x0
  BY <1>1, EndRight
<1>6. ASSUME NEW m \in DOMAIN objs, NEW px \in End .. W - 1, Covers(objs[m], px, y)
      PROVE  \E i \in DOMAIN slices' : slices'[i].id = m /\ InSlice(i, px)'
  <2>1. px \in x .. W - 1 /\ px \in Nat /\ End <= px
    BY <1>1, <1>3, <1>5
  <2>2. PICK k \in DOMAIN slices : slices[k].id = m /\ InSlice(k, px)
    BY <1>4, <1>6, <2>1
  <2>3. slices[k].x0 <= px /\ px < slices[k].x1
    BY <2>2 DEF InSlice
  <2>4. End < slices[k].x1
    <3>1. slices[k].x1 \in Nat
      BY <1>3
    <3>2. QED
      BY <1>1, <2>1, <2>3, <3>1
  <2>5. PICK i \in DOMAIN slices' : at[i] = k
    BY <1>2, <2>4
  <2>6. slices'[i] = slices[k]
    BY <1>2, <2>5
  <2>7. QED
    BY <2>2, <2>3, <2>6 DEF InSlice
<1>7. SlicesRight'
  <2>1. \A i \in DOMAIN slices' :
          /\ slices'[i].id \in DOMAIN objs
          /\ slices'[i].x0 \in Nat /\ slices'[i].x1 \in slices'[i].x0 .. W
          /\ HasSide(objs[slices'[i].id], y, slices'[i].x0, slices'[i].x1)
    BY <1>2, <1>4
  <2>2. \A i, j \in DOMAIN slices' :
          i < j => /\ slices'[i].id <= slices'[j].id
                   /\ slices'[i].id = slices'[j].id => objs[slices'[i].id].type = "stroke"
    BY <1>2, <1>4
  <2>3. QED
    BY <1>1, <1>2, <1>6, <2>1, <2>2 DEF SlicesRight, IsVector, HasSide
<1>8. SweepRight'
  <2>1. ASSUME NEW i \in DOMAIN slices', slices'[i].x0 < End
        PROVE  End < slices'[i].x1
    <3>1. at[i] \in DOMAIN slices /\ slices'[i] = slices[at[i]]
          /\ (at[i] > Current \/ End < slices[at[i]].x1)
      BY <1>2
    <3>2. ~(at[i] > Current)
      BY <1>1, <1>3, <1>5, <2>1, <3>1
    <3>3. QED
      BY <3>1, <3>2
  <2>2. ASSUME next' > 0
        PROVE  /\ slices'[next'].x0 = End
               /\ \A i \in DOMAIN slices' : i > next' => End < slices'[i].x0
    <3>1. Top # 0 /\ next' \in DOMAIN slices' /\ at[next'] = Top
      BY <1>2, <2>2
    <3>2. slices[Top].x0 = End /\ \A k \in DOMAIN slices : k > Top => End < slices[k].x0
      BY <1>1, <3>1, EndRight
    <3>3. slices'[next'].x0 = End
      BY <1>2, <3>1, <3>2
    <3>4. ASSUME NEW i \in DOMAIN slices', i > next'
          PROVE  End < slices'[i].x0
      <4>1. i \in Nat /\ next' < i
        BY <1>2, <3>4 DEF IsVector
      <4>2. at[next'] < at[i] /\ at[i] \in DOMAIN slices /\ slices'[i] = slices[at[i]]
        BY <1>2, <3>1, <4>1
      <4>3. at[i] > Top
        BY <3>1, <4>2
      <4>4. QED
        BY <3>2, <4>2, <4>3
    <3>5. QED
      BY <3>3, <3>4
  <2>3. Len(segs') # 0
    BY <1>1
  <2>4. QED
    BY <1>1, <1>2, <2>1, <2>2, <2>3 DEF SweepRight
<1>9. QED
  BY <1>7, <1>8

\* The segments still cut the line; none but the first begins at its beginning
\* on the first line.
LEMMA PlotCut ==
  ASSUME CanvasInv, Plot
  PROVE  Cut'
<1>1. /\ Plotting /\ y \in Nat /\ y < H /\ x \in Nat /\ End \in Nat
      /\ y' = y /\ stage' = "plot" /\ x' = End
      /\ Len(segs) \in Nat /\ DOMAIN segs = 1 .. Len(segs)
      /\ Len(segs') = Len(segs) + 1 /\ DOMAIN segs' = 1 .. Len(segs) + 1
      /\ \A i \in DOMAIN segs : segs'[i] = segs[i]
      /\ segs'[Len(segs) + 1] = NewSegment
  BY PlotFrame
<1>2. /\ Len(segs) = 0 => x = 0
      /\ \A i \in DOMAIN segs :
           /\ DOMAIN segs[i] = Fields
           /\ segs[i].const \in BOOLEAN /\ segs[i].cmpr \in BOOLEAN
           /\ segs[i].const => ~segs[i].cmpr
           /\ segs[i].from \in Nat /\ segs[i].width \in Nat
           /\ segs[i].from + segs[i].width <= x
           /\ segs[i].from + segs[i].width = IF i < Len(segs) THEN segs[i + 1].from ELSE x
           /\ i = 1 => segs[i].from = 0
           /\ i > 1 /\ y = 0 /\ CornersDrawn => segs[i].from > 0
      /\ y = 0 /\ CornersDrawn /\ Len(segs) > 0 => x > 0
  BY <1>1 DEF CanvasInv, Cut, Plotting
<1>3. /\ x <= End /\ End <= CurEnd /\ CurEnd \in Nat /\ CurEnd <= W /\ W \in Nat
      /\ Top = 0 => End = CurEnd
      /\ Top # 0 => Top \in DOMAIN slices /\ Top > Current /\ slices[Top].x0 = End
  BY <1>1, EndRight, CanvasAssumption
<1>4. /\ NewSegment.const \in BOOLEAN /\ NewSegment.cmpr \in BOOLEAN
      /\ NewSegment.const => ~NewSegment.cmpr
      /\ NewSegment.from = x /\ NewSegment.width = End - x
      /\ DOMAIN NewSegment = Fields
  BY <1>1, NewSegmentRight
<1>5. ASSUME NEW i \in 1 .. Len(segs) + 1
      PROVE  /\ DOMAIN segs'[i] = Fields
             /\ segs'[i].const \in BOOLEAN /\ segs'[i].cmpr \in BOOLEAN
             /\ segs'[i].const => ~segs'[i].cmpr
             /\ segs'[i].from \in Nat /\ segs'[i].width \in Nat
             /\ segs'[i].from + segs'[i].width <= x'
             /\ segs'[i].from + segs'[i].width =
                  IF i < Len(segs') THEN segs'[i + 1].from ELSE x'
             /\ i = 1 => segs'[i].from = 0
             /\ i > 1 /\ y = 0 /\ CornersDrawn => segs'[i].from > 0
  <2>1. CASE i \in DOMAIN segs
    <3>1. /\ DOMAIN segs'[i] = Fields
          /\ segs'[i].const \in BOOLEAN /\ segs'[i].cmpr \in BOOLEAN
          /\ segs'[i].const => ~segs'[i].cmpr
          /\ segs'[i].from \in Nat /\ segs'[i].width \in Nat
          /\ segs'[i].from + segs'[i].width <= x
          /\ segs'[i].from + segs'[i].width = IF i < Len(segs) THEN segs[i + 1].from ELSE x
          /\ i = 1 => segs'[i].from = 0
          /\ i > 1 /\ y = 0 /\ CornersDrawn => segs'[i].from > 0
      BY <1>1, <1>2, <2>1
    <3>2. i < Len(segs')
      BY <1>1, <2>1
    <3>3. segs'[i + 1].from = IF i < Len(segs) THEN segs[i + 1].from ELSE x
      <4>1. CASE i < Len(segs)
        <5>1. i + 1 \in DOMAIN segs
          BY <1>1, <2>1, <4>1
        <5>2. QED
          BY <1>1, <4>1, <5>1
      <4>2. CASE ~(i < Len(segs))
        <5>1. i + 1 = Len(segs) + 1
          BY <1>1, <2>1, <4>2
        <5>2. QED
          BY <1>1, <1>4, <4>2, <5>1
      <4>3. QED
        BY <4>1, <4>2
    <3>4. segs'[i].from + segs'[i].width <= x'
      BY <1>1, <1>3, <3>1
    <3>5. QED
      BY <3>1, <3>2, <3>3, <3>4
  <2>2. CASE i = Len(segs) + 1
    <3>1. segs'[i] = NewSegment /\ ~(i < Len(segs'))
      BY <1>1, <2>2
    <3>2. /\ segs'[i].const \in BOOLEAN /\ segs'[i].cmpr \in BOOLEAN
          /\ segs'[i].const => ~segs'[i].cmpr
          /\ segs'[i].from = x /\ segs'[i].width = End - x
          /\ DOMAIN segs'[i] = Fields
      BY <1>4, <3>1
    <3>3. segs'[i].from + segs'[i].width = x' /\ segs'[i].from + segs'[i].width <= x' /\ segs'[i].from \in Nat /\ segs'[i].width \in Nat
      BY <1>1, <1>3, <3>2
    <3>4. i = 1 => segs'[i].from = 0
      BY <1>1, <1>2, <2>2, <3>2
    <3>5. i > 1 /\ y = 0 /\ CornersDrawn => segs'[i].from > 0
      BY <1>1, <1>2, <2>2, <3>2
    <3>6. QED
      BY <3>1, <3>2, <3>3, <3>4, <3>5
  <2>3. QED
    BY <1>1, <2>1, <2>2
<1>6. ASSUME y = 0, CornersDrawn
      PROVE  End > 0
  <2>1. CASE Len(segs) > 0
    BY <1>1, <1>2, <1>3, <1>6, <2>1
  <2>2. CASE Len(segs) = 0
    <3>1. x = 0 /\ next \in Int /\ ~(next > 0)
      BY <1>1, <1>2, <2>2 DEF Plotting, SweepRight
    <3>2. CASE Top = 0
      <4>1. CASE Current = 0
        BY <1>1, <1>3, <3>1, <3>2, <4>1, CanvasAssumption DEF CurEnd
      <4>2. CASE Current > 0
        <5>1. CurEnd = slices[Current].x1 /\ x < slices[Current].x1
          BY <1>1, <3>1, <4>2, CurrentRight DEF CurEnd
        <5>2. QED
          BY <1>3, <3>1, <3>2, <5>1
      <4>3. Current \in Nat
        BY <1>1, CurrentRight, SlicesType
      <4>4. QED
        BY <4>1, <4>2, <4>3
    <3>3. CASE Top # 0
      <4>1. SUFFICES ASSUME End = 0 PROVE FALSE
        BY <1>1
      <4>2. Top \in DOMAIN slices /\ Top > Current /\ slices[Top].x0 = x
        BY <1>3, <3>1, <3>3, <4>1
      <4>3. slices[Top].x1 = 0
        BY <1>1, <3>1, <4>2, CurrentRight
      <4>4. Objects
        BY DEF CanvasInv
      <4>5. slices[Top].id \in DOMAIN objs
            /\ HasSide(objs[slices[Top].id], 0, slices[Top].x0, slices[Top].x1)
        BY <1>1, <1>6, <4>2, <4>4, SliceRight
      <4>6. CornerDrawn(objs)
        BY <1>6, <4>4 DEF Objects
      <4>7. QED
        BY <4>3, <4>5, <4>6 DEF HasSide, CornerDrawn
    <3>4. QED
      BY <3>2, <3>3
  <2>3. QED
    BY <1>1, <2>1, <2>2
<1>7. IsVector(segs') /\ Len(segs') # 0
  BY <1>1 DEF IsVector
<1>8. x' \in 0 .. W
  BY <1>1, <1>3
<1>9. QED
  BY <1>1, <1>5, <1>6, <1>7, <1>8 DEF Cut

\* The new segment shows what is uppermost.
LEMMA PlotShow ==
  ASSUME CanvasInv, Plot
  PROVE  SegmentsShow'
<1>1. /\ Plotting /\ y \in Nat /\ y < H /\ x \in Nat /\ End \in Nat
      /\ objs' = objs /\ y' = y /\ nextY' = nextY /\ stage' = "plot" /\ image' = image
      /\ Len(segs) \in Nat /\ DOMAIN segs = 1 .. Len(segs)
      /\ Len(segs') = Len(segs) + 1 /\ DOMAIN segs' = 1 .. Len(segs) + 1
      /\ \A i \in DOMAIN segs : segs'[i] = segs[i]
      /\ segs'[Len(segs) + 1] = NewSegment
  BY PlotFrame
<1>2. stage = "plot" /\ Objects /\ PictureLeft /\ Steady /\ SegmentsShow
  BY <1>1 DEF CanvasInv, Plotting
<1>3. /\ x <= End /\ End <= CurEnd /\ CurEnd \in Nat /\ CurEnd <= W /\ W \in Nat
  BY <1>1, EndRight, CanvasAssumption
<1>4. \A px, r : Img(px, r)' = Img(px, r)
  BY <1>1 DEF Img
<1> DEFINE o == objs[slices[Current].id]
<1>5. /\ NewSegment.from = x /\ NewSegment.width = End - x
      /\ NewSegment.const => IF Current > 0 THEN ~IsPicture(o) /\ NewSegment.color = o.color
                             ELSE NewSegment.color = Ground
      /\ ~NewSegment.const => Current > 0 /\ NewSegment.id = slices[Current].id
  BY <1>1, NewSegmentRight
<1>6. ASSUME NEW px \in x .. End - 1, NEW r \in y .. nextY - 1
      PROVE  IF NewSegment.const THEN Img(px, r) = NewSegment.color
             ELSE Img(px, r) = ColourAt(objs[NewSegment.id], px, r)
  <2>1. px \in Nat /\ x <= px /\ px < End /\ px \in 0 .. W - 1
    BY <1>1, <1>3
  <2>2. /\ Current > 0 => TopAt(slices[Current].id, px, y)
        /\ ~(Current > 0) => \A m \in DOMAIN objs : ~Covers(objs[m], px, y)
    BY <1>1, <1>2, <2>1, UppermostRight
  <2>3. /\ \A k \in DOMAIN objs : TopAt(k, px, y) => Img(px, r) = ColourAt(objs[k], px, r)
        /\ (\A k \in DOMAIN objs : ~Covers(objs[k], px, y)) => Img(px, r) = Ground
    BY <1>1, <1>2, <2>1, ShowsRight
  <2>4. CASE Current > 0
    <3>1. Current \in DOMAIN slices
      BY <1>1, <2>4, CurrentRight, SlicesType
    <3>2. slices[Current].id \in DOMAIN objs
      BY <1>1, <1>2, <3>1, SliceRight
    <3>3. Img(px, r) = ColourAt(o, px, r)
      BY <2>2, <2>3, <2>4, <3>2
    <3>4. NewSegment.const => ColourAt(o, px, r) = o.color
      BY <1>5, <2>4 DEF ColourAt, IsPicture
    <3>5. QED
      BY <1>5, <2>4, <3>3, <3>4
  <2>5. CASE ~(Current > 0)
    BY <1>5, <2>2, <2>3, <2>5
  <2>6. QED
    BY <2>4, <2>5
<1> HIDE DEF o
<1>7. ASSUME NEW i \in DOMAIN segs',
             NEW px \in segs'[i].from .. segs'[i].from + segs'[i].width - 1,
             NEW r \in y .. nextY - 1
      PROVE  IF segs'[i].const THEN Img(px, r) = segs'[i].color
             ELSE Img(px, r) = ColourAt(objs[segs'[i].id], px, r)
  <2>1. CASE i \in DOMAIN segs
    BY <1>1, <1>2, <1>7, <2>1 DEF SegmentsShow
  <2>2. CASE i = Len(segs) + 1
    <3>1. segs'[i] = NewSegment
      BY <1>1, <2>2
    <3>2. x + (End - x) - 1 = End - 1
      BY <1>1
    <3>3. px \in x .. End - 1
      BY <1>5, <1>7, <3>1, <3>2
    <3>4. QED
      BY <1>6, <1>7, <3>1, <3>3
  <2>3. QED
    BY <1>1, <2>1, <2>2
<1>8. QED
  BY <1>1, <1>4, <1>7 DEF SegmentsShow

\* It reads where the object begins to be seen.
LEMMA PlotRead ==
  ASSUME CanvasInv, Plot
  PROVE  SegmentsRead'
<1>1. /\ Plotting /\ y \in Nat /\ y < H /\ x \in Nat /\ End \in Nat
      /\ objs' = objs /\ y' = y /\ stage' = "plot"
      /\ Len(segs) \in Nat /\ DOMAIN segs = 1 .. Len(segs)
      /\ DOMAIN segs' = 1 .. Len(segs) + 1
      /\ \A i \in DOMAIN segs : segs'[i] = segs[i]
      /\ segs'[Len(segs) + 1] = NewSegment
  BY PlotFrame
<1>2. stage = "plot" /\ Objects /\ SegmentsRead /\ Offsets
  BY <1>1 DEF CanvasInv, Plotting
<1>3. \A i : LineOf(i) = y /\ LineOf(i)' = y
  BY <1>1, <1>2 DEF LineOf
<1> DEFINE good(s) ==
      LET o == objs[s.id]
          b == LineBegins(o.lens)
          r == y - o.y
      IN
      /\ s.id \in DOMAIN objs /\ OnLine(o, y)
      /\ o.type = IF s.cmpr THEN "cmpr" ELSE "bitmap"
      /\ o.x <= s.from /\ s.from + s.width <= o.x + o.w
      /\ s.row = r
      /\ ~s.cmpr => s.at = r * o.stride + (s.from - o.x)
      /\ IsCmpr(o) => s.from = o.x /\ s.width = o.w /\ s.at = b[r]
<1>4. ASSUME NEW i \in DOMAIN segs, ~segs[i].const
      PROVE  good(segs[i])
  BY <1>2, <1>3, <1>4 DEF SegmentsRead
<1>5. ASSUME ~NewSegment.const
      PROVE  good(NewSegment)
  <2> DEFINE o == objs[slices[Current].id]
             s == NewSegment
  <2>1. /\ s.from = x /\ s.width = End - x
        /\ Current > 0 /\ Current \in DOMAIN slices
        /\ s.id = slices[Current].id /\ s.row = y - o.y
        /\ o.type = IF s.cmpr THEN "cmpr" ELSE "bitmap"
        /\ s.at = IF s.cmpr THEN o.off ELSE (y - o.y) * o.stride + x - slices[Current].x0
        /\ s.cmpr \in BOOLEAN
    BY <1>1, <1>5, NewSegmentRight
  <2>2. /\ s.id \in DOMAIN objs /\ WellFormed(o) /\ OnLine(o, y)
        /\ slices[Current].x0 = o.x /\ slices[Current].x1 = o.x + o.w
    <3>1. o.type \in {"rect", "bitmap", "cmpr"}
      BY <2>1
    <3>2. QED
      BY <1>1, <1>2, <2>1, <3>1, SliceRight
  <2>3. /\ o.x \in Nat /\ o.w \in Nat /\ o.y \in Nat /\ o.y = o.minY /\ o.stride \in Nat
        /\ o.maxY = o.y + o.h /\ o.h \in Nat
    BY <2>1, <2>2 DEF WellFormed
  <2>4. CurEnd = slices[Current].x1 /\ End <= CurEnd /\ slices[Current].x0 <= x
    BY <1>1, <2>1, CurrentRight, EndRight DEF CurEnd
  <2>5. s.id = slices[Current].id /\ objs[s.id] = o
    BY <2>1
  <2> HIDE DEF o
  <2>6. o.x <= s.from /\ s.from + s.width <= o.x + o.w
    BY <1>1, <2>1, <2>2, <2>3, <2>4
  <2>7. ASSUME ~s.cmpr
        PROVE  s.at = (y - o.y) * o.stride + (s.from - o.x)
    <3>1. s.at = (y - o.y) * o.stride + x - o.x
      BY <2>1, <2>2, <2>7
    <3>2. (y - o.y) * o.stride \in Int
      BY <1>1, <2>3
    <3>3. QED
      BY <1>1, <2>1, <2>3, <3>1, <3>2
  <2>8. ASSUME IsCmpr(o)
        PROVE  s.from = o.x /\ s.width = o.w /\ s.at = LineBegins(o.lens)[y - o.y]
    <3>1. s.cmpr
      BY <2>1, <2>8 DEF IsCmpr
    <3>2. x = o.x /\ End = o.x + o.w
      BY <1>1, <2>1, <2>8, CmprPlot DEF o
    <3>3. s.from = o.x /\ s.width = o.w
      BY <2>1, <2>3, <3>2
    <3>4. y >= o.y /\ y < o.maxY
      BY <1>1, <2>2, <2>3 DEF OnLine
    <3>5. o.off = LineBegins(o.lens)[y + 0 - o.y]
      <4>1. ~(y < o.y)
        BY <1>1, <2>3, <3>4
      <4>2. ~Drawn(s.id)
        BY <1>2 DEF Drawn
      <4>3. QED
        BY <1>2, <2>2, <2>5, <2>8, <3>4, <4>1, <4>2 DEF Offsets
    <3>6. y + 0 - o.y = y - o.y
      BY <1>1, <2>3
    <3>7. QED
      BY <2>1, <3>1, <3>3, <3>5, <3>6
  <2>9. QED
    BY <2>1, <2>2, <2>5, <2>6, <2>7, <2>8
<1>6. ASSUME NEW i \in DOMAIN segs', ~segs'[i].const
      PROVE  good(segs'[i])
  <2> HIDE DEF good
  <2>1. CASE i \in DOMAIN segs
    BY <1>1, <1>4, <1>6, <2>1
  <2>2. CASE i = Len(segs) + 1
    BY <1>1, <1>5, <1>6, <2>2
  <2>3. QED
    BY <1>1, <2>1, <2>2
<1>7. QED
  BY <1>1, <1>3, <1>6 DEF SegmentsRead

\* A compressed bitmap has got its only segment, or waits for it.
LEMMA PlotOne ==
  ASSUME CanvasInv, Plot
  PROVE  OneSegment'
<1> DEFINE at == InOrder(DOMAIN slices \ Recycled)
<1>1. /\ Plotting /\ y \in Nat /\ y < H /\ x \in Nat /\ End \in Nat
      /\ objs' = objs /\ y' = y /\ stage' = "plot" /\ x' = End
      /\ Len(segs) \in Nat /\ DOMAIN segs = 1 .. Len(segs)
      /\ DOMAIN segs' = 1 .. Len(segs) + 1
      /\ \A i \in DOMAIN segs : segs'[i] = segs[i]
      /\ segs'[Len(segs) + 1] = NewSegment
  BY PlotFrame
<1>2. stage = "plot" /\ x < W /\ Objects /\ OneSegment
  BY <1>1 DEF CanvasInv, Plotting
<1>3. /\ \A i \in DOMAIN slices' :
           /\ at[i] \in DOMAIN slices /\ slices'[i] = slices[at[i]]
           /\ at[i] > Current \/ End < slices[at[i]].x1
      /\ \A k \in DOMAIN slices : k > Current \/ End < slices[k].x1 =>
           \E i \in DOMAIN slices' : at[i] = k
  BY PlotKept
<1> HIDE DEF at
<1>4. /\ \A i, j \in DOMAIN segs :
           i # j /\ segs[i].cmpr /\ segs[j].cmpr /\ segs[i].id = segs[j].id =>
             ~IsCmpr(objs[segs[i].id])
      /\ \A k \in DOMAIN objs : IsCmpr(objs[k]) /\ OnLine(objs[k], y) =>
           \/ \E i \in DOMAIN segs : segs[i].cmpr /\ segs[i].id = k
           \/ \E i \in DOMAIN slices : slices[i].id = k /\ x <= slices[i].x0
      /\ \A i \in DOMAIN segs, k \in DOMAIN slices :
           segs[i].cmpr /\ segs[i].id = slices[k].id => ~IsCmpr(objs[slices[k].id])
  BY <1>2 DEF OneSegment
<1>5. /\ Current \in 0 .. Len(slices) /\ Len(slices) \in Nat /\ DOMAIN slices = 1 .. Len(slices)
      /\ W \in Nat
      /\ \A k \in DOMAIN slices : slices[k].x0 \in Nat /\ slices[k].x1 \in Nat
                                  /\ slices[k].x1 <= W
  BY <1>1, CurrentRight, SlicesType
<1>6. /\ NewSegment.cmpr \in BOOLEAN
      /\ NewSegment.cmpr => Current \in DOMAIN slices /\ NewSegment.id = slices[Current].id
                            /\ Current > 0
      /\ Current > 0 /\ IsCmpr(objs[slices[Current].id]) =>
           NewSegment.cmpr /\ NewSegment.id = slices[Current].id
  <2>1. /\ NewSegment.cmpr \in BOOLEAN
        /\ NewSegment.const => ~NewSegment.cmpr
        /\ ~NewSegment.const =>
             /\ Current > 0 /\ Current \in DOMAIN slices /\ NewSegment.id = slices[Current].id
             /\ objs[slices[Current].id].type = IF NewSegment.cmpr THEN "cmpr" ELSE "bitmap"
        /\ Current > 0 /\ IsPicture(objs[slices[Current].id]) => ~NewSegment.const
    BY <1>1, NewSegmentRight
  <2>2. Current > 0 /\ IsCmpr(objs[slices[Current].id]) => IsPicture(objs[slices[Current].id])
    BY DEF IsCmpr, IsPicture
  <2>3. IsCmpr(objs[slices[Current].id]) => objs[slices[Current].id].type # "bitmap"
    BY DEF IsCmpr
  <2>4. QED
    BY <2>1, <2>2, <2>3
<1>7. ASSUME NEW i \in DOMAIN segs', NEW j \in DOMAIN segs',
             i # j, segs'[i].cmpr, segs'[j].cmpr, segs'[i].id = segs'[j].id
      PROVE  ~IsCmpr(objs[segs'[i].id])
  <2>1. CASE i \in DOMAIN segs /\ j \in DOMAIN segs
    BY <1>1, <1>4, <1>7, <2>1
  <2>2. CASE i \in DOMAIN segs /\ j = Len(segs) + 1
    BY <1>1, <1>4, <1>6, <1>7, <2>2
  <2>3. CASE j \in DOMAIN segs /\ i = Len(segs) + 1
    BY <1>1, <1>4, <1>6, <1>7, <2>3
  <2>4. QED
    BY <1>1, <1>7, <2>1, <2>2, <2>3
<1>8. ASSUME NEW k \in DOMAIN objs, IsCmpr(objs[k]), OnLine(objs[k], y),
             ~ \E i \in DOMAIN segs' : segs'[i].cmpr /\ segs'[i].id = k
      PROVE  End < W /\ \E i \in DOMAIN slices' : slices'[i].id = k /\ End <= slices'[i].x0
  <2>1. ~ \E i \in DOMAIN segs : segs[i].cmpr /\ segs[i].id = k
    <3>1. \A i \in DOMAIN segs : i \in DOMAIN segs'
      BY <1>1
    <3>2. QED
      BY <1>1, <1>8, <3>1
  <2>2. PICK i \in DOMAIN slices : slices[i].id = k /\ x <= slices[i].x0
    BY <1>4, <1>8, <2>1
  <2>3. i # Current
    <3>1. Len(segs) + 1 \in DOMAIN segs'
      BY <1>1
    <3>2. ~(NewSegment.cmpr /\ NewSegment.id = k)
      BY <1>1, <1>8, <3>1
    <3>3. SUFFICES ASSUME i = Current PROVE FALSE
      OBVIOUS
    <3>4. Current > 0
      BY <1>5, <3>3
    <3>5. QED
      BY <1>6, <1>8, <2>2, <3>2, <3>3, <3>4
  <2>4. End <= slices[i].x0
    BY <1>1, <1>8, <2>2, <2>3, CmprBelow
  <2>5. slices[i].x0 = objs[k].x /\ slices[i].x1 = objs[k].x + objs[k].w
        /\ objs[k].w \in Nat /\ objs[k].w > 0 /\ objs[k].x \in Nat
    <3>1. objs[k].type = "cmpr" /\ objs[k].w > 0
      BY <1>8 DEF IsCmpr
    <3>2. /\ WellFormed(objs[k]) /\ slices[i].x0 = objs[k].x
          /\ slices[i].x1 = objs[k].x + objs[k].w
      BY <1>1, <1>2, <2>2, <3>1, SliceRight
    <3>3. QED
      BY <3>1, <3>2 DEF WellFormed
  <2>6. End < slices[i].x1 /\ End < W
    <3>1. slices[i].x0 \in Nat /\ slices[i].x1 \in Nat /\ slices[i].x1 <= W /\ W \in Nat
      BY <1>5
    <3>2. slices[i].x0 < slices[i].x1
      BY <2>5
    <3>3. End \in Nat
      BY <1>1
    <3>4. End < slices[i].x1
      BY <2>4, <3>1, <3>2, <3>3
    <3>5. QED
      BY <3>1, <3>3, <3>4
  <2>7. PICK j \in DOMAIN slices' : at[j] = i
    BY <1>3, <2>6
  <2>8. slices'[j] = slices[i]
    BY <1>3, <2>7
  <2>9. QED
    BY <2>2, <2>4, <2>6, <2>8
<1>9. ASSUME NEW i \in DOMAIN segs', NEW k \in DOMAIN slices',
             segs'[i].cmpr, segs'[i].id = slices'[k].id, IsCmpr(objs[slices'[k].id])
      PROVE  FALSE
  <2>1. /\ at[k] \in DOMAIN slices /\ slices'[k] = slices[at[k]]
        /\ at[k] > Current \/ End < slices[at[k]].x1
    BY <1>3
  <2>2. CASE i \in DOMAIN segs
    BY <1>1, <1>4, <1>9, <2>1, <2>2
  <2>3. CASE i = Len(segs) + 1
    <3>1. Current \in DOMAIN slices /\ slices[Current].id = slices[at[k]].id /\ Current > 0
      BY <1>1, <1>6, <1>9, <2>1, <2>3
    <3>2. objs[slices[Current].id].type = "cmpr" /\ IsCmpr(objs[slices[Current].id])
      BY <1>9, <2>1, <3>1 DEF IsCmpr
    <3>3. Current = at[k]
      BY <1>1, <1>2, <2>1, <3>1, <3>2, SliceOrder
    <3>4. End = slices[Current].x1
      BY <1>1, <3>1, <3>2, CmprPlot
    <3>5. QED
      BY <1>1, <1>5, <2>1, <3>3, <3>4
  <2>4. QED
    BY <1>1, <2>2, <2>3
<1>10. QED
  BY <1>1, <1>7, <1>8, <1>9 DEF OneSegment

\* Cutting off a segment keeps the invariant.
LEMMA PlotStep ==
  ASSUME CanvasInv, Plot
  PROVE  CanvasInv'
<1>1. /\ stage = "plot" /\ stage' = "plot" /\ objs' = objs /\ y' = y /\ nextY' = nextY
      /\ image' = image /\ api' = api /\ pos' = pos
  BY PlotFrame DEF Plot
<1>2. api = "canvas" /\ Objects /\ PictureLeft /\ Position /\ Steady /\ Offsets
  BY DEF CanvasInv
<1>3. Objects'
  BY <1>1, <1>2 DEF Objects
<1>4. PictureLeft'
  BY <1>1, <1>2 DEF PictureLeft, TopAt, Img
<1>5. Position'
  BY <1>1, <1>2 DEF Position
<1>6. Steady'
  BY <1>1, <1>2 DEF Steady, LastsTo
<1>7. Offsets'
  <2>1. \A k : ~Drawn(k) /\ ~Drawn(k)'
    BY <1>1 DEF Drawn
  <2>2. QED
    BY <1>1, <1>2, <2>1 DEF Offsets
<1>8. QED
  BY <1>1, <1>2, <1>3, <1>4, <1>5, <1>6, <1>7,
     PlotSlices, PlotCut, PlotShow, PlotRead, PlotOne DEF CanvasInv

-----------------------------------------------------------------------------
\* BeginLines

\* Once the line is cut, its segments are drawn from the first.
LEMMA BeginLinesStep ==
  ASSUME CanvasInv, BeginLines
  PROVE  CanvasInv'
<1>1. /\ stage = "plot" /\ stage' = "draw" /\ objs' = objs /\ y' = y /\ nextY' = nextY
      /\ x' = x /\ segs' = segs /\ line' = 0 /\ seg' = 1 /\ pel' = 0
      /\ image' = image /\ api' = api /\ pos' = pos
  BY DEF BeginLines, sweep, vars, config
<1>2. /\ api = "canvas" /\ Objects /\ PictureLeft /\ Position /\ Steady /\ Offsets
      /\ Cut /\ SegmentsShow /\ SegmentsRead /\ OneSegment
  BY DEF CanvasInv
<1>3. W \in Nat /\ W > 0 /\ H \in Nat
  BY CanvasAssumption
<1>4. x = W /\ ~(x < W)
  BY <1>1, <1>2, <1>3 DEF BeginLines, Cut
<1>5. y \in Nat /\ nextY \in Nat /\ y < nextY /\ pos = y * W
  BY <1>1, <1>2, <1>3 DEF Position, Steady
<1>6. Len(segs) \in Nat /\ Len(segs) # 0 /\ DOMAIN segs = 1 .. Len(segs)
  BY <1>1, <1>2, <1>3, <1>4 DEF Cut, IsVector
<1>7. /\ segs[1].from = 0 /\ segs[1].width \in Nat /\ 1 \in DOMAIN segs
  <2>1. 1 \in DOMAIN segs
    BY <1>6
  <2>2. QED
    BY <1>1, <1>2, <2>1 DEF Cut
<1>8. Objects' /\ PictureLeft' /\ Steady'
  BY <1>1, <1>2 DEF Objects, PictureLeft, TopAt, Img, Steady, LastsTo
<1>9. Position'
  <2>1. y * W \in Int /\ y + 0 = y
    BY <1>3, <1>5
  <2>2. pos' = (y + 0) * W + (0 + 0)
    BY <1>1, <1>5, <2>1
  <2>3. 1 <= Len(segs) /\ 1 \in 1 .. Len(segs) + 1 /\ ~(1 > Len(segs))
    BY <1>6
  <2>4. y \in 0 .. H
    BY <1>2 DEF Position
  <2>5. y + 0 <= nextY /\ y + 0 # nextY
    BY <1>5
  <2>6. 0 <= segs[1].width
    BY <1>7
  <2>7. pos' = (y + 0) * W + (IF 1 <= Len(segs) THEN segs[1].from + 0 ELSE W)
    BY <1>7, <2>2, <2>3
  <2>8. QED
    BY <1>1, <2>3, <2>4, <2>5, <2>6, <2>7 DEF Position
<1>10. SlicesRight' /\ SweepRight'
  BY <1>1 DEF SlicesRight, SweepRight
<1>11. Cut'
  BY <1>1, <1>2, <1>4 DEF Cut, IsVector
<1>12. SegmentsShow'
  BY <1>1, <1>2 DEF SegmentsShow, Img
<1>13. SegmentsRead'
  <2>1. \A i \in DOMAIN segs : LineOf(i) = y /\ LineOf(i)' = y
    BY <1>1, <1>5, <1>6 DEF LineOf
  <2>2. QED
    BY <1>1, <1>2, <2>1 DEF SegmentsRead
<1>14. OneSegment'
  BY <1>1, <1>2, <1>4 DEF OneSegment
<1>15. Offsets'
  <2>1. \A k : ~Drawn(k) /\ ~Drawn(k)'
    BY <1>1 DEF Drawn
  <2>2. y + 0 = y
    BY <1>5
  <2>3. QED
    BY <1>1, <1>2, <2>1, <2>2 DEF Offsets
<1>16. QED
  BY <1>1, <1>2, <1>8, <1>9, <1>10, <1>11, <1>12, <1>13, <1>14, <1>15 DEF CanvasInv

-----------------------------------------------------------------------------
\* Spans

\* What is known while a segment is drawn.
LEMMA DrawType ==
  ASSUME CanvasInv, InSegment
  PROVE  /\ stage = "draw" /\ seg \in DOMAIN segs /\ seg \in Nat /\ seg > 0
         /\ Len(segs) \in Nat /\ DOMAIN segs = 1 .. Len(segs) /\ seg <= Len(segs)
         /\ y \in Nat /\ line \in Nat /\ nextY \in Nat /\ y + line < nextY /\ nextY <= H
         /\ y < nextY /\ y < H /\ W \in Nat /\ W > 0 /\ H \in Nat /\ x = W
         /\ pel \in Nat /\ pel <= segs[seg].width
         /\ segs[seg].from \in Nat /\ segs[seg].width \in Nat
         /\ segs[seg].from + segs[seg].width <= W
         /\ pos = (y + line) * W + (segs[seg].from + pel)
<1>1. stage = "draw" /\ y + line < nextY /\ seg <= Len(segs)
  BY DEF InSegment
<1>2. W \in Nat /\ W > 0 /\ H \in Nat
  BY CanvasAssumption
<1>3. Position /\ Steady /\ Cut
  BY DEF CanvasInv
<1>4. /\ y \in 0 .. H /\ line \in Nat /\ seg \in 1 .. Len(segs) + 1 /\ pel \in Nat
      /\ pel <= segs[seg].width
      /\ pos = (y + line) * W + (segs[seg].from + pel)
  BY <1>1, <1>3 DEF Position
<1>5. nextY \in Nat /\ nextY <= H /\ y < nextY
  BY <1>1, <1>3 DEF Steady
<1>6. Len(segs) \in Nat /\ DOMAIN segs = 1 .. Len(segs) /\ x = W
  BY <1>1, <1>3 DEF Cut, IsVector
<1>7. seg \in DOMAIN segs /\ seg \in Nat /\ seg > 0
  BY <1>1, <1>4, <1>6
<1>8. /\ segs[seg].from \in Nat /\ segs[seg].width \in Nat
      /\ segs[seg].from + segs[seg].width <= W
  BY <1>1, <1>3, <1>6, <1>7 DEF Cut
<1>9. y \in Nat /\ y < H
  BY <1>2, <1>4, <1>5
<1>10. QED
  BY <1>1, <1>2, <1>4, <1>5, <1>6, <1>7, <1>8, <1>9

\* Equal pixels of a segment are a span the encoder of the picture may be given.
LEMMA SpanRight ==
  ASSUME CanvasInv, InSegment, NEW n \in Nat \ {0}, pel + n <= segs[seg].width,
         NEW c, \A i \in 0 .. n - 1 : Img(segs[seg].from + pel + i, y + line) = c,
         DrawPixel(c, n, IsFirst)
  PROVE  n \in 1 .. N /\ (CornersDrawn => DrawSpan(n))
<1> DEFINE r == y + line
           f == segs[seg].from
<1>1. /\ stage = "draw" /\ seg \in DOMAIN segs /\ seg \in Nat /\ seg > 0
      /\ y \in Nat /\ line \in Nat /\ r < H /\ W \in Nat /\ W > 0 /\ H \in Nat
      /\ pel \in Nat /\ f \in Nat /\ segs[seg].width \in Nat
      /\ f + segs[seg].width <= W /\ pos = r * W + (f + pel)
  <2>1. /\ nextY \in Nat /\ y + line < nextY /\ nextY <= H /\ H \in Nat
        /\ y \in Nat /\ line \in Nat
    BY DrawType
  <2>2. r < H
    BY <2>1
  <2>3. QED
    BY <2>2, DrawType
<1>2. r \in Nat /\ r * W \in Nat /\ r * W + W <= N
  <2>1. r \in Nat /\ r + 1 \in Nat /\ r + 1 <= H
    BY <1>1
  <2>2. (r + 1) * W <= H * W
    BY <1>1, <2>1, TimesMonotone
  <2>3. N = H * W
    BY CanvasAssumption
  <2>4. (r + 1) * W = r * W + W /\ r * W \in Nat
    BY <1>1, <2>1
  <2>5. QED
    BY <2>1, <2>2, <2>3, <2>4
<1> DEFINE q == r * W
<1>3. q \in Nat /\ q + W <= N /\ pos = q + (f + pel)
  BY <1>1, <1>2
<1>4. \A i \in 0 .. n - 1 : image[q + (f + pel + i) + 1] = c
  BY DEF Img
<1>5. CornersDrawn => (IsFirst <=> pos = 0)
  <2>1. IsFirst <=> r = 0 /\ seg = 1 /\ pel = 0
    BY DEF IsFirst
  <2>2. Cut
    BY DEF CanvasInv
  <2>3. seg = 1 => f = 0
    BY <1>1, <2>2 DEF Cut
  <2>4. seg > 1 /\ y = 0 /\ CornersDrawn => f > 0
    BY <1>1, <2>2 DEF Cut
  <2>5. IsFirst => pos = 0
    <3>1. r = 0 => q = 0
      BY <1>1
    <3>2. QED
      BY <1>3, <2>1, <2>3, <3>1
  <2>6. pos = 0 /\ CornersDrawn => IsFirst
    <3>1. SUFFICES ASSUME pos = 0, CornersDrawn PROVE IsFirst
      OBVIOUS
    <3>2. q = 0 /\ f = 0 /\ pel = 0
      <4> HIDE DEF q, f
      <4>1. QED
        BY <1>1, <1>3, <3>1
    <3>3. r = 0
      <4>1. r > 0 => 1 * W <= r * W
        <5>1. r > 0 => 1 <= r
          BY <1>2
        <5>2. QED
          BY <1>1, <1>2, <5>1, TimesMonotone
      <4>2. ~(r > 0)
        BY <1>1, <3>2, <4>1
      <4>3. QED
        BY <1>2, <4>2
    <3>4. y = 0
      BY <1>1, <3>3
    <3>5. seg = 1
      BY <1>1, <2>4, <3>1, <3>2, <3>4
    <3>6. QED
      BY <2>1, <3>2, <3>3, <3>5
  <2>7. QED
    BY <2>5, <2>6
<1> HIDE DEF q, f, r
<1>6. N \in Nat
  BY CanvasAssumption, CmprAssumption
<1>7. pos + n <= N /\ pos \in Nat /\ n \in 1 .. N
  BY <1>1, <1>3, <1>6 DEF f
<1>8. \A i \in pos + 1 .. pos + n : image[i] = c
  <2>1. ASSUME NEW i \in pos + 1 .. pos + n
        PROVE  image[i] = c
    <3>1. i - pos - 1 \in 0 .. n - 1
      BY <1>7
    <3>2. q + (f + pel + (i - pos - 1)) + 1 = i
      BY <1>1, <1>3, <1>7
    <3>3. QED
      BY <1>4, <3>1, <3>2
  <2>2. QED
    BY <2>1
<1>9. image[pos + 1] = c
  <2>1. pos + 1 \in pos + 1 .. pos + n
    BY <1>7
  <2>2. QED
    BY <1>8, <2>1
<1>10. CornersDrawn => DrawPixel(image[pos + 1], n, pos = 0)
  <2>1. CornersDrawn => IsFirst = (pos = 0)
    BY <1>5 DEF IsFirst
  <2>2. QED
    BY <1>9, <2>1
<1>11. api = "canvas"
  BY DEF CanvasInv
<1>12. QED
  BY <1>7, <1>8, <1>9, <1>10, <1>11 DEF DrawSpan

-----------------------------------------------------------------------------
\* What drawing does not change

SameLook(o, n) ==
  /\ n.type = o.type /\ n.x = o.x /\ n.y = o.y /\ n.w = o.w /\ n.h = o.h
  /\ n.minY = o.minY /\ n.maxY = o.maxY /\ n.thickness = o.thickness
  /\ n.color = o.color /\ n.pic = o.pic /\ n.stride = o.stride
  /\ n.pairs = o.pairs /\ n.lens = o.lens /\ n.spans = o.spans

SameObjs ==
  /\ Len(objs') = Len(objs) /\ DOMAIN objs' = DOMAIN objs
  /\ \A k \in DOMAIN objs :
       SameLook(objs[k], objs'[k]) /\ WellFormed(objs'[k]) /\ objs'[k].off \in Nat

SameSegs ==
  /\ Len(segs') = Len(segs) /\ DOMAIN segs' = DOMAIN segs
  /\ \A i \in DOMAIN segs :
       /\ DOMAIN segs'[i] = DOMAIN segs[i]
       /\ segs'[i].const = segs[i].const /\ segs'[i].cmpr = segs[i].cmpr
       /\ segs'[i].from = segs[i].from /\ segs'[i].width = segs[i].width
       /\ segs'[i].color = segs[i].color /\ segs'[i].id = segs[i].id

SameLine ==
  /\ stage' = stage /\ y' = y /\ nextY' = nextY /\ line' = line /\ x' = x
  /\ image' = image /\ api' = api

\* Objects that differ in their offsets only are drawn alike.
LEMMA LookRight ==
  ASSUME NEW o, NEW n, SameLook(o, n)
  PROVE  /\ \A r : /\ OnLine(n, r) <=> OnLine(o, r)
                   /\ Sides(n, r) = Sides(o, r)
         /\ \A px, py : /\ Covers(n, px, py) <=> Covers(o, px, py)
                        /\ ColourAt(n, px, py) = ColourAt(o, px, py)
         /\ LastsTo(n) = LastsTo(o)
         /\ IsCmpr(n) <=> IsCmpr(o)
<1> USE DEF SameLook
<1>1. \A r : (OnLine(n, r) <=> OnLine(o, r)) /\ (Beside(n, r) <=> Beside(o, r))
  BY DEF OnLine, Beside
<1>2. \A r : Sides(n, r) = Sides(o, r)
  BY <1>1 DEF Sides
<1>3. \A px, py : Covers(n, px, py) <=> Covers(o, px, py)
  BY DEF Covers
<1>4. \A px, py : ColourAt(n, px, py) = ColourAt(o, px, py)
  BY DEF ColourAt
<1>5. LastsTo(n) = LastsTo(o)
  BY <1>1 DEF LastsTo
<1>6. IsCmpr(n) <=> IsCmpr(o)
  BY DEF IsCmpr
<1>7. QED
  BY <1>1, <1>2, <1>3, <1>4, <1>5, <1>6

\* As long as only offsets and places to read from move, all but the position,
\* the places and the offsets is as it was.
LEMMA SameRight ==
  ASSUME CanvasInv, InSegment, SameLine, SameSegs, SameObjs
  PROVE  /\ api' = "canvas" /\ Objects' /\ PictureLeft' /\ Steady'
         /\ SlicesRight' /\ SweepRight' /\ Cut' /\ SegmentsShow' /\ OneSegment'
<1>1. /\ stage = "draw" /\ stage' = "draw" /\ y' = y /\ nextY' = nextY /\ x' = x
      /\ image' = image /\ api' = api
  BY DEF InSegment, SameLine
<1>2. /\ api = "canvas" /\ Objects /\ PictureLeft /\ Steady /\ Cut /\ SegmentsShow /\ OneSegment
      /\ SegmentsRead
  BY DEF CanvasInv
<1>3. /\ Len(objs') = Len(objs) /\ DOMAIN objs' = DOMAIN objs
      /\ \A k \in DOMAIN objs : WellFormed(objs'[k]) /\ objs'[k].off \in Nat
  BY DEF SameObjs
<1>4. ASSUME NEW k \in DOMAIN objs
      PROVE  /\ \A r : /\ OnLine(objs'[k], r) <=> OnLine(objs[k], r)
                       /\ Sides(objs'[k], r) = Sides(objs[k], r)
             /\ \A px, py : /\ Covers(objs'[k], px, py) <=> Covers(objs[k], px, py)
                            /\ ColourAt(objs'[k], px, py) = ColourAt(objs[k], px, py)
             /\ LastsTo(objs'[k]) = LastsTo(objs[k])
             /\ IsCmpr(objs'[k]) <=> IsCmpr(objs[k])
             /\ objs'[k].type = objs[k].type /\ objs'[k].x = objs[k].x /\ objs'[k].w = objs[k].w
  <2>1. SameLook(objs[k], objs'[k])
    BY DEF SameObjs
  <2>2. QED
    BY <2>1, LookRight DEF SameLook
<1>5. Objects'
  <2>1. IsVector(objs')
    BY <1>2, <1>3 DEF Objects, IsVector
  <2>2. CmprOnTop(objs')
    <3>1. CmprOnTop(objs)
      BY <1>2 DEF Objects
    <3>2. ASSUME NEW k \in DOMAIN objs, NEW j \in DOMAIN objs, NEW r \in 0 .. H - 1,
                 k < j, objs'[k].type = "cmpr", objs'[k].w > 0, OnLine(objs'[k], r),
                 NEW i \in DOMAIN Sides(objs'[j], r)
          PROVE  LET s == Sides(objs'[j], r)[i] IN
                 s[1] >= objs'[k].x + objs'[k].w \/ (s[1] < objs'[k].x /\ s[2] <= objs'[k].x)
      <4>1. objs[k].type = "cmpr" /\ objs[k].w > 0 /\ OnLine(objs[k], r)
            /\ objs'[k].x = objs[k].x /\ objs'[k].w = objs[k].w
        BY <1>4, <3>2
      <4>2. Sides(objs'[j], r) = Sides(objs[j], r)
        BY <1>4
      <4>3. QED
        BY <3>1, <3>2, <4>1, <4>2 DEF CmprOnTop
    <3>3. QED
      BY <1>3, <3>2 DEF CmprOnTop
  <2>3. CornerDrawn(objs) => CornerDrawn(objs')
    BY <1>3, <1>4 DEF CornerDrawn
  <2>4. QED
    BY <1>1, <1>2, <1>3, <2>1, <2>2, <2>3 DEF Objects
<1>6. \A px, r : Img(px, r)' = Img(px, r)
  BY <1>1 DEF Img
<1>7. PictureLeft'
  <2>1. \A k \in DOMAIN objs : \A px, py : TopAt(k, px, py)' <=> TopAt(k, px, py)
    BY <1>3, <1>4 DEF TopAt
  <2>2. QED
    BY <1>1, <1>2, <1>3, <1>4, <1>6, <2>1 DEF PictureLeft
<1>8. Steady'
  <2>1. \A k \in DOMAIN objs : LastsTo(objs[k])' = LastsTo(objs'[k])
    BY <1>1 DEF LastsTo
  <2>2. QED
    BY <1>1, <1>2, <1>3, <1>4, <2>1 DEF Steady
<1>9. SlicesRight' /\ SweepRight'
  BY <1>1 DEF SlicesRight, SweepRight
<1>10. /\ Len(segs') = Len(segs) /\ DOMAIN segs' = DOMAIN segs
       /\ \A i \in DOMAIN segs :
            /\ DOMAIN segs'[i] = DOMAIN segs[i]
            /\ segs'[i].const = segs[i].const /\ segs'[i].cmpr = segs[i].cmpr
            /\ segs'[i].from = segs[i].from /\ segs'[i].width = segs[i].width
            /\ segs'[i].color = segs[i].color /\ segs'[i].id = segs[i].id
  BY DEF SameSegs
<1>11. Cut'
  <2>1. IsVector(segs') /\ x' \in 0 .. W /\ (Len(segs') = 0 => x' = 0) /\ x' = W
        /\ (y' = 0 /\ CornersDrawn /\ Len(segs') > 0 => x' > 0)
    BY <1>1, <1>2, <1>10 DEF Cut, IsVector
  <2>2. ASSUME NEW i \in DOMAIN segs
        PROVE  /\ DOMAIN segs'[i] = Fields
               /\ segs'[i].const \in BOOLEAN /\ segs'[i].cmpr \in BOOLEAN
               /\ segs'[i].const => ~segs'[i].cmpr
               /\ segs'[i].from \in Nat /\ segs'[i].width \in Nat
               /\ segs'[i].from + segs'[i].width <= x
               /\ i = 1 => segs'[i].from = 0
               /\ i > 1 /\ y = 0 /\ CornersDrawn => segs'[i].from > 0
    BY <1>1, <1>2, <1>10 DEF Cut
  <2>3. ASSUME NEW i \in DOMAIN segs
        PROVE  segs'[i].from + segs'[i].width = IF i < Len(segs) THEN segs'[i + 1].from ELSE x
    <3>1. segs[i].from + segs[i].width = IF i < Len(segs) THEN segs[i + 1].from ELSE x
      BY <1>1, <1>2 DEF Cut
    <3>2. i < Len(segs) => i + 1 \in DOMAIN segs
      BY <1>1, <1>2 DEF Cut, IsVector
    <3>3. QED
      BY <1>10, <3>1, <3>2
  <2>4. QED
    BY <1>1, <1>10, <2>1, <2>2, <2>3 DEF Cut
<1>12. SegmentsShow'
  <2>1. ASSUME NEW i \in DOMAIN segs,
               NEW px \in segs[i].from .. segs[i].from + segs[i].width - 1,
               NEW r \in y .. nextY - 1
        PROVE  IF segs'[i].const THEN Img(px, r) = segs'[i].color
               ELSE Img(px, r) = ColourAt(objs'[segs'[i].id], px, r)
    <3>1. IF segs[i].const THEN Img(px, r) = segs[i].color
          ELSE Img(px, r) = ColourAt(objs[segs[i].id], px, r)
      BY <1>1, <1>2 DEF SegmentsShow
    <3>2. CASE segs[i].const
      BY <1>10, <3>1, <3>2
    <3>3. CASE ~segs[i].const
      <4>1. segs[i].id \in DOMAIN objs
        BY <1>1, <1>2, <3>3 DEF SegmentsRead
      <4>2. QED
        BY <1>4, <1>10, <3>1, <3>3, <4>1
    <3>4. QED
      BY <3>2, <3>3
  <2>2. QED
    BY <1>1, <1>6, <1>10, <2>1 DEF SegmentsShow
<1>13. OneSegment'
  <2>1. ASSUME NEW i \in DOMAIN segs, segs[i].cmpr
        PROVE  segs[i].id \in DOMAIN objs
    <3>1. ~segs[i].const
      BY <1>1, <1>2, <2>1 DEF Cut
    <3>2. QED
      BY <1>1, <1>2, <3>1 DEF SegmentsRead
  <2>2. \A i, j \in DOMAIN segs :
          i # j /\ segs'[i].cmpr /\ segs'[j].cmpr /\ segs'[i].id = segs'[j].id =>
            ~IsCmpr(objs'[segs'[i].id])
    BY <1>1, <1>2, <1>4, <1>10, <2>1 DEF OneSegment
  <2>3. \A k \in DOMAIN objs : IsCmpr(objs'[k]) /\ OnLine(objs'[k], y) =>
          \E i \in DOMAIN segs : segs'[i].cmpr /\ segs'[i].id = k
    BY <1>1, <1>2, <1>4, <1>10 DEF OneSegment
  <2>4. QED
    BY <1>1, <1>3, <1>10, <2>2, <2>3 DEF OneSegment
<1>14. QED
  BY <1>1, <1>2, <1>5, <1>7, <1>8, <1>9, <1>11, <1>12, <1>13

\* Drawing goes on in the segment,
LEMMA DrawOn ==
  ASSUME CanvasInv, InSegment, SameLine, SameSegs, ~segs[seg].const,
         NEW n \in Nat, pel + n <= segs[seg].width,
         pel' = pel + n, pos' = pos + n, seg' = seg
  PROVE  Position'
<1>1. /\ stage = "draw" /\ seg \in DOMAIN segs
      /\ Len(segs) \in Nat /\ DOMAIN segs = 1 .. Len(segs) /\ seg <= Len(segs)
      /\ y \in Nat /\ line \in Nat /\ y + line < nextY /\ nextY \in Nat /\ W \in Nat
      /\ pel \in Nat /\ segs[seg].from \in Nat
      /\ y < H /\ H \in Nat /\ seg \in Nat
  BY DrawType
<1>2. pos = (y + line) * W + (segs[seg].from + pel)
  BY DrawType
<1> DEFINE q == (y + line) * W
<1>3. q \in Nat
  <2>1. y + line \in Nat /\ W \in Nat
    BY <1>1
  <2>2. QED
    BY <2>1, TimesNat
<1>4. pos' = q + (segs[seg].from + (pel + n))
  <2>1. pos = q + (segs[seg].from + pel)
    BY <1>2
  <2>2. q \in Nat /\ segs[seg].from \in Nat /\ pel \in Nat
    BY <1>1, <1>3
  <2> HIDE DEF q
  <2>3. QED
    BY <2>1, <2>2
<1>5. /\ Len(segs') = Len(segs) /\ ~segs'[seg].const
      /\ segs'[seg].from = segs[seg].from /\ segs'[seg].width = segs[seg].width
  BY <1>1 DEF SameSegs
<1>6. stage' = "draw" /\ y' = y /\ nextY' = nextY /\ line' = line
  BY <1>1 DEF SameLine
<1>7. /\ y \in 0 .. H /\ seg \in 1 .. Len(segs) + 1 /\ pel + n \in Nat
      /\ y + line <= nextY /\ y + line # nextY /\ ~(seg > Len(segs))
  BY <1>1
<1>8. pos' = (y + line) * W + (IF seg <= Len(segs) THEN segs[seg].from + (pel + n) ELSE W)
  BY <1>1, <1>4
<1> HIDE DEF q
<1>9. QED
  BY <1>1, <1>5, <1>6, <1>7, <1>8 DEF Position

\* or in the next one.
LEMMA DrawNext ==
  ASSUME CanvasInv, InSegment, SameLine, SameSegs,
         pel' = 0, pos' = pos + (segs[seg].width - pel), seg' = seg + 1
  PROVE  Position'
<1>1. /\ stage = "draw" /\ seg \in DOMAIN segs
      /\ Len(segs) \in Nat /\ DOMAIN segs = 1 .. Len(segs) /\ seg <= Len(segs)
      /\ y \in Nat /\ line \in Nat /\ y + line < nextY /\ nextY \in Nat /\ W \in Nat
      /\ pel \in Nat /\ segs[seg].from \in Nat /\ segs[seg].width \in Nat
      /\ y < H /\ H \in Nat /\ seg \in Nat /\ seg > 0 /\ x = W
  BY DrawType
<1>2. pos = (y + line) * W + (segs[seg].from + pel)
  BY DrawType
<1> DEFINE q == (y + line) * W
<1>3. q \in Nat
  <2>1. y + line \in Nat /\ W \in Nat
    BY <1>1
  <2>2. QED
    BY <2>1, TimesNat
<1>4. pos' = q + (segs[seg].from + segs[seg].width)
  <2>1. pos = q + (segs[seg].from + pel)
    BY <1>2
  <2>2. q \in Nat /\ segs[seg].from \in Nat /\ segs[seg].width \in Nat /\ pel \in Nat
    BY <1>1, <1>3
  <2> HIDE DEF q
  <2>3. QED
    BY <2>1, <2>2
<1>5. segs[seg].from + segs[seg].width = IF seg < Len(segs) THEN segs[seg + 1].from ELSE W
  <2>1. Cut
    BY DEF CanvasInv
  <2>2. QED
    BY <1>1, <2>1 DEF Cut
<1>6. stage' = "draw" /\ y' = y /\ nextY' = nextY /\ line' = line
  BY <1>1 DEF SameLine
<1>7. /\ y \in 0 .. H /\ seg + 1 \in 1 .. Len(segs) + 1
      /\ y + line <= nextY /\ y + line # nextY
      /\ seg + 1 <= Len(segs) <=> seg < Len(segs)
  BY <1>1
<1>8. seg < Len(segs) => /\ segs'[seg + 1].from = segs[seg + 1].from
                         /\ segs'[seg + 1].from \in Nat
                         /\ segs'[seg + 1].width \in Nat /\ 0 <= segs'[seg + 1].width
  <2>1. seg < Len(segs) => seg + 1 \in DOMAIN segs
    BY <1>1
  <2>2. Cut
    BY DEF CanvasInv
  <2>3. \A i \in DOMAIN segs : segs[i].from \in Nat /\ segs[i].width \in Nat
    BY <1>1, <2>2 DEF Cut
  <2>4. \A i \in DOMAIN segs : segs'[i].from = segs[i].from /\ segs'[i].width = segs[i].width
    BY DEF SameSegs
  <2>5. \A i \in DOMAIN segs : segs'[i].width \in Nat
    BY <2>3, <2>4
  <2>6. QED
    BY <2>1, <2>3, <2>4, <2>5
<1>9. Len(segs') = Len(segs)
  BY DEF SameSegs
<1>10. (IF seg + 1 <= Len(segs') THEN segs'[seg + 1].from + 0 ELSE W) =
         segs[seg].from + segs[seg].width
  <2>1. CASE seg < Len(segs)
    BY <1>5, <1>7, <1>8, <1>9, <2>1
  <2>2. CASE ~(seg < Len(segs))
    BY <1>5, <1>7, <1>9, <2>2
  <2>3. QED
    BY <2>1, <2>2
<1>11. pos' = (y + line) * W + (IF seg + 1 <= Len(segs') THEN segs'[seg + 1].from + 0 ELSE W)
  BY <1>4, <1>10
<1> HIDE DEF q
<1>12. QED
  BY <1>1, <1>6, <1>7, <1>8, <1>9, <1>11 DEF Position

\* Objects and segments that are left alone are the same.
LEMMA SameWhenUnchanged ==
  ASSUME CanvasInv, InSegment
  PROVE  /\ objs' = objs => SameObjs
         /\ segs' = segs => SameSegs
<1>1. objs' = objs => SameObjs
  BY DEF SameObjs, SameLook, CanvasInv, Objects
<1>2. segs' = segs => SameSegs
  BY DEF SameSegs
<1>3. QED
  BY <1>1, <1>2

\* What a segment that is not in hand reads, and the offsets of the objects,
\* when the segment in hand is the next one.
LEMMA ConstRead ==
  ASSUME CanvasInv, InSegment, SameLine, objs' = objs, segs' = segs,
         segs[seg].const, seg' = seg + 1, pel' = pel
  PROVE  SegmentsRead' /\ Offsets'
<1>1. /\ stage = "draw" /\ seg \in DOMAIN segs /\ seg \in Nat
      /\ Len(segs) \in Nat /\ DOMAIN segs = 1 .. Len(segs)
      /\ y \in Nat /\ line \in Nat /\ pel \in Nat /\ seg <= Len(segs)
  BY DrawType
<1>2. stage' = "draw" /\ y' = y /\ line' = line
  BY <1>1 DEF SameLine
<1>3. SegmentsRead /\ Offsets /\ Cut /\ Position
  BY DEF CanvasInv
<1>4. pel = 0
  BY <1>1, <1>3 DEF Position
<1>5. ASSUME NEW i \in DOMAIN segs, ~segs[i].const
      PROVE  i # seg /\ LineOf(i)' = LineOf(i)
  <2>1. i # seg
    BY <1>5
  <2>2. i < seg + 1 <=> i < seg
    BY <1>1, <2>1
  <2>3. QED
    BY <1>1, <1>2, <2>1, <2>2 DEF LineOf
<1>6. SegmentsRead'
  BY <1>1, <1>2, <1>3, <1>4, <1>5 DEF SegmentsRead
<1>7. ~segs[seg].cmpr
  BY <1>1, <1>3 DEF Cut
<1>8. ASSUME NEW k
      PROVE  Drawn(k)' <=> Drawn(k)
  <2>1. \A i : i \in 1 .. seg + 1 - 1 <=> i \in 1 .. seg - 1 \/ i = seg
    BY <1>1
  <2>2. QED
    BY <1>1, <1>2, <1>7, <2>1 DEF Drawn
<1>9. Offsets'
  BY <1>1, <1>2, <1>3, <1>8 DEF Offsets
<1>10. QED
  BY <1>6, <1>9

-----------------------------------------------------------------------------
\* DrawConst

\* A segment of one colour is a span of equal pixels, or none.
LEMMA DrawConstStep ==
  ASSUME CanvasInv, DrawConst
  PROVE  CanvasInv' /\ (CornersDrawn => [Next]_vars)
<1>1. /\ InSegment /\ segs[seg].const /\ seg' = seg + 1 /\ pel' = pel
      /\ objs' = objs /\ segs' = segs /\ y' = y /\ nextY' = nextY /\ x' = x
      /\ line' = line /\ stage' = stage
  BY DEF DrawConst, sweep
<1>2. /\ seg \in DOMAIN segs /\ y \in Nat /\ line \in Nat /\ nextY \in Nat
      /\ segs[seg].from \in Nat /\ segs[seg].width \in Nat /\ y + line < nextY
      /\ stage = "draw" /\ pel \in Nat
  BY <1>1, DrawType
<1>3. pel = 0
  <2>1. Position /\ seg <= Len(segs)
    BY <1>1 DEF CanvasInv, InSegment
  <2>2. QED
    BY <1>1, <1>2, <2>1 DEF Position
<1>4. /\ image' = image /\ api' = api /\ pos' = pos + segs[seg].width
      /\ (CornersDrawn => [Next]_vars)
  <2>1. CASE segs[seg].width > 0
    <3> DEFINE n == segs[seg].width
               c == segs[seg].color
    <3>1. DrawPixel(c, n, IsFirst)
      BY <2>1 DEF DrawConst
    <3>2. n \in Nat \ {0} /\ pel + n <= n
      BY <1>2, <1>3, <2>1
    <3>3. ASSUME NEW i \in 0 .. n - 1
          PROVE  Img(segs[seg].from + pel + i, y + line) = c
      <4>1. segs[seg].from + pel + i \in segs[seg].from .. segs[seg].from + segs[seg].width - 1
        BY <1>2, <1>3, <3>2
      <4>2. y + line \in y .. nextY - 1
        BY <1>2
      <4>3. SegmentsShow
        BY DEF CanvasInv
      <4>4. QED
        BY <1>1, <1>2, <4>1, <4>2, <4>3 DEF SegmentsShow
    <3> HIDE DEF n, c
    <3>4. n = segs[seg].width
      BY DEF n
    <3>5. n \in 1 .. N /\ (CornersDrawn => DrawSpan(n))
      BY <1>1, <3>1, <3>2, <3>3, <3>4, SpanRight
    <3>6. CornersDrawn => Next
      BY <3>5 DEF Next
    <3>7. QED
      BY <3>1, <3>4, <3>6 DEF DrawPixel, config
  <2>2. CASE ~(segs[seg].width > 0)
    <3>1. UNCHANGED vars
      BY <2>2 DEF DrawConst
    <3>2. segs[seg].width = 0
      BY <1>2, <2>2
    <3>3. image' = image /\ api' = api /\ pos' = pos
      BY <3>1 DEF vars, config
    <3>4. pos = pos + segs[seg].width
      <4>1. pos \in Int
        <5>1. pos = (y + line) * W + (segs[seg].from + pel) /\ W \in Nat
          BY <1>1, DrawType
        <5>2. y + line \in Nat
          BY <1>2
        <5>3. (y + line) * W \in Nat
          BY <5>1, <5>2, TimesNat
        <5>4. QED
          BY <1>2, <5>1, <5>3
      <4>2. QED
        BY <3>2, <4>1
    <3>5. QED
      BY <3>1, <3>3, <3>4
  <2>3. QED
    BY <2>1, <2>2
<1>5. SameLine
  BY <1>1, <1>4 DEF SameLine
<1>6. SameObjs /\ SameSegs
  BY <1>1, SameWhenUnchanged
<1>7. Position'
  <2>1. pos' = pos + (segs[seg].width - pel)
    BY <1>2, <1>3, <1>4
  <2>2. QED
    BY <1>1, <1>3, <1>5, <1>6, <2>1, DrawNext
<1>8. SegmentsRead' /\ Offsets'
  BY <1>1, <1>5, ConstRead
<1>9. QED
  BY <1>1, <1>4, <1>5, <1>6, <1>7, <1>8, SameRight DEF CanvasInv

-----------------------------------------------------------------------------
\* DrawBitmap and DrawPair

\* What a segment of a bitmap reads in the line in hand.
LEMMA BitmapType ==
  ASSUME CanvasInv, InSegment, ~segs[seg].const
  PROVE  LET s == segs[seg]
             o == objs[s.id]
             r == (y + line) - o.y
         IN
         /\ s.id \in DOMAIN objs /\ WellFormed(o) /\ OnLine(o, y) /\ OnLine(o, y + line)
         /\ o.type = IF s.cmpr THEN "cmpr" ELSE "bitmap"
         /\ o.x \in Nat /\ o.w \in Nat /\ o.y \in Nat /\ o.h \in Nat /\ o.stride \in Nat
         /\ o.w <= o.stride
         /\ r \in 0 .. o.h - 1 /\ s.row = r
         /\ o.x <= s.from /\ s.from + s.width <= o.x + o.w
         /\ ~s.cmpr => s.at = r * o.stride + (s.from - o.x)
         /\ \A i \in 0 .. s.width - pel - 1 :
              Img(s.from + pel + i, y + line) =
                o.pic[r * o.stride + (s.from + pel + i - o.x)]
<1> DEFINE s == segs[seg]
           o == objs[s.id]
           r == (y + line) - o.y
<1>1. /\ stage = "draw" /\ seg \in DOMAIN segs /\ seg \in Nat
      /\ y \in Nat /\ line \in Nat /\ nextY \in Nat /\ y + line < nextY
      /\ pel \in Nat /\ pel <= s.width /\ s.from \in Nat /\ s.width \in Nat
  BY DrawType
<1>2. SegmentsRead /\ SegmentsShow /\ Objects /\ Steady
  BY DEF CanvasInv
<1>3. LineOf(seg) = y + line
  BY <1>1 DEF LineOf
<1>4. /\ s.id \in DOMAIN objs /\ OnLine(o, y)
      /\ o.type = IF s.cmpr THEN "cmpr" ELSE "bitmap"
      /\ o.x <= s.from /\ s.from + s.width <= o.x + o.w
      /\ s.row = r
      /\ ~s.cmpr => s.at = r * o.stride + (s.from - o.x)
  <2>1. stage # "project" /\ SegmentsRead
    BY <1>1, <1>2
  <2>2. /\ s.id \in DOMAIN objs /\ OnLine(o, y)
        /\ o.type = IF s.cmpr THEN "cmpr" ELSE "bitmap"
        /\ o.x <= s.from /\ s.from + s.width <= o.x + o.w
        /\ s.row = LineOf(seg) - o.y
        /\ ~s.cmpr => s.at = (LineOf(seg) - o.y) * o.stride + (s.from - o.x)
    BY <1>1, <2>1, Zenon DEF SegmentsRead
  <2>3. LineOf(seg) - o.y = r
    BY <1>3, Zenon
  <2> HIDE DEF s, o, r
  <2>4. QED
    BY <2>2, <2>3
<1>5. WellFormed(o)
  BY <1>2, <1>4 DEF Objects
<1>6. /\ o.x \in Nat /\ o.w \in Nat /\ o.y \in Nat /\ o.h \in Nat /\ o.stride \in Nat
      /\ o.w <= o.stride /\ o.y = o.minY /\ o.maxY = o.y + o.h
  BY <1>4, <1>5 DEF WellFormed
<1>7. OnLine(o, y + line)
  <2>1. nextY <= LastsTo(o)
    BY <1>1, <1>2, <1>4 DEF Steady
  <2>2. LastsTo(o) \in Nat
    BY <1>1, <1>5, LastsRight
  <2>3. y + line \in Nat /\ y <= y + line /\ y + line < LastsTo(o)
    BY <1>1, <2>1, <2>2
  <2>4. QED
    BY <1>1, <1>4, <1>5, <2>3, LastsRight
<1>8. r \in 0 .. o.h - 1
  BY <1>1, <1>6, <1>7 DEF OnLine
<1>9. ASSUME NEW i \in 0 .. s.width - pel - 1
      PROVE  Img(s.from + pel + i, y + line) =
               o.pic[r * o.stride + (s.from + pel + i - o.x)]
  <2>1. s.from + pel + i \in s.from .. s.from + s.width - 1
    BY <1>1
  <2>2. y + line \in y .. nextY - 1
    BY <1>1
  <2>3. Img(s.from + pel + i, y + line) = ColourAt(o, s.from + pel + i, y + line)
    BY <1>1, <1>2, <2>1, <2>2 DEF SegmentsShow
  <2>4. ColourAt(o, s.from + pel + i, y + line) =
          o.pic[r * o.stride + (s.from + pel + i - o.x)]
    <3>1. o.type \in {"bitmap", "cmpr"}
      BY <1>4
    <3>2. ColourAt(o, s.from + pel + i, y + line) =
            o.pic[((y + line) - o.y) * o.stride + ((s.from + pel + i) - o.x)]
      <4> HIDE DEF o, s
      <4>1. QED
        BY <3>1, Zenon DEF ColourAt
    <3>3. s.from \in Nat /\ o.x \in Nat /\ i \in Int
      BY <1>1, <1>6
    <3>4. (s.from + pel + i) - o.x = s.from + pel + i - o.x
      <4> HIDE DEF o, s
      <4>1. QED
        BY <1>1, <3>3
    <3>5. QED
      BY <3>2, <3>4
  <2>5. QED
    BY <2>3, <2>4
<1>10. QED
  BY <1>4, <1>5, <1>6, <1>7, <1>8, <1>9

\* The equal pixels of a bitmap are a span of the picture.
LEMMA DrawBitmapStep ==
  ASSUME CanvasInv, DrawBitmap
  PROVE  CanvasInv' /\ (CornersDrawn => Next)
<1> DEFINE s == segs[seg]
           o == objs[s.id]
           r == (y + line) - o.y
           A == s.at + pel
           n == Repeat(o.pic, A, s.width - pel)
<1>1. /\ InSegment /\ ~s.const /\ ~s.cmpr /\ pel < s.width
      /\ DrawPixel(o.pic[A], n, IsFirst) /\ pel' = pel + n /\ seg' = seg
      /\ objs' = objs /\ segs' = segs /\ y' = y /\ nextY' = nextY /\ x' = x
      /\ line' = line /\ stage' = stage
  BY DEF DrawBitmap, sweep
<1>2. /\ stage = "draw" /\ seg \in DOMAIN segs /\ y \in Nat /\ line \in Nat /\ pel \in Nat
      /\ s.from \in Nat /\ s.width \in Nat
  BY <1>1, DrawType
<1>3. /\ o.type = "bitmap" /\ o.x \in Nat /\ o.h \in Nat /\ o.stride \in Nat
      /\ o.w \in Nat /\ o.y \in Nat /\ r \in 0 .. o.h - 1
      /\ s.at = r * o.stride + (s.from - o.x)
      /\ \A i \in 0 .. s.width - pel - 1 :
           Img(s.from + pel + i, y + line) = o.pic[r * o.stride + (s.from + pel + i - o.x)]
  <2>1. /\ o.type = (IF s.cmpr THEN "cmpr" ELSE "bitmap")
        /\ o.x \in Nat /\ o.h \in Nat /\ o.stride \in Nat
        /\ o.w \in Nat /\ o.y \in Nat /\ r \in 0 .. o.h - 1
        /\ ~s.cmpr => s.at = r * o.stride + (s.from - o.x)
        /\ \A i \in 0 .. s.width - pel - 1 :
             Img(s.from + pel + i, y + line) =
               o.pic[r * o.stride + (s.from + pel + i - o.x)]
    BY <1>1, BitmapType, Zenon
  <2> HIDE DEF s, o, r
  <2>2. QED
    BY <1>1, <2>1
<1>4. r * o.stride \in Nat
  <2>1. r \in Nat
    BY <1>3
  <2>2. QED
    BY <1>3, <2>1, TimesNat
<1> DEFINE q == r * o.stride
<1>5. A \in Int /\ \A i \in Int : A + i = q + (s.from + pel + i - o.x)
  <2>1. q \in Nat /\ s.from \in Nat /\ o.x \in Nat /\ s.at = q + (s.from - o.x)
    BY <1>2, <1>3, <1>4
  <2> HIDE DEF s, o, q
  <2>2. QED
    BY <1>2, <2>1
<1>6. s.width - pel \in Nat \ {0}
  <2> HIDE DEF s
  <2>1. QED
    BY <1>1, <1>2
<1> HIDE DEF n
<1>7. /\ n \in 1 .. s.width - pel
      /\ \A i \in 0 .. n - 1 : o.pic[A + i] = o.pic[A]
  <2>1. o.pic[A + 0] = o.pic[A]
    BY <1>5
  <2> HIDE DEF A, o, s
  <2>2. QED
    BY <1>6, <2>1, RepeatRight DEF n
<1>8. \A i \in 0 .. n - 1 : Img(s.from + pel + i, y + line) = o.pic[A]
  <2>1. ASSUME NEW i \in 0 .. n - 1
        PROVE  Img(s.from + pel + i, y + line) = o.pic[A]
    <3>1. i \in 0 .. s.width - pel - 1 /\ i \in Int
      <4> HIDE DEF s
      <4>1. QED
        BY <1>2, <1>6, <1>7
    <3>2. Img(s.from + pel + i, y + line) = o.pic[q + (s.from + pel + i - o.x)]
      BY <1>3, <3>1
    <3>3. Img(s.from + pel + i, y + line) = o.pic[A + i]
      BY <1>5, <3>1, <3>2
    <3>4. QED
      BY <1>7, <3>3
  <2>2. QED
    BY <2>1
<1>9. n \in Nat \ {0} /\ pel + n <= s.width
  <2> HIDE DEF s
  <2>1. QED
    BY <1>2, <1>6, <1>7
<1>10. n \in 1 .. N /\ (CornersDrawn => DrawSpan(n))
  <2> HIDE DEF A, o
  <2>1. QED
    BY <1>1, <1>8, <1>9, SpanRight
<1>11. CornersDrawn => Next
  BY <1>10 DEF Next
<1>12. image' = image /\ api' = api /\ pos' = pos + n
  BY <1>1 DEF DrawPixel, config
<1>13. SameLine
  BY <1>1, <1>12 DEF SameLine
<1>14. SameObjs /\ SameSegs
  BY <1>1, SameWhenUnchanged
<1>15. Position'
  BY <1>1, <1>9, <1>12, <1>13, <1>14, DrawOn
<1>16. SegmentsRead'
  <2>1. SegmentsRead
    BY DEF CanvasInv
  <2>2. \A i : LineOf(i)' = LineOf(i)
    BY <1>1 DEF LineOf
  <2>3. ~IsCmpr(o)
    BY <1>3 DEF IsCmpr
  <2>4. \A i \in DOMAIN segs : IsCmpr(objs[segs[i].id]) => i # seg
    BY <2>3
  <2> HIDE DEF s, o
  <2>5. QED
    BY <1>1, <1>2, <2>1, <2>2, <2>4 DEF SegmentsRead
<1>17. Offsets'
  <2>1. Offsets
    BY DEF CanvasInv
  <2>2. \A k : Drawn(k)' <=> Drawn(k)
    BY <1>1 DEF Drawn
  <2>3. QED
    BY <1>1, <2>1, <2>2 DEF Offsets
<1>18. QED
  BY <1>1, <1>11, <1>13, <1>14, <1>15, <1>16, <1>17, SameRight DEF CanvasInv

\* The pair a compressed bitmap's segment is at.
LEMMA PairRight ==
  ASSUME CanvasInv, InSegment, ~segs[seg].const, segs[seg].cmpr, pel < segs[seg].width
  PROVE  LET s == segs[seg]
             o == objs[s.id]
             r == (y + line) - o.y
             b == LineBegins(o.lens)
             c == PairBegins(o.pairs, o.lens)
             p == s.at + 1
         IN
         /\ IsCmpr(o) /\ s.from = o.x /\ s.width = o.w
         /\ b[r] \in Nat /\ b[r + 1] \in Nat /\ p \in b[r] + 1 .. b[r + 1] /\ s.at \in Nat
         /\ c[p] = pel /\ o.pairs[p][1] \in Nat \ {0}
         /\ IF p < b[r + 1] THEN c[p + 1] = pel + o.pairs[p][1]
            ELSE o.stride = pel + o.pairs[p][1]
         /\ \A i \in 0 .. o.pairs[p][1] - 1 :
              o.pic[r * o.stride + (pel + i)] = o.pairs[p][2]
<1> DEFINE s == segs[seg]
           o == objs[s.id]
           r == (y + line) - o.y
           b == LineBegins(o.lens)
           c == PairBegins(o.pairs, o.lens)
           p == s.at + 1
<1>1. /\ stage = "draw" /\ seg \in DOMAIN segs /\ seg \in Nat
      /\ y \in Nat /\ line \in Nat /\ pel \in Nat
      /\ s.from \in Nat /\ s.width \in Nat
  BY DrawType
<1>2. /\ s.id \in DOMAIN objs /\ WellFormed(o) /\ o.type = "cmpr"
      /\ o.x \in Nat /\ o.w \in Nat /\ o.h \in Nat /\ r \in 0 .. o.h - 1
      /\ o.x <= s.from /\ s.from + s.width <= o.x + o.w
  BY BitmapType
<1>3. o.w > 0
  <2> HIDE DEF s, o
  <2>1. s.width > 0
    BY <1>1 DEF s
  <2>2. QED
    BY <1>1, <1>2, <2>1
<1>4. IsCmpr(o)
  BY <1>2, <1>3 DEF IsCmpr
<1>5. CmprWellFormed(o)
  BY <1>2 DEF WellFormed
<1>6. /\ b[r] \in Nat /\ o.lens[r + 1] \in Nat /\ b[r + 1] = b[r] + o.lens[r + 1]
      /\ b[r] < b[r + 1] /\ c[b[r] + 1] = 0
      /\ \A t \in b[r] + 1 .. b[r + 1] :
           /\ c[t] \in Nat /\ o.pairs[t][1] \in Nat \ {0}
           /\ IF t < b[r + 1] THEN c[t + 1] = c[t] + o.pairs[t][1]
              ELSE o.stride = c[t] + o.pairs[t][1]
           /\ \A i \in 0 .. o.pairs[t][1] - 1 :
                o.pic[r * o.stride + (c[t] + i)] = o.pairs[t][2]
  <2> HIDE DEF o, r
  <2>1. QED
    BY <1>2, <1>3, <1>5 DEF CmprWellFormed
<1>7. LineOf(seg) - o.y = r
  <2>1. LineOf(seg) = y + line
    <3> HIDE DEF s, o, r, b, c
    <3>1. QED
      BY <1>1 DEF LineOf
  <2>2. QED
    BY <2>1, Zenon
<1>8. /\ s.from = o.x /\ s.width = o.w
      /\ pel > 0 => s.at \in b[r] .. b[r + 1] - 1 /\ c[s.at + 1] = pel
      /\ ~(pel > 0) => s.at = b[r]
  <2>1. SegmentsRead
    BY DEF CanvasInv
  <2>2. /\ s.from = o.x /\ s.width = o.w
        /\ pel > 0 /\ pel < s.width =>
             /\ s.at \in b[LineOf(seg) - o.y] .. b[(LineOf(seg) - o.y) + 1] - 1
             /\ c[s.at + 1] = pel
        /\ ~(pel > 0) => s.at = b[LineOf(seg) - o.y]
    BY <1>1, <1>4, <2>1, Zenon DEF SegmentsRead
  <2> HIDE DEF o, r, b, c
  <2>3. QED
    BY <1>7, <2>2
<1> HIDE DEF s, o, r, b, c
<1>9. b[r] \in Nat /\ b[r + 1] \in Nat /\ b[r] < b[r + 1]
  BY <1>6
<1>10. s.at \in Nat /\ p \in b[r] + 1 .. b[r + 1] /\ c[p] = pel
  <2>1. CASE pel > 0
    BY <1>8, <1>9, <2>1
  <2>2. CASE ~(pel > 0)
    BY <1>1, <1>6, <1>8, <1>9, <2>2
  <2>3. QED
    BY <2>1, <2>2
<1> HIDE DEF p
<1>11. /\ o.pairs[p][1] \in Nat \ {0}
       /\ IF p < b[r + 1] THEN c[p + 1] = pel + o.pairs[p][1]
          ELSE o.stride = pel + o.pairs[p][1]
       /\ \A i \in 0 .. o.pairs[p][1] - 1 :
            o.pic[r * o.stride + (pel + i)] = o.pairs[p][2]
  BY <1>6, <1>10
<1>12. IsCmpr(o) /\ s.from = o.x /\ s.width = o.w
  BY <1>4, <1>8
<1>13. QED
  BY <1>9, <1>10, <1>11, <1>12, Zenon DEF s, o, r, b, c, p

\* A pair is drawn as far as the segment goes.
LEMMA DrawPairStep ==
  ASSUME CanvasInv, DrawPair
  PROVE  CanvasInv' /\ (CornersDrawn => Next)
<1> DEFINE s == segs[seg]
           o == objs[s.id]
           r == (y + line) - o.y
           b == LineBegins(o.lens)
           c == PairBegins(o.pairs, o.lens)
           p == s.at + 1
           most == s.width - pel
           n == Lesser(o.pairs[p][1], most)
<1>1. /\ InSegment /\ ~s.const /\ s.cmpr /\ pel < s.width
      /\ DrawPixel(o.pairs[p][2], n, IsFirst) /\ pel' = pel + n /\ seg' = seg
      /\ segs' = [segs EXCEPT ![seg].at = @ + 1]
      /\ objs' = objs /\ y' = y /\ nextY' = nextY /\ x' = x
      /\ line' = line /\ stage' = stage
  BY Zenon DEF DrawPair
<1>2. /\ stage = "draw" /\ seg \in DOMAIN segs /\ y \in Nat /\ line \in Nat /\ pel \in Nat
      /\ s.from \in Nat /\ s.width \in Nat
  BY <1>1, DrawType
<1>3. /\ IsCmpr(o) /\ s.from = o.x /\ s.width = o.w
      /\ b[r] \in Nat /\ b[r + 1] \in Nat /\ p \in b[r] + 1 .. b[r + 1] /\ s.at \in Nat
      /\ o.pairs[p][1] \in Nat \ {0}
      /\ IF p < b[r + 1] THEN c[p + 1] = pel + o.pairs[p][1]
         ELSE o.stride = pel + o.pairs[p][1]
      /\ \A i \in 0 .. o.pairs[p][1] - 1 :
           o.pic[r * o.stride + (pel + i)] = o.pairs[p][2]
  BY <1>1, PairRight, Zenon
<1>4. /\ o.x \in Nat /\ o.stride \in Nat /\ o.w <= o.stride /\ o.w \in Nat
      /\ \A i \in 0 .. most - 1 :
           Img(s.from + pel + i, y + line) = o.pic[r * o.stride + (s.from + pel + i - o.x)]
  BY <1>1, BitmapType, Zenon
<1> DEFINE len == o.pairs[p][1]
<1>5. /\ n \in Nat \ {0} /\ n <= len /\ n <= most /\ pel + n <= s.width
      /\ pel + n < s.width => n = len
  <2>1. len \in Nat \ {0} /\ pel \in Nat /\ s.width \in Nat /\ pel < s.width
    <3>1. len \in Nat \ {0}
      BY <1>3, Zenon
    <3> HIDE DEF s, len
    <3>2. QED
      BY <1>1, <1>2, <3>1
  <2>2. n = IF len <= most THEN len ELSE most
    BY DEF Lesser
  <2>3. most = s.width - pel
    OBVIOUS
  <2> HIDE DEF s, o, len, n, most
  <2>4. QED
    BY <2>1, <2>2, <2>3
<1> HIDE DEF n
<1>6. ASSUME NEW i \in 0 .. n - 1
      PROVE  Img(s.from + pel + i, y + line) = o.pairs[p][2]
  <2>1. i \in 0 .. most - 1 /\ i \in 0 .. o.pairs[p][1] - 1 /\ i \in Int
    <3> HIDE DEF s, o, p
    <3>1. QED
      BY <1>2, <1>3, <1>5
  <2>2. s.from + pel + i - o.x = pel + i
    <3>1. s.from = o.x /\ o.x \in Nat /\ pel \in Nat
      BY <1>2, <1>3, <1>4
    <3> HIDE DEF s, o
    <3>2. QED
      BY <2>1, <3>1
  <2>3. Img(s.from + pel + i, y + line) = o.pic[r * o.stride + (pel + i)]
    <3> HIDE DEF s, o, r
    <3>1. QED
      BY <1>4, <2>1, <2>2
  <2> HIDE DEF s, o, r, p
  <2>4. QED
    BY <1>3, <2>1, <2>3, Zenon
<1>7. n \in 1 .. N /\ (CornersDrawn => DrawSpan(n))
  <2> HIDE DEF o, p
  <2>1. QED
    BY <1>1, <1>5, <1>6, SpanRight
<1>8. CornersDrawn => Next
  BY <1>7 DEF Next
<1>9. image' = image /\ api' = api /\ pos' = pos + n
  BY <1>1 DEF DrawPixel, config
<1>10. SameLine
  BY <1>1, <1>9 DEF SameLine
<1>11. SameObjs
  BY <1>1, SameWhenUnchanged
<1>12. /\ SameSegs
       /\ \A i \in DOMAIN segs : i # seg => segs'[i] = segs[i]
       /\ segs'[seg].at = p /\ segs'[seg].row = s.row
  <2>1. /\ IsVector(segs)
        /\ \A i \in DOMAIN segs : DOMAIN segs[i] = Fields
    BY <1>2 DEF CanvasInv, Cut
  <2>2. segs' = [segs EXCEPT ![seg] = [segs[seg] EXCEPT !.at = p]]
    BY <1>1, <1>2
  <2> HIDE DEF p
  <2>3. Len(segs') = Len(segs)
    BY <2>1, <2>2 DEF IsVector
  <2>4. \A i \in DOMAIN segs : i # seg => segs'[i] = segs[i]
    BY <2>2
  <2>5. segs'[seg] = [segs[seg] EXCEPT !.at = p] /\ DOMAIN segs[seg] = Fields
    BY <1>2, <2>1, <2>2
  <2>6. QED
    BY <2>2, <2>3, <2>4, <2>5 DEF SameSegs, Fields
<1>13. Position'
  BY <1>1, <1>5, <1>9, <1>10, <1>12, DrawOn
<1>14. pel' < s.width => p \in b[r] .. b[r + 1] - 1 /\ c[p + 1] = pel'
  <2> HIDE DEF s, o, r, b, c, p, most
  <2>1. SUFFICES ASSUME pel' < s.width
                 PROVE  p \in b[r] .. b[r + 1] - 1 /\ c[p + 1] = pel'
    OBVIOUS
  <2>2. pel' = pel + len /\ len \in Nat
    BY <1>1, <1>3, <1>5, <2>1 DEF len
  <2>3. p < b[r + 1]
    BY <1>2, <1>3, <1>4, <2>1, <2>2 DEF len
  <2>4. QED
    BY <1>3, <2>2, <2>3 DEF len
<1>15. pel' > 0
  BY <1>1, <1>2, <1>5
<1>16. SegmentsRead'
  <2>1. SegmentsRead
    BY DEF CanvasInv
  <2>2. \A i : LineOf(i)' = LineOf(i)
    BY <1>1 DEF LineOf
  <2>3. stage' = "draw" /\ stage # "project" /\ DOMAIN segs' = DOMAIN segs
    BY <1>1, <1>2, <1>12 DEF SameSegs
  <2> DEFINE Reads(i) ==
        LET t == segs'[i]
            k == objs'[t.id]
            f == LineBegins(k.lens)
            g == PairBegins(k.pairs, k.lens)
            q == LineOf(i)' - k.y
        IN
        /\ t.id \in DOMAIN objs' /\ OnLine(k, y')
        /\ k.type = IF t.cmpr THEN "cmpr" ELSE "bitmap"
        /\ k.x <= t.from /\ t.from + t.width <= k.x + k.w
        /\ t.row = q
        /\ ~t.cmpr => t.at = q * k.stride + (t.from - k.x)
        /\ IsCmpr(k) =>
             /\ t.from = k.x /\ t.width = k.w
             /\ stage' = "draw" /\ i = seg' /\ pel' > 0 /\ pel' < t.width =>
                  /\ t.at \in f[q] .. f[q + 1] - 1
                  /\ g[t.at + 1] = pel'
             /\ ~(stage' = "draw" /\ i = seg' /\ pel' > 0) => t.at = f[q]
  <2>4. ASSUME NEW i \in DOMAIN segs, ~segs[i].const, i # seg
        PROVE  Reads(i)
    <3>1. segs'[i] = segs[i] /\ LineOf(i)' = LineOf(i) /\ objs' = objs /\ y' = y
      BY <1>1, <1>12, <2>2, <2>4
    <3> HIDE DEF s, o, r, b, c, p, most
    <3> DEFINE u == segs[i]
               v == objs[u.id]
               l == LineOf(i) - v.y
    <3>2. /\ u.id \in DOMAIN objs /\ OnLine(v, y)
          /\ v.type = IF u.cmpr THEN "cmpr" ELSE "bitmap"
          /\ v.x <= u.from /\ u.from + u.width <= v.x + v.w
          /\ u.row = l
          /\ ~u.cmpr => u.at = l * v.stride + (u.from - v.x)
          /\ IsCmpr(v) =>
               u.from = v.x /\ u.width = v.w /\ u.at = LineBegins(v.lens)[l]
      BY <2>1, <2>3, <2>4, Zenon DEF SegmentsRead
    <3>3. seg' = seg
      BY <1>1
    <3>4. LineOf(i)' - v.y = l
      BY <3>1, Zenon
    <3>5. QED
      BY <2>4, <3>1, <3>2, <3>3, <3>4, Zenon
  <2>5. ASSUME NEW i \in DOMAIN segs, i = seg
        PROVE  Reads(i)
    <3>1. /\ s.id \in DOMAIN objs /\ OnLine(o, y)
          /\ o.type = IF s.cmpr THEN "cmpr" ELSE "bitmap"
          /\ o.x <= s.from /\ s.from + s.width <= o.x + o.w
          /\ s.row = LineOf(i) - o.y
      BY <1>1, <1>2, <2>1, <2>3, <2>5, Zenon DEF SegmentsRead
    <3>2. LineOf(i) = y + line
      <4>1. seg \in Nat
        BY <1>1, DrawType
      <4> HIDE DEF s, o, r, b, c, p, most
      <4>2. QED
        BY <1>1, <1>2, <2>5, <4>1 DEF LineOf
    <3>3. /\ segs'[i].id = s.id /\ segs'[i].cmpr = s.cmpr /\ segs'[i].from = s.from
          /\ segs'[i].width = s.width /\ segs'[i].row = s.row /\ segs'[i].at = p
          /\ objs' = objs /\ y' = y
      BY <1>1, <1>2, <1>12, <2>5 DEF SameSegs
    <3>4. LineOf(i)' - o.y = r /\ s.row = r
      BY <2>2, <3>1, <3>2, Zenon
    <3> HIDE DEF s
    <3>5. objs'[segs'[i].id] = o
      BY <3>3, Zenon
    <3> HIDE DEF o, r, b, c, p
    <3>6. QED
      BY <1>1, <1>3, <1>14, <1>15, <2>3, <2>5, <3>1, <3>3, <3>4, <3>5, Zenon DEF b, c
  <2>6. \A i \in DOMAIN segs : ~segs[i].const => Reads(i)
    <3> HIDE DEF Reads
    <3>1. QED
      BY <2>4, <2>5
  <2>7. \A i \in DOMAIN segs : segs'[i].const = segs[i].const
    BY <1>12 DEF SameSegs
  <2> HIDE DEF s, o, r, b, c, p, most
  <2>8. \A i \in DOMAIN segs' : ~segs'[i].const => Reads(i)
    <3> HIDE DEF Reads
    <3>1. QED
      BY <2>3, <2>6, <2>7
  <2>9. QED
    BY <2>8, Zenon DEF SegmentsRead
<1>17. Offsets'
  <2>1. Offsets
    BY DEF CanvasInv
  <2>2. ASSUME NEW k
        PROVE  Drawn(k)' <=> Drawn(k)
    <3>1. \A i \in 1 .. seg - 1 : i \in DOMAIN segs
      <4>1. seg \in Nat /\ DOMAIN segs = 1 .. Len(segs) /\ seg <= Len(segs) /\ Len(segs) \in Nat
        BY <1>1, DrawType
      <4> HIDE DEF s, o, r, b, c, p, most
      <4>2. QED
        BY <4>1
    <3>2. QED
      BY <1>1, <1>12, <3>1 DEF Drawn, SameSegs
  <2>3. QED
    BY <1>1, <2>1, <2>2 DEF Offsets
<1>18. QED
  BY <1>1, <1>8, <1>10, <1>11, <1>12, <1>13, <1>16, <1>17, SameRight DEF CanvasInv

-----------------------------------------------------------------------------
\* EndBitmap

\* What the segment in hand and its object become.
LEMMA EndBitmapMoves ==
  ASSUME CanvasInv, EndBitmap
  PROVE  LET s == segs[seg]
             o == objs[s.id]
             r == (y + line) - o.y
         IN
         /\ SameObjs /\ SameSegs
         /\ \A i \in DOMAIN segs : i # seg => segs'[i] = segs[i]
         /\ \A k \in DOMAIN objs : k # s.id => objs'[k] = objs[k]
         /\ segs'[seg].row = r + 1
         /\ ~s.cmpr => segs'[seg].at = (r + 1) * o.stride + (s.from - o.x)
         /\ IsCmpr(o) =>
              /\ s.cmpr /\ ~Drawn(s.id)
              /\ objs'[s.id].off = LineBegins(o.lens)[r + 1]
              /\ segs'[seg].at = LineBegins(o.lens)[r + 1]
<1> DEFINE s == segs[seg]
           o == objs[s.id]
           r == (y + line) - o.y
           b == LineBegins(o.lens)
           off == IF s.cmpr THEN o.off + o.lens[s.row + 1] ELSE o.off
           at == IF s.cmpr THEN off ELSE s.at + o.stride
<1>1. /\ InSegment /\ ~s.const /\ seg' = seg + 1 /\ pel' = 0
      /\ segs' = [segs EXCEPT ![seg].at = IF s.cmpr THEN off ELSE @ + o.stride,
                              ![seg].row = @ + 1]
      /\ objs' = [objs EXCEPT ![s.id].off = off]
  BY Zenon DEF EndBitmap
<1>2. /\ stage = "draw" /\ seg \in DOMAIN segs /\ seg \in Nat /\ y \in Nat /\ line \in Nat
      /\ s.from \in Nat /\ s.width \in Nat
      /\ Len(segs) \in Nat /\ DOMAIN segs = 1 .. Len(segs) /\ seg <= Len(segs)
  BY <1>1, DrawType
<1>3. /\ s.id \in DOMAIN objs /\ WellFormed(o) /\ OnLine(o, y)
      /\ o.type = IF s.cmpr THEN "cmpr" ELSE "bitmap"
      /\ o.x \in Nat /\ o.w \in Nat /\ o.y \in Nat /\ o.h \in Nat /\ o.stride \in Nat
      /\ r \in 0 .. o.h - 1 /\ s.row = r /\ o.x <= s.from
      /\ ~s.cmpr => s.at = r * o.stride + (s.from - o.x)
  BY <1>1, BitmapType, Zenon
<1>4. /\ IsVector(objs) /\ (\A k \in DOMAIN objs : WellFormed(objs[k]) /\ objs[k].off \in Nat)
      /\ IsVector(segs) /\ (\A i \in DOMAIN segs : DOMAIN segs[i] = Fields)
  BY <1>2 DEF CanvasInv, Objects, Cut
<1>5. o.off \in Nat
  BY <1>3, <1>4
<1>6. s.cmpr => /\ b[r] \in Nat /\ o.lens[r + 1] \in Nat /\ b[r + 1] = b[r] + o.lens[r + 1]
  <2>1. SUFFICES ASSUME s.cmpr
                 PROVE  /\ b[r] \in Nat /\ o.lens[r + 1] \in Nat
                        /\ b[r + 1] = b[r] + o.lens[r + 1]
    OBVIOUS
  <2>2. CmprWellFormed(o)
    BY <1>3, <2>1 DEF WellFormed
  <2> HIDE DEF s, o, r
  <2>3. QED
    BY <1>3, <2>2 DEF CmprWellFormed
<1>7. off \in Nat
  <2>1. s.row = r
    BY <1>3, Zenon
  <2> HIDE DEF s, o, r, b
  <2>2. QED
    BY <1>5, <1>6, <2>1
<1> HIDE DEF off
<1>8. objs' = [objs EXCEPT ![s.id] = [o EXCEPT !.off = off]]
  BY <1>1, <1>3
<1>9. /\ Len(objs') = Len(objs) /\ DOMAIN objs' = DOMAIN objs
      /\ \A k \in DOMAIN objs : k # s.id => objs'[k] = objs[k]
      /\ objs'[s.id] = [o EXCEPT !.off = off]
  <2> HIDE DEF o, s
  <2>1. QED
    BY <1>3, <1>4, <1>8 DEF IsVector
<1>10. /\ objs'[s.id].off = off /\ SameLook(o, objs'[s.id]) /\ WellFormed(objs'[s.id])
  <2>1. WellFormed(o)
    BY <1>3, Zenon
  <2> DEFINE n == [o EXCEPT !.off = off]
  <2> HIDE DEF o, s
  <2>2. n.off = off /\ SameLook(o, n) /\ WellFormed(n)
    BY <2>1, OffRight DEF SameLook
  <2>3. objs'[s.id] = n
    BY <1>9, Zenon
  <2> HIDE DEF n
  <2>4. QED
    BY <2>2, <2>3
<1>11. SameObjs
  <2>1. ASSUME NEW k \in DOMAIN objs
        PROVE  SameLook(objs[k], objs'[k]) /\ WellFormed(objs'[k]) /\ objs'[k].off \in Nat
    <3>1. CASE k = s.id
      BY <1>7, <1>10, <3>1
    <3>2. CASE k # s.id
      <4>1. objs'[k] = objs[k]
        BY <1>9, <3>2
      <4>2. QED
        BY <1>4, <4>1 DEF SameLook
    <3>3. QED
      BY <3>1, <3>2
  <2>2. QED
    BY <1>9, <2>1 DEF SameObjs
<1>12. segs' = [segs EXCEPT ![seg] = [segs[seg] EXCEPT !.at = at, !.row = s.row + 1]]
  BY <1>1, <1>2
<1> HIDE DEF at
<1>13. /\ DOMAIN segs' = DOMAIN segs /\ Len(segs') = Len(segs)
       /\ \A i \in DOMAIN segs : i # seg => segs'[i] = segs[i]
       /\ segs'[seg] = [segs[seg] EXCEPT !.at = at, !.row = s.row + 1]
  <2> HIDE DEF s
  <2>1. QED
    BY <1>2, <1>4, <1>12 DEF IsVector
<1>14. /\ DOMAIN segs'[seg] = Fields
       /\ segs'[seg].const = segs[seg].const /\ segs'[seg].cmpr = segs[seg].cmpr
       /\ segs'[seg].from = segs[seg].from /\ segs'[seg].width = segs[seg].width
       /\ segs'[seg].color = segs[seg].color /\ segs'[seg].id = segs[seg].id
       /\ segs'[seg].at = at /\ segs'[seg].row = s.row + 1
  <2>1. DOMAIN segs[seg] = Fields
    BY <1>2, <1>4
  <2> DEFINE new == s.row + 1
  <2>2. segs'[seg] = [segs[seg] EXCEPT !.at = at, !.row = new]
    BY <1>13
  <2> HIDE DEF new
  <2>3. /\ DOMAIN segs'[seg] = Fields
        /\ segs'[seg].const = segs[seg].const /\ segs'[seg].cmpr = segs[seg].cmpr
        /\ segs'[seg].from = segs[seg].from /\ segs'[seg].width = segs[seg].width
        /\ segs'[seg].color = segs[seg].color /\ segs'[seg].id = segs[seg].id
        /\ segs'[seg].at = at /\ segs'[seg].row = new
    BY <2>1, <2>2 DEF Fields
  <2>4. QED
    BY <2>3 DEF new
<1>15. SameSegs
  <2>1. ASSUME NEW i \in DOMAIN segs
        PROVE  /\ DOMAIN segs'[i] = DOMAIN segs[i]
               /\ segs'[i].const = segs[i].const /\ segs'[i].cmpr = segs[i].cmpr
               /\ segs'[i].from = segs[i].from /\ segs'[i].width = segs[i].width
               /\ segs'[i].color = segs[i].color /\ segs'[i].id = segs[i].id
    <3>1. CASE i = seg
      BY <1>2, <1>4, <1>14, <3>1
    <3>2. CASE i # seg
      BY <1>13, <3>2
    <3>3. QED
      BY <3>1, <3>2
  <2>2. QED
    BY <1>13, <2>1 DEF SameSegs
<1>16. ~s.cmpr => at = (r + 1) * o.stride + (s.from - o.x)
  <2>1. SUFFICES ASSUME ~s.cmpr
                 PROVE  at = (r + 1) * o.stride + (s.from - o.x)
    OBVIOUS
  <2>2. at = s.at + o.stride /\ s.at = r * o.stride + (s.from - o.x)
    BY <1>3, <2>1 DEF at
  <2>3. r \in Nat /\ 1 \in Nat /\ o.stride \in Nat /\ s.from \in Nat /\ o.x \in Nat
    BY <1>2, <1>3
  <2> HIDE DEF s, o, r
  <2>4. (r + 1) * o.stride = r * o.stride + 1 * o.stride
    BY <2>3, TimesPlus
  <2>5. r * o.stride \in Nat /\ 1 * o.stride = o.stride
    BY <2>3, TimesNat
  <2> DEFINE q == r * o.stride
  <2>6. q \in Nat /\ (r + 1) * o.stride = q + o.stride /\ at = (q + (s.from - o.x)) + o.stride
    BY <2>2, <2>4, <2>5
  <2> HIDE DEF q
  <2>7. QED
    BY <2>3, <2>6
<1>17. ASSUME IsCmpr(o)
       PROVE  s.cmpr /\ ~Drawn(s.id) /\ off = b[r + 1] /\ at = b[r + 1]
  <2>1. s.cmpr
    BY <1>3, <1>17 DEF IsCmpr
  <2>2. ~Drawn(s.id)
    <3>1. OneSegment
      BY DEF CanvasInv
    <3>2. \A i \in 1 .. seg - 1 : i \in DOMAIN segs /\ i # seg
      <4> HIDE DEF s, o, r, b
      <4>1. QED
        BY <1>2
    <3>3. QED
      BY <1>2, <1>17, <2>1, <3>1, <3>2 DEF OneSegment, Drawn
  <2>3. o.off = b[r]
    <3>1. Offsets
      BY DEF CanvasInv
    <3>2. y < o.maxY /\ ~(y < o.y)
      <4>1. o.y = o.minY /\ o.minY <= y /\ y < o.maxY
        BY <1>3, <2>1 DEF WellFormed, OnLine
      <4>2. o.y \in Nat
        BY <1>3, Zenon
      <4> HIDE DEF o
      <4>3. QED
        BY <1>2, <4>1, <4>2
    <3> DEFINE lead == IF Drawn(s.id) THEN 1 ELSE 0
               now == (IF stage = "draw" THEN y + line ELSE y) + lead - o.y
    <3>3. o.off = b[IF y < o.y THEN 0 ELSE now]
      BY <1>3, <1>17, <3>1, <3>2, Zenon DEF Offsets
    <3>4. (IF y < o.y THEN 0 ELSE now) = r
      <4>1. o.y \in Nat /\ lead = 0
        BY <1>3, <2>2, Zenon
      <4>2. r = (y + line) - o.y
        OBVIOUS
      <4> HIDE DEF o, r, lead
      <4>3. QED
        BY <1>2, <3>2, <4>1, <4>2
    <3>5. QED
      BY <3>3, <3>4
  <2>4. off = o.off + o.lens[r + 1]
    BY <1>3, <2>1, Zenon DEF off
  <2>5. off = b[r + 1]
    BY <1>6, <2>1, <2>3, <2>4, Zenon
  <2>6. at = off
    BY <2>1 DEF at
  <2>7. QED
    BY <2>1, <2>2, <2>5, <2>6
<1>18. s.row = r
  BY <1>3, Zenon
<1> HIDE DEF o, r, b
<1>19. QED
  BY <1>9, <1>10, <1>11, <1>13, <1>14, <1>15, <1>16, <1>17, <1>18, Zenon DEF s, o, r, b

\* The next line of the bitmap is read where the last one ended.
LEMMA EndBitmapRead ==
  ASSUME CanvasInv, EndBitmap
  PROVE  SegmentsRead'
<1> DEFINE s == segs[seg]
           o == objs[s.id]
           r == (y + line) - o.y
<1>1. /\ InSegment /\ ~s.const /\ seg' = seg + 1 /\ pel' = 0
      /\ y' = y /\ line' = line /\ stage' = stage
  BY DEF EndBitmap
<1>2. /\ stage = "draw" /\ seg \in DOMAIN segs /\ seg \in Nat /\ y \in Nat /\ line \in Nat
      /\ DOMAIN segs = 1 .. Len(segs) /\ Len(segs) \in Nat
  BY <1>1, DrawType
<1>3. /\ SameObjs /\ SameSegs
      /\ \A i \in DOMAIN segs : i # seg => segs'[i] = segs[i]
      /\ segs'[seg].row = r + 1
      /\ ~s.cmpr => segs'[seg].at = (r + 1) * o.stride + (s.from - o.x)
      /\ IsCmpr(o) => segs'[seg].at = LineBegins(o.lens)[r + 1]
  BY EndBitmapMoves, Zenon
<1>4. o.y \in Nat
  BY <1>1, BitmapType, Zenon
<1>5. SegmentsRead
  BY DEF CanvasInv
<1> DEFINE Reads(i) ==
      LET t == segs'[i]
          k == objs'[t.id]
          f == LineBegins(k.lens)
          g == PairBegins(k.pairs, k.lens)
          q == LineOf(i)' - k.y
      IN
      /\ t.id \in DOMAIN objs' /\ OnLine(k, y')
      /\ k.type = IF t.cmpr THEN "cmpr" ELSE "bitmap"
      /\ k.x <= t.from /\ t.from + t.width <= k.x + k.w
      /\ t.row = q
      /\ ~t.cmpr => t.at = q * k.stride + (t.from - k.x)
      /\ IsCmpr(k) =>
           /\ t.from = k.x /\ t.width = k.w
           /\ stage' = "draw" /\ i = seg' /\ pel' > 0 /\ pel' < t.width =>
                /\ t.at \in f[q] .. f[q + 1] - 1
                /\ g[t.at + 1] = pel'
           /\ ~(stage' = "draw" /\ i = seg' /\ pel' > 0) => t.at = f[q]
<1>6. ASSUME NEW i \in DOMAIN segs, ~segs[i].const
      PROVE  Reads(i)
  <2> DEFINE u == segs[i]
             v == objs[u.id]
             l == LineOf(i) - v.y
             n == objs'[u.id]
             k == LineOf(i)' - v.y
  <2>1. /\ u.id \in DOMAIN objs /\ OnLine(v, y)
        /\ v.type = IF u.cmpr THEN "cmpr" ELSE "bitmap"
        /\ v.x <= u.from /\ u.from + u.width <= v.x + v.w
        /\ u.row = l
        /\ ~u.cmpr => u.at = l * v.stride + (u.from - v.x)
        /\ IsCmpr(v) =>
             /\ u.from = v.x /\ u.width = v.w
             /\ i # seg => u.at = LineBegins(v.lens)[l]
    BY <1>2, <1>5, <1>6, Zenon DEF SegmentsRead
  <2>2. SameLook(v, n)
    BY <1>3, <2>1 DEF SameObjs
  <2>3. DOMAIN objs' = DOMAIN objs
    BY <1>3 DEF SameObjs
  <2>4. /\ n.type = v.type /\ n.x = v.x /\ n.y = v.y /\ n.w = v.w /\ n.lens = v.lens
        /\ n.stride = v.stride
    BY <2>2 DEF SameLook
  <2>5. (OnLine(n, y) <=> OnLine(v, y)) /\ (IsCmpr(n) <=> IsCmpr(v))
    <3> HIDE DEF n, v
    <3>1. QED
      BY <2>2, LookRight
  <2>6. /\ segs'[i].id = u.id /\ segs'[i].cmpr = u.cmpr /\ segs'[i].from = u.from
        /\ segs'[i].width = u.width
    BY <1>3 DEF SameSegs
  <2>7. LineOf(i)' = (y + line) + (IF i < seg + 1 THEN 1 ELSE 0)
    BY <1>1, <1>2, Zenon DEF LineOf
  <2>8. /\ segs'[i].row = k
        /\ ~u.cmpr => segs'[i].at = k * v.stride + (u.from - v.x)
        /\ IsCmpr(v) => segs'[i].at = LineBegins(v.lens)[k]
    <3>1. CASE i = seg
      <4>1. v = o /\ u = s
        BY <3>1, Zenon
      <4>2. k = r + 1
        <5>1. v.y = o.y /\ r = (y + line) - o.y /\ k = LineOf(i)' - v.y
          BY <4>1, Zenon
        <5>2. LineOf(i)' = (y + line) + 1
          <6> HIDE DEF s, o, r, u, v, n, k
          <6>1. i < seg + 1
            BY <1>2, <3>1
          <6>2. QED
            BY <2>7, <6>1, Zenon
        <5>3. y \in Nat /\ line \in Nat
          BY <1>2
        <5> HIDE DEF s, o, r, u, v, n, k
        <5>4. QED
          BY <1>4, <5>1, <5>2, <5>3
      <4>3. /\ segs'[i].row = r + 1
            /\ ~u.cmpr => segs'[i].at = (r + 1) * v.stride + (u.from - v.x)
            /\ IsCmpr(v) => segs'[i].at = LineBegins(v.lens)[r + 1]
        BY <1>3, <3>1, <4>1, Zenon
      <4> HIDE DEF s, o, r, u, v, n, k
      <4>4. QED
        BY <4>2, <4>3, Zenon
    <3>2. CASE i # seg
      <4>1. LineOf(i) = (y + line) + (IF i < seg THEN 1 ELSE 0)
        BY <1>2, Zenon DEF LineOf
      <4>2. (i < seg + 1) <=> (i < seg)
        <5> HIDE DEF s, o, r, u, v, n, k
        <5>1. QED
          BY <1>2, <3>2
      <4>3. LineOf(i)' = LineOf(i)
        <5>1. CASE i < seg
          <6>1. LineOf(i)' = (y + line) + 1
            BY <2>7, <4>2, <5>1, Zenon
          <6>2. LineOf(i) = (y + line) + 1
            BY <4>1, <5>1, Zenon
          <6>3. QED
            BY <6>1, <6>2, Zenon
        <5>2. CASE ~(i < seg)
          <6>1. LineOf(i)' = (y + line) + 0
            BY <2>7, <4>2, <5>2, Zenon
          <6>2. LineOf(i) = (y + line) + 0
            BY <4>1, <5>2, Zenon
          <6>3. QED
            BY <6>1, <6>2, Zenon
        <5>3. QED
          BY <5>1, <5>2
      <4>4. k = l
        BY <4>3, Zenon
      <4>5. segs'[i] = segs[i]
        BY <1>3, <3>2
      <4>6. segs'[i].row = u.row /\ segs'[i].at = u.at
        BY <4>5, Zenon
      <4> HIDE DEF s, o, r, u, v, n, k, l
      <4>7. QED
        BY <2>1, <3>2, <4>4, <4>6, Zenon
    <3>3. QED
      BY <3>1, <3>2, Zenon
  <2>9. LineOf(i)' - n.y = k
    BY <2>4, Zenon
  <2>10. objs'[segs'[i].id] = n
    BY <2>6, Zenon
  <2>11. ~(pel' > 0) /\ y' = y
    <3> HIDE DEF s, o, r, u, v, n, k
    <3>1. QED
      BY <1>1
  <2> HIDE DEF s, o, r, u, v, n, k, l
  <2>12. QED
    BY <2>1, <2>3, <2>4, <2>5, <2>6, <2>8, <2>9, <2>10, <2>11, Zenon
<1>7. /\ DOMAIN segs' = DOMAIN segs
      /\ \A i \in DOMAIN segs : segs'[i].const = segs[i].const
  BY <1>3 DEF SameSegs
<1>8. \A i \in DOMAIN segs' : ~segs'[i].const => Reads(i)
  <2> HIDE DEF Reads
  <2>1. QED
    BY <1>6, <1>7
<1> HIDE DEF s, o, r
<1>9. QED
  BY <1>8, Zenon DEF SegmentsRead

\* The segment and its object move on together.
LEMMA EndBitmapStep ==
  ASSUME CanvasInv, EndBitmap
  PROVE  CanvasInv' /\ UNCHANGED vars
<1> DEFINE s == segs[seg]
           o == objs[s.id]
           r == (y + line) - o.y
<1>1. /\ InSegment /\ ~s.const /\ pel >= s.width /\ seg' = seg + 1 /\ pel' = 0
      /\ y' = y /\ line' = line /\ stage' = stage /\ nextY' = nextY /\ x' = x
      /\ UNCHANGED vars
  BY DEF EndBitmap
<1>2. /\ stage = "draw" /\ seg \in DOMAIN segs /\ seg \in Nat /\ y \in Nat /\ line \in Nat
      /\ DOMAIN segs = 1 .. Len(segs) /\ Len(segs) \in Nat /\ seg <= Len(segs)
      /\ pel \in Nat /\ pel <= s.width /\ s.width \in Nat /\ W \in Nat /\ s.from \in Nat
  BY <1>1, DrawType
<1>3. /\ SameObjs /\ SameSegs
      /\ \A k \in DOMAIN objs : k # s.id => objs'[k] = objs[k]
      /\ IsCmpr(o) =>
           /\ s.cmpr /\ ~Drawn(s.id)
           /\ objs'[s.id].off = LineBegins(o.lens)[r + 1]
  BY EndBitmapMoves, Zenon
<1>4. image' = image /\ api' = api /\ pos' = pos
  BY <1>1 DEF vars, config
<1>5. SameLine
  BY <1>1, <1>4 DEF SameLine
<1>6. Position'
  <2>1. pos \in Int
    <3>1. (y + line) * W \in Nat
      <4>1. y + line \in Nat
        BY <1>2
      <4>2. QED
        BY <1>2, <4>1, TimesNat
    <3> DEFINE q == (y + line) * W
    <3>2. q \in Nat /\ pos = q + (s.from + pel)
      BY <1>1, <3>1, DrawType
    <3>3. s.from \in Nat /\ pel \in Nat
      BY <1>2
    <3> HIDE DEF q, s, o, r
    <3>4. QED
      BY <3>2, <3>3
  <2>2. pos' = pos + (s.width - pel)
    <3>1. pel >= s.width /\ pel <= s.width /\ pel \in Nat /\ s.width \in Nat
      BY <1>1, <1>2
    <3> HIDE DEF s, o, r
    <3>2. QED
      BY <1>4, <2>1, <3>1
  <2>3. QED
    BY <1>1, <1>3, <1>5, <2>2, DrawNext
<1>7. ASSUME NEW k
      PROVE  Drawn(k)' <=> Drawn(k) \/ (s.cmpr /\ s.id = k)
  <2>1. \A i : i \in 1 .. (seg + 1) - 1 <=> i \in 1 .. seg - 1 \/ i = seg
    <3>1. seg \in Nat /\ seg > 0
      BY <1>1, DrawType
    <3> HIDE DEF s, o, r
    <3>2. QED
      BY <3>1
  <2>2. \A i \in 1 .. (seg + 1) - 1 : segs'[i].cmpr = segs[i].cmpr /\ segs'[i].id = segs[i].id
    <3>1. \A i \in 1 .. (seg + 1) - 1 : i \in DOMAIN segs
      <4> HIDE DEF s, o, r
      <4>1. QED
        BY <1>2
    <3>2. QED
      BY <1>3, <3>1 DEF SameSegs
  <2>3. stage' = "draw" /\ seg' = seg + 1
    BY <1>1, <1>2
  <2>4. QED
    BY <1>2, <2>1, <2>2, <2>3, Zenon DEF Drawn
<1>8. Offsets'
  <2>1. Offsets
    BY DEF CanvasInv
  <2>2. DOMAIN objs' = DOMAIN objs
    BY <1>3 DEF SameObjs
  <2>3. ASSUME NEW k \in DOMAIN objs, IsCmpr(objs'[k]), y < objs'[k].maxY
        PROVE  objs'[k].off = LineBegins(objs'[k].lens)
                 [IF y < objs'[k].y THEN 0
                  ELSE (y + line) + (IF Drawn(k)' THEN 1 ELSE 0) - objs'[k].y]
    <3>1. /\ objs'[k].maxY = objs[k].maxY /\ objs'[k].y = objs[k].y
          /\ objs'[k].lens = objs[k].lens
      BY <1>3 DEF SameObjs, SameLook
    <3>2. IsCmpr(objs[k])
      <4>1. SameLook(objs[k], objs'[k])
        BY <1>3 DEF SameObjs
      <4>2. QED
        BY <2>3, <4>1, LookRight
    <3>3. CASE k # s.id
      <4>1. objs'[k] = objs[k] /\ (Drawn(k)' <=> Drawn(k))
        BY <1>3, <1>7, <3>3
      <4>2. y < objs[k].maxY
        BY <2>3, <3>1
      <4>3. QED
        BY <1>2, <2>1, <3>1, <3>2, <4>1, <4>2, Zenon DEF Offsets
    <3>4. CASE k = s.id
      <4>1. s.cmpr /\ objs'[k].off = LineBegins(objs[k].lens)[r + 1] /\ Drawn(k)'
        BY <1>3, <1>7, <3>2, <3>4, Zenon
      <4>2. /\ o.y \in Nat /\ o.type = "cmpr" /\ WellFormed(o) /\ OnLine(o, y)
        BY <1>1, <4>1, BitmapType, Zenon
      <4>3. ~(y < o.y)
        <5>1. o.y = o.minY /\ o.minY <= y
          BY <4>2 DEF WellFormed, OnLine
        <5>2. o.y \in Nat /\ y \in Nat
          BY <1>2, <4>2
        <5> HIDE DEF o
        <5>3. QED
          BY <5>1, <5>2
      <4>4. (y + line) + 1 - o.y = r + 1
        <5>1. r = (y + line) - o.y
          OBVIOUS
        <5>2. o.y \in Nat /\ y \in Nat /\ line \in Nat
          BY <1>2, <4>2
        <5> HIDE DEF o, r
        <5>3. QED
          BY <5>1, <5>2
      <4>5. objs'[k].y = o.y
        BY <3>1, <3>4, Zenon
      <4> HIDE DEF o, r
      <4>6. QED
        BY <3>1, <4>1, <4>3, <4>4, <4>5, Zenon
    <3>5. QED
      BY <3>3, <3>4, Zenon
  <2>4. stage' = "draw" /\ y' = y /\ line' = line
    BY <1>1, <1>2
  <2> HIDE DEF s, o, r
  <2>5. QED
    BY <2>2, <2>3, <2>4, Zenon DEF Offsets
<1>9. SegmentsRead'
  BY EndBitmapRead
<1>10. QED
  BY <1>1, <1>3, <1>5, <1>6, <1>8, <1>9, SameRight DEF CanvasInv

-----------------------------------------------------------------------------
\* NextLine and EndLines

\* After a line the segments stand at the beginning of the next one.
LEMMA NextLineStep ==
  ASSUME CanvasInv, NextLine
  PROVE  CanvasInv' /\ UNCHANGED vars
<1>1. /\ stage = "draw" /\ stage' = "draw" /\ y + line < nextY /\ seg > Len(segs)
      /\ line' = line + 1 /\ seg' = 1 /\ pel' = pel
      /\ objs' = objs /\ y' = y /\ nextY' = nextY /\ x' = x /\ segs' = segs
      /\ image' = image /\ api' = api /\ pos' = pos /\ UNCHANGED vars
  BY DEF NextLine, sweep, vars, config
<1>2. /\ api = "canvas" /\ Objects /\ PictureLeft /\ Position /\ Steady /\ Offsets
      /\ Cut /\ SegmentsShow /\ SegmentsRead /\ OneSegment
  BY DEF CanvasInv
<1>3. W \in Nat /\ W > 0 /\ H \in Nat
  BY CanvasAssumption
<1>4. x = W /\ Len(segs) \in Nat /\ DOMAIN segs = 1 .. Len(segs) /\ Len(segs) # 0
  BY <1>1, <1>2, <1>3 DEF Cut, IsVector
<1>5. /\ y \in 0 .. H /\ y \in Nat /\ line \in Nat /\ nextY \in Nat
      /\ seg \in Nat /\ pel = 0
  BY <1>1, <1>2, <1>3, <1>4 DEF Position, Steady
<1>6. pos = (y + line) * W + W
  <2>1. ~(seg <= Len(segs))
    BY <1>1, <1>4, <1>5
  <2>2. QED
    BY <1>1, <1>2, <2>1 DEF Position
<1>7. segs[1].from = 0 /\ segs[1].width \in Nat /\ 1 \in DOMAIN segs
  <2>1. 1 \in DOMAIN segs
    BY <1>4
  <2>2. QED
    BY <1>1, <1>2, <2>1 DEF Cut
<1>8. Objects' /\ PictureLeft' /\ Steady'
  BY <1>1, <1>2 DEF Objects, PictureLeft, TopAt, Img, Steady, LastsTo
<1>9. Position'
  <2>1. pos' = (y + (line + 1)) * W + (0 + 0)
    <3>1. y + line \in Nat
      BY <1>5
    <3>2. ((y + line) + 1) * W = (y + line) * W + 1 * W /\ (y + line) * W \in Nat
      BY <1>3, <3>1, TimesPlus, TimesNat
    <3>3. y + (line + 1) = (y + line) + 1
      BY <1>5
    <3> DEFINE q == (y + line) * W
    <3>4. (y + (line + 1)) * W = q + W /\ q \in Nat /\ pos = q + W
      BY <1>3, <1>6, <3>2, <3>3
    <3>5. (q + W) + (0 + 0) = q + W
      <4>1. q \in Nat
        BY <3>4
      <4> HIDE DEF q
      <4>2. QED
        BY <1>3, <4>1
    <3>6. QED
      BY <1>1, <3>4, <3>5
  <2>2. 1 <= Len(segs) /\ 1 \in 1 .. Len(segs) + 1 /\ ~(1 > Len(segs))
    BY <1>4
  <2>3. line + 1 \in Nat /\ y + (line + 1) <= nextY /\ 0 <= segs[1].width
    BY <1>1, <1>5, <1>7
  <2>4. pos' = (y + (line + 1)) * W + (IF 1 <= Len(segs) THEN segs[1].from + 0 ELSE W)
    BY <1>7, <2>1, <2>2
  <2>5. QED
    BY <1>1, <1>5, <2>2, <2>3, <2>4 DEF Position
<1>10. SlicesRight' /\ SweepRight'
  BY <1>1 DEF SlicesRight, SweepRight
<1>11. Cut'
  BY <1>1, <1>2, <1>4 DEF Cut, IsVector
<1>12. SegmentsShow'
  BY <1>1, <1>2 DEF SegmentsShow, Img
<1>13. SegmentsRead'
  <2>1. ASSUME NEW i \in DOMAIN segs
        PROVE  LineOf(i)' = LineOf(i)
    <3>1. i < seg /\ ~(i < 1)
      BY <1>1, <1>4, <1>5
    <3>2. LineOf(i) = (y + line) + 1
      BY <1>1, <3>1, Zenon DEF LineOf
    <3>3. LineOf(i)' = (y + (line + 1)) + 0
      BY <1>1, <3>1, Zenon DEF LineOf
    <3>4. (y + line) + 1 = (y + (line + 1)) + 0
      BY <1>5
    <3>5. QED
      BY <3>2, <3>3, <3>4, Zenon
  <2>2. ~(pel > 0) /\ ~(pel' > 0)
    BY <1>1, <1>5
  <2>3. QED
    BY <1>1, <1>2, <2>1, <2>2 DEF SegmentsRead
<1>14. OneSegment'
  BY <1>1, <1>2 DEF OneSegment
<1>15. Offsets'
  <2>1. \A k : ~Drawn(k)'
    BY <1>1 DEF Drawn
  <2>2. ASSUME NEW k \in DOMAIN objs, IsCmpr(objs[k]), y < objs[k].maxY
        PROVE  objs[k].off = LineBegins(objs[k].lens)
                 [IF y < objs[k].y THEN 0 ELSE (y + (line + 1)) + 0 - objs[k].y]
    <3> DEFINE lead == IF Drawn(k) THEN 1 ELSE 0
               ahead == (IF stage = "draw" THEN y + line ELSE y) + lead - objs[k].y
    <3>1. objs[k].off = LineBegins(objs[k].lens)[IF y < objs[k].y THEN 0 ELSE ahead]
      BY <1>2, <2>2, Zenon DEF Offsets
    <3>2. CASE y < objs[k].y
      BY <3>1, <3>2, Zenon
    <3>3. CASE ~(y < objs[k].y)
      <4>1. objs[k].y \in Nat /\ OnLine(objs[k], y)
        <5>1. WellFormed(objs[k]) /\ objs[k].type = "cmpr"
          BY <1>2, <2>2 DEF Objects, IsCmpr
        <5>2. objs[k].y = objs[k].minY /\ objs[k].minY \in Nat
          BY <5>1 DEF WellFormed
        <5>3. QED
          BY <1>5, <2>2, <3>3, <5>2 DEF OnLine
      <4>2. Drawn(k)
        <5>1. \E i \in DOMAIN segs : segs[i].cmpr /\ segs[i].id = k
          BY <1>1, <1>2, <2>2, <4>1 DEF OneSegment
        <5>2. \A i \in DOMAIN segs : i \in 1 .. seg - 1
          BY <1>1, <1>4, <1>5
        <5>3. QED
          BY <1>1, <5>1, <5>2 DEF Drawn
      <4>3. ahead = (y + line) + 1 - objs[k].y
        BY <1>1, <4>2, Zenon
      <4>4. (y + line) + 1 - objs[k].y = (y + (line + 1)) + 0 - objs[k].y
        BY <1>5, <4>1
      <4> HIDE DEF ahead
      <4>5. QED
        BY <3>1, <3>3, <4>3, <4>4, Zenon
    <3>4. QED
      BY <3>2, <3>3
  <2>3. QED
    BY <1>1, <2>1, <2>2, Zenon DEF Offsets
<1>16. QED
  BY <1>1, <1>2, <1>8, <1>9, <1>10, <1>11, <1>12, <1>13, <1>14, <1>15 DEF CanvasInv

\* The objects that are removed are over: those that are left show the same.
LEMMA EndLinesStep ==
  ASSUME CanvasInv, EndLines
  PROVE  CanvasInv' /\ UNCHANGED vars
<1> DEFINE S == {k \in DOMAIN objs : nextY - 1 <= objs[k].maxY}
           at == InOrder(S)
<1>1. /\ stage = "draw" /\ stage' = "project" /\ y + line >= nextY
      /\ y' = nextY /\ objs' = KeepPlaces(objs, S) /\ nextY' = nextY
      /\ image' = image /\ api' = api /\ pos' = pos /\ UNCHANGED vars
  BY DEF EndLines, vars, config
<1>2. /\ api = "canvas" /\ Objects /\ PictureLeft /\ Position /\ Steady /\ Offsets /\ Cut
  BY DEF CanvasInv
<1>3. W \in Nat /\ W > 0 /\ H \in Nat
  BY CanvasAssumption
<1>4. x = W /\ Len(segs) \in Nat /\ DOMAIN segs = 1 .. Len(segs) /\ Len(segs) # 0
  BY <1>1, <1>2, <1>3 DEF Cut, IsVector
<1>5. /\ y \in Nat /\ line \in Nat /\ nextY \in Nat /\ nextY <= H /\ y < nextY
      /\ y + line = nextY
  <2>1. /\ y \in Nat /\ line \in Nat /\ nextY \in Nat /\ nextY <= H /\ y < nextY
        /\ y + line <= nextY
    BY <1>1, <1>2, <1>3 DEF Position, Steady
  <2>2. QED
    BY <1>1, <2>1
<1>6. seg = 1 /\ pel = 0 /\ segs[1].from = 0
  <2>1. seg = 1 /\ pel = 0
    BY <1>1, <1>2, <1>5 DEF Position
  <2>2. 1 \in DOMAIN segs
    BY <1>4
  <2>3. QED
    BY <1>1, <1>2, <2>1, <2>2 DEF Cut
<1>7. IsVector(objs) /\ \A k \in DOMAIN objs : WellFormed(objs[k]) /\ objs[k].off \in Nat
  BY <1>2 DEF Objects
<1>8. /\ IsVector(objs')
      /\ \A i \in DOMAIN objs' : at[i] \in S /\ at[i] \in DOMAIN objs /\ objs'[i] = objs[at[i]]
      /\ \A i, j \in DOMAIN objs' : i < j => at[i] < at[j]
      /\ \A k \in S : \E i \in DOMAIN objs' : at[i] = k
  <2>1. S \in SUBSET DOMAIN objs
    OBVIOUS
  <2> HIDE DEF S
  <2>2. QED
    BY <1>1, <1>7, <2>1, KeepRight
<1> HIDE DEF at
<1>9. Objects'
  <2>1. \A i \in DOMAIN objs' : WellFormed(objs'[i]) /\ objs'[i].off \in Nat
    BY <1>7, <1>8
  <2>2. CmprOnTop(objs')
    <3>1. CmprOnTop(objs)
      BY <1>2 DEF Objects
    <3>2. ASSUME NEW k \in DOMAIN objs', NEW j \in DOMAIN objs', NEW r \in 0 .. H - 1,
                 k < j, objs'[k].type = "cmpr", objs'[k].w > 0, OnLine(objs'[k], r),
                 NEW i \in DOMAIN Sides(objs'[j], r)
          PROVE  LET s == Sides(objs'[j], r)[i] IN
                 s[1] >= objs'[k].x + objs'[k].w \/ (s[1] < objs'[k].x /\ s[2] <= objs'[k].x)
      <4>1. /\ at[k] \in DOMAIN objs /\ at[j] \in DOMAIN objs /\ at[k] < at[j]
            /\ objs'[k] = objs[at[k]] /\ objs'[j] = objs[at[j]]
        BY <1>8, <3>2
      <4> DEFINE u == at[k]
                 v == at[j]
      <4>2. /\ u \in DOMAIN objs /\ v \in DOMAIN objs /\ u < v
            /\ objs[u].type = "cmpr" /\ objs[u].w > 0 /\ OnLine(objs[u], r)
            /\ i \in DOMAIN Sides(objs[v], r)
        BY <3>2, <4>1
      <4> HIDE DEF u, v
      <4>3. LET s == Sides(objs[v], r)[i] IN
            s[1] >= objs[u].x + objs[u].w \/ (s[1] < objs[u].x /\ s[2] <= objs[u].x)
        BY <3>1, <3>2, <4>2 DEF CmprOnTop
      <4>4. QED
        BY <4>1, <4>3 DEF u, v
    <3>3. QED
      BY <3>2 DEF CmprOnTop
  <2>3. y' # 0
    BY <1>1, <1>5
  <2>4. QED
    BY <1>8, <2>1, <2>2, <2>3 DEF Objects
<1>10. ASSUME NEW py \in nextY .. H - 1, NEW px \in 0 .. W - 1
       PROVE  /\ \A k \in DOMAIN objs : k \notin S => ~Covers(objs[k], px, py)
              /\ py \in y .. H - 1
  <2>1. py \in y .. H - 1 /\ py \in Nat /\ nextY <= py
    BY <1>3, <1>5
  <2>2. ASSUME NEW k \in DOMAIN objs, k \notin S
        PROVE  ~Covers(objs[k], px, py)
    <3>1. objs[k].maxY \in Nat
      BY <1>3, <1>7 DEF WellFormed
    <3>2. ~(py < objs[k].maxY)
      BY <1>5, <2>1, <2>2, <3>1
    <3>3. QED
      BY <3>2 DEF Covers
  <2>3. QED
    BY <2>1, <2>2
<1>11. PictureLeft'
  <2>1. ASSUME NEW py \in nextY .. H - 1, NEW px \in 0 .. W - 1
        PROVE  /\ \A i \in DOMAIN objs' : TopAt(i, px, py)' =>
                    Img(px, py) = ColourAt(objs'[i], px, py)
               /\ (\A i \in DOMAIN objs' : ~Covers(objs'[i], px, py)) => Img(px, py) = Ground
    <3>1. py \in y .. H - 1 /\ \A k \in DOMAIN objs : k \notin S => ~Covers(objs[k], px, py)
      BY <1>10
    <3>2. ASSUME NEW i \in DOMAIN objs', TopAt(i, px, py)'
          PROVE  Img(px, py) = ColourAt(objs'[i], px, py)
      <4>1. /\ Covers(objs'[i], px, py)
            /\ \A j \in DOMAIN objs' : j > i => ~Covers(objs'[j], px, py)
        BY <3>2 DEF TopAt
      <4>2. at[i] \in DOMAIN objs /\ objs'[i] = objs[at[i]]
        BY <1>8
      <4>3. ASSUME NEW k \in DOMAIN objs, k > at[i], k \in S
            PROVE  ~Covers(objs[k], px, py)
        <5>1. PICK j \in DOMAIN objs' : at[j] = k
          BY <1>8, <4>3
        <5>2. objs'[j] = objs[k]
          BY <1>8, <5>1
        <5>3. j > i
          <6>1. i \in Int /\ j \in Int /\ at[i] \in Int /\ k \in Int
            BY <1>7, <1>8, <4>2 DEF IsVector
          <6>2. j < i => at[j] < at[i]
            BY <1>8
          <6>3. i # j
            BY <4>3, <5>1, <6>1
          <6>4. QED
            BY <4>3, <5>1, <6>1, <6>2, <6>3
        <5>4. QED
          BY <4>1, <5>2, <5>3
      <4>4. TopAt(at[i], px, py)
        BY <3>1, <4>1, <4>2, <4>3 DEF TopAt
      <4>5. QED
        BY <1>2, <3>1, <4>2, <4>4 DEF PictureLeft
    <3>3. ASSUME \A i \in DOMAIN objs' : ~Covers(objs'[i], px, py)
          PROVE  Img(px, py) = Ground
      <4>1. \A k \in S : ~Covers(objs[k], px, py)
        BY <1>8, <3>3
      <4>2. \A k \in DOMAIN objs : ~Covers(objs[k], px, py)
        BY <3>1, <4>1
      <4>3. QED
        BY <1>2, <3>1, <4>2 DEF PictureLeft
    <3>4. QED
      BY <3>2, <3>3
  <2>2. \A px, py : Img(px, py)' = Img(px, py)
    BY <1>1 DEF Img
  <2> HIDE DEF S
  <2>3. QED
    BY <1>1, <2>1, <2>2 DEF PictureLeft
<1>12. Position'
  <2>1. pos = nextY * W + (0 + 0)
    <3>1. 1 <= Len(segs)
      BY <1>4
    <3>2. pos = (y + line) * W + (IF seg <= Len(segs) THEN segs[seg].from + pel ELSE W)
      BY <1>1, <1>2 DEF Position
    <3>3. QED
      BY <1>5, <1>6, <3>1, <3>2
  <2>2. nextY * W \in Nat
    BY <1>3, <1>5, TimesNat
  <2> DEFINE q == nextY * W
  <2>3. pos = q
    <3>1. q \in Nat /\ pos = q + (0 + 0)
      BY <2>1, <2>2
    <3> HIDE DEF q
    <3>2. QED
      BY <3>1
  <2>4. nextY \in 0 .. H
    BY <1>3, <1>5
  <2>5. QED
    BY <1>1, <2>3, <2>4 DEF Position
<1>13. Steady' /\ SlicesRight' /\ SweepRight' /\ Cut' /\ SegmentsShow' /\ SegmentsRead'
       /\ OneSegment'
  BY <1>1 DEF Steady, SlicesRight, SweepRight, Cut, SegmentsShow, SegmentsRead, OneSegment
<1>14. Offsets'
  <2>1. \A k : ~Drawn(k) /\ ~Drawn(k)'
    BY <1>1, <1>6 DEF Drawn
  <2>2. ASSUME NEW i \in DOMAIN objs', IsCmpr(objs'[i]), nextY < objs'[i].maxY
        PROVE  objs'[i].off = LineBegins(objs'[i].lens)
                 [IF nextY < objs'[i].y THEN 0 ELSE nextY + 0 - objs'[i].y]
    <3> DEFINE k == at[i]
               o == objs[k]
               ahead == (y + line) + 0 - o.y
    <3>1. k \in DOMAIN objs /\ objs'[i] = o
      BY <1>8
    <3>2. /\ WellFormed(o) /\ o.type = "cmpr" /\ o.y = o.minY /\ o.y \in Nat
          /\ o.maxY \in Nat /\ nextY < o.maxY
      <4>1. WellFormed(o) /\ o.type = "cmpr" /\ nextY < o.maxY
        BY <1>7, <2>2, <3>1 DEF IsCmpr
      <4>2. QED
        BY <1>3, <4>1 DEF WellFormed
    <3>3. y < o.maxY
      <4> HIDE DEF o
      <4>1. QED
        BY <1>5, <3>2
    <3>4. o.off = LineBegins(o.lens)[IF y < o.y THEN 0 ELSE ahead]
      BY <1>1, <1>2, <2>1, <2>2, <3>1, <3>3, Zenon DEF Offsets
    <3>5. CASE y < o.y
      <4>1. nextY <= LastsTo(o)
        BY <1>1, <1>2, <3>1 DEF Steady
      <4>2. ~OnLine(o, y)
        <5> HIDE DEF o
        <5>1. QED
          BY <1>5, <3>2, <3>5 DEF OnLine
      <4>3. LastsTo(o) = o.y
        <5>1. LastsTo(o) = Greater(o.minY, y + 1)
          BY <4>2 DEF LastsTo
        <5>2. o.minY >= y + 1
          <6> HIDE DEF o
          <6>1. QED
            BY <1>5, <3>2, <3>5
        <5>3. QED
          BY <3>2, <5>1, <5>2 DEF Greater
      <4>4. nextY < o.y \/ nextY + 0 - o.y = 0
        <5> HIDE DEF o
        <5>1. QED
          BY <1>5, <3>2, <4>1, <4>3
      <4>5. o.off = LineBegins(o.lens)[0]
        BY <3>4, <3>5, Zenon
      <4> HIDE DEF o
      <4>6. QED
        BY <3>1, <4>4, <4>5, Zenon
    <3>6. CASE ~(y < o.y)
      <4>1. ~(nextY < o.y) /\ ahead = nextY + 0 - o.y
        <5>1. ahead = (y + line) + 0 - o.y /\ o.y \in Nat
          BY <3>2
        <5> HIDE DEF o, ahead
        <5>2. QED
          BY <1>5, <3>6, <5>1
      <4> HIDE DEF o, ahead
      <4>2. QED
        BY <3>1, <3>4, <3>6, <4>1, Zenon
    <3>7. QED
      BY <3>5, <3>6
  <2>3. QED
    BY <1>1, <2>1, <2>2, Zenon DEF Offsets
<1>15. QED
  BY <1>1, <1>2, <1>9, <1>11, <1>12, <1>13, <1>14 DEF CanvasInv

-----------------------------------------------------------------------------
\* Steps that leave the canvas alone

\* Neither the encoder's pending run nor its end matters to the canvas.
LEMMA StillRight ==
  ASSUME CanvasInv, UNCHANGED canvasVars, image' = image, api' = api, pos' = pos
  PROVE  CanvasInv'
<1>1. /\ objs' = objs /\ y' = y /\ nextY' = nextY /\ x' = x /\ slices' = slices
      /\ next' = next /\ segs' = segs /\ line' = line /\ seg' = seg /\ pel' = pel
      /\ stage' = stage
  BY DEF canvasVars, sweep, drawing
<1>2. /\ api = "canvas" /\ Objects /\ PictureLeft /\ Position /\ Steady
      /\ SlicesRight /\ SweepRight
      /\ Cut /\ SegmentsShow /\ SegmentsRead /\ OneSegment /\ Offsets
  BY DEF CanvasInv
<1>3. Objects' /\ Position' /\ Steady'
  BY <1>1, <1>2 DEF Objects, Position, Steady, LastsTo
<1>4. PictureLeft' /\ SegmentsShow'
  BY <1>1, <1>2 DEF PictureLeft, TopAt, Img, SegmentsShow
<1>5. SlicesRight' /\ SweepRight' /\ Cut'
  BY <1>1, <1>2 DEF SlicesRight, InSlice, SweepRight, Cut
<1>6. SegmentsRead' /\ OneSegment' /\ Offsets'
  <2>1. (\A i : LineOf(i)' = LineOf(i)) /\ (\A k : Drawn(k)' <=> Drawn(k))
    BY <1>1 DEF LineOf, Drawn
  <2>2. SegmentsRead'
    BY <1>1, <1>2, <2>1 DEF SegmentsRead
  <2>3. OneSegment'
    BY <1>1, <1>2 DEF OneSegment
  <2>4. Offsets'
    BY <1>1, <1>2, <2>1 DEF Offsets
  <2>5. QED
    BY <2>2, <2>3, <2>4
<1>7. QED
  BY <1>1, <1>2, <1>3, <1>4, <1>5, <1>6 DEF CanvasInv

-----------------------------------------------------------------------------
\* Every step

\* The end is reached when every line is drawn.
LEMMA FinishStep ==
  ASSUME CanvasInv, Finish
  PROVE  CanvasInv' /\ Next
<1>1. /\ stage = "project" /\ y >= H /\ DrawFinish /\ UNCHANGED canvasVars
      /\ image' = image /\ api' = api /\ pos' = pos
  BY DEF Finish, DrawFinish, config
<1>2. api = "canvas" /\ Position
  BY DEF CanvasInv
<1>3. pos = N
  <2>1. y \in 0 .. H /\ pos = y * W /\ H \in Nat /\ N = W * H /\ W \in Nat
    BY <1>1, <1>2, CanvasAssumption DEF Position
  <2>2. y = H
    BY <1>1, <2>1
  <2>3. H * W = W * H
    BY <2>1
  <2>4. QED
    BY <2>1, <2>2, <2>3
<1>4. Next
  BY <1>1, <1>2, <1>3 DEF Next
<1>5. CanvasInv'
  BY <1>1, StillRight
<1>6. QED
  BY <1>4, <1>5

\* Every step of the canvas is one of the encoder, or one that the encoder does
\* not see.
LEMMA CanvasStep ==
  ASSUME CanvasInv, [CanvasNext]_allVars
  PROVE  CanvasInv' /\ (CornersDrawn => [Next]_vars)
<1>1. CASE FollowedRun /\ UNCHANGED canvasVars
  <2>1. image' = image /\ api' = api /\ pos' = pos
    BY <1>1 DEF FollowedRun, config
  <2>2. CanvasInv'
    BY <1>1, <2>1, StillRight
  <2>3. QED
    BY <1>1, <2>2 DEF Next
<1>2. CASE Project
  BY <1>2, ProjectStep DEF Project
<1>3. CASE Plot
  BY <1>3, PlotStep DEF Plot
<1>4. CASE BeginLines
  BY <1>4, BeginLinesStep DEF BeginLines
<1>5. CASE DrawConst
  BY <1>5, DrawConstStep
<1>6. CASE DrawBitmap
  BY <1>6, DrawBitmapStep
<1>7. CASE DrawPair
  BY <1>7, DrawPairStep
<1>8. CASE EndBitmap
  BY <1>8, EndBitmapStep
<1>9. CASE NextLine
  BY <1>9, NextLineStep
<1>10. CASE EndLines
  BY <1>10, EndLinesStep
<1>11. CASE Finish
  BY <1>11, FinishStep
<1>12. CASE UNCHANGED allVars
  <2>1. UNCHANGED vars /\ UNCHANGED canvasVars
    BY <1>12 DEF allVars
  <2>2. image' = image /\ api' = api /\ pos' = pos
    BY <2>1 DEF vars, config
  <2>3. QED
    BY <2>1, <2>2, StillRight
<1>13. QED
  BY <1>1, <1>2, <1>3, <1>4, <1>5, <1>6, <1>7, <1>8, <1>9, <1>10, <1>11, <1>12
     DEF CanvasNext

-----------------------------------------------------------------------------
\* The properties

\* Objects that have pixels: a width, a thickness if they are stroked, and for
\* lines a slice that is not empty at the first column of the canvas.
HasPixels(o) ==
  /\ o.type # "line" => o.w > 0
  /\ o.type = "stroke" => o.thickness > 0
  /\ o.type = "line" /\ OnLine(o, 0) => o.spans[0][2] > 0

\* What the properties of a canvas take of its first pixel is so for all objects
\* that have pixels: only empty ones, such as a stroked rectangle too low to have
\* a thickness, can take is_first_pxl from the pixel it is for.
THEOREM PixelsAtCorner ==
  ASSUME NEW p, \A k \in DOMAIN p : WellFormed(p[k]) /\ HasPixels(p[k])
  PROVE  CornerDrawn(p)
<1>1. ASSUME NEW k \in DOMAIN p, NEW i \in DOMAIN Sides(p[k], 0)
      PROVE  Sides(p[k], 0)[i][2] > 0
  <2> DEFINE o == p[k]
  <2>1. /\ OnLine(o, 0)
        /\ o.type = "line" => i = 1 /\ Sides(o, 0)[i] = o.spans[0]
        /\ o.type = "stroke" /\ Beside(o, 0) =>
             \/ i = 1 /\ Sides(o, 0)[i] = <<o.x, o.x + o.thickness>>
             \/ i = 2 /\ Sides(o, 0)[i] = <<o.x + o.w - o.thickness, o.x + o.w>>
        /\ o.type # "line" /\ ~(o.type = "stroke" /\ Beside(o, 0)) =>
             i = 1 /\ Sides(o, 0)[i] = <<o.x, o.x + o.w>>
    BY <1>1 DEF Sides
  <2>2. HasPixels(o) /\ WellFormed(o)
    OBVIOUS
  <2>3. CASE o.type = "line"
    BY <2>1, <2>2, <2>3 DEF HasPixels
  <2>4. CASE o.type # "line"
    <3>1. o.x \in Nat /\ o.w \in Nat /\ o.w > 0
      BY <2>2, <2>4 DEF HasPixels, WellFormed
    <3>2. o.type = "stroke" => o.thickness \in Nat /\ o.thickness > 0
      BY <2>2 DEF HasPixels, WellFormed
    <3> HIDE DEF o
    <3>3. \/ Sides(o, 0)[i][2] = o.x + o.w
          \/ o.type = "stroke" /\ Sides(o, 0)[i][2] = o.x + o.thickness
      BY <2>1, <2>4
    <3>4. Sides(o, 0)[i][2] > 0
      BY <3>1, <3>2, <3>3
    <3>5. QED
      BY <3>4 DEF o
  <2>5. QED
    BY <2>3, <2>4
<1>2. QED
  BY <1>1 DEF CornerDrawn

\* What is cut and what is left agree with the picture all along: the sweep over
\* the slices finds on every line the uppermost object of every pixel.
THEOREM CanvasRight == CanvasSpec => []CanvasInv
<1>1. CanvasInit => CanvasInv
  BY CanvasInitRight
<1>2. CanvasInv /\ [CanvasNext]_allVars => CanvasInv'
  BY CanvasStep
<1>3. QED
  BY <1>1, <1>2, PTL DEF CanvasSpec

\* The sweep never stands still, whatever slices are empty, begin together or
\* cover others: over a line it takes finitely many segments.
THEOREM SweepRuns == CanvasSpec => SweepMoves
<1> DEFINE Moves == stage = "plot" /\ stage' = "plot" =>
             \/ x' > x
             \/ x' = x /\ Len(slices') < Len(slices)
             \/ x' = x /\ Len(slices') = Len(slices) /\ next < next' /\ 0 < next'
<1>1. CanvasInv /\ [CanvasNext]_allVars => [Moves]_canvasVars
  <2>1. SUFFICES ASSUME CanvasInv, [CanvasNext]_allVars, stage = "plot", stage' = "plot"
                 PROVE  UNCHANGED canvasVars \/ Moves
    OBVIOUS
  <2>2. UNCHANGED canvasVars \/ Plot
    <3>1. UNCHANGED allVars => UNCHANGED canvasVars
      BY DEF allVars
    <3>2. ~Project /\ ~EndLines /\ ~NextLine /\ ~Finish
      BY <2>1 DEF Project, EndLines, NextLine, Finish
    <3>3. ~DrawConst /\ ~DrawBitmap /\ ~DrawPair /\ ~EndBitmap
      BY <2>1 DEF DrawConst, DrawBitmap, DrawPair, EndBitmap, InSegment
    <3>4. ~BeginLines
      BY <2>1 DEF BeginLines
    <3>5. QED
      BY <2>1, <3>1, <3>2, <3>3, <3>4 DEF CanvasNext
  <2>3. Plot => Moves
    BY <2>1, PlotMoves
  <2>4. QED
    BY <2>2, <2>3
<1>2. CanvasSpec => []CanvasInv
  BY CanvasRight
<1>3. QED
  BY <1>1, <1>2, PTL DEF CanvasSpec, SweepMoves

\* Drawing a canvas is a way to encode the picture its painter gets: every pixel
\* goes to draw_cmpr_pixel once, in its place and with its colour.
THEOREM PictureDrawn ==
  ASSUME CornersDrawn
  PROVE  CanvasSpec => DrawsPicture
<1>1. CanvasInit => Init
  BY CanvasInitRight
<1>2. CanvasInv /\ [CanvasNext]_allVars => [Next]_vars
  BY CanvasStep
<1>3. CanvasSpec => []CanvasInv
  BY CanvasRight
<1>4. QED
  BY <1>1, <1>2, <1>3, PTL DEF CanvasSpec, DrawsPicture, Spec

\* What the decoder makes of a canvas is the painter's picture.
THEOREM CanvasRoundTrip ==
  ASSUME CornersDrawn
  PROVE  CanvasSpec => []RoundTrip
<1>1. CanvasSpec => Spec
  BY PictureDrawn DEF DrawsPicture
<1>2. QED
  BY <1>1, RoundTripRight, PTL

\* Reading the pending run of a canvas brings the two caches together.
THEOREM CanvasCaches ==
  ASSUME CornersDrawn
  PROVE  CanvasSpec => []CachesAgree
<1>1. CanvasSpec => Spec
  BY PictureDrawn DEF DrawsPicture
<1>2. QED
  BY <1>1, CachesRight, PTL

\* The stream of a canvas is no longer than osd_cmpr_get_bs_buf_max_sz says of a
\* frame of its size.  The functions that draw a canvas leave the size of its
\* buffer to the caller.
THEOREM CanvasFits ==
  ASSUME CornersDrawn
  PROVE  CanvasSpec => []FitsBuffer
<1>1. CanvasSpec => Spec
  BY PictureDrawn DEF DrawsPicture
<1>2. QED
  BY <1>1, BufferRight, PTL

\* A canvas writes the longest runs, the frame encoder's, however it is cut.
THEOREM CanvasRuns ==
  ASSUME CornersDrawn
  PROVE  CanvasSpec => RunsLongest
<1>1. CanvasSpec => Spec
  BY PictureDrawn DEF DrawsPicture
<1>2. QED
  BY <1>1, RunsRight, PTL

=============================================================================
