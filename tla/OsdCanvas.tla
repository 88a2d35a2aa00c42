----------------------------- MODULE OsdCanvas -----------------------------
(***************************************************************************)
(* Drawing a canvas straight into a compressed stream,                     *)
(* modules/osdc/src/cmpr_canvas.cpp.                                       *)
(*                                                                         *)
(* The objects of the canvas are never painted into a picture.  A line is  *)
(* cut into segments of one object each, by a sweep over the slices that   *)
(* the objects have on the line; the segments serve for all lines up to    *)
(* the next on which some object begins or ends, and go to the encoder of  *)
(* OsdCmpr.  What the decoder makes of the stream is to be the picture a   *)
(* painter gets who paints one object over the other.                      *)
(*                                                                         *)
(* The slices of a sloping line come from floating-point geometry; here    *)
(* they are any slices the code's clipping lets through.  A compressed     *)
(* bitmap is not covered by another object: the code can only read its     *)
(* lines from their beginning, and once per line.                          *)
(***************************************************************************)
EXTENDS OsdCmpr, SequencesExt

CONSTANTS
  W, H,       \* width and height of the canvas
  Ground,     \* bg_color_code
  PairMax,    \* pixels of one pair of a compressed bitmap, 256 in the code
  Pictures    \* the sequences of objects drawn, as the operators below make them

ASSUME CanvasAssumption ==
  /\ W \in Nat \ {0} /\ H \in Nat \ {0} /\ N = W * H
  /\ Ground \in Colors /\ PairMax \in Nat \ {0}

VARIABLES
  objs,    \* obj_vec
  y,       \* the first line the segments are for
  nextY,   \* the first line they are not for
  x,       \* how far the line is cut into segments
  slices,  \* slice_vec
  next,    \* next_slice_idx, counted from 1: no slice when it is not positive
  segs,    \* segment_vec
  line,    \* line_i
  seg,     \* seg_i
  pel,     \* pixels of the segment already drawn
  stage    \* "project", "plot", "draw"

sweep == <<x, slices, next, segs>>
drawing == <<line, seg, pel>>
canvasVars == <<objs, y, nextY, sweep, drawing, stage>>
allVars == <<vars, canvasVars>>

-----------------------------------------------------------------------------
\* Vectors from which elements are erased

\* The members of a finite set of numbers, the least first.
InOrder(S) ==
  [i \in 1 .. Cardinality(S) |->
     CHOOSE k \in S : Cardinality({j \in S : j < k}) = i - 1]

\* What is left of the vector s when only the places in S are kept.
KeepPlaces(s, S) == LET at == InOrder(S) IN [i \in DOMAIN at |-> s[at[i]]]

-----------------------------------------------------------------------------
\* The objects

Greater(m, n) == IF m >= n THEN m ELSE n
Clip(v, low, high) == Greater(low, Lesser(v, high))

Object(type, px, py, w, h) ==
  LET rx == Clip(px, 0, W - 1)
      ry == Clip(py, 0, H - 1)
      rh == Clip(h, 0, H - ry)
  IN  [type |-> type, x |-> rx, y |-> ry, w |-> Clip(w, 0, W - rx), h |-> rh,
       minY |-> ry, maxY |-> ry + rh, thickness |-> 0, color |-> Ground,
       pic |-> <<>>, stride |-> w, pairs |-> <<>>, lens |-> <<>>, off |-> 0,
       spans |-> <<>>]

RectObj(c, px, py, w, h, filled, t) ==
  LET o == Object(IF filled THEN "rect" ELSE "stroke", px, py, w, h) IN
  [o EXCEPT !.color = c,
            !.thickness = Lesser(Greater(Lesser(o.h, o.w) \div 2 - 1, 0),
                                 Clip(t, 1, 32))]

BitmapObj(pic, px, py, w, h) ==
  [Object("bitmap", px, py, w, h) EXCEPT !.pic = pic]

\* The first n of the pixels pic[at], pic[at + 1], ... that are equal.
Repeat(pic, at, n) ==
  CHOOSE k \in 1 .. n :
    /\ \A i \in 0 .. k - 1 : pic[at + i] = pic[at]
    /\ k = n \/ pic[at + k] # pic[at]

\* cmpr_bitmap: every line as pairs of a length and a colour, and the number
\* of pairs of every line.
PairsOfLine(pic, w, r) ==
  LET rest[k \in 0 .. w] ==
        IF k = w THEN <<>>
        ELSE LET n == Lesser(Repeat(pic, r * w + k, w - k), PairMax) IN
             <<<<n, pic[r * w + k]>>>> \o rest[k + n]
  IN  rest[0]

CmprBitmapObj(pic, px, py, w, h) ==
  LET rows == [r \in 1 .. h |-> PairsOfLine(pic, w, r - 1)] IN
  [Object("cmpr", px, py, w, h) EXCEPT
     !.pic = pic, !.pairs = FlattenSeq(rows),
     !.lens = [r \in 1 .. h |-> Len(rows[r])]]

\* A line along an axis is a filled rectangle.
AxisLineObj(c, x0, y0, x1, y1, t) ==
  LET th == Clip(t, 1, 32)
      ax == Clip(x0, 0, W)  bx == Clip(x1, 0, W)
      ay == Clip(y0, 0, H)  by == Clip(y1, 0, H)
  IN  RectObj(c, Lesser(ax, bx) - th \div 2, Lesser(ay, by) - th \div 2,
              th + Greater(ax, bx) - Lesser(ax, bx),
              th + Greater(ay, by) - Lesser(ay, by), TRUE, th)

\* spans is a function from the lines of the object to its slices.
SlopeObj(c, minY, maxY, spans) ==
  [Object("line", 0, 0, 0, 0) EXCEPT
     !.color = c, !.minY = minY, !.maxY = maxY, !.spans = spans]

-----------------------------------------------------------------------------
\* What the objects handed to draw_cmpr_canvas have in common

OnLine(o, r) == o.minY <= r /\ r < o.maxY
Beside(o, r) == o.y + o.thickness <= r /\ r < o.y + o.h - o.thickness

\* Where the object is on line r: from, and to but without.
Sides(o, r) ==
  IF ~OnLine(o, r) THEN <<>>
  ELSE CASE o.type = "line" -> <<o.spans[r]>>
         [] o.type = "stroke" /\ Beside(o, r) ->
              <<<<o.x, o.x + o.thickness>>, <<o.x + o.w - o.thickness, o.x + o.w>>>>
         [] OTHER -> <<<<o.x, o.x + o.w>>>>

\* Where the pairs of each line of a compressed bitmap begin, and the column
\* each pair begins at.
LineBegins(lens) ==
  LET b[r \in 0 .. Len(lens)] == IF r = 0 THEN 0 ELSE b[r - 1] + lens[r] IN b

PairBegins(pairs, lens) ==
  LET firsts == {LineBegins(lens)[r] + 1 : r \in 0 .. Len(lens)}
      c[p \in 1 .. Len(pairs)] ==
        IF p \in firsts THEN 0 ELSE c[p - 1] + pairs[p - 1][1]
  IN  c

\* The pairs of every line are its pixels.
CmprWellFormed(o) ==
  LET b == LineBegins(o.lens)
      c == PairBegins(o.pairs, o.lens)
  IN
  /\ b[0] = 0
  /\ \A r \in 0 .. o.h - 1 :
       /\ b[r] \in Nat /\ o.lens[r + 1] \in Nat /\ b[r + 1] = b[r] + o.lens[r + 1]
       /\ o.w > 0 => b[r] < b[r + 1] /\ c[b[r] + 1] = 0
       /\ \A p \in b[r] + 1 .. b[r + 1] :
            /\ c[p] \in Nat /\ o.pairs[p][1] \in Nat \ {0}
            /\ IF p < b[r + 1] THEN c[p + 1] = c[p] + o.pairs[p][1]
               ELSE o.stride = c[p] + o.pairs[p][1]
            /\ \A i \in 0 .. o.pairs[p][1] - 1 :
                 o.pic[r * o.stride + (c[p] + i)] = o.pairs[p][2]

WellFormed(o) ==
  /\ DOMAIN o = DOMAIN Object("rect", 0, 0, 0, 0)
  /\ o.type \in {"rect", "stroke", "bitmap", "cmpr", "line"}
  /\ o.color \in Colors
  /\ o.minY \in Nat /\ o.maxY \in o.minY .. H
  /\ o.type = "line" =>
       \A r \in o.minY .. o.maxY - 1 :
         /\ o.spans[r][1] \in 0 .. W /\ o.spans[r][2] \in o.spans[r][1] .. W
  /\ o.type # "line" =>
       /\ o.x \in Nat /\ o.w \in Nat /\ o.x + o.w <= W
       /\ o.y = o.minY /\ o.h \in Nat /\ o.maxY = o.y + o.h
  /\ o.type = "stroke" =>
       /\ o.thickness \in Nat
       /\ 2 * o.thickness <= o.w /\ (o.h > 0 => 2 * o.thickness < o.h)
  /\ o.type \in {"bitmap", "cmpr"} =>
       /\ o.stride \in Nat /\ o.w <= o.stride
       /\ \A r \in 0 .. o.h - 1 : \A i \in 0 .. o.w - 1 :
            o.pic[r * o.stride + i] \in Colors
  /\ o.type = "cmpr" => CmprWellFormed(o)

\* Nothing above a compressed bitmap begins in it or reaches into it.
CmprOnTop(picture) ==
  \A k \in DOMAIN picture, j \in DOMAIN picture, r \in 0 .. H - 1 :
    LET o == picture[k] IN
    k < j /\ o.type = "cmpr" /\ o.w > 0 /\ OnLine(o, r) =>
      \A i \in DOMAIN Sides(picture[j], r) :
        LET s == Sides(picture[j], r)[i] IN
        s[1] >= o.x + o.w \/ (s[1] < o.x /\ s[2] <= o.x)

\* Nothing empty begins at the first pixel of the canvas.
CornerDrawn(picture) ==
  \A k \in DOMAIN picture : \A i \in DOMAIN Sides(picture[k], 0) :
    Sides(picture[k], 0)[i][2] > 0

ASSUME PictureAssumption ==
  \A p \in Pictures :
    /\ Len(p) \in Nat /\ DOMAIN p = 1 .. Len(p)
    /\ \A k \in DOMAIN p : WellFormed(p[k]) /\ p[k].off = 0
    /\ CmprOnTop(p)

-----------------------------------------------------------------------------
\* The painter: every object over those before it.  The code has such a painter
\* for debugging (draw_canvas_raw_buffer2, compiled out), which does not clip
\* bitmaps: it begins at the bitmap's own corner.

Covers(o, px, py) ==
  /\ o.minY <= py /\ py < o.maxY
  /\ IF o.type = "line" THEN o.spans[py][1] <= px /\ px < o.spans[py][2]
     ELSE /\ o.x <= px /\ px < o.x + o.w
          /\ o.type = "stroke" =>
               \/ py < o.y + o.thickness \/ py >= o.y + o.h - o.thickness
               \/ px < o.x + o.thickness \/ px >= o.x + o.w - o.thickness

\* The colour an object that covers a pixel has there.
ColourAt(o, px, py) ==
  IF o.type \in {"bitmap", "cmpr"} THEN o.pic[(py - o.y) * o.stride + px - o.x]
  ELSE o.color

Painted(picture) ==
  [i \in 1 .. N |->
     LET px == (i - 1) % W
         py == (i - 1) \div W
         over == {k \in DOMAIN picture : Covers(picture[k], px, py)}
     IN  IF over = {} THEN Ground
         ELSE ColourAt(picture[CHOOSE k \in over : \A j \in over : j <= k], px, py)]

CanvasInit ==
  /\ CmprInit /\ api = "canvas"
  /\ objs \in Pictures /\ image = Painted(objs)
  /\ y = 0 /\ nextY = 0 /\ x = 0 /\ next = 0 /\ line = 0 /\ seg = 1 /\ pel = 0
  /\ slices = <<>> /\ segs = <<>>
  /\ stage = "project"

-----------------------------------------------------------------------------
\* obj_project_on_line

\* Slices are pushed object by object: the n-th that there can be, when no
\* object has more than two.
Slice(n) ==
  LET k == (n + 1) \div 2
      side == Sides(objs[k], y)[2 - (n % 2)]
  IN  [x0 |-> side[1], x1 |-> side[2], id |-> k]

Pushed ==
  {n \in 1 .. 2 * Len(objs) : 2 - (n % 2) \in DOMAIN Sides(objs[(n + 1) \div 2], y)}

\* Mutant: an object that is not on the line does not push the next one on.
LastsToStill(o) ==
  IF ~OnLine(o, y) THEN Greater(o.minY, y)
  ELSE CASE o.type = "line" -> y + 1
         [] o.type = "stroke" ->
              IF Beside(o, y) THEN o.y + o.h - o.thickness
              ELSE IF y > o.y + o.thickness THEN o.y + o.h
              ELSE o.y + o.thickness
         [] OTHER -> o.maxY

\* The line up to which the object looks as it does on line y.
LastsTo(o) ==
  IF ~OnLine(o, y) THEN Greater(o.minY, y + 1)
  ELSE CASE o.type = "line" -> y + 1
         [] o.type = "stroke" ->
              IF Beside(o, y) THEN o.y + o.h - o.thickness
              ELSE IF y > o.y + o.thickness THEN o.y + o.h
              ELSE o.y + o.thickness
         [] OTHER -> o.maxY

\* from, where the segment begins, is the sum of the widths before it.
Segment(from, width) ==
  [const |-> TRUE, cmpr |-> FALSE, from |-> from, width |-> width,
   color |-> Ground, at |-> 0, row |-> 0, id |-> 0]

\* A line that no object is on is one segment of background.
Project ==
  /\ stage = "project" /\ y < H
  /\ slices' = KeepPlaces([n \in 1 .. 2 * Len(objs) |-> Slice(n)], Pushed)
  /\ nextY' = LET ends == {H} \cup {LastsTo(objs[k]) : k \in DOMAIN objs} IN
              CHOOSE e \in ends : \A f \in ends : e <= f
  /\ next' = 0
  /\ x' = IF slices' = <<>> THEN W ELSE 0
  /\ segs' = IF slices' = <<>> THEN <<Segment(0, W)>> ELSE <<>>
  /\ stage' = "plot"
  /\ UNCHANGED <<vars, objs, y, drawing>>

-----------------------------------------------------------------------------
\* One segment of plot_segments_on_line

\* The slice to draw at x: the one the last segment stopped for, or else the
\* uppermost that x is in; 0 for the background.
Current ==
  IF next > 0 THEN next
  ELSE LET at == {k \in DOMAIN slices : slices[k].x0 <= x /\ x < slices[k].x1} IN
       IF at = {} THEN 0 ELSE CHOOSE k \in at : \A j \in at : j <= k

SegmentOf(cur, width) ==
  LET k == slices[cur].id
      o == objs[k]
  IN  IF o.type \in {"bitmap", "cmpr"}
      THEN [const |-> FALSE, cmpr |-> o.type = "cmpr", from |-> x, width |-> width,
            color |-> Ground, id |-> k, row |-> y - o.y,
            at |-> IF o.type = "cmpr" THEN o.off
                   ELSE (y - o.y) * o.stride + x - slices[cur].x0]
      ELSE [Segment(x, width) EXCEPT !.color = o.color]

\* Where it begins and ends; the background goes on from x to the end of the line.
CurBegin == IF Current = 0 THEN x ELSE slices[Current].x0
CurEnd == IF Current = 0 THEN W ELSE slices[Current].x1

\* The slices above it that begin in it.
Above ==
  {k \in Current + 1 .. Len(slices) :
     CurBegin <= slices[k].x0 /\ slices[k].x0 < CurEnd}

\* The uppermost of those that begin first; 0 when there is none.
Top ==
  LET first == {k \in Above : \A j \in Above : slices[k].x0 <= slices[j].x0} IN
  IF first = {} THEN 0 ELSE CHOOSE k \in first : \A j \in first : j <= k

\* Where the segment ends.
End == IF Top = 0 THEN CurEnd ELSE slices[Top].x0

\* Mutant: a slice that ends where the segment does is kept.
RecycledLate == {k \in 1 .. Current : End > slices[k].x1}

\* recycle_obj_slices: the slices that are over at End, up to the one drawn.
Recycled == {k \in 1 .. Current : End >= slices[k].x1}

Plot ==
  /\ stage = "plot" /\ x < W
  /\ segs' = Append(segs, IF Current = 0 THEN Segment(x, End - x)
                         ELSE SegmentOf(Current, End - x))
  /\ slices' = KeepPlaces(slices, DOMAIN slices \ Recycled)
  /\ next' = Top - Cardinality(Recycled)
  /\ x' = End
  /\ UNCHANGED <<vars, objs, y, nextY, drawing, stage>>

BeginLines ==
  /\ stage = "plot" /\ x >= W
  /\ stage' = "draw" /\ line' = 0 /\ seg' = 1 /\ pel' = 0
  /\ UNCHANGED <<vars, objs, y, nextY, sweep>>

-----------------------------------------------------------------------------
\* draw_cmpr_canvas_line, segment by segment

InSegment == stage = "draw" /\ y + line < nextY /\ seg <= Len(segs)
IsFirst == y + line = 0 /\ seg = 1 /\ pel = 0

DrawConst ==
  /\ InSegment /\ segs[seg].const
  /\ IF segs[seg].width > 0
     THEN DrawPixel(segs[seg].color, segs[seg].width, IsFirst)
     ELSE UNCHANGED vars
  /\ seg' = seg + 1
  /\ UNCHANGED <<objs, y, nextY, sweep, line, pel, stage>>

\* Equal pixels of a bitmap, or a pair of a compressed one.
DrawBitmap ==
  LET s == segs[seg]
      o == objs[s.id]
      n == Repeat(o.pic, s.at + pel, s.width - pel)
  IN
  /\ InSegment /\ ~s.const /\ ~s.cmpr /\ pel < s.width
  /\ DrawPixel(o.pic[s.at + pel], n, IsFirst)
  /\ pel' = pel + n
  /\ UNCHANGED <<objs, y, nextY, sweep, line, seg, stage>>

DrawPair ==
  LET s == segs[seg]
      pair == objs[s.id].pairs[s.at + 1]
      n == Lesser(pair[1], s.width - pel)
  IN
  /\ InSegment /\ ~s.const /\ s.cmpr /\ pel < s.width
  /\ DrawPixel(pair[2], n, IsFirst)
  /\ pel' = pel + n
  /\ segs' = [segs EXCEPT ![seg].at = @ + 1]
  /\ UNCHANGED <<objs, y, nextY, x, slices, next, line, seg, stage>>

\* Mutant: the object's offset into its pairs stays where it was.
EndBitmapStays ==
  LET s == segs[seg] IN
  /\ InSegment /\ ~s.const /\ pel >= s.width
  /\ segs' = [segs EXCEPT
       ![seg].at = IF s.cmpr THEN objs[s.id].off ELSE @ + objs[s.id].stride,
       ![seg].row = @ + 1]
  /\ pel' = 0 /\ seg' = seg + 1
  /\ UNCHANGED <<vars, objs, y, nextY, x, slices, next, line, stage>>

\* The segment and the object move on to the bitmap's next line.  The pixels
\* of a pair beyond the segment's width are not drawn.
EndBitmap ==
  LET s == segs[seg]
      o == objs[s.id]
      off == IF s.cmpr THEN o.off + o.lens[s.row + 1] ELSE o.off
  IN
  /\ InSegment /\ ~s.const /\ pel >= s.width
  /\ segs' = [segs EXCEPT ![seg].at = IF s.cmpr THEN off ELSE @ + o.stride,
                          ![seg].row = @ + 1]
  /\ objs' = [objs EXCEPT ![s.id].off = off]
  /\ pel' = 0 /\ seg' = seg + 1
  /\ UNCHANGED <<vars, y, nextY, x, slices, next, line, stage>>

NextLine ==
  /\ stage = "draw" /\ y + line < nextY /\ seg > Len(segs)
  /\ line' = line + 1 /\ seg' = 1
  /\ UNCHANGED <<vars, objs, y, nextY, sweep, pel, stage>>

\* recycle_draw_obj removes the objects that ended before the last line drawn.
EndLines ==
  /\ stage = "draw" /\ y + line >= nextY
  /\ y' = nextY
  /\ objs' = KeepPlaces(objs, {k \in DOMAIN objs : nextY - 1 <= objs[k].maxY})
  /\ stage' = "project"
  /\ UNCHANGED <<vars, nextY, sweep, drawing>>

Finish ==
  /\ stage = "project" /\ y >= H
  /\ DrawFinish
  /\ UNCHANGED canvasVars

\* draw_cmpr_pixel goes on to the end of a span before it returns.
CanvasNext ==
  \/ FollowedRun /\ UNCHANGED canvasVars
  \/ /\ left = 0
     /\ \/ Project \/ Plot \/ BeginLines
        \/ DrawConst \/ DrawBitmap \/ DrawPair \/ EndBitmap
        \/ NextLine \/ EndLines \/ Finish

\* The function runs in one thread, to its end.
CanvasSpec == CanvasInit /\ [][CanvasNext]_allVars /\ WF_allVars(CanvasNext)

-----------------------------------------------------------------------------
\* Every canvas is drawn to its end: cutting a line into segments gets past
\* slices without a pixel, which end where they begin (cmpr_canvas.cpp:273-333).
DrawEnds == <>(phase = "end")

\* The sweep never stands still: a segment moves x on, or it is empty and takes
\* slices that are over out of slice_vec, or it hands over to a slice further on
\* in it (cmpr_canvas.cpp:273-333).
SweepMoves ==
  [][stage = "plot" /\ stage' = "plot" =>
       \/ x' > x
       \/ x' = x /\ Len(slices') < Len(slices)
       \/ x' = x /\ Len(slices') = Len(slices) /\ next < next' /\ 0 < next']_canvasVars

\* The pixels that draw_cmpr_canvas hands to draw_cmpr_pixel are the picture's,
\* in its order, none left out and none twice (cmpr_canvas.cpp:355-367): drawing
\* a canvas is a way to encode the painter's picture.
DrawsPicture == Spec
=============================================================================
