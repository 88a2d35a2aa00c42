---------------------------- MODULE MCOsdCanvas ----------------------------
\* A canvas of five by four pixels with two or three objects: rectangles,
\* stroked ones, bitmaps, lines, some cut off at the border and some empty.
EXTENDS OsdCanvas

bg == Gray(0)
red == [a |-> 1, c |-> 1]
blue == [a |-> 1, c |-> 2]
MCColors == {bg, red, blue}

Rects(c) ==
  {RectObj(c, p[1], q[1], p[2], q[2], TRUE, 1) :
     p \in {<<0, 2>>, <<1, 3>>, <<2, 9>>, <<-1, 4>>, <<3, 1>>, <<2, 0>>},
     q \in {<<0, 1>>, <<1, 2>>, <<0, 9>>, <<3, 1>>}}
Strokes(c) ==
  {RectObj(c, p[1], p[2], p[3], p[4], FALSE, 2) :
     p \in {<<0, 0, 5, 4>>, <<1, 0, 4, 4>>, <<1, 1, 3, 2>>}}
Lines(c) ==
  {AxisLineObj(c, 0, 2, 5, 2, 1), AxisLineObj(c, 3, 1, 3, 4, 2),
   SlopeObj(c, 0, 3, [r \in 0 .. 2 |-> <<r, r + 2>>]),
   SlopeObj(c, 1, 4, [r \in 1 .. 3 |-> <<4 - r, 4 - (r \div 2)>>])}

\* A picture of the given size: its columns and rows differ.
Pic(w, h) == [i \in 0 .. w * h - 1 |-> IF ((i % w) + (i \div w)) % 3 = 0 THEN red ELSE blue]
Bitmaps ==
  {BitmapObj(Pic(p[3], p[4]), p[1], p[2], p[3], p[4]) :
     p \in {<<0, 0, 2, 2>>, <<2, 1, 2, 3>>, <<3, 2, 4, 4>>}}
Cmprs ==
  {CmprBitmapObj(Pic(p[3], p[4]), p[1], p[2], p[3], p[4]) :
     p \in {<<0, 0, 2, 2>>, <<1, 1, 4, 3>>, <<2, 2, 4, 4>>}}

Shapes(c) == Rects(c) \cup Strokes(c) \cup Lines(c)
MCPictures ==
  {<<o, p>> : o \in Shapes(red) \cup Bitmaps, p \in Shapes(blue) \cup Bitmaps \cup Cmprs}
  \cup {<<o, p, q>> : o \in {r \in Rects(red) : r.minY = 0},
                      p \in {r \in Rects(blue) : r.minY = 1} \cup Strokes(blue),
                      q \in Lines(red) \cup Strokes(red)}

ASSUME CornersAreDrawn == \A p \in MCPictures : CornerDrawn(p)

\* A stroked rectangle too low to have any thickness, in the corner.
LowStroke == <<RectObj(red, 0, 0, 4, 2, FALSE, 1)>>
EmptyPictures == {LowStroke}
=============================================================================
