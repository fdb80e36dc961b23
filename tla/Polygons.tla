-------------------------------- MODULE Polygons --------------------------------
(***************************************************************************)
(* How much two quadrilaterals overlap, as polyiou.cpp and the kernels of  *)
(* poly_nms_gpu compute it: the triangles each edge makes with the origin  *)
(* are cut with each other, and their areas counted with their signs.      *)
(* Numbers are fractions; areas are counted twice.                         *)
(***************************************************************************)
EXTENDS Integers, Sequences, FiniteSets, SequencesExt

Abs(n) == IF n < 0 THEN -n ELSE n

RECURSIVE Gcd(_, _)
Gcd(m, n) == IF n = 0 THEN m ELSE Gcd(n, m % n)

\* Fractions in lowest terms.
Frac(n, d) ==
  IF d = 1 THEN [n |-> n, d |-> 1]
  ELSE LET g == Gcd(Abs(n), Abs(d)) * (IF d < 0 THEN -1 ELSE 1) IN [n |-> n \div g, d |-> d \div g]
Whole(n) == [n |-> n, d |-> 1]
Plus(a, b) == Frac((a.n * b.d) + (b.n * a.d), a.d * b.d)
Times(a, b) == Frac(a.n * b.n, a.d * b.d)
Minus(a, b) == Plus(a, [b EXCEPT !.n = -@])
Over(a, b) == Frac(a.n * b.d, a.d * b.n)
Sig(a) == IF a.n > 0 THEN 1 ELSE IF a.n < 0 THEN -1 ELSE 0
AbsF(a) == [a EXCEPT !.n = Abs(@)]
Sum(s) == FoldLeft(Plus, Whole(0), s)

Point(x, y) == [x |-> Whole(x), y |-> Whole(y)]
Origin == Point(0, 0)

Cross(o, a, b) ==
  Minus(Times(Minus(a.x, o.x), Minus(b.y, o.y)), Times(Minus(b.x, o.x), Minus(a.y, o.y)))

Following(p, i) == p[(i % Len(p)) + 1]

\* area, counted twice.
Area(p) == Sum([i \in DOMAIN p |-> Minus(Times(p[i].x, Following(p, i).y), Times(p[i].y, Following(p, i).x))])

\* lineCross, which is called when c and d are not on the same side of ab.
LineCross(a, b, c, d) ==
  LET s1 == Cross(a, b, c)
      s2 == Cross(a, b, d)
      at(u, v) == Over(Minus(Times(u, s2), Times(v, s1)), Minus(s2, s1))
  IN [x |-> at(c.x, d.x), y |-> at(c.y, d.y)]

\* What polygon_cut leaves out: a point that repeats the one before it, and at
\* the end those that repeat the first.
RECURSIVE WithoutLast(_)
WithoutLast(p) == IF Len(p) > 1 /\ Last(p) = Head(p) THEN WithoutLast(Front(p)) ELSE p
WithoutRepeats(p) ==
  WithoutLast(FoldLeft(LAMBDA q, v : IF q # <<>> /\ Last(q) = v THEN q ELSE Append(q, v), <<>>, p))

\* The part of p to the left of ab.
PolygonCut(p, a, b) ==
  LET side == [i \in DOMAIN p |-> Sig(Cross(a, b, p[i]))]
      crossed(i) == side[i] # Following(side, i)
  IN WithoutRepeats(FlattenSeq([i \in DOMAIN p |->
       (IF side[i] > 0 THEN <<p[i]>> ELSE <<>>)
         \o (IF crossed(i) THEN <<LineCross(a, b, p[i], Following(p, i))>> ELSE <<>>)]))

\* intersectArea of the triangles oab and ocd.
TriangleOverlap(a, b, c, d) ==
  LET s1 == Sig(Cross(Origin, a, b))
      s2 == Sig(Cross(Origin, c, d))
      p == IF s1 = -1 THEN <<Origin, b, a>> ELSE <<Origin, a, b>>
      from == IF s2 = -1 THEN d ELSE c
      to == IF s2 = -1 THEN c ELSE d
      cut == PolygonCut(PolygonCut(PolygonCut(p, Origin, from), from, to), to, Origin)
      overlap == AbsF(Area(cut))
  IN IF s1 = 0 \/ s2 = 0 THEN Whole(0)
     ELSE IF s1 * s2 = -1 THEN Minus(Whole(0), overlap) ELSE overlap

\* point_reverse, where the area is negative.
Oriented(p) == IF Sig(Area(p)) = -1 THEN Reverse(p) ELSE p

\* intersectArea of two polygons.
IntersectArea(p, q) ==
  LET u == Oriented(p)
      v == Oriented(q)
  IN Sum([i \in DOMAIN u |-> Sum([j \in DOMAIN v |-> TriangleOverlap(u[i], Following(u, i), v[j], Following(v, j))])])

UnionArea(p, q) == Minus(Plus(AbsF(Area(p)), AbsF(Area(q))), IntersectArea(p, q))

\* iou_poly of polyiou.cpp: where both areas are 0 the quotient is no number.
NotANumber == [n |-> 0, d |-> 0]
IouPoly(p, q) == IF UnionArea(p, q).n = 0 THEN NotANumber ELSE Over(IntersectArea(p, q), UnionArea(p, q))

\* devPolyIoU of the kernels: there they count as the same.
DevPolyIoU(p, q) ==
  IF UnionArea(p, q).n = 0 THEN Over(Plus(IntersectArea(p, q), Whole(1)), Whole(1))
  ELSE Over(IntersectArea(p, q), UnionArea(p, q))

\* RotBox2Poly, for an angle of a number of quarters.
RotBox2Poly(box) ==
  LET cs == CASE box.quarter = 0 -> 1 [] box.quarter = 2 -> -1 [] OTHER -> 0
      ss == CASE box.quarter = 1 -> 1 [] box.quarter = 3 -> -1 [] OTHER -> 0
      corner(w, h) == [x |-> Plus(Whole(box.x), Frac((cs * w) - (ss * h), 2)), y |-> Plus(Whole(box.y), Frac((ss * w) + (cs * h), 2))]
  IN <<corner(box.w, -box.h), corner(box.w, box.h), corner(-box.w, box.h), corner(-box.w, -box.h)>>

\* devPolyIoU of poly_overlaps_kernel, of two such boxes.
RotBoxIoU(b, c) == DevPolyIoU(RotBox2Poly(b), RotBox2Poly(c))

-----------------------------------------------------------------------------
(* The kernels around the overlap: which thread computes what, and what    *)
(* the host makes of the bit masks.  Boxes are numbered from 0.            *)

ThreadsPerBlock == 2   \* 64 in the code
SideOfBlock == 2       \* 32 in _overlaps

DivUp(m, n) == (m \div n) + (IF m % n > 0 THEN 1 ELSE 0)
Lesser(m, n) == IF m < n THEN m ELSE n

\* poly_nms_kernel: the mask of box i for a block of columns is the set of the
\* bits of the boxes that overlap it too much; over is the pairs that do.
Mask(n, over, i, column) ==
  LET row == i \div ThreadsPerBlock
      thread == i % ThreadsPerBlock
      columns == Lesser(n - (column * ThreadsPerBlock), ThreadsPerBlock)
      start == IF row = column THEN thread + 1 ELSE 0
  IN {bit \in start .. columns - 1 : <<i, (ThreadsPerBlock * column) + bit>> \in over}

RECURSIVE KeepFrom(_, _, _, _)
\* The loop of _poly_nms.
KeepFrom(n, over, i, removed) ==
  IF i >= n THEN <<>>
  ELSE LET block == i \div ThreadsPerBlock IN
       IF i % ThreadsPerBlock \in removed[block] THEN KeepFrom(n, over, i + 1, removed)
       ELSE <<i>> \o KeepFrom(n, over, i + 1,
              [j \in DOMAIN removed |-> IF j < block THEN removed[j] ELSE removed[j] \cup Mask(n, over, i, j)])

PolyNms(n, over) == KeepFrom(n, over, 0, [j \in 0 .. DivUp(n, ThreadsPerBlock) - 1 |-> {}])

\* overlaps_kernel: the pairs of a box and a query whose overlap is written at
\* an offset, one for each thread of _overlaps that writes there.
Threads(n, k) ==
  (0 .. (DivUp(n, SideOfBlock) * SideOfBlock) - 1) \X (0 .. (DivUp(k, SideOfBlock) * SideOfBlock) - 1)
OverlapsAt(n, k, offset) ==
  {t \in Threads(n, k) : t[1] < n /\ t[2] < k /\ (t[1] * k) + t[2] = offset}
==============================================================================
