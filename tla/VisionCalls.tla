------------------------------- MODULE VisionCalls -------------------------------
(***************************************************************************)
(* What the detectors and the evaluation's kernels are asked, and what     *)
(* must hold of their answers.                                             *)
(***************************************************************************)
EXTENDS Polygons, Detectors

-----------------------------------------------------------------------------
(* Overlaps of polygons. *)

Grid == (0 .. 2) \X (0 .. 2)
PointOf(g) == Point(g[1], g[2])
Shape(places) == [i \in DOMAIN places |-> PointOf(places[i])]
Rectangle(x1, y1, x2, y2) == Shape(<<<<x1, y1>>, <<x2, y1>>, <<x2, y2>>, <<x1, y2>>>>)
Rectangles == {<<x1, y1, x2, y2>> \in (0 .. 2) \X (0 .. 2) \X (1 .. 3) \X (1 .. 3) : x1 < x2 /\ y1 < y2}

\* A triangle has its last corner twice.
Before(a, b) == a[1] < b[1] \/ (a[1] = b[1] /\ a[2] < b[2])
Corners == {<<a, b, c>> \in {<<0, 0>>, <<0, 1>>} \X Grid \X Grid : Before(a, b) /\ Before(b, c)}
Triangles == {Shape(<<t[1], t[2], t[3], t[3]>>) : t \in Corners}
Shapes ==
  {Rectangle(0, 0, 2, 1), Shape(<<<<1, 0>>, <<2, 1>>, <<1, 2>>, <<0, 1>>>>), Shape(<<<<1, 1>>, <<0, 0>>, <<3, 1>>, <<0, 2>>>>),
   Shape(<<<<1, 1>>, <<1, 1>>, <<2, 2>>, <<2, 2>>>>)}
Moved(p, x, y) == [i \in DOMAIN p |-> [x |-> Plus(p[i].x, Whole(x)), y |-> Plus(p[i].y, Whole(y))]]

AtMost(a, b) == Sig(Minus(b, a)) # -1
Cut(p) == <<<<p[1], p[2], p[3], p[3]>>, <<p[1], p[3], p[4], p[4]>>>>

\* What two polygons have in common depends neither on which comes first nor
\* on where they are or how they are turned, and parts add up to the whole.
OverlapIsMeasured(p, q) ==
  LET common == IntersectArea(p, q) IN
  /\ IntersectArea(Moved(Reverse(q), -1, 2), Moved(p, -1, 2)) = common
  /\ common = Plus(IntersectArea(Cut(p)[1], q), IntersectArea(Cut(p)[2], q))
  /\ AtMost(Whole(0), common) /\ AtMost(common, AbsF(Area(p))) /\ AtMost(common, AbsF(Area(q)))

\* Only polygons that are the same overlap completely, those without an area
\* aside.
Compared(p, q) ==
  LET iou == DevPolyIoU(p, q) IN
  /\ IntersectArea(p, p) = AbsF(Area(p))
  /\ iou = IF Area(p).n = 0 /\ Area(q).n = 0 THEN Whole(1) ELSE IouPoly(p, q)
  /\ Area(p).n # 0 => (iou = Whole(1) <=> p = q)

Common1(a1, a2, b1, b2) == LET d == Smaller(a2, b2) - Greater(a1, b1) IN Greater(d, 0)
RectanglesOverlap(r, s) ==
  IntersectArea(Rectangle(r[1], r[2], r[3], r[4]), Rectangle(s[1], s[2], s[3], s[4]))
    = Whole(2 * Common1(r[1], r[3], s[1], s[3]) * Common1(r[2], r[4], s[2], s[4]))

\* A box turned by a quarter is the box with its sides exchanged.
BoxTurns(box) ==
  LET p == RotBox2Poly(box)
      q == RotBox2Poly([box EXCEPT !.quarter = (@ + 1) % 4, !.w = box.h, !.h = box.w])
  IN /\ Range(p) = Range(q) /\ AbsF(Area(p)) = Whole(2 * box.w * box.h)
     /\ RotBoxIoU(box, [box EXCEPT !.quarter = (@ + 1) % 4, !.w = box.h, !.h = box.w]) = Whole(1)

-----------------------------------------------------------------------------
(* Suppression and overlaps. *)

PairsOf(n) == {<<i, j>> \in (0 .. n - 1) \X (0 .. n - 1) : i < j}
BothWays(pairs) == pairs \cup {<<e[2], e[1]>> : e \in pairs}

\* A box is kept if and only if none before it that is kept overlaps it.
SuppressesGreedily(n, pairs) ==
  LET kept == PolyNms(n, BothWays(pairs)) IN
  /\ \A k \in 1 .. Len(kept) - 1 : kept[k] < kept[k + 1]
  /\ \A i \in 0 .. n - 1 : i \in Range(kept) <=> ~\E j \in Range(kept) : <<j, i>> \in pairs

\* Each overlap is written once.
OverlapsWritten(n, k) == \A offset \in 0 .. (n * k) - 1 : Cardinality(OverlapsAt(n, k, offset)) = 1

-----------------------------------------------------------------------------
(* Detections. *)

\* The image handed over is no larger than the network takes it, one of its
\* sides is as long as it may be, and it is empty only if one side of the
\* picture is more than MaxInputSide times the other.
InputFits(rows, cols) ==
  LET in == NetworkInput(rows, cols)
      long == Greater(in.height, in.width)
      short == Smaller(in.height, in.width)
  IN /\ long <= MaxInputSide /\ short <= MinInputSide
     /\ long = MaxInputSide \/ short = MinInputSide
     /\ short = 0 <=> MaxInputSide * Smaller(rows, cols) < Greater(rows, cols)
     /\ rows <= cols => in.height <= in.width

\* The answer about two rois: all numbers are different, but for the scores.
Rois == 2
BoxNumbers(angle) == [at \in 0 .. (Rois * 5) - 1 |-> IF at % 5 = 4 THEN angle ELSE 10 + at]
DeltaNumbers(da) == [at \in 0 .. (Rois * ClassNum * 5) - 1 |-> IF at % 5 = 4 THEN da ELSE 1 + at]
ScoreTables == [0 .. (Rois * ClassNum) - 1 -> 0 .. 2]

\* A detection is a roi moved by what the network says of it for this class; it
\* has that score, which is high enough; of two that overlap the better stays.
DetectsWhatIsThere(angle, da, scores, order, over) ==
  LET pred == BboxTransformInv(Rois, DeltaNumbers(da), scores, BoxNumbers(angle))
      found == Detections(Rois, pred, 1, order, over)
      box(n, c) ==
        LET b(k) == (n * 5) + 10 + k
            d(k) == (((n * ClassNum) + c) * 5) + 1 + k
        IN <<b(0) + (b(3) * d(0)), b(1) + (b(2) * d(1)), b(3) * d(2), b(2) * d(3)>>
      foundAs(k) == {n \in 0 .. Rois - 1 : \A f \in 1 .. 4 : found[k].box[f - 1] = box(n, found[k].label)[f]}
  IN /\ \A k \in DOMAIN found :
          /\ found[k].label \in 1 .. ClassNum - 1 /\ Cardinality(foundAs(k)) = 1
          /\ \A n \in foundAs(k) : found[k].score = scores[(n * ClassNum) + found[k].label] /\ found[k].score > 1
          /\ found[k].box[4] \in -3 .. 9 /\ (found[k].box[4] - (angle + da)) % 12 = 0
     /\ \A j, k \in DOMAIN found :
          j < k => \/ found[j].label < found[k].label
                   \/ /\ found[j].label = found[k].label /\ found[j].score >= found[k].score
                      /\ {0, 1} \notin over[found[j].label] /\ foundAs(j) # foundAs(k)
     /\ \A c \in 1 .. ClassNum - 1 :
          (\E n \in 0 .. Rois - 1 : scores[(n * ClassNum) + c] > 1) => \E k \in DOMAIN found : found[k].label = c

Orders(scores) ==
  LET boxes(c) == [n \in 0 .. Rois - 1 |-> [k \in {5} |-> scores[(n * ClassNum) + c]]] IN
  {o \in [1 .. ClassNum - 1 -> UNION {Sorted(Rois, boxes(c)) : c \in 1 .. ClassNum - 1}] :
     \A c \in 1 .. ClassNum - 1 : o[c] \in Sorted(Rois, boxes(c))}
Overlapping == [1 .. ClassNum - 1 -> {{}, {{0, 1}}}]

\* All boxes above the threshold are drawn; what is behind the last is looked
\* at only if all are.
DrawsTheCertain(scores, thresh) ==
  LET r == VisDetections(scores, thresh)
      sorted == \A k \in 2 .. Len(scores) : scores[k - 1] >= scores[k]
  IN sorted => /\ r.drawn = Cardinality({k \in DOMAIN scores : scores[k] > thresh})
               /\ r.beyond <=> r.drawn = Len(scores)

\* The corners are those of a rectangle around the centre, with these sides.
CornersAround(cx, cy, h, w, quarter) ==
  LET p == ComputeLocation(cx, cy, h, w, quarter)
      opposite(i, j) == p[i][1] + p[j][1] = 4 * cx /\ p[i][2] + p[j][2] = 4 * cy
      length(i, j) == Abs(p[i][1] - p[j][1]) + Abs(p[i][2] - p[j][2])
  IN opposite(1, 3) /\ opposite(2, 4) /\ length(1, 2) = 2 * w /\ length(2, 3) = 2 * h

\* A client that reads the corners of a reply finds the ships that were
\* detected, in their order; there is no result of nothing.
ShipsAreToldOf(scores, h, w, quarter) ==
  LET corners == [k \in DOMAIN scores |-> ComputeLocation(k, 3, h, w, quarter)]
      reply == ShipReply([k \in DOMAIN scores |-> ShipRow(1 + (k % 2), scores[k], corners[k])])
      told(r) == <<<<r.x1, r.y1>>, <<r.x2, r.y2>>, <<r.x3, r.y3>>, <<r.x4, r.y4>>>>
  IN /\ reply.result_nums = Len(scores) /\ ("result" \in DOMAIN reply <=> scores # <<>>)
     /\ \A k \in DOMAIN scores :
          LET r == reply.result[k] IN r.label = 1 + (k % 2) /\ r.score = scores[k] /\ told(r) = corners[k]

\* A network that passes the checks gets samples of the depth it was made for.
SamplesFit(inputs, outputs, channels, image) ==
  SarAccepts(inputs, outputs, channels) /\ image \in {1, 3, 4} => SampleChannels(image, channels) = channels

\* What a client reads from a reply about boxes.
ToldBoxes(reply) ==
  [k \in 1 .. reply.result_nums |->
     LET r == reply.result[k] IN <<r.label, r.score, r.xmin, r.ymin, r.xmax, r.ymax>>]

SarRows == {<<i, 1, 1, a, 1, a, 2>> : i \in {-1, 0}, a \in 0 .. 2}
SarFinds(rows, height, width) ==
  LET found == SarDetections(rows, height, width)
      valid == {k \in DOMAIN rows : rows[k][1] # -1}
  IN /\ Len(found) = Cardinality(valid)
     /\ \A k \in valid : found[Cardinality(valid \cap 1 .. k)] =
          <<rows[k][2], rows[k][3], width * rows[k][4], height * rows[k][5], width * rows[k][6], height * rows[k][7]>>
     /\ ToldBoxes(SarReply(found)) = found

\* A box is found once for each class it may be of, in the order of the boxes.
YoloFinds(boxes, prob, classes) ==
  LET found == YoloDetections(boxes, prob, classes)
      sure == {<<i, j>> \in (DOMAIN boxes) \X (0 .. classes - 1) : prob[i][j] # 0}
      rank(e) == Cardinality({f \in sure : f[1] < e[1] \/ (f[1] = e[1] /\ f[2] <= e[2])})
  IN /\ Len(found) = Cardinality(sure) /\ ToldBoxes(YoloReply(found)) = found
     /\ \A e \in sure :
          LET d == found[rank(e)]
              b == boxes[e[1]]
          IN /\ d[1] = e[2] + 1 /\ d[2] = prob[e[1]][e[2]]
             /\ d[3] + d[5] = 4 * b[1] /\ d[4] + d[6] = 4 * b[2] /\ d[5] - d[3] = 2 * b[3] /\ d[6] - d[4] = 2 * b[4]

\* Each byte of a picture is in the plane of its colour at its pixel's place.
PlanesHold(w, h, step) ==
  LET data == [at \in 0 .. (step * h) - 1 |-> at]
      planes == Swapped(ToPlanes(data, w, h, 3, step), w * h)
  IN \A x \in 0 .. w - 1, y \in 0 .. h - 1, k \in 0 .. 2 :
       planes[((2 - k) * w * h) + (y * w) + x] = (y * step) + (x * 3) + k

\* All this for small boxes, rows and scores.
BoxesHold(i, j) ==
  /\ \A h, w \in 1 .. 3, quarter \in 0 .. 3 : CornersAround(i, j, h, w, quarter)
  /\ \A h \in 1 .. 2, quarter \in 0 .. 1 : BoxTurns([x |-> i, y |-> j, w |-> 2, h |-> h, quarter |-> quarter])
  /\ \A h, w \in 1 .. 3 : PlanesHold(w, h, 3 * w + j)
  /\ \A scores \in [1 .. j -> 0 .. 3] : DrawsTheCertain(scores, i)
  /\ \A scores \in [1 .. j -> 2 .. 3], h \in 1 .. 2, w \in 1 .. 3, quarter \in 0 .. 3 : ShipsAreToldOf(scores, h, w, quarter)
  /\ \A rows \in [1 .. j -> SarRows] : SarFinds(rows, 2, 3)
  /\ \A prob \in [1 .. i -> [0 .. 1 -> 0 .. 2]] : YoloFinds([k \in 1 .. i |-> <<k, 5 - k, k, 2 * k>>], prob, 2)
  /\ \A inputs, outputs \in 0 .. 2, channels \in 0 .. 4 : SamplesFit(inputs, outputs, channels, 1 + j)
==============================================================================
