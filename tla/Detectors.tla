-------------------------------- MODULE Detectors --------------------------------
(***************************************************************************)
(* libAlgorithm: what the three detectors do before and after their        *)
(* networks, which are external, as are the images' pixels.  Coordinates   *)
(* are integers; arrays of floats are functions from 0 on.                 *)
(***************************************************************************)
EXTENDS Integers, Sequences, FiniteSets, SequencesExt

-----------------------------------------------------------------------------
(* The ship detector: the size of the image it hands to the network.       *)

MinInputSide == 10   \* 1000 and 1700 in the code
MaxInputSide == 17

Greater(a, b) == IF a > b THEN a ELSE b
Smaller(a, b) == IF a < b THEN a ELSE b

\* img_scale as a fraction.
Scale(rows, cols) ==
  LET long == Greater(rows, cols)
      short == Smaller(rows, cols)
  IN IF MinInputSide * long > MaxInputSide * short THEN [n |-> MaxInputSide, d |-> long] ELSE [n |-> MinInputSide, d |-> short]
Scaled(side, scale) == (side * scale.n) \div scale.d

\* What Detection hands over of an image.
NetworkInput(rows, cols) ==
  LET s == Scale(rows, cols) IN [height |-> Scaled(rows, s), width |-> Scaled(cols, s), scale |-> s]

-----------------------------------------------------------------------------
(* What it makes of the network's answer.                                  *)

ClassNum == 3   \* 5 in the code; class 0 is the background

\* bbox_transform_inv: an angle and its correction, in units of 15 degrees.
Turned(angle, da) == LET a == angle + da IN IF a > 9 THEN a - 12 ELSE IF a < -3 THEN a + 12 ELSE a

\* boxes, deltas and pred are flat: five numbers to a roi, five to a class of a
\* roi, six to a roi of a class; a growth by exp(dw) is given as its factor.
BboxTransformInv(num, deltas, scores, boxes) ==
  [at \in 0 .. (num * ClassNum * 6) - 1 |->
     LET j == (at \div 6) \div num
         i == (at \div 6) % num
         b(k) == boxes[(i * 5) + k]
         d(k) == deltas[(((i * ClassNum) + j) * 5) + k]
     IN CASE at % 6 = 0 -> b(0) + (b(3) * d(0))
          [] at % 6 = 1 -> b(1) + (b(2) * d(1))
          [] at % 6 = 2 -> b(3) * d(2)
          [] at % 6 = 3 -> b(2) * d(3)
          [] at % 6 = 4 -> Turned(b(4), d(4))
          [] OTHER -> scores[(i * ClassNum) + j]]

\* Mutant: the predictions are taken as if a roi's classes came together.
PredPerClassMixed(num, pred, i) ==
  [j \in 0 .. num - 1 |-> [k \in 0 .. 5 |-> pred[(((j * ClassNum) + i) * 6) + k]]]

\* The boxes of one class; the division by reduce_scale is left out.
PredPerClass(num, pred, i) ==
  [j \in 0 .. num - 1 |-> [k \in 0 .. 5 |-> pred[(((i * num) + j) * 6) + k]]]

\* boxes_sort: std::sort leaves boxes with one score in any order.
Sorted(num, boxes) ==
  {o \in [0 .. num - 1 -> 0 .. num - 1] :
     /\ \A p, q \in 0 .. num - 1 : p # q => o[p] # o[q]
     /\ \A p \in 1 .. num - 1 : boxes[o[p - 1]][5] >= boxes[o[p]][5]}

\* _rotate_nms is external: a box stays unless one that stays and comes before
\* it overlaps it too much.
RECURSIVE Kept(_, _, _)
Kept(order, over, p) ==
  IF p = 0 THEN <<>>
  ELSE LET before == Kept(order, over, p - 1) IN
       IF \E k \in Range(before) : {k, order[p - 1]} \in over THEN before ELSE Append(before, order[p - 1])

\* The loop over the classes, for one order in each: what is pushed back.
Detections(num, pred, thresh, order, over) ==
  FlattenSeq([i \in 1 .. ClassNum - 1 |->
    LET boxes == PredPerClass(num, pred, i)
        kept == Kept(order[i], over[i], num)
        certain == SelectSeq(kept, LAMBDA b : boxes[b][5] > thresh)
    IN [m \in DOMAIN certain |-> [label |-> i, score |-> boxes[certain[m]][5], box |-> boxes[certain[m]]]]])

\* vis_detections looks at the next box before it looks whether there is one.
RECURSIVE Drawn(_, _, _)
Drawn(scores, thresh, i) ==
  IF i > Len(scores) THEN [drawn |-> Len(scores), beyond |-> TRUE]
  ELSE IF scores[i] > thresh THEN Drawn(scores, thresh, i + 1) ELSE [drawn |-> i - 1, beyond |-> FALSE]
VisDetections(scores, thresh) == Drawn(scores, thresh, 1)

\* computeLocation, for an angle of a number of quarters; counted twice.
ComputeLocation(cx, cy, h, w, quarter) ==
  LET cos == CASE quarter = 0 -> 1 [] quarter = 2 -> -1 [] OTHER -> 0
      sin == CASE quarter = 1 -> -1 [] quarter = 3 -> 1 [] OTHER -> 0
      temp1 == -(2 * cx * cos) + (2 * cy * sin) + (2 * cx)
      temp2 == -(2 * cx * sin) - (2 * cy * cos) + (2 * cy)
      point(x, y) == <<(x * cos) - (y * sin) + temp1, (x * sin) + (y * cos) + temp2>>
      left == (2 * cx) - w
      right == (2 * cx) + w
      top == (2 * cy) - h
      bottom == (2 * cy) + h
  IN <<point(left, top), point(right, top), point(right, bottom), point(left, bottom)>>

-----------------------------------------------------------------------------
(* The SAR detector. *)

MeanValues == 3   \* "104,117,123"

\* The constructor and SetMean: whether the checks let a network pass.
SarAccepts(inputs, outputs, channels) ==
  /\ inputs = 1 /\ outputs = 1
  /\ channels \in {1, 3}
  /\ MeanValues \in {1, channels}

\* Preprocess: the channels of the sample, from those of the image.
SampleChannels(image, channels) ==
  IF image \in {3, 4} /\ channels = 1 THEN 1
  ELSE IF image \in {1, 4} /\ channels = 3 THEN 3 ELSE image

\* Detect, of rows <<image, label, score, xmin, ymin, xmax, ymax>>.
SarDetections(rows, height, width) ==
  LET found == SelectSeq(rows, LAMBDA r : r[1] # -1) IN
  [k \in DOMAIN found |->
     <<found[k][2], found[k][3], found[k][4] * width, found[k][5] * height, found[k][6] * width, found[k][7] * height>>]

-----------------------------------------------------------------------------
(* The YOLO detector. *)

\* detect: boxes are <<x, y, w, h>> around their centres, counted twice.
YoloDetections(boxes, prob, classes) ==
  LET of(i, j) == IF prob[i][j] = 0 THEN <<>>
                  ELSE <<<<j + 1, prob[i][j], (2 * boxes[i][1]) - boxes[i][3], (2 * boxes[i][2]) - boxes[i][4],
                           (2 * boxes[i][1]) + boxes[i][3], (2 * boxes[i][2]) + boxes[i][4]>>>>
  IN FlattenSeq([i \in DOMAIN boxes |-> FlattenSeq([j \in 1 .. classes |-> of(i, j - 1)])])

\* transCVMatToImage: planes of a picture whose rows are step bytes apart, and
\* rgbgr_image, which is external.
ToPlanes(data, w, h, c, step) ==
  [at \in 0 .. (w * h * c) - 1 |->
     LET k == at \div (w * h)
         i == (at \div w) % h
         j == at % w
     IN data[(i * step) + (j * c) + k]]
Swapped(planes, size) ==
  [at \in DOMAIN planes |-> IF at < size THEN planes[at + (2 * size)] ELSE IF at >= 2 * size THEN planes[at - (2 * size)] ELSE planes[at]]

-----------------------------------------------------------------------------
(* What the handlers make of the detections: a row each, its fields named   *)
(* by their places.                                                        *)

ShipRow(label, score, corners) == <<label, score>> \o FlattenSeq(corners)

ShipFields == <<"label", "score", "x1", "y1", "x2", "y2", "x3", "y3", "x4", "y4">>
BoxFields == <<"label", "score", "xmin", "ymin", "xmax", "ymax">>

\* append makes the result, so there is none without a row.
Reply(fields, rows) ==
  LET named(row) == [f \in Range(fields) |-> row[CHOOSE k \in DOMAIN fields : fields[k] = f]] IN
  IF rows = <<>> THEN [result_nums |-> 0]
  ELSE [result_nums |-> Len(rows), result |-> [i \in DOMAIN rows |-> named(rows[i])]]

ShipReply(rows) == Reply(ShipFields, rows)
SarReply(rows) == Reply(BoxFields, rows)
YoloReply(rows) == Reply(BoxFields, rows)
==============================================================================
