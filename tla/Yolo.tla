-------------------------------- MODULE Yolo --------------------------------
(***************************************************************************)
(* object_detection of yolo_v5 and yolo_v8: from a frame to its            *)
(* detections.                                                             *)
(*                                                                         *)
(* A model is [version, shape]; a picture is as in FrameDecoder; scores    *)
(* and thresholds are percents.  The network is external: it finds the     *)
(* objects of what it is shown, in the coordinates of its input.  Its      *)
(* floating-point numbers are taken to be exact: a coordinate stands for   *)
(* itself divided by the side of the picture that was scaled, and a row    *)
(* has twice its centre.                                                   *)
(***************************************************************************)
EXTENDS Integers, Sequences, Functions, Selection

modelConfidenceThreshold == 25
modelScoreThreshold == 45
modelNMSThreshold == 50

(* formatToSquare pads the picture at its right or at its lower edge; the  *)
(* models do it when their own shape is a square.                          *)
ModelInput(model, picture) ==
  LET side == IF picture.cols > picture.rows THEN picture.cols ELSE picture.rows
  IN  IF model.shape.cols = model.shape.rows
      THEN [picture EXCEPT !.cols = side, !.rows = side]
      ELSE picture

(* A gray picture cannot be copied into the colour image of                *)
(* formatToSquare, and does not fit the first layer of the network.        *)
ThrowsWhenEmpty(picture) ==                         \* slip: .at(0) of no detections
  picture.channels # 3 \/ picture.objects = << >>
ModelThrows(picture) == picture.channels # 3

(* External: the rows that the network puts out for an input that          *)
(* blobFromImage has scaled to the shape of the model.                     *)
RowOf(model, o) ==
  [x2 |-> (o.left + o.right) * model.shape.cols, w |-> (o.right - o.left) * model.shape.cols,
   y2 |-> (o.top + o.bottom) * model.shape.rows, h |-> (o.bottom - o.top) * model.shape.rows,
   confidence |-> o.confidence, scores |-> o.scores]

Network(model, input) == [i \in DOMAIN input.objects |-> RowOf(model, input.objects[i])]

-----------------------------------------------------------------------------
(* The first of the highest values of f in S.                              *)
Highest(f, S) == CHOOSE i \in S : \A j \in S : f[j] < f[i] \/ (f[j] = f[i] /\ i <= j)

AfterFirst(row) ==                                  \* slip: the scores begin one later
  Highest(row.scores, DOMAIN row.scores \ {0})

(* minMaxLoc.                                                              *)
BestClass(row) == Highest(row.scores, DOMAIN row.scores)
Best(row) == row.scores[BestClass(row)]

IsCandidate(model, row) ==
  IF model.version = "v5"
  THEN row.confidence >= modelConfidenceThreshold /\ Best(row) > modelScoreThreshold
  ELSE Best(row) > modelConfidenceThreshold

Confidence(model, row) == IF model.version = "v5" THEN row.confidence ELSE Best(row)

(* int() of a quotient goes towards zero.                                  *)
Truncated(a, b) == IF a >= 0 THEN a \div b ELSE -((-a) \div b)

Factors(input, shape) == [x |-> input.rows, y |-> input.cols]  \* slip: swapped
Sides(input, shape) == [x |-> input.cols, y |-> input.rows]

(* The box of a row in the coordinates of the frame.                       *)
Box(model, input, row) ==
  LET side == Sides(input, model.shape) IN
  [x      |-> Truncated((row.x2 - row.w) * side.x, 2 * model.shape.cols * input.cols),
   y      |-> Truncated((row.y2 - row.h) * side.y, 2 * model.shape.rows * input.rows),
   width  |-> Truncated(row.w * side.x, model.shape.cols * input.cols),
   height |-> Truncated(row.h * side.y, model.shape.rows * input.rows)]

-----------------------------------------------------------------------------
(* Jaccard overlap of two boxes above modelNMSThreshold.                   *)
Shared(low1, len1, low2, len2) ==
  LET low  == IF low1 > low2 THEN low1 ELSE low2
      high == IF low1 + len1 < low2 + len2 THEN low1 + len1 ELSE low2 + len2
  IN  IF high > low THEN high - low ELSE 0

Overlap(b, c) ==
  LET both == Shared(b.x, b.width, c.x, c.width) * Shared(b.y, b.height, c.y, c.height)
  IN  100 * both > modelNMSThreshold * (b.width * b.height + c.width * c.height - both)

(* External: NMSBoxes keeps the best of the boxes above the threshold,     *)
(* drops those that overlap it, whatever their classes, and goes on with   *)
(* the rest.                                                               *)
KeepBest(boxes, confidences, round) ==
  LET best == Highest(confidences, round.rest) IN
  IF round.rest = {} THEN round
  ELSE [kept |-> Append(round.kept, best),
        rest |-> {i \in round.rest \ {best} : ~Overlap(boxes[best], boxes[i])}]

NMSBoxes(boxes, confidences) ==
  LET round[n \in 0..Len(boxes)] ==
        IF n = 0
        THEN [kept |-> << >>, rest |-> {i \in DOMAIN boxes : confidences[i] > modelScoreThreshold}]
        ELSE KeepBest(boxes, confidences, round[n - 1])
  IN  round[Len(boxes)].kept

ByPosition(nms_result, i) == i                      \* slip: [i] for [nms_result[i]]
ByIndex(nms_result, i) == nms_result[i]

Candidates(model, input) ==
  LET rows == Network(model, input)
  IN  Selected(rows, {row \in Range(rows) : IsCandidate(model, row)})

ObjectDetection(model, picture) ==
  LET input == ModelInput(model, picture)
      candidates == Candidates(model, input)
      boxes == [i \in DOMAIN candidates |-> Box(model, input, candidates[i])]
      confidences == [i \in DOMAIN candidates |-> Confidence(model, candidates[i])]
      nms_result == NMSBoxes(boxes, confidences)
  IN  [i \in DOMAIN nms_result |->
         LET idx == ByIndex(nms_result, i) IN
         [class_id |-> BestClass(candidates[idx]), confidence |-> confidences[idx],
          box |-> boxes[idx]]]
=============================================================================
