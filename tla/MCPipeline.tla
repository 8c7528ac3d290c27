----------------------------- MODULE MCPipeline -----------------------------
(* A small instance of Pipeline for TLC: a dog and a cat in nearly the     *)
(* same place, a bird that no version is sure of, an empty street.         *)
EXTENDS Pipeline

Dog  == [left |-> 2, right |-> 6, top |-> 0, bottom |-> 4, confidence |-> 90,
         scores |-> [c \in 0..1 |-> IF c = 0 THEN 80 ELSE 10]]
Cat  == [left |-> 0, right |-> 6, top |-> 0, bottom |-> 4, confidence |-> 60,
         scores |-> [c \in 0..1 |-> IF c = 0 THEN 20 ELSE 70]]
Bird == [left |-> 6, right |-> 8, top |-> 2, bottom |-> 4, confidence |-> 40,
         scores |-> [c \in 0..1 |-> 30]]

Shot(cols, rows, channels, objects) ==
  [cols |-> cols, rows |-> rows, channels |-> channels, objects |-> objects]

Street == Shot(8, 4, 3, << >>)
Park   == Shot(8, 4, 3, <<Bird, Cat, Dog>>)

(* Of these the client publishes the second.                               *)
ParkVideo == <<Street, Park, Street>>

Message(srcid, format, picture) ==
  [srcid |-> srcid, imgtype |-> UnknownType, width |-> Missing, height |-> Missing,
   body |-> [format |-> format, picture |-> picture]]

Upright == Shot(4, 8, 3, <<[Dog EXCEPT !.left = 0, !.right = 4, !.top = 4, !.bottom = 8]>>)

(* The dog of another picture may be what freed memory shows.              *)
SomeLeftovers == {Upright.objects}

(* Colour pictures, a gray one both ways, and what is no frame; the park   *)
(* has one header too few to be taken for raw pixels.                      *)
Others ==
  {Message(SRC, "encoded", Upright),
   [RawMessage(Park) EXCEPT !.width = Missing, !.body.format = "encoded"],
   Message(SRC, "encoded", Shot(8, 4, 1, <<Dog>>)),
   Message(SRC, "garbage", Street),
   [RawMessage(Street) EXCEPT !.body.format = "nothing"],
   Message(NoSrcId, "encoded", Upright),
   RawMessage(Shot(8, 4, 1, <<Dog>>))}

Line(type, shape) ==
  [error |-> "none", given |-> [type |-> type, shape |-> shape, path |-> "/models/"]]
OnlyError(error) == [error |-> error, given |-> << >>]
Square == [cols |-> 4, rows |-> 4]
Wide   == [cols |-> 4, rows |-> 2]

NoVariables == << >>
OtherExchange == [v \in {"EXCHANGE_AVAILABLE_SOURCES"} |-> "Other-Exchange"]
ModelVariables ==
  [model_type |-> "v5", model_shape |-> Wide, model_path |-> "/models/", model_name |-> "yolov8n.onnx"]

SomeStarts ==
  {<<Line("v8", Square), NoVariables>>, <<Line("V5", Wide), NoVariables>>,
   <<Line("v8", Square), OtherExchange>>, <<Line("v8", [cols |-> 0, rows |-> 4]), NoVariables>>,
   <<OnlyError("none"), ModelVariables>>, <<OnlyError("unknown"), ModelVariables>>,
   <<OnlyError("other"), ModelVariables>>}
SomeFiles == {[path |-> path, model |-> "yolov8n.onnx"] : path \in {"/models/", ""}}

SomeCalls ==
  {[setter |-> "exclude_objects", class |-> 1, value |-> 0],
   [setter |-> "set_objects_threshold", class |-> 0, value |-> 70],
   [setter |-> "set_objects_threshold", class |-> 0, value |-> 95],
   [setter |-> "set_global_threshold", class |-> 0, value |-> 50],
   [setter |-> "set_global_threshold", class |-> 0, value |-> 85],
   [setter |-> "set_applied_detections_limit", class |-> 0, value |-> 1]}
=============================================================================
