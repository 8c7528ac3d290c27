--------------------------- MODULE ResultsFilter ----------------------------
(***************************************************************************)
(* Which detections apply_results of the processing service draws, and the *)
(* setters of what it looks at.  The program calls none of them: its call  *)
(* of apply_results is commented out.                                      *)
(***************************************************************************)
EXTENDS Integers, Sequences, Functions, StdMap, Selection

DefaultSettings ==
  [excluded |-> {}, thresholds |-> << >>, boxes_limit |-> 0, g_confidence_threshold |-> 60]

(* std::map::merge and try_emplace: a class keeps the threshold it has.    *)
Overwritten(thresholds, class, percent) ==      \* slip: thresholds[class] = percent
  [c \in DOMAIN thresholds \cup {class} |-> IF c = class THEN percent ELSE thresholds[c]]
WithThreshold(thresholds, class, percent) == Emplace(thresholds, class, percent)

(* One call of a setter, [setter, class, value].                           *)
Set(settings, call) ==
  CASE call.setter = "exclude_objects" ->
         [settings EXCEPT !.excluded = @ \cup {call.class}]
    [] call.setter = "set_objects_threshold" ->
         [settings EXCEPT !.thresholds = WithThreshold(@, call.class, call.value)]
    [] call.setter = "set_global_threshold" ->
         [settings EXCEPT !.g_confidence_threshold = call.value]
    [] call.setter = "set_applied_detections_limit" ->
         [settings EXCEPT !.boxes_limit = call.value]

After(history) ==
  LET settings[n \in 0..Len(history)] ==
        IF n = 0 THEN DefaultSettings ELSE Set(settings[n - 1], history[n])
  IN  settings[Len(history)]

Threshold(settings, class) ==
  IF class \in DOMAIN settings.thresholds
  THEN settings.thresholds[class] ELSE settings.g_confidence_threshold

(* The limit is compared with a counter that stays 0, so it stops nothing. *)
counter == 0
IsReached(settings) == settings.boxes_limit # 0 /\ counter = settings.boxes_limit

IsDrawn(settings, d) ==
  /\ d.class_id \notin settings.excluded
  /\ ~IsReached(settings)
  /\ Threshold(settings, d.class_id) <= d.confidence

Drawn(settings, detections) ==
  Selected(detections, {d \in Range(detections) : IsDrawn(settings, d)})

-----------------------------------------------------------------------------
(* What the calls of the setters ask for, said without the settings.       *)
CallsOf(history, setter) == {i \in DOMAIN history : history[i].setter = setter}
CallsFor(history, setter, class) == {i \in CallsOf(history, setter) : history[i].class = class}

First(S) == CHOOSE i \in S : \A j \in S : i <= j
Latest(S) == CHOOSE i \in S : \A j \in S : j <= i

AskedThreshold(history, class) ==
  LET own == CallsFor(history, "set_objects_threshold", class)
      global == CallsOf(history, "set_global_threshold")
  IN  IF own # {} THEN history[First(own)].value
      ELSE IF global # {} THEN history[Latest(global)].value
      ELSE DefaultSettings.g_confidence_threshold

IsWanted(history, d) ==
  /\ CallsFor(history, "exclude_objects", d.class_id) = {}
  /\ AskedThreshold(history, d.class_id) <= d.confidence
=============================================================================
