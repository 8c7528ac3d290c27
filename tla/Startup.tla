------------------------------ MODULE Startup -------------------------------
(***************************************************************************)
(* How main() comes from its command line and its environment to a model,  *)
(* or to its end.                                                          *)
(*                                                                         *)
(* A command line is [error, given]: what the parser throws on it, and the *)
(* values of the options that it gives.  The error is "none", "unknown"    *)
(* for an option that does not exist, or "other" (a value is missing, an   *)
(* option is given twice).  An environment is a map from the variables     *)
(* that are set to their values.  A shape is [cols, rows]; one that cannot *)
(* be read has none positive.                                              *)
(***************************************************************************)
EXTENDS Integers, StdMap

CONSTANT Files          \* [path, model] for which a network can be loaded

(* External: readNetFromONNX throws when the file has no name at all.      *)
ASSUME NamelessFile == [path |-> "", model |-> ""] \notin Files

Default ==
  [type |-> "v8", shape |-> [cols |-> 4, rows |-> 4], model |-> "yolov8n.onnx"]

AVAILABLE_SOURCES_EX == "Available-Sources-Exchange"

VariableOf ==
  [type |-> "model_type", shape |-> "model_shape", path |-> "model_path",
   model |-> "model_name"]

(* When parse_command_line throws, nothing is stored, not even the         *)
(* defaults.                                                               *)
WithDefaults(line) ==
  [o \in DOMAIN line.given \cup DOMAIN Default |->
     IF o \in DOMAIN line.given THEN line.given[o] ELSE Default[o]]
Options(line) == IF line.error = "none" THEN WithDefaults(line) ELSE << >>

(* get_env_or_throw                                                        *)
EnvThrows(vm, env, option) == option \notin DOMAIN vm /\ VariableOf[option] \notin DOMAIN env

(* Of the four variables only model_shape is assigned to anything.         *)
ValueOr(vm, option, otherwise) == IF option \in DOMAIN vm THEN vm[option] ELSE otherwise

ShapeFromEnv(vm, env) ==                   \* slip: the environment goes first
  IF "model_shape" \in DOMAIN env THEN env["model_shape"] ELSE vm["shape"]
ModelShape(vm, env) ==
  IF "shape" \in DOMAIN vm THEN vm["shape"] ELSE env["model_shape"]

(* How main() ends: "terminated" by an exception that nobody catches (of   *)
(* the parser's only unknown_option is caught), "exited" with -1, or else  *)
(* "running".                                                              *)
Outcome(line, env) ==
  LET vm == Options(line)
      shape == ModelShape(vm, env)
  IN  IF line.error = "other" \/ EnvThrows(vm, env, "type") \/ EnvThrows(vm, env, "shape")
      THEN "terminated"
      ELSE IF shape.cols <= 0 \/ shape.rows <= 0 THEN "exited"
      ELSE IF \/ EnvThrows(vm, env, "path") \/ EnvThrows(vm, env, "model")
              \/ [path |-> ValueOr(vm, "path", ""), model |-> ValueOr(vm, "model", "")] \notin Files
           THEN "terminated"
      ELSE "running"

(* iequals.                                                                *)
IsV5(type) == type \in {"v5", "V5"}

(* The model that is created, and the exchange that is listened to.        *)
Configuration(line, env) ==
  LET vm == Options(line) IN
  [version |-> IF IsV5(ValueOr(vm, "type", "")) THEN "v5" ELSE "v8",
   shape |-> ModelShape(vm, env),
   exchange |-> IF "EXCHANGE_AVAILABLE_SOURCES" \in DOMAIN env
                THEN env["EXCHANGE_AVAILABLE_SOURCES"] ELSE AVAILABLE_SOURCES_EX]
=============================================================================
