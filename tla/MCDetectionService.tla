------------------------- MODULE MCDetectionService -------------------------
(* Small instances of DetectionService for TLC.                            *)
EXTENDS DetectionService

TwoSources == {1, 2}
=============================================================================
