------------------------- MODULE MCResultsPublisher -------------------------
(* Small instances of ResultsPublisher for TLC.                            *)
EXTENDS ResultsPublisher
=============================================================================
