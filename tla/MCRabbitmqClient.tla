-------------------------- MODULE MCRabbitmqClient --------------------------
(* Small instances of RabbitmqClient for TLC.                              *)
EXTENDS RabbitmqClient
=============================================================================
