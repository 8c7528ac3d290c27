------------------------- MODULE MCMessageBusClient -------------------------
(* Small instances of MessageBusClient for TLC.                            *)
EXTENDS MessageBusClient
=============================================================================
