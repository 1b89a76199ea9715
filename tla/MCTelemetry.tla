---------------------------- MODULE MCTelemetry ----------------------------
(* TLC instance of Telemetry; its temporal properties rule out symmetry. *)
EXTENDS Telemetry

=============================================================================
