-------------------------- MODULE MCTelemetryPipeline --------------------------
(* The telemetry pipeline on small sets of events and tasks.               *)
EXTENDS TelemetryPipeline, TLC

Symmetry == Permutations(Tasks) \cup Permutations(Events)
=============================================================================
