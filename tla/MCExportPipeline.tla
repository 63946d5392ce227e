-------------------------- MODULE MCExportPipeline --------------------------
(***************************************************************************)
(* Instances of ExportPipeline for TLC: every request names the same       *)
(* session, which is the case in which exports compete for places.         *)
(***************************************************************************)
EXTENDS ExportPipeline

MCSessionOf == [e \in Exports |-> CHOOSE s \in Sessions : TRUE]
=============================================================================
