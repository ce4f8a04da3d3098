------------------------------ MODULE MCSketch ------------------------------
(* Values for the constants of WorkloadSketch.                             *)
EXTENDS WorkloadSketch

Info(s, t) == [shape |-> s, type |-> t]

MCInputInfos == {Info("full", "F32"), Info("row", "F32"), Info("full", "F16")}
=============================================================================
