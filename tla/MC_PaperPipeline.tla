-------------------------- MODULE MC_PaperPipeline --------------------------
(* A small instance of PaperPipeline for TLC.                              *)
EXTENDS PaperPipeline

Unlevered == Whole(1)
ShortFlatLong == {-1, 0, 1}

(* Two artefacts, each missing, from the start of the tape, or later.      *)
Artefacts == [{"model", "scaler"} -> {Missing, 0, 3}]
=============================================================================
