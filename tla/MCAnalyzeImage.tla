--------------------------- MODULE MCAnalyzeImage ---------------------------
(***************************************************************************)
(* Instances of AnalyzeImage for TLC.                                      *)
(***************************************************************************)
EXTENDS AnalyzeImage

=============================================================================
