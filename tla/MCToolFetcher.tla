--------------------------- MODULE MCToolFetcher ---------------------------
(***************************************************************************)
(* Instances of ToolFetcher for TLC.                                       *)
(***************************************************************************)
EXTENDS ToolFetcher, TLC

\* The processes are interchangeable, but for the ones that are offline.
Symmetry == Permutations(Procs \ OfflineProcs)

=============================================================================
