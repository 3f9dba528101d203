--------------------------- MODULE MCScrapeWorker ---------------------------
(***************************************************************************)
(* Instances of ScrapeWorker for TLC.                                      *)
(***************************************************************************)
EXTENDS ScrapeWorker, TLC

\* Theaters and Chromium names are interchangeable.
Symmetry == Permutations(Theaters) \cup Permutations(Chromiums)
=============================================================================
