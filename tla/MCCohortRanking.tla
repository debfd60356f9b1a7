--------------------------- MODULE MCCohortRanking ----------------------------
(* CohortRanking for TLC.                                                    *)
EXTENDS CohortRanking
=============================================================================
