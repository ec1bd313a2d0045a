-------------------------- MODULE MCCalcStatistics --------------------------
(* Small instance of CalcStatistics; the numbers of documents and which of *)
(* them have terms are all chosen by its Init.                             *)
EXTENDS CalcStatistics
=============================================================================
