--------------------------- MODULE MCBatchPrograms ---------------------------
(* Four files in two chunks for two threads: every thread may get every    *)
(* chunk and fail at each file, each term and each tag; two storages of up *)
(* to four documents with any gaps.                                        *)
EXTENDS MCKeyMapGen, BatchPrograms
CONSTANTS c1, c2
MCTags == f1 :> <<c1, c2>> @@ f2 :> <<c2>> @@ f3 :> <<c2, c1, c2>> @@ f4 :> <<c1>>
=============================================================================
