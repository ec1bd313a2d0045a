---------------------------- MODULE MCPosTagger ----------------------------
(* A directory with a file and a subdirectory that holds a file without    *)
(* elements and one with the base name of the first.                       *)
EXTENDS PosTagger, TLC
CONSTANTS f1, f2, f3, d1, d2, n1, n2
MCPath == <<d1>>
MCFilesIn == d1 :> <<f1>> @@ d2 :> <<f2, f3>>
MCSubDirs == d1 :> <<d2>> @@ d2 :> <<>>
MCElements == f1 :> 2 @@ f2 :> 0 @@ f3 :> 1
MCBaseName == f1 :> n1 @@ f2 :> n2 @@ f3 :> n1
=============================================================================
