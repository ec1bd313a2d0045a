--------------------------- MODULE MCFileCrawler ---------------------------
(* A directory with two files, an empty and a filled subdirectory, and a   *)
(* file given by its path.  All the ways of failing to read a directory    *)
(* are initial states.  A second instance has the directory alone, for the *)
(* constructor with one path.                                              *)
EXTENDS FileCrawler

CONSTANTS f1, f2, f3, f4, f5, d1, d2, d3

MCFile == {f1, f2, f3, f4, f5}
MCDir == {d1, d2, d3}
MCPath == <<d1, f5>>
MCPathDir == <<d1>>
MCFilesIn == [d \in MCDir |-> IF d = d1 THEN <<f1, f2>>
                              ELSE IF d = d2 THEN <<>> ELSE <<f3, f4>>]
MCSubDirs == [d \in MCDir |-> IF d = d1 THEN <<d2, d3>> ELSE <<>>]
=============================================================================
