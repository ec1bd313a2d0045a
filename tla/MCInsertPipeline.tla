-------------------------- MODULE MCInsertPipeline --------------------------
(* Three files with three, one and one documents, transactions of two      *)
(* documents or of any number: a transaction holds documents of one file   *)
(* or of two, is filled in the middle of a file or at its end.  A chunk of *)
(* two files is lost in part when a thread ends early.                     *)
EXTENDS InsertPipelineProps

CONSTANTS f1, f2, f3

MCFile == {f1, f2, f3}
MCPath == <<f1, f2, f3>>
MCNofDocs == [f \in MCFile |-> IF f = f1 THEN 3 ELSE 1]
=============================================================================
