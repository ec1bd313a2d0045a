---------------------------- MODULE CrawlerClient ----------------------------
(***************************************************************************)
(* The workers of a program that takes its files from a crawler: what      *)
(* strusTagMarkup and strusGenerateKeyMap share.  The paths are files, so  *)
(* the crawler walks no directory.  A chunk size of zero is possible with  *)
(* option --unit of strusGenerateKeyMap; strusTagMarkup makes it one.      *)
(***************************************************************************)
EXTENDS Integers, Sequences

CONSTANTS
    NofInstances,  \* the number of workers, one for --threads 0
    File,          \* the files found by the crawler
    Path,          \* the files as a sequence
    ChunkSize      \* the number of files fetched at once

ASSUME ClientAssumption ==
    /\ NofInstances \in Nat \ {0}
    /\ Path \in Seq(File)
    /\ ChunkSize \in Nat

Worker == 1 .. NofInstances

VARIABLES
    chunkque, batch, stopped, reading, made, handed, broken  \* the crawler

Crawler == INSTANCE FileCrawler WITH
    Dir <- {}, FilesIn <- <<>>, SubDirs <- <<>>

crawlerVars == <<chunkque, batch, stopped, reading, made, handed, broken>>
=============================================================================
