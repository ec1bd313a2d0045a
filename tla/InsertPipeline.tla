--------------------------- MODULE InsertPipeline ---------------------------
(***************************************************************************)
(* The program strusInsert: inserter threads that analyze the documents of *)
(* the files handed out by the crawler, collect them in storage            *)
(* transactions and push these to the commit queue                         *)
(* (src/src/strusInsert/insertProcessor.cpp, strusInsert.cpp).             *)
(*                                                                         *)
(* It composes FileCrawler and CommitQueue, whose variables it shares: a   *)
(* step of a thread is a step of its own, of the crawler or of the queue.  *)
(* The storage and the analyzer are external; what they may answer is a    *)
(* choice at every call: a document may be inserted or refused, a commit   *)
(* may succeed or not, a transaction may not be created.                   *)
(*                                                                         *)
(* A program run without threads (--threads 0) runs one InsertProcessor in *)
(* the main thread: the instance with one worker.                          *)
(***************************************************************************)
EXTENDS Integers, Sequences, FiniteSets, SequencesExt

CONSTANTS
    Worker,          \* the inserter threads
    File,            \* the files to insert, all of them found by the crawler
    Path,            \* the files as a sequence, without repetition
    NofDocs,         \* the number of documents of each file
    ChunkSize,       \* option --fetch
    TransactionSizes \* values of option --commit, zero: one commit at the end

ASSUME InsertAssumption ==
    /\ NofDocs \in [File -> Nat]
    /\ TransactionSizes \in SUBSET Nat
    /\ ChunkSize \in Nat \ {0}
    /\ Path \in Seq(File)
    /\ IsInjective(Path)
    /\ ToSet(Path) = File

(* Document i of file f.                                                   *)
Doc == UNION {{f} \X (1 .. NofDocs[f]) : f \in File}

(* The transactions that are pushed: sets of documents, never empty.       *)
Batches == (SUBSET Doc) \ {{}}

VARIABLES
    chunkque, batch, stopped, reading, made, handed, broken,   \* the crawler
    openTransactions, nofOpenTransactions, errors, stage, current,
    pendingError, pushed, committed, dropped,                  \* the queue
    pc,           \* where each thread is in InsertProcessor::run
    transaction,  \* the documents in m_transaction of each thread
    docCount,     \* m_docCount
    nextDoc,      \* the document analyzeNext yields next in the thread's file
    gotError,     \* m_gotError
    transactionSize,  \* m_transactionSize
    exit,         \* the exit code of the program, "none" while it runs
    (* history *)
    discarded,    \* documents in transactions thrown away after an error
    cutOff        \* files left by an analyzer error that only waits in m_errorhnd

Crawler == INSTANCE FileCrawler WITH
    Dir <- {}, FilesIn <- <<>>, SubDirs <- <<>>

Queue == INSTANCE CommitQueue WITH
    Transaction <- Batches, NoTransaction <- {}

crawlerVars == <<chunkque, batch, stopped, reading, made, handed, broken>>
queueVars == <<openTransactions, nofOpenTransactions, errors, stage, current,
               pushed, committed, dropped>>
localVars == <<pc, transaction, docCount, nextDoc, gotError>>
mainVars == <<transactionSize, exit>>
historyVars == <<discarded, cutOff>>
vars == <<crawlerVars, queueVars, pendingError, localVars, mainVars, historyVars>>

(* "start": before the first createTransaction; "files": between two files *)
(* of the loop; "doc": in processDocument; "push": the transaction has     *)
(* reached its size; "pushing": in pushTransaction out of processDocument; *)
(* "caught": an exception has left processDocument; "lastpush": in         *)
(* pushTransaction after the loop; "done": run has returned.               *)
Pc == {"start", "files", "doc", "push", "pushing", "caught", "lastpush", "done"}

TypeOK ==
    /\ pc \in [Worker -> Pc]
    /\ transaction \in [Worker -> SUBSET Doc]
    /\ docCount \in [Worker -> Nat]
    /\ nextDoc \in [Worker -> Nat]
    /\ gotError \in [Worker -> BOOLEAN]
    /\ transactionSize \in TransactionSizes
    /\ exit \in {"none", "0", "-1", "-2", "-3"}
    /\ discarded \in SUBSET Doc
    /\ cutOff \in SUBSET File
    /\ Queue!TypeOK
    /\ Crawler!TypeOK

Init ==
    /\ Crawler!Init
    /\ Queue!Init
    /\ pc = [w \in Worker |-> "start"]
    /\ transaction = [w \in Worker |-> {}]
    /\ docCount = [w \in Worker |-> 0]
    /\ nextDoc = [w \in Worker |-> 1]
    /\ gotError = [w \in Worker |-> FALSE]
    /\ transactionSize \in TransactionSizes
    /\ exit = "none"
    /\ discarded = {}
    /\ cutOff = {}

Goto(w, label) == pc' = [pc EXCEPT ![w] = label]
Flag(w) == gotError' = [gotError EXCEPT ![w] = TRUE]
ClearError(w) == pendingError' = [pendingError EXCEPT ![w] = FALSE]
CurrentFile(w) == Head(batch[w])

(* Definitions marked `faulty' are slips the definition after them could   *)
(* have; no specification uses them.                                       *)

(* m_transaction is replaced by a new, empty one and the count reset.      *)
NewTransaction(w) ==
    /\ transaction' = [transaction EXCEPT ![w] = {}]
    /\ docCount' = [docCount EXCEPT ![w] = 0]

(* run returns: releaseContext drops what is left in the error context.    *)
Return(w) == Goto(w, "done") /\ ClearError(w)

-----------------------------------------------------------------------------
(* The head of run: the first createTransaction.                           *)
Start(w) ==
    /\ pc[w] = "start"
    /\ Goto(w, "files")
    /\ NewTransaction(w)
    /\ UNCHANGED <<crawlerVars, queueVars, pendingError, nextDoc, gotError,
                   mainVars, historyVars>>

StartFails(w) ==
    /\ pc[w] = "start"
    /\ Return(w)
    /\ Flag(w)
    /\ UNCHANGED <<crawlerVars, queueVars, transaction, docCount, nextDoc,
                   mainVars, historyVars>>

(* faulty: the loop is not left on an empty list of files.                 *)
FetchForever(w) ==
    /\ pc[w] = "files"
    /\ Crawler!Fetch(w) \/ Crawler!FetchFails(w)
    /\ pendingError' = [pendingError EXCEPT ![w] = @ \/ w \in broken']
    /\ UNCHANGED <<queueVars, localVars, mainVars, historyVars>>

(* The loop over the chunks.  A failed fetch leaves its error in the       *)
(* thread's context.                                                       *)
FetchFiles(w) ==
    /\ pc[w] = "files"
    /\ Crawler!Fetch(w) \/ Crawler!FetchNothing(w) \/ Crawler!FetchFails(w)
    /\ pendingError' = [pendingError EXCEPT ![w] = @ \/ w \in broken']
    /\ UNCHANGED <<queueVars, localVars, mainVars, historyVars>>

(* processDocument before the first read of the content: the document      *)
(* class is not recognized, has no analyzer or the file cannot be read.    *)
RejectFile(w) ==
    /\ pc[w] = "files"
    /\ Crawler!FileDone(w)
    /\ Flag(w)
    /\ UNCHANGED <<queueVars, pendingError, pc, transaction, docCount, nextDoc,
                   mainVars, historyVars>>

OpenFile(w) ==
    /\ pc[w] = "files"
    /\ batch[w] # <<>>
    /\ Goto(w, "doc")
    /\ nextDoc' = [nextDoc EXCEPT ![w] = 1]
    /\ UNCHANGED <<crawlerVars, queueVars, pendingError, transaction, docCount,
                   gotError, mainVars, historyVars>>

(* faulty: the transaction is pushed one document too late.                *)
InsertDocumentLate(w) ==
    /\ pc[w] = "doc"
    /\ nextDoc[w] <= NofDocs[CurrentFile(w)]
    /\ ~pendingError[w]
    /\ transaction' = [transaction EXCEPT ![w] =
                           @ \cup {<<CurrentFile(w), nextDoc[w]>>}]
    /\ docCount' = [docCount EXCEPT ![w] = @ + 1]
    /\ nextDoc' = [nextDoc EXCEPT ![w] = @ + 1]
    /\ IF docCount'[w] > transactionSize THEN Goto(w, "push") ELSE UNCHANGED pc
    /\ UNCHANGED <<crawlerVars, queueVars, pendingError, gotError, mainVars,
                   historyVars>>

(* One round of the loop over analyzeNext: the document goes into the      *)
(* transaction; the transaction is pushed when the count is its size.      *)
InsertDocument(w) ==
    /\ pc[w] = "doc"
    /\ nextDoc[w] <= NofDocs[CurrentFile(w)]
    /\ ~pendingError[w]
    /\ transaction' = [transaction EXCEPT ![w] =
                           @ \cup {<<CurrentFile(w), nextDoc[w]>>}]
    /\ docCount' = [docCount EXCEPT ![w] = @ + 1]
    /\ nextDoc' = [nextDoc EXCEPT ![w] = @ + 1]
    /\ IF docCount'[w] = transactionSize THEN Goto(w, "push") ELSE UNCHANGED pc
    /\ UNCHANGED <<crawlerVars, queueVars, pendingError, gotError, mainVars,
                   historyVars>>

(* An exception out of processDocument: no analyzer context, a document    *)
(* refused, or an error found in the context after a document was defined, *)
(* whoever left it there.  std::runtime_error takes the error out of the   *)
(* context, std::bad_alloc does not.                                       *)
DocumentThrows(w) ==
    /\ pc[w] = "doc"
    /\ Goto(w, "caught")
    /\ \/ ClearError(w)
       \/ UNCHANGED pendingError
    /\ UNCHANGED <<crawlerVars, queueVars, transaction, docCount, nextDoc,
                   gotError, mainVars, historyVars>>

(* analyzeNext reports an error to the context and yields no document: the *)
(* loop takes it for the end of the file.                                  *)
AnalyzerFails(w) ==
    /\ pc[w] = "doc"
    /\ nextDoc[w] <= NofDocs[CurrentFile(w)]
    /\ pendingError' = [pendingError EXCEPT ![w] = TRUE]
    /\ cutOff' = cutOff \cup {CurrentFile(w)}
    /\ Crawler!FileDone(w)
    /\ Goto(w, "files")
    /\ UNCHANGED <<queueVars, transaction, docCount, nextDoc, gotError, mainVars,
                   discarded>>

(* The read of the content fails: the documents so far are kept.           *)
ReadFails(w) ==
    /\ pc[w] = "doc"
    /\ Flag(w)
    /\ Crawler!FileDone(w)
    /\ Goto(w, "files")
    /\ UNCHANGED <<queueVars, pendingError, transaction, docCount, nextDoc,
                   mainVars, historyVars>>

EndOfFile(w) ==
    /\ pc[w] = "doc"
    /\ nextDoc[w] > NofDocs[CurrentFile(w)]
    /\ Crawler!FileDone(w)
    /\ Goto(w, "files")
    /\ UNCHANGED <<queueVars, pendingError, transaction, docCount, nextDoc,
                   gotError, mainVars, historyVars>>

(* faulty: the reference is released before the call.                      *)
PushReleased(w) ==
    /\ Queue!PushTransaction(w, {})
    /\ transaction' = [transaction EXCEPT ![w] = {}]

(* faulty: the reference is not released after the call.                   *)
PushShared(w) ==
    /\ Queue!PushTransaction(w, transaction[w])
    /\ UNCHANGED transaction

(* pushTransaction: the queue owns the documents from here on, the thread  *)
(* releases its reference when the call returns.                           *)
PushOpenTransaction(w) ==
    /\ Queue!PushTransaction(w, transaction[w])
    /\ transaction' = [transaction EXCEPT ![w] = {}]

PushFull(w) ==
    /\ pc[w] = "push"
    /\ PushOpenTransaction(w)
    /\ Goto(w, "pushing")
    /\ UNCHANGED <<crawlerVars, docCount, nextDoc, gotError, mainVars, historyVars>>

HandleTransactions(w) ==
    /\ pc[w] \in {"pushing", "lastpush"}
    /\ Queue!HandleWaitingTransactions(w)
    /\ UNCHANGED <<crawlerVars, localVars, mainVars, historyVars>>

(* Back in processDocument: the next transaction is created.               *)
Renew(w) ==
    /\ pc[w] = "pushing"
    /\ stage[w] = "idle"
    /\ NewTransaction(w)
    /\ Goto(w, "doc")
    /\ UNCHANGED <<crawlerVars, queueVars, pendingError, nextDoc, gotError,
                   mainVars, historyVars>>

RenewFails(w) ==
    /\ pc[w] = "pushing"
    /\ stage[w] = "idle"
    /\ Goto(w, "caught")
    /\ ClearError(w)
    /\ UNCHANGED <<crawlerVars, queueVars, transaction, docCount, nextDoc,
                   gotError, mainVars, historyVars>>

(* faulty: the thread's error flag is not set.                             *)
RecoverSilently(w) ==
    /\ pc[w] = "caught"
    /\ discarded' = discarded \cup transaction[w]
    /\ NewTransaction(w)
    /\ Crawler!FileDone(w)
    /\ Goto(w, "files")
    /\ UNCHANGED <<queueVars, pendingError, nextDoc, gotError, mainVars, cutOff>>

(* The exception handlers of the loop: the open transaction is dropped     *)
(* with all documents in it, also those of files inserted before; the rest *)
(* of the file is skipped.                                                 *)
Recover(w) ==
    /\ pc[w] = "caught"
    /\ discarded' = discarded \cup transaction[w]
    /\ NewTransaction(w)
    /\ Flag(w)
    /\ Crawler!FileDone(w)
    /\ Goto(w, "files")
    /\ UNCHANGED <<queueVars, pendingError, nextDoc, mainVars, cutOff>>

(* No transaction can be created there: the exception leaves the loop and  *)
(* the thread ends, with files of its chunk not processed.                 *)
RecoverFails(w) ==
    /\ pc[w] = "caught"
    /\ discarded' = discarded \cup transaction[w]
    /\ transaction' = [transaction EXCEPT ![w] = {}]
    /\ Flag(w)
    /\ Return(w)
    /\ UNCHANGED <<crawlerVars, queueVars, docCount, nextDoc, mainVars, cutOff>>

(* After the loop: what is open is pushed.                                 *)
PushRest(w) ==
    /\ pc[w] = "files"
    /\ w \in stopped
    /\ docCount[w] > 0
    /\ PushOpenTransaction(w)
    /\ Goto(w, "lastpush")
    /\ UNCHANGED <<crawlerVars, docCount, nextDoc, gotError, mainVars, historyVars>>

RunReturns(w) ==
    /\ \/ pc[w] = "files" /\ w \in stopped /\ docCount[w] = 0
       \/ pc[w] = "lastpush" /\ stage[w] = "idle"
    /\ Return(w)
    /\ docCount' = [docCount EXCEPT ![w] = 0]
    /\ UNCHANGED <<crawlerVars, queueVars, transaction, nextDoc, gotError, mainVars,
                   historyVars>>

Run(w) ==
    \/ Start(w) \/ StartFails(w) \/ FetchFiles(w)
    \/ OpenFile(w) \/ RejectFile(w) \/ InsertDocument(w) \/ DocumentThrows(w)
    \/ AnalyzerFails(w) \/ ReadFails(w) \/ EndOfFile(w)
    \/ PushFull(w) \/ HandleTransactions(w) \/ Renew(w) \/ RenewFails(w)
    \/ Recover(w) \/ RecoverFails(w) \/ PushRest(w) \/ RunReturns(w)

(* main after the threads were joined: the storage is closed and the exit  *)
(* code determined.  An error of the close, or one left in the main        *)
(* thread's context by the crawler, is thrown: -1.  When memory is         *)
(* exhausted there: -2.                                                    *)
Main ==
    /\ exit = "none"
    /\ \A w \in Worker : pc[w] = "done"
    /\ \/ exit' \in {"-1", "-2"}
       \/ exit' = IF \E w \in Worker : gotError[w] THEN "-3" ELSE "0"
    /\ UNCHANGED <<crawlerVars, queueVars, pendingError, localVars,
                   transactionSize, historyVars>>

Terminated == exit # "none" /\ UNCHANGED vars

Next == (\E w \in Worker : Run(w)) \/ Main \/ Terminated

(* Every thread is scheduled, every call of the storage and the analyzer   *)
(* returns, and main waits for the threads.                                *)
Fairness == (\A w \in Worker : WF_vars(Run(w))) /\ WF_vars(Main)

Spec == Init /\ [][Next]_vars /\ Fairness
=============================================================================
