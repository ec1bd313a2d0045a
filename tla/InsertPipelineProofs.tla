------------------------ MODULE InsertPipelineProofs ------------------------
(***************************************************************************)
(* Proofs about strusInsert, for every number of threads, every list of    *)
(* files and every transaction size.                                       *)
(*                                                                         *)
(* The crawler and the queue keep the invariants of their own proofs: a    *)
(* step of the program is one of theirs or leaves them alone (CrawlerStep, *)
(* QueueStep).  What the composition adds is in IInv.  A document is new   *)
(* when it is inserted, although nothing compares it with those inserted   *)
(* before: its file is in the hands of one thread only (EachFileOnce), and *)
(* that thread has analyzed the documents in front of nextDoc and none of  *)
(* its other files (HandledInOrder).  With it, the transactions stay apart *)
(* (Apart) and m_docCount counts what is open (Counted).                   *)
(*                                                                         *)
(* IInvExit adds where a document is as long as no thread has set its      *)
(* error flag (Accounted): an exit code of zero is an account of all.      *)
(* The last part maps every step to one of InsertPromise.                  *)
(***************************************************************************)
EXTENDS InsertPipelineProps, FiniteSetTheorems, DataInduction

CP == INSTANCE FileCrawlerProofs WITH
    Dir <- {}, FilesIn <- <<>>, SubDirs <- <<>>

QP == INSTANCE CommitQueueProofs WITH
    Transaction <- Batches, NoTransaction <- {}

(* The threads that are in a file, the front of their batch.               *)
InFile == {"doc", "push", "pushing", "caught"}

(* The files of the chunks waiting.                                        *)
Queued == Elements(chunkque)

(* The documents that were analyzed so far.                                *)
Handled == (UNION {transaction[w] : w \in Worker}) \cup Pushed \cup discarded

LocalTypeOK ==
    /\ pc \in [Worker -> Pc]
    /\ transaction \in [Worker -> SUBSET Doc]
    /\ docCount \in [Worker -> Nat]
    /\ nextDoc \in [Worker -> Nat \ {0}]
    /\ gotError \in [Worker -> BOOLEAN]
    /\ transactionSize \in TransactionSizes
    /\ exit \in {"none", "0", "-1", "-2", "-3"}
    /\ discarded \in SUBSET Doc
    /\ cutOff \in SUBSET File

(* A file waits in one chunk or is in the batch of one thread, once.       *)
EachFileOnce ==
    /\ EachOnce(chunkque)
    /\ \A w \in Worker :
          /\ IsInjective(batch[w])
          /\ ToSet(batch[w]) \cap Queued = {}
    /\ \A v, w \in Worker : v # w => ToSet(batch[v]) \cap ToSet(batch[w]) = {}

(* A thread has analyzed the documents in front of nextDoc of the file it  *)
(* is in and none of the files behind it.                                  *)
InOrder(w, d) ==
    d[1] \in ToSet(batch[w]) =>
        /\ pc[w] \in InFile \cup {"done"}
        /\ d[1] = Head(batch[w])
        /\ d[2] < nextDoc[w]

HandledInOrder ==
    \A d \in Handled :
        d[1] \notin Queued /\ \A w \in Worker : InOrder(w, d)

Apart ==
    /\ \A v, w \in Worker : v # w => transaction[v] \cap transaction[w] = {}
    /\ \A s, t \in pushed : s # t => s \cap t = {}
    /\ Pushed \cap discarded = {}
    /\ \A w \in Worker : transaction[w] \cap (Pushed \cup discarded) = {}

(* m_docCount counts the open transaction where the thread relies on it.   *)
Counted(w) ==
    /\ IsFiniteSet(transaction[w])
    /\ pc[w] \in {"start", "pushing", "lastpush", "done"} => transaction[w] = {}
    /\ pc[w] \in {"start", "files", "doc", "push"} =>
           docCount[w] = Cardinality(transaction[w])
    /\ transactionSize > 0 => docCount[w] <= transactionSize
    /\ transactionSize > 0 /\ pc[w] \in {"files", "doc"} =>
           docCount[w] < transactionSize
    /\ pc[w] = "push" => docCount[w] = transactionSize /\ docCount[w] > 0

(* Where a thread is fits the crawler's and the queue's view of it.        *)
Placed(w) ==
    /\ pc[w] \in InFile => batch[w] # <<>>
    /\ pc[w] \notin {"pushing", "lastpush"} => stage[w] = "idle"
    /\ w \in stopped => batch[w] = <<>>
    /\ pc[w] = "lastpush" => w \in stopped

IInv ==
    /\ LocalTypeOK
    /\ CP!IInv /\ CP!StoppedAtTheEnd
    /\ QP!IInv
    /\ EachFileOnce
    /\ HandledInOrder
    /\ Apart
    /\ \A w \in Worker : Counted(w) /\ Placed(w)

-----------------------------------------------------------------------------
(* The assumptions of the two components hold for their instances.         *)
LEMMA NoBatchAssumption == {} \notin Batches
BY DEF Batches

(* The crawler finds no directories: there is no tree to be walked.        *)
LEMMA FilesAssumption == CP!Trees
<1>1. {} \in SUBSET File /\ IsFiniteSet({})
  BY FS_EmptySet
<1>2. <<>> = [d \in {} |-> <<>>]
  OBVIOUS
<1>3. \A S : <<>> \in [{} -> S]
  BY <1>2
<1>4. Path \in Seq(File \cup {}) /\ ChunkSize \in Nat
  <2>1. File \cup {} = File
    OBVIOUS
  <2>2. QED BY <2>1, InsertAssumption
<1>5. \A m : \E depth \in [{} -> 0 .. m] :
          \A d \in {} : \A i \in DOMAIN <<>>[d] : depth[<<>>[d][i]] < depth[d]
  BY <1>3
<1>6. CP!IsFiniteSet({})
  BY <1>1 DEF IsFiniteSet, CP!IsFiniteSet
<1>7. QED BY <1>1, <1>3, <1>4, <1>5, <1>6 DEF CP!Trees

(* The chunks of the constructor have each file in one place.              *)
LEMMA MadeOnce == CP!Cut => EachOnce(made) /\ Elements(made) = File
BY CP!PathsInChunks, FilesAssumption, InsertAssumption
   DEF EachOnce, CP!EachOnce, IsInjective, CP!IsInjective, Elements,
       CP!Elements, ToSet, CP!ToSet

(* The crawler of the program starts as the one proved about.              *)
LEMMA InitCrawler == Crawler!Init => CP!Init
<1>1. \A q, f : Crawler!AddFile(q, f) = CP!AddFile(q, f)
  BY DEF Crawler!AddFile, CP!AddFile, Crawler!Last, CP!Last
<1>2. \A s : Crawler!FlattenSeq(s) = CP!FlattenSeq(s)
  BY DEF Crawler!FlattenSeq, CP!FlattenSeq
<1>3. \A s : Crawler!ChunkFiles(s) = CP!ChunkFiles(s)
  BY <1>1 DEF Crawler!ChunkFiles, CP!ChunkFiles
<1>4. Crawler!AllItems = CP!AllItems
  BY <1>2 DEF Crawler!AllItems, CP!AllItems, Crawler!ItemsOf, CP!ItemsOf
<1>5. Crawler!Readings = CP!Readings
  BY DEF Crawler!Readings, CP!Readings
<1>6. QED
  BY <1>3, <1>4, <1>5 DEF Crawler!Init, CP!Init, Crawler!ChunksOfPaths,
     CP!ChunksOfPaths, Crawler!ChunksOfOnePath, CP!ChunksOfOnePath

(* A step of the program is one of the crawler or leaves it as it is.      *)
CrawlerStep(w) ==
    \/ CP!Fetch(w) /\ pc[w] = "files"
    \/ CP!FetchNothing(w)
    \/ CP!FetchFails(w)
    \/ CP!FileDone(w)
    \/ UNCHANGED CP!crawlerVars

(* What a thread does with the crawler is a step of the crawler.           *)
LEMMA RunCrawlerStep ==
    ASSUME NEW w \in Worker, Run(w)
    PROVE  CrawlerStep(w)
<1> USE DEF CrawlerStep, Crawler!history, CP!history
<1>1. CASE FetchFiles(w)
  BY <1>1 DEF FetchFiles, Crawler!Fetch, Crawler!FetchNothing,
     Crawler!FetchFails, CP!Fetch, CP!FetchNothing, CP!FetchFails
<1>2. CASE RejectFile(w) \/ AnalyzerFails(w) \/ ReadFails(w) \/ EndOfFile(w)
           \/ Recover(w)
  BY <1>2 DEF RejectFile, AnalyzerFails, ReadFails, EndOfFile, Recover,
     Crawler!FileDone, CP!FileDone
<1>3. CASE Start(w) \/ StartFails(w) \/ OpenFile(w) \/ InsertDocument(w)
           \/ DocumentThrows(w) \/ PushFull(w) \/ HandleTransactions(w)
           \/ Renew(w) \/ RenewFails(w) \/ RecoverFails(w) \/ PushRest(w)
           \/ RunReturns(w)
  BY <1>3 DEF Start, StartFails, OpenFile, InsertDocument, DocumentThrows,
     PushFull, HandleTransactions, Renew, RenewFails, RecoverFails, PushRest,
     RunReturns, crawlerVars, CP!crawlerVars
<1>4. QED BY <1>1, <1>2, <1>3 DEF Run

(* So the program keeps what was proved of the crawler.                    *)
LEMMA NextCrawler ==
    ASSUME CP!IInv, CP!StoppedAtTheEnd, [Next]_vars
    PROVE  CP!IInv' /\ CP!StoppedAtTheEnd'
<1>1. [CP!Next]_(CP!crawlerVars)
  <2>1. ASSUME NEW w \in Worker, Run(w) PROVE [CP!Next]_(CP!crawlerVars)
    BY <2>1, RunCrawlerStep DEF CrawlerStep, CP!Next, CP!Step
  <2>2. CASE Main \/ Terminated \/ UNCHANGED vars
    BY <2>2 DEF Main, Terminated, vars, crawlerVars, CP!crawlerVars, CP!history
  <2>3. QED BY <2>1, <2>2 DEF Next
<1>2. QED BY <1>1, FilesAssumption, CP!NextIInv, CP!NextStopped

(* The calls of the queue are steps of the queue; nothing else changes it. *)
LEMMA QueueCalls ==
    ASSUME NEW w \in Worker, Run(w)
    PROVE  \/ HandleTransactions(w) /\ QP!HandleWaitingTransactions(w)
           \/ /\ PushFull(w) \/ PushRest(w)
              /\ QP!PushTransaction(w, transaction[w])
           \/ ~HandleTransactions(w) /\ ~PushFull(w) /\ ~PushRest(w)
              /\ UNCHANGED queueVars
<1>1. CASE HandleTransactions(w)
  BY <1>1 DEF HandleTransactions, Queue!HandleWaitingTransactions,
     QP!HandleWaitingTransactions, Queue!GetNextTransaction,
     QP!GetNextTransaction, Queue!NoTransactionWaiting,
     QP!NoTransactionWaiting, Queue!CommitSucceeds, QP!CommitSucceeds,
     Queue!CommitFails, QP!CommitFails, Queue!RecordError, QP!RecordError,
     Queue!CommitOutOfMemory, QP!CommitOutOfMemory, Queue!NextRound,
     QP!NextRound
<1>2. CASE PushFull(w) \/ PushRest(w)
  BY <1>2 DEF PushFull, PushRest, PushOpenTransaction, Queue!PushTransaction,
     QP!PushTransaction
<1>3. CASE ~HandleTransactions(w) /\ ~PushFull(w) /\ ~PushRest(w)
  BY <1>3 DEF Run, Start, StartFails, FetchFiles, OpenFile, RejectFile,
     InsertDocument, DocumentThrows, AnalyzerFails, ReadFails, EndOfFile,
     Renew, RenewFails, Recover, RecoverFails, RunReturns
<1>4. QED BY <1>1, <1>2, <1>3

(* The same for the queue, whose threads also change their error contexts. *)
QueueStep(w) ==
    \/ /\ PushFull(w) \/ PushRest(w)
       /\ QP!PushTransaction(w, transaction[w])
    \/ QP!HandleWaitingTransactions(w)
    \/ /\ UNCHANGED queueVars
       /\ \E v \in Worker, b \in BOOLEAN : 
             pendingError' \in {pendingError, [pendingError EXCEPT ![v] = b]}

(* What a thread does with the queue is such a step.                       *)
LEMMA RunQueueStep ==
    ASSUME NEW w \in Worker, Run(w)
    PROVE  QueueStep(w)
<1> USE DEF QueueStep
<1>1. CASE PushFull(w) \/ PushRest(w) \/ HandleTransactions(w)
  BY <1>1, QueueCalls
<1>2. CASE FetchFiles(w)
  <2>1. pendingError' = [pendingError EXCEPT ![w] = pendingError[w] \/ w \in broken']
        /\ UNCHANGED queueVars
    BY <1>2 DEF FetchFiles
  <2>2. (pendingError[w] \/ w \in broken') \in BOOLEAN
    OBVIOUS
  <2>3. QED BY <2>1, <2>2
<1>3. CASE Start(w) \/ StartFails(w) \/ RejectFile(w) \/ OpenFile(w)
           \/ InsertDocument(w) \/ DocumentThrows(w)
  BY <1>3 DEF Start, StartFails, RejectFile, OpenFile, InsertDocument,
     DocumentThrows, ClearError, Return
<1>4. CASE AnalyzerFails(w) \/ ReadFails(w) \/ EndOfFile(w)
           \/ Renew(w) \/ RenewFails(w) \/ Recover(w) \/ RecoverFails(w)
           \/ RunReturns(w)
  BY <1>4 DEF AnalyzerFails, ReadFails, EndOfFile, Renew, RenewFails, Recover,
     RecoverFails, RunReturns, ClearError, Return
<1>5. QED BY <1>1, <1>2, <1>3, <1>4 DEF Run

(* So the program keeps what was proved of the queue: only transactions    *)
(* with documents in them are pushed.                                      *)
LEMMA NextQueue ==
    ASSUME LocalTypeOK, QP!IInv, \A w \in Worker : Counted(w), [Next]_vars
    PROVE  QP!IInv'
<1> DEFINE Same == UNCHANGED queueVars /\ pendingError' \in [Worker -> BOOLEAN]
<1>1. ASSUME NEW w \in Worker, Run(w)
      PROVE  [QP!Next]_(QP!queueVars) \/ Same
  <2>1. pendingError \in [Worker -> BOOLEAN]
    BY DEF QP!IInv, QP!TypeOK
  <2>2. CASE /\ PushFull(w) \/ PushRest(w)
             /\ QP!PushTransaction(w, transaction[w])
    <3>1. docCount[w] > 0 /\ docCount[w] = Cardinality(transaction[w])
      BY <2>2 DEF PushFull, PushRest, Counted
    <3>2. transaction[w] # {}
      BY <3>1, FS_EmptySet
    <3>3. transaction[w] \in Batches
      BY <3>2 DEF LocalTypeOK, Batches
    <3>4. QED BY <2>2, <3>3 DEF QP!Next
  <2>3. CASE QP!HandleWaitingTransactions(w)
    BY <2>3 DEF QP!Next
  <2>4. CASE /\ UNCHANGED queueVars
             /\ \E v \in Worker, b \in BOOLEAN :
                   pendingError' \in {pendingError, [pendingError EXCEPT ![v] = b]}
    BY <2>1, <2>4
  <2>5. QED BY <1>1, <2>2, <2>3, <2>4, RunQueueStep DEF QueueStep
<1>2. CASE Main \/ Terminated \/ UNCHANGED vars
  <2>1. UNCHANGED QP!queueVars
    BY <1>2 DEF Main, Terminated, vars, queueVars, QP!queueVars
  <2>2. QED BY <2>1, NoBatchAssumption, QP!NextIInv
<1>3. CASE Same
  BY <1>3, NoBatchAssumption, QP!ContextIInv DEF queueVars
<1>4. CASE [QP!Next]_(QP!queueVars)
  BY <1>4, NoBatchAssumption, QP!NextIInv
<1>5. QED BY <1>1, <1>2, <1>3, <1>4 DEF Next

-----------------------------------------------------------------------------
(* A step of one thread leaves the others where they are.                  *)
LEMMA OthersKeep ==
    ASSUME LocalTypeOK, CP!TypeOK, QP!TypeOK,
           NEW w \in Worker, Run(w), NEW v \in Worker, v # w
    PROVE  /\ pc'[v] = pc[v]
           /\ transaction'[v] = transaction[v]
           /\ docCount'[v] = docCount[v]
           /\ nextDoc'[v] = nextDoc[v]
           /\ gotError'[v] = gotError[v]
           /\ batch'[v] = batch[v]
           /\ stage'[v] = stage[v]
           /\ v \in stopped' => v \in stopped
<1>1. batch'[v] = batch[v] /\ (v \in stopped' => v \in stopped)
  BY RunCrawlerStep DEF CrawlerStep, CP!Fetch, CP!FetchNothing, CP!FetchFails,
     CP!FileDone, CP!crawlerVars, CP!TypeOK
<1>2. stage'[v] = stage[v]
  BY RunQueueStep DEF QueueStep, QP!PushTransaction,
     QP!HandleWaitingTransactions, QP!GetNextTransaction,
     QP!NoTransactionWaiting, QP!CommitSucceeds, QP!CommitFails,
     QP!RecordError, QP!CommitOutOfMemory, QP!NextRound, queueVars, QP!TypeOK
<1> USE DEF LocalTypeOK, Goto, NewTransaction, Return, Flag,
            PushOpenTransaction, localVars
<1>3. CASE Start(w) \/ StartFails(w) \/ FetchFiles(w) \/ OpenFile(w)
           \/ RejectFile(w) \/ InsertDocument(w) \/ DocumentThrows(w)
  BY <1>1, <1>2, <1>3 DEF Start, StartFails, FetchFiles, OpenFile, RejectFile,
     InsertDocument, DocumentThrows
<1>4. CASE AnalyzerFails(w) \/ ReadFails(w) \/ EndOfFile(w) \/ PushFull(w)
           \/ HandleTransactions(w) \/ Renew(w) \/ RenewFails(w)
  BY <1>1, <1>2, <1>4 DEF AnalyzerFails, ReadFails, EndOfFile, PushFull,
     HandleTransactions, Renew, RenewFails
<1>5. CASE Recover(w) \/ RecoverFails(w) \/ PushRest(w) \/ RunReturns(w)
  BY <1>1, <1>2, <1>5 DEF Recover, RecoverFails, PushRest, RunReturns
<1>6. QED BY <1>3, <1>4, <1>5 DEF Run

(* The file a thread is in is one of the files.                            *)
LEMMA CurrentFileType ==
    ASSUME CP!TypeOK, NEW w \in Worker, batch[w] # <<>>
    PROVE  /\ batch[w] \in Seq(File)
           /\ CurrentFile(w) \in File
           /\ CurrentFile(w) \in ToSet(batch[w])
<1>1. batch[w] \in Seq(File)
  BY DEF CP!TypeOK
<1>2. 1 \in DOMAIN batch[w] /\ Head(batch[w]) = batch[w][1]
  BY <1>1
<1>3. QED BY <1>1, <1>2 DEF CurrentFile, ToSet

(* What analyzeNext yields is a document of the current file.              *)
LEMMA NextDocument ==
    ASSUME LocalTypeOK, CP!TypeOK, NEW w \in Worker, batch[w] # <<>>,
           nextDoc[w] <= NofDocs[CurrentFile(w)], nextDoc[w] > 0
    PROVE  <<CurrentFile(w), nextDoc[w]>> \in Doc
<1>1. CurrentFile(w) \in File /\ NofDocs[CurrentFile(w)] \in Nat
  BY CurrentFileType, InsertAssumption
<1>2. nextDoc[w] \in 1 .. NofDocs[CurrentFile(w)]
  BY <1>1 DEF LocalTypeOK
<1>3. QED BY <1>1, <1>2 DEF Doc

(* A step of a thread keeps the types of the variables of the threads.     *)
LEMMA RunLocalType ==
    ASSUME LocalTypeOK, CP!TypeOK, NEW w \in Worker, Placed(w), Run(w)
    PROVE  LocalTypeOK'
<1> USE DEF LocalTypeOK, Goto, NewTransaction, Return, Flag, Pc,
            PushOpenTransaction, localVars, mainVars, historyVars
<1>1. CASE Start(w)
  BY <1>1 DEF Start
<1>2. CASE StartFails(w)
  BY <1>2 DEF StartFails
<1>3. CASE FetchFiles(w)
  BY <1>3 DEF FetchFiles
<1>4. CASE OpenFile(w)
  BY <1>4 DEF OpenFile
<1>5. CASE RejectFile(w)
  BY <1>5 DEF RejectFile
<1>6. CASE DocumentThrows(w)
  BY <1>6 DEF DocumentThrows
<1>7. CASE InsertDocument(w)
  <2>1. <<CurrentFile(w), nextDoc[w]>> \in Doc
    BY <1>7, NextDocument DEF InsertDocument, Placed, InFile
  <2>2. QED BY <1>7, <2>1 DEF InsertDocument
<1>8. CASE AnalyzerFails(w)
  <2>1. CurrentFile(w) \in File
    BY <1>8, CurrentFileType DEF AnalyzerFails, Placed, InFile
  <2>2. QED BY <1>8, <2>1 DEF AnalyzerFails
<1>9. CASE ReadFails(w)
  BY <1>9 DEF ReadFails
<1>10. CASE EndOfFile(w)
  BY <1>10 DEF EndOfFile
<1>11. CASE PushFull(w)
  BY <1>11 DEF PushFull
<1>12. CASE HandleTransactions(w)
  BY <1>12 DEF HandleTransactions
<1>13. CASE Renew(w)
  BY <1>13 DEF Renew
<1>14. CASE RenewFails(w)
  BY <1>14 DEF RenewFails
<1>15. CASE Recover(w)
  BY <1>15 DEF Recover
<1>16. CASE RecoverFails(w)
  BY <1>16 DEF RecoverFails
<1>17. CASE PushRest(w)
  BY <1>17 DEF PushRest
<1>18. CASE RunReturns(w)
  BY <1>18 DEF RunReturns
<1>19. QED
  BY <1>1, <1>2, <1>3, <1>4, <1>5, <1>6, <1>7, <1>8, <1>9, <1>10, <1>11, <1>12, <1>13, <1>14, <1>15, <1>16, <1>17, <1>18 DEF Run

-----------------------------------------------------------------------------
(* What the crawler's steps do to the files waiting and to those in hand.  *)
FilesMoved(w) ==
    /\ Queued' \subseteq Queued
    /\ Queued \subseteq Queued' \cup ToSet(batch'[w])
    /\ \A v \in Worker \ {w} : batch'[v] = batch[v]
    /\ \/ batch'[w] = batch[w]
       \/ /\ pc[w] = "files"
          /\ ToSet(batch'[w]) \subseteq Queued
          /\ ToSet(batch'[w]) \cap Queued' = {}
       \/ /\ batch[w] # <<>>
          /\ batch'[w] = Tail(batch[w])
          /\ ToSet(batch'[w]) = ToSet(batch[w]) \ {Head(batch[w])}
    /\ IsInjective(batch'[w])
    /\ EachOnce(chunkque')

(* The steps of the crawler move files in this way.                        *)
LEMMA CrawlerMovesFiles ==
    ASSUME CP!TypeOK, EachFileOnce, NEW w \in Worker, CrawlerStep(w)
    PROVE  FilesMoved(w)
<1>1. /\ chunkque \in Seq(Seq(File)) /\ batch \in [Worker -> Seq(File)]
      /\ EachOnce(chunkque) /\ IsInjective(batch[w])
  BY DEF CP!TypeOK, EachFileOnce
<1>2. CASE CP!Fetch(w) /\ pc[w] = "files"
  <2>1. chunkque # <<>> /\ chunkque' = Tail(chunkque)
        /\ batch' = [batch EXCEPT ![w] = Head(chunkque)]
    BY <1>2 DEF CP!Fetch
  <2>2. batch'[w] = Head(chunkque) /\ \A v \in Worker \ {w} : batch'[v] = batch[v]
    BY <1>1, <2>1
  <2>3. /\ IsInjective(Head(chunkque)) /\ EachOnce(chunkque')
        /\ \A x \in ToSet(Head(chunkque)) : x \in Queued /\ x \notin Queued'
        /\ Queued' \subseteq Queued
        /\ Queued \subseteq Queued' \cup ToSet(Head(chunkque))
    BY <1>1, <2>1, FrontApart DEF Queued
  <2>4. /\ ToSet(batch'[w]) \subseteq Queued
        /\ ToSet(batch'[w]) \cap Queued' = {}
        /\ IsInjective(batch'[w])
        /\ Queued \subseteq Queued' \cup ToSet(batch'[w])
    BY <2>2, <2>3
  <2>5. QED BY <1>2, <2>2, <2>3, <2>4 DEF FilesMoved
<1>3. CASE CP!FileDone(w)
  <2>1. /\ batch[w] # <<>> /\ batch[w] \in Seq(File)
        /\ batch' = [batch EXCEPT ![w] = Tail(batch[w])]
        /\ chunkque' = chunkque
    BY <1>1, <1>3 DEF CP!FileDone
  <2>2. /\ batch'[w] = Tail(batch[w])
        /\ \A v \in Worker \ {w} : batch'[v] = batch[v]
    BY <1>1, <2>1
  <2>3. /\ ToSet(Tail(batch[w])) = ToSet(batch[w]) \ {Head(batch[w])}
        /\ IsInjective(Tail(batch[w]))
    BY <1>1, <2>1, TakeFront
  <2>4. Queued' = Queued
    BY <2>1 DEF Queued
  <2>5. QED BY <1>1, <2>1, <2>2, <2>3, <2>4 DEF FilesMoved
<1>4. CASE CP!FetchNothing(w) \/ CP!FetchFails(w) \/ UNCHANGED CP!crawlerVars
  <2>1. batch' = batch /\ chunkque' = chunkque
    BY <1>4 DEF CP!FetchNothing, CP!FetchFails, CP!crawlerVars
  <2>2. QED BY <1>1, <2>1 DEF FilesMoved, Queued
<1>5. QED BY <1>2, <1>3, <1>4 DEF CrawlerStep

(* Files that move so stay in one place.                                   *)
LEMMA FilesMovedOnce ==
    ASSUME EachFileOnce, NEW w \in Worker, FilesMoved(w)
    PROVE  EachFileOnce'
<1>1. ToSet(batch'[w]) \cap Queued' = {}
  <2>1. CASE batch'[w] = batch[w]
    BY <2>1 DEF EachFileOnce, FilesMoved
  <2>2. CASE ToSet(batch'[w]) = ToSet(batch[w]) \ {Head(batch[w])}
    BY <2>2 DEF EachFileOnce, FilesMoved
  <2>3. QED BY <2>1, <2>2 DEF FilesMoved
<1>2. ASSUME NEW v \in Worker, v # w
      PROVE  ToSet(batch'[v]) \cap ToSet(batch'[w]) = {}
  <2>1. batch'[v] = batch[v] /\ ToSet(batch[v]) \cap ToSet(batch[w]) = {}
        /\ ToSet(batch[v]) \cap Queued = {}
    BY <1>2 DEF EachFileOnce, FilesMoved
  <2>2. ToSet(batch'[w]) \subseteq ToSet(batch[w]) \/ ToSet(batch'[w]) \subseteq Queued
    BY DEF FilesMoved
  <2>3. QED BY <2>1, <2>2
<1>3. ASSUME NEW v \in Worker
      PROVE  IsInjective(batch'[v]) /\ ToSet(batch'[v]) \cap Queued' = {}
  <2>1. CASE v = w
    BY <1>1, <2>1 DEF FilesMoved
  <2>2. CASE v # w
    BY <2>2 DEF EachFileOnce, FilesMoved
  <2>3. QED BY <2>1, <2>2
<1>4. ASSUME NEW u \in Worker, NEW v \in Worker, u # v
      PROVE  ToSet(batch'[u]) \cap ToSet(batch'[v]) = {}
  <2>1. CASE u # w /\ v # w
    BY <1>4, <2>1 DEF EachFileOnce, FilesMoved
  <2>2. QED BY <1>2, <1>4, <2>1
<1>5. EachOnce(chunkque')
  BY DEF FilesMoved
<1>6. QED BY <1>3, <1>4, <1>5 DEF EachFileOnce

(* A document is a number of a file.                                       *)
LEMMA DocType ==
    ASSUME NEW d \in Doc
    PROVE  /\ d[1] \in File /\ d[2] \in Nat \ {0}
           /\ NofDocs[d[1]] \in Nat /\ d[2] <= NofDocs[d[1]]
           /\ d = <<d[1], d[2]>>
<1>1. PICK f \in File : d \in {f} \X (1 .. NofDocs[f])
  BY DEF Doc
<1>2. NofDocs[f] \in Nat
  BY InsertAssumption
<1>3. QED BY <1>1, <1>2

(* What was analyzed are documents.                                        *)
LEMMA HandledType ==
    ASSUME LocalTypeOK, QP!TypeOK
    PROVE  Handled \subseteq Doc /\ Pushed \subseteq Doc
<1>1. \A s \in pushed : s \subseteq Doc
  BY DEF QP!TypeOK, Batches
<1>2. \A w \in Worker : transaction[w] \subseteq Doc
  BY DEF LocalTypeOK
<1>3. discarded \subseteq Doc
  BY DEF LocalTypeOK
<1>4. QED BY <1>1, <1>2, <1>3 DEF Handled, Pushed

(* Where an unfinished document of the current file is, no document of the *)
(* other files of a batch has been handled.                                *)
LEMMA HandledStays ==
    ASSUME LocalTypeOK, CP!TypeOK, QP!TypeOK, EachFileOnce, HandledInOrder,
           NEW w \in Worker, Run(w), FilesMoved(w),
           LocalTypeOK', NEW d \in Handled,
           \/ batch'[w] # batch[w]
           \/ /\ pc[w] \in InFile => pc'[w] \in InFile \cup {"done"}
              /\ pc[w] = "done" => pc'[w] = "done"
              /\ pc[w] \in InFile \cup {"done"} => nextDoc'[w] >= nextDoc[w]
    PROVE  d[1] \notin Queued' /\ \A v \in Worker : InOrder(v, d)'
<1>1. d[1] \notin Queued /\ \A v \in Worker : InOrder(v, d)
  BY DEF HandledInOrder
<1>2. d[1] \notin Queued'
  BY <1>1 DEF FilesMoved
<1>3. ASSUME NEW v \in Worker, v # w PROVE InOrder(v, d)'
  <2>1. batch'[v] = batch[v] /\ pc'[v] = pc[v] /\ nextDoc'[v] = nextDoc[v]
    BY <1>3, OthersKeep
  <2>2. QED BY <1>1, <2>1 DEF InOrder
<1>4. InOrder(w, d)'
  <2>1. CASE batch'[w] = batch[w]
    <3>1. nextDoc[w] \in Nat /\ nextDoc'[w] \in Nat /\ InOrder(w, d)
      BY <1>1 DEF LocalTypeOK
    <3>2. d[2] \in Nat
      BY HandledType, DocType
    <3>3. CASE d[1] \in ToSet(batch[w])
      <4>1. /\ pc[w] \in InFile \cup {"done"}
            /\ d[1] = Head(batch[w]) /\ d[2] < nextDoc[w]
        BY <3>1, <3>3 DEF InOrder
      <4>2. pc'[w] \in InFile \cup {"done"} /\ nextDoc'[w] >= nextDoc[w]
        BY <2>1, <4>1
      <4>3. d[2] < nextDoc'[w]
        BY <3>1, <3>2, <4>1, <4>2
      <4>4. QED BY <2>1, <4>1, <4>2, <4>3 DEF InOrder
    <3>4. QED BY <2>1, <3>3 DEF InOrder
  <2>2. CASE ToSet(batch'[w]) \subseteq Queued
    BY <1>1, <2>2 DEF InOrder
  <2>3. CASE ToSet(batch'[w]) = ToSet(batch[w]) \ {Head(batch[w])}
    BY <1>1, <2>3 DEF InOrder
  <2>4. QED BY <2>1, <2>2, <2>3 DEF FilesMoved
<1>5. QED BY <1>2, <1>3, <1>4

-----------------------------------------------------------------------------
(* What a step does to the documents.                                      *)
NewDoc(w) == <<CurrentFile(w), nextDoc[w]>>

Kept == UNCHANGED <<transaction, pushed, discarded>>
Gathered(w) ==
    /\ InsertDocument(w)
    /\ transaction' = [transaction EXCEPT ![w] = @ \cup {NewDoc(w)}]
    /\ UNCHANGED <<pushed, discarded>>
HandedOver(w) ==
    /\ transaction' = [transaction EXCEPT ![w] = {}]
    /\ pushed' = pushed \cup {transaction[w]}
    /\ UNCHANGED discarded
ThrownAway(w) ==
    /\ transaction' = [transaction EXCEPT ![w] = {}]
    /\ discarded' = discarded \cup transaction[w]
    /\ UNCHANGED pushed

(* A step of a thread does one of these.                                   *)
LEMMA RunMovesDocuments ==
    ASSUME LocalTypeOK, NEW w \in Worker, Counted(w), Run(w)
    PROVE  \/ Kept /\ ~InsertDocument(w)
           \/ Gathered(w)
           \/ HandedOver(w) /\ (PushFull(w) \/ PushRest(w))
           \/ ThrownAway(w) /\ (Recover(w) \/ RecoverFails(w))
<1>1. CASE StartFails(w) \/ FetchFiles(w) \/ OpenFile(w) \/ RejectFile(w)
           \/ DocumentThrows(w) \/ AnalyzerFails(w)
  <2>1. Kept
    BY <1>1 DEF StartFails, FetchFiles, OpenFile, RejectFile, DocumentThrows,
       AnalyzerFails, Kept, localVars, queueVars, historyVars
  <2>2. /\ InsertDocument(w) => nextDoc'[w] = nextDoc[w] + 1 /\ pc[w] = "doc"
        /\ nextDoc[w] \in Nat /\ nextDoc \in [Worker -> Nat \ {0}]
    BY DEF InsertDocument, LocalTypeOK
  <2>3. ~InsertDocument(w)
    BY <1>1, <2>2 DEF StartFails, FetchFiles, OpenFile, RejectFile,
       DocumentThrows, AnalyzerFails, localVars
  <2>4. QED BY <2>1, <2>3
<1>2. CASE ReadFails(w) \/ EndOfFile(w) \/ RenewFails(w) \/ RunReturns(w)
  <2>1. Kept
    BY <1>2 DEF ReadFails, EndOfFile, RenewFails, RunReturns, Kept, queueVars,
       historyVars
  <2>2. InsertDocument(w) => nextDoc'[w] = nextDoc[w] + 1 /\ nextDoc[w] \in Nat
    BY DEF InsertDocument, LocalTypeOK
  <2>3. ~InsertDocument(w)
    BY <1>2, <2>2 DEF ReadFails, EndOfFile, RenewFails, RunReturns
  <2>4. QED BY <2>1, <2>3
<1>3. CASE Start(w) \/ Renew(w)
  <2>1. pc[w] # "doc" /\ transaction[w] = {}
    BY <1>3 DEF Start, Renew, Counted
  <2>2. transaction' = transaction
    BY <1>3, <2>1 DEF Start, Renew, NewTransaction, LocalTypeOK
  <2>3. QED BY <1>3, <2>1, <2>2 DEF Start, Renew, Kept, queueVars, historyVars,
            InsertDocument
<1>4. CASE HandleTransactions(w)
  BY <1>4 DEF HandleTransactions, Queue!HandleWaitingTransactions,
     Queue!GetNextTransaction, Queue!NoTransactionWaiting,
     Queue!CommitSucceeds, Queue!CommitFails, Queue!RecordError,
     Queue!CommitOutOfMemory, Queue!NextRound, Kept, localVars, historyVars,
     InsertDocument
<1>5. CASE InsertDocument(w)
  BY <1>5 DEF InsertDocument, Gathered, NewDoc, queueVars, historyVars
<1>6. CASE PushFull(w) \/ PushRest(w)
  BY <1>6 DEF PushFull, PushRest, PushOpenTransaction, Queue!PushTransaction,
     HandedOver, historyVars
<1>7. CASE Recover(w) \/ RecoverFails(w)
  BY <1>7 DEF Recover, RecoverFails, NewTransaction, ThrownAway, queueVars
<1>8. QED BY <1>1, <1>2, <1>3, <1>4, <1>5, <1>6, <1>7 DEF Run

(* The document analyzeNext yields was not seen before, by any thread.     *)
LEMMA NewDocIsNew ==
    ASSUME LocalTypeOK, CP!TypeOK, HandledInOrder,
           NEW w \in Worker, Placed(w), InsertDocument(w)
    PROVE  /\ NewDoc(w) \in Doc
           /\ NewDoc(w) \notin Handled
           /\ NewDoc(w)[1] = Head(batch[w])
           /\ NewDoc(w)[1] \in ToSet(batch[w])
           /\ NewDoc(w)[2] = nextDoc[w]
<1>1. pc[w] = "doc" /\ nextDoc[w] <= NofDocs[CurrentFile(w)]
  BY DEF InsertDocument
<1>2. batch[w] # <<>>
  BY <1>1 DEF Placed, InFile
<1>3. nextDoc[w] \in Nat \ {0}
  BY DEF LocalTypeOK
<1>4. NewDoc(w) \in Doc
  BY <1>1, <1>2, <1>3, NextDocument DEF NewDoc
<1>5. NewDoc(w)[1] = CurrentFile(w) /\ NewDoc(w)[2] = nextDoc[w]
  BY DEF NewDoc
<1>6. CurrentFile(w) \in ToSet(batch[w]) /\ CurrentFile(w) = Head(batch[w])
  BY <1>2, CurrentFileType DEF CurrentFile
<1>7. ASSUME NewDoc(w) \in Handled PROVE FALSE
  <2>1. NewDoc(w)[2] < nextDoc[w]
    BY <1>5, <1>6, <1>7 DEF HandledInOrder, InOrder
  <2>2. QED BY <1>3, <1>5, <2>1
<1>8. QED BY <1>4, <1>5, <1>6, <1>7

(* Only the insertion of a document adds to those analyzed.                *)
LEMMA HandledGrows ==
    ASSUME LocalTypeOK, NEW w \in Worker, Counted(w), Run(w)
    PROVE  \/ Handled' \subseteq Handled /\ ~InsertDocument(w)
           \/ Handled' = Handled \cup {NewDoc(w)} /\ Gathered(w)
<1>1. transaction \in [Worker -> SUBSET Doc]
  BY DEF LocalTypeOK
<1>2. CASE Kept /\ ~InsertDocument(w)
  BY <1>2 DEF Kept, Handled, Pushed
<1>3. CASE Gathered(w)
  <2>1. \A v \in Worker : transaction'[v] =
            IF v = w THEN transaction[w] \cup {NewDoc(w)} ELSE transaction[v]
    BY <1>1, <1>3 DEF Gathered
  <2>2. Pushed' = Pushed /\ discarded' = discarded
    BY <1>3 DEF Gathered, Pushed
  <2>3. QED BY <1>3, <2>1, <2>2 DEF Handled
<1>4. CASE HandedOver(w) /\ (PushFull(w) \/ PushRest(w))
  <2>1. \A v \in Worker : transaction'[v] \subseteq transaction[v]
    BY <1>1, <1>4 DEF HandedOver
  <2>2. Pushed' = Pushed \cup transaction[w] /\ discarded' = discarded
    BY <1>4 DEF HandedOver, Pushed
  <2>3. pc[w] # "doc"
    BY <1>4 DEF PushFull, PushRest
  <2>4. QED BY <2>1, <2>2, <2>3 DEF Handled, InsertDocument
<1>5. CASE ThrownAway(w) /\ (Recover(w) \/ RecoverFails(w))
  <2>1. \A v \in Worker : transaction'[v] \subseteq transaction[v]
    BY <1>1, <1>5 DEF ThrownAway
  <2>2. Pushed' = Pushed /\ discarded' = discarded \cup transaction[w]
    BY <1>5 DEF ThrownAway, Pushed
  <2>3. pc[w] # "doc"
    BY <1>5 DEF Recover, RecoverFails
  <2>4. QED BY <2>1, <2>2, <2>3 DEF Handled, InsertDocument
<1>6. QED BY <1>2, <1>3, <1>4, <1>5, RunMovesDocuments

(* Where a thread goes on in a file, it goes forward.                      *)
LEMMA RunGoesForward ==
    ASSUME LocalTypeOK, CP!TypeOK, NEW w \in Worker, Run(w)
    PROVE  \/ batch'[w] # batch[w]
           \/ /\ pc[w] \in InFile => pc'[w] \in InFile \cup {"done"}
              /\ pc[w] = "done" => pc'[w] = "done"
              /\ pc[w] \in InFile \cup {"done"} => nextDoc'[w] >= nextDoc[w]
<1> USE DEF LocalTypeOK, Goto, Return, InFile
<1>1. CASE Start(w) \/ StartFails(w) \/ FetchFiles(w) \/ OpenFile(w)
           \/ RejectFile(w) \/ DocumentThrows(w)
  BY <1>1 DEF Start, StartFails, FetchFiles, OpenFile, RejectFile,
     DocumentThrows
<1>2. CASE InsertDocument(w)
  BY <1>2 DEF InsertDocument
<1>3. CASE AnalyzerFails(w) \/ ReadFails(w) \/ EndOfFile(w) \/ Recover(w)
  <2>1. batch[w] \in Seq(File) /\ batch[w] # <<>> /\ batch'[w] = Tail(batch[w])
    BY <1>3 DEF AnalyzerFails, ReadFails, EndOfFile, Recover,
       Crawler!FileDone, CP!TypeOK
  <2>2. Len(Tail(batch[w])) # Len(batch[w])
    BY <2>1
  <2>3. QED BY <2>1, <2>2
<1>4. CASE PushFull(w) \/ HandleTransactions(w) \/ Renew(w) \/ RenewFails(w)
  BY <1>4 DEF PushFull, HandleTransactions, Renew, RenewFails, localVars
<1>5. CASE RecoverFails(w) \/ PushRest(w) \/ RunReturns(w)
  BY <1>5 DEF RecoverFails, PushRest, RunReturns
<1>6. QED BY <1>1, <1>2, <1>3, <1>4, <1>5 DEF Run

(* The threads stay in order.                                              *)
LEMMA RunHandledInOrder ==
    ASSUME IInv, NEW w \in Worker, Run(w), LocalTypeOK'
    PROVE  HandledInOrder'
<1>1. /\ LocalTypeOK /\ CP!TypeOK /\ QP!TypeOK /\ EachFileOnce
      /\ HandledInOrder /\ Counted(w) /\ Placed(w)
  BY DEF IInv, CP!IInv, QP!IInv
<1>2. FilesMoved(w)
  BY <1>1, RunCrawlerStep, CrawlerMovesFiles
<1>3. ASSUME NEW d \in Handled
      PROVE  d[1] \notin Queued' /\ \A v \in Worker : InOrder(v, d)'
  BY <1>1, <1>2, RunGoesForward, HandledStays
<1>4. CASE Handled' \subseteq Handled
  BY <1>3, <1>4 DEF HandledInOrder
<1>5. CASE Handled' = Handled \cup {NewDoc(w)} /\ Gathered(w)
  <2>1. InsertDocument(w)
    BY <1>5 DEF Gathered
  <2>2. PICK n \in Doc : n = NewDoc(w)
    BY <1>1, <2>1, NewDocIsNew
  <2>3. n[1] = Head(batch[w]) /\ n[1] \in ToSet(batch[w]) /\ n[2] = nextDoc[w]
    BY <1>1, <2>1, <2>2, NewDocIsNew
  <2>4. /\ nextDoc'[w] = nextDoc[w] + 1 /\ nextDoc[w] \in Nat
        /\ pc'[w] \in InFile
        /\ batch' = batch /\ chunkque' = chunkque
    BY <1>1, <2>1 DEF InsertDocument, Goto, LocalTypeOK, crawlerVars, InFile
  <2>5. n[1] \notin Queued'
    BY <1>1, <2>3, <2>4 DEF EachFileOnce, Queued
  <2>6. ASSUME NEW v \in Worker PROVE InOrder(v, n)'
    <3>1. CASE v = w
      BY <2>3, <2>4, <3>1 DEF InOrder
    <3>2. CASE v # w
      <4>1. n[1] \notin ToSet(batch[v])
        BY <1>1, <2>3, <3>2 DEF EachFileOnce
      <4>2. QED BY <2>4, <4>1 DEF InOrder
    <3>3. QED BY <3>1, <3>2
  <2>7. QED BY <1>3, <1>5, <2>2, <2>5, <2>6 DEF HandledInOrder
<1>6. QED BY <1>1, <1>4, <1>5, HandledGrows

(* A new document, a push and a recovery keep the transactions apart.      *)
LEMMA RunApart ==
    ASSUME IInv, NEW w \in Worker, Run(w)
    PROVE  Apart'
<1>1. /\ LocalTypeOK /\ CP!TypeOK /\ QP!TypeOK
      /\ HandledInOrder /\ Apart /\ Counted(w) /\ Placed(w)
  BY DEF IInv, CP!IInv, QP!IInv
<1>2. transaction \in [Worker -> SUBSET Doc]
  BY <1>1 DEF LocalTypeOK
<1>3. CASE Kept
  BY <1>1, <1>3 DEF Kept, Apart, Pushed
<1>4. CASE Gathered(w)
  <2>1. PICK n \in Doc : n = NewDoc(w) /\ n \notin Handled
    BY <1>1, <1>4, NewDocIsNew DEF Gathered
  <2>2. /\ \A v \in Worker : n \notin transaction[v]
        /\ n \notin Pushed /\ n \notin discarded
    BY <2>1 DEF Handled
  <2>3. \A v \in Worker : transaction'[v] =
            IF v = w THEN transaction[w] \cup {n} ELSE transaction[v]
    BY <1>2, <1>4, <2>1 DEF Gathered
  <2>4. Pushed' = Pushed /\ discarded' = discarded /\ pushed' = pushed
    BY <1>4 DEF Gathered, Pushed
  <2>5. QED BY <1>1, <2>2, <2>3, <2>4 DEF Apart
<1>5. CASE HandedOver(w)
  <2>1. \A v \in Worker : transaction'[v] = IF v = w THEN {} ELSE transaction[v]
    BY <1>2, <1>5 DEF HandedOver
  <2>2. /\ pushed' = pushed \cup {transaction[w]}
        /\ Pushed' = Pushed \cup transaction[w] /\ discarded' = discarded
    BY <1>5 DEF HandedOver, Pushed
  <2>3. \A s \in pushed : s \subseteq Pushed
    BY DEF Pushed
  <2>4. QED BY <1>1, <2>1, <2>2, <2>3 DEF Apart
<1>6. CASE ThrownAway(w)
  <2>1. \A v \in Worker : transaction'[v] = IF v = w THEN {} ELSE transaction[v]
    BY <1>2, <1>6 DEF ThrownAway
  <2>2. /\ discarded' = discarded \cup transaction[w]
        /\ Pushed' = Pushed /\ pushed' = pushed
    BY <1>6 DEF ThrownAway, Pushed
  <2>3. QED BY <1>1, <2>1, <2>2 DEF Apart
<1>7. QED BY <1>1, <1>3, <1>4, <1>5, <1>6, RunMovesDocuments

-----------------------------------------------------------------------------
(* The threads leave to main what is its own.                              *)
LEMMA RunKeepsMain ==
    ASSUME NEW w \in Worker, Run(w)
    PROVE  transactionSize' = transactionSize /\ exit' = exit
BY DEF Run, mainVars, 
   Start, StartFails, FetchFiles, OpenFile, RejectFile, InsertDocument,
   DocumentThrows, AnalyzerFails, ReadFails, EndOfFile, PushFull,
   HandleTransactions, Renew, RenewFails, Recover, RecoverFails, PushRest,
   RunReturns

(* The number of documents in a transaction that gets one more.            *)
LEMMA NewDocCounts ==
    ASSUME IInv, NEW w \in Worker, InsertDocument(w)
    PROVE  Counted(w)'
<1>1. /\ LocalTypeOK /\ CP!TypeOK /\ HandledInOrder /\ Counted(w) /\ Placed(w)
  BY DEF IInv, CP!IInv
<1>2. PICK n : n = NewDoc(w) /\ n \notin transaction[w]
  BY <1>1, NewDocIsNew DEF Handled
<1>3. /\ transaction'[w] = transaction[w] \cup {n}
      /\ docCount'[w] = docCount[w] + 1
      /\ pc'[w] = IF docCount'[w] = transactionSize THEN "push" ELSE "doc"
      /\ transactionSize' = transactionSize
  BY <1>1, <1>2 DEF InsertDocument, NewDoc, LocalTypeOK, Goto, mainVars
<1>4. /\ IsFiniteSet(transaction[w])
      /\ docCount[w] = Cardinality(transaction[w])
      /\ transactionSize > 0 => docCount[w] < transactionSize
  BY <1>1 DEF Counted, InsertDocument
<1>5. /\ IsFiniteSet(transaction'[w])
      /\ Cardinality(transaction'[w]) = Cardinality(transaction[w]) + 1
  BY <1>2, <1>3, <1>4, FS_AddElement
<1>6. docCount[w] \in Nat /\ transactionSize \in Nat
  BY <1>1, InsertAssumption DEF LocalTypeOK
<1>7. QED BY <1>3, <1>4, <1>5, <1>6 DEF Counted

(* The count stays the number of open documents.                           *)
LEMMA RunCounted ==
    ASSUME IInv, NEW w \in Worker, Run(w)
    PROVE  \A v \in Worker : Counted(v)'
<1>1. /\ LocalTypeOK /\ CP!TypeOK /\ QP!TypeOK
      /\ \A v \in Worker : Counted(v)
  BY DEF IInv, CP!IInv, QP!IInv
<1>2. transactionSize' = transactionSize /\ transactionSize \in Nat
  BY <1>1, RunKeepsMain, InsertAssumption DEF LocalTypeOK
<1>3. ASSUME NEW v \in Worker, v # w PROVE Counted(v)'
  <2>1. /\ pc'[v] = pc[v] /\ transaction'[v] = transaction[v]
        /\ docCount'[v] = docCount[v]
    BY <1>1, <1>3, OthersKeep
  <2>2. Counted(v)
    BY <1>1
  <2>3. QED BY <1>2, <2>1, <2>2 DEF Counted
<1>4. Counted(w)'
  <2>1. Counted(w) /\ docCount[w] \in Nat
    BY <1>1 DEF LocalTypeOK
  <2>2. IsFiniteSet({}) /\ Cardinality({}) = 0
    BY FS_EmptySet
  <2> USE DEF Goto, Return, NewTransaction, LocalTypeOK, localVars
  <2>3. CASE Start(w)
    BY <1>1, <1>2, <2>1, <2>2, <2>3 DEF Start, Counted
  <2>4. CASE StartFails(w)
    BY <1>1, <1>2, <2>1, <2>2, <2>4 DEF StartFails, Counted
  <2>5. CASE FetchFiles(w)
    BY <1>1, <1>2, <2>1, <2>2, <2>5 DEF FetchFiles, Counted
  <2>6. CASE OpenFile(w)
    BY <1>1, <1>2, <2>1, <2>2, <2>6 DEF OpenFile, Counted
  <2>7. CASE RejectFile(w)
    BY <1>1, <1>2, <2>1, <2>2, <2>7 DEF RejectFile, Counted
  <2>8. CASE InsertDocument(w)
    BY <2>8, NewDocCounts
  <2>9. CASE DocumentThrows(w)
    BY <1>1, <1>2, <2>1, <2>2, <2>9 DEF DocumentThrows, Counted
  <2>10. CASE AnalyzerFails(w)
    BY <1>1, <1>2, <2>1, <2>2, <2>10 DEF AnalyzerFails, Counted
  <2>11. CASE ReadFails(w)
    BY <1>1, <1>2, <2>1, <2>2, <2>11 DEF ReadFails, Counted
  <2>12. CASE EndOfFile(w)
    BY <1>1, <1>2, <2>1, <2>2, <2>12 DEF EndOfFile, Counted
  <2>13. CASE PushFull(w)
    BY <1>1, <1>2, <2>1, <2>2, <2>13 DEF PushFull, PushOpenTransaction, Counted
  <2>14. CASE HandleTransactions(w)
    BY <1>1, <1>2, <2>1, <2>2, <2>14 DEF HandleTransactions, Counted
  <2>15. CASE Renew(w)
    BY <1>1, <1>2, <2>1, <2>2, <2>15 DEF Renew, Counted
  <2>16. CASE RenewFails(w)
    BY <1>1, <1>2, <2>1, <2>2, <2>16 DEF RenewFails, Counted
  <2>17. CASE Recover(w)
    BY <1>1, <1>2, <2>1, <2>2, <2>17 DEF Recover, Counted
  <2>18. CASE RecoverFails(w)
    BY <1>1, <1>2, <2>1, <2>2, <2>18 DEF RecoverFails, Counted
  <2>19. CASE PushRest(w)
    BY <1>1, <1>2, <2>1, <2>2, <2>19 DEF PushRest, PushOpenTransaction, Counted
  <2>20. CASE RunReturns(w)
    <3>1. transaction[w] = {}
      BY <2>1, <2>20, FS_EmptySet DEF RunReturns, Counted
    <3>2. QED BY <1>1, <1>2, <2>1, <2>2, <2>20, <3>1 DEF RunReturns, Counted
  <2>21. QED
    BY <2>3, <2>4, <2>5, <2>6, <2>7, <2>8, <2>9, <2>10, <2>11, <2>12,
       <2>13, <2>14, <2>15, <2>16, <2>17, <2>18, <2>19, <2>20
       DEF Run
<1>5. QED BY <1>3, <1>4

(* The thread, the crawler and the queue stay in step.                     *)
LEMMA RunPlaced ==
    ASSUME IInv, NEW w \in Worker, Run(w)
    PROVE  \A v \in Worker : Placed(v)'
<1>1. /\ LocalTypeOK /\ CP!TypeOK /\ QP!TypeOK
      /\ \A v \in Worker : Placed(v)
  BY DEF IInv, CP!IInv, QP!IInv
<1>2. ASSUME NEW v \in Worker, v # w PROVE Placed(v)'
  <2>1. /\ pc'[v] = pc[v] /\ batch'[v] = batch[v] /\ stage'[v] = stage[v]
        /\ v \in stopped' => v \in stopped
    BY <1>1, <1>2, OthersKeep
  <2>2. v \in stopped => v \in stopped'
    BY RunCrawlerStep DEF CrawlerStep, CP!Fetch, CP!FetchNothing,
       CP!FetchFails, CP!FileDone, CP!crawlerVars
  <2>3. Placed(v)
    BY <1>1
  <2>4. QED BY <2>1, <2>2, <2>3 DEF Placed
<1>3. Placed(w)'
  <2>1. Placed(w)
    BY <1>1
  <2>2. /\ pc \in [Worker -> Pc] /\ stage \in [Worker -> QP!Stage]
        /\ batch \in [Worker -> Seq(File)]
    BY <1>1 DEF LocalTypeOK, CP!TypeOK, QP!TypeOK
  <2> USE DEF Goto, Return, InFile
  <2>3. CASE UNCHANGED stage /\ UNCHANGED <<batch, stopped>>
             /\ (Start(w) \/ StartFails(w) \/ OpenFile(w) \/ InsertDocument(w)
                 \/ DocumentThrows(w) \/ Renew(w) \/ RenewFails(w)
                 \/ RecoverFails(w) \/ RunReturns(w))
    BY <2>1, <2>2, <2>3 DEF Start, StartFails, OpenFile, InsertDocument,
       DocumentThrows, Renew, RenewFails, RecoverFails, RunReturns, Placed
  <2>4. CASE FetchFiles(w)
    <3>1. pc'[w] = "files" /\ stage'[w] = stage[w]
      BY <2>4 DEF FetchFiles, localVars, queueVars
    <3>2. w \in stopped' => batch'[w] = <<>>
      BY <2>1, <2>2, <2>4 DEF FetchFiles, Crawler!Fetch, Crawler!FetchNothing,
         Crawler!FetchFails, Placed
    <3>3. pc[w] = "files"
      BY <2>4 DEF FetchFiles
    <3>4. QED BY <2>1, <3>1, <3>2, <3>3 DEF Placed
  <2>5. CASE RejectFile(w) \/ AnalyzerFails(w) \/ ReadFails(w) \/ EndOfFile(w)
             \/ Recover(w)
    <3>1. /\ pc[w] \in {"files", "doc", "caught"} /\ pc'[w] = "files"
          /\ stage'[w] = stage[w] /\ Crawler!FileDone(w)
      BY <2>2, <2>5 DEF RejectFile, AnalyzerFails, ReadFails, EndOfFile,
         Recover, queueVars
    <3>2. stopped' = stopped /\ batch[w] # <<>>
      BY <3>1 DEF Crawler!FileDone
    <3>3. QED BY <2>1, <3>1, <3>2 DEF Placed
  <2>6. CASE PushFull(w) \/ PushRest(w)
    BY <2>1, <2>2, <2>6 DEF PushFull, PushRest, crawlerVars, Placed
  <2>7. CASE HandleTransactions(w)
    BY <2>1, <2>7 DEF HandleTransactions, crawlerVars, localVars, Placed
  <2>8. CASE Start(w) \/ StartFails(w) \/ OpenFile(w) \/ InsertDocument(w)
             \/ DocumentThrows(w) \/ Renew(w) \/ RenewFails(w)
             \/ RecoverFails(w) \/ RunReturns(w)
    <3>1. UNCHANGED stage /\ UNCHANGED <<batch, stopped>>
      BY <2>8 DEF Start, StartFails, OpenFile, InsertDocument, DocumentThrows,
         Renew, RenewFails, RecoverFails, RunReturns, crawlerVars, queueVars
    <3>2. QED BY <2>3, <2>8, <3>1
  <2>9. QED BY <2>4, <2>5, <2>6, <2>7, <2>8 DEF Run
<1>4. QED BY <1>2, <1>3

-----------------------------------------------------------------------------
(* The program starts with everything in its place.                        *)
LEMMA InitIInv == Init => IInv
<1> SUFFICES ASSUME Init PROVE IInv
  OBVIOUS
<1>1. CP!IInv /\ CP!StoppedAtTheEnd
  BY InitCrawler, CP!InitIInv, FilesAssumption DEF Init
<1>2. QP!IInv
  <2>1. QP!Init
    BY DEF Init, Queue!Init, QP!Init
  <2>2. QED BY <2>1, NoBatchAssumption, QP!InitIInv
<1>3. LocalTypeOK
  BY DEF Init, LocalTypeOK, Pc
<1>4. /\ batch = [w \in Worker |-> <<>>] /\ chunkque = made /\ stopped = {}
      /\ pushed = {} /\ stage = [w \in Worker |-> "idle"]
  BY DEF Init, Crawler!Init, Queue!Init
<1>5. EachOnce(made)
  BY <1>1, MadeOnce DEF CP!IInv
<1>6. EachFileOnce
  <2>1. \A w \in Worker : IsInjective(batch[w]) /\ ToSet(batch[w]) = {}
    BY <1>4 DEF IsInjective, ToSet
  <2>2. QED BY <1>4, <1>5, <2>1 DEF EachFileOnce
<1>7. Handled = {} /\ Pushed = {}
  BY <1>4 DEF Init, Handled, Pushed
<1>8. HandledInOrder
  BY <1>7 DEF HandledInOrder
<1>9. Apart
  BY <1>4, <1>7 DEF Init, Apart
<1>10. \A w \in Worker : Counted(w) /\ Placed(w)
  <2>1. IsFiniteSet({}) /\ Cardinality({}) = 0
    BY FS_EmptySet
  <2>2. transactionSize \in Nat
    BY <1>3, InsertAssumption DEF LocalTypeOK
  <2>3. \A w \in Worker :
            /\ pc[w] = "start" /\ transaction[w] = {} /\ docCount[w] = 0
            /\ batch[w] = <<>> /\ stage[w] = "idle"
    BY <1>4 DEF Init
  <2>4. ASSUME NEW w \in Worker PROVE Counted(w)
    <3>1. IsFiniteSet(transaction[w]) /\ Cardinality(transaction[w]) = 0
      BY <2>1, <2>3
    <3>2. docCount[w] = 0 /\ pc[w] = "start" /\ transaction[w] = {}
      BY <2>3
    <3>3. QED BY <2>2, <3>1, <3>2 DEF Counted
  <2>5. \A w \in Worker : Placed(w)
    BY <2>3 DEF Placed, InFile
  <2>6. QED BY <2>4, <2>5
<1>11. QED
  BY <1>1, <1>2, <1>3, <1>6, <1>8, <1>9, <1>10 DEF IInv

(* Every step of every thread and of main preserves the invariant.         *)
LEMMA NextIInv == IInv /\ [Next]_vars => IInv'
<1> SUFFICES ASSUME IInv, [Next]_vars PROVE IInv'
  OBVIOUS
<1>1. CP!IInv' /\ CP!StoppedAtTheEnd'
  BY NextCrawler DEF IInv
<1>2. QP!IInv'
  BY NextQueue DEF IInv
<1>3. ASSUME NEW w \in Worker, Run(w) PROVE IInv'
  <2>1. /\ LocalTypeOK /\ CP!TypeOK /\ EachFileOnce /\ Placed(w)
    BY DEF IInv, CP!IInv
  <2>2. LocalTypeOK'
    BY <1>3, <2>1, RunLocalType
  <2>3. EachFileOnce'
    BY <1>3, <2>1, RunCrawlerStep, CrawlerMovesFiles, FilesMovedOnce
  <2>4. QED
    BY <1>1, <1>2, <1>3, <2>2, <2>3, RunHandledInOrder, RunApart, RunCounted,
       RunPlaced DEF IInv
<1>4. CASE Main \/ Terminated \/ UNCHANGED vars
  <2>1. /\ UNCHANGED <<crawlerVars, queueVars, localVars, transactionSize,
                       historyVars>>
        /\ exit' \in {exit, "-1", "-2", "-3", "0"}
    BY <1>4 DEF Main, Terminated, vars, mainVars
  <2>2. LocalTypeOK'
    BY <2>1 DEF IInv, LocalTypeOK, localVars, historyVars
  <2>3. EachFileOnce' /\ HandledInOrder'
    BY <2>1 DEF IInv, EachFileOnce, HandledInOrder, InOrder, Handled, Pushed,
       Queued, crawlerVars, queueVars, localVars, historyVars
  <2>4. Apart' /\ \A w \in Worker : Counted(w)' /\ Placed(w)'
    BY <2>1 DEF IInv, Apart, Counted, Placed, Pushed, crawlerVars, queueVars,
       localVars, historyVars
  <2>5. QED BY <1>1, <1>2, <2>2, <2>3, <2>4 DEF IInv
<1>5. QED BY <1>3, <1>4 DEF Next

(* The inductive invariant holds in every reachable state of strusInsert.  *)
THEOREM InductiveInvariant == Spec => []IInv
BY InitIInv, NextIInv, PTL DEF Spec

(* The state of strusInsert has its type, with any number of threads,      *)
(* files, documents and transactions.                                      *)
THEOREM TypeCorrect == Spec => []TypeOK
<1>1. IInv => TypeOK
  <2>1. CP!TypeOK => Crawler!TypeOK
    BY DEF CP!TypeOK, Crawler!TypeOK, CP!Readings, Crawler!Readings
  <2>2. QP!TypeOK => Queue!TypeOK
    BY DEF QP!TypeOK, Queue!TypeOK, QP!Stage, Queue!Stage
  <2>3. LocalTypeOK => nextDoc \in [Worker -> Nat]
    BY DEF LocalTypeOK
  <2>4. QED BY <2>1, <2>2, <2>3 DEF IInv, CP!IInv, QP!IInv, LocalTypeOK, TypeOK
<1>2. QED BY <1>1, InductiveInvariant, PTL

(* However many threads of strusInsert analyze, push, commit and recover   *)
(* from errors: no document is in two transactions or given up after it    *)
(* was pushed, and m_docCount counts the open transaction.                 *)
THEOREM OnePlaceForADocument == Spec => []DocumentInOnePlace
<1>1. IInv => DocumentInOnePlace
  BY DEF IInv, Apart, Counted, DocumentInOnePlace
<1>2. QED BY <1>1, InductiveInvariant, PTL

-----------------------------------------------------------------------------
(* Document d is still in front of thread w.                               *)
Ahead(w, d) ==
    /\ d[1] \in ToSet(batch[w])
    /\ d[1] = Head(batch[w]) /\ pc[w] \in InFile => d[2] >= nextDoc[w]

(* Where a document is, as long as no thread has an error to report.       *)
Accounted(d) ==
    \/ d[1] \in Queued
    \/ \E w \in Worker : Ahead(w, d)
    \/ \E w \in Worker : d \in transaction[w]
    \/ d \in Pushed
    \/ d[1] \in cutOff

NoError == \A w \in Worker : ~gotError[w]

AllAccounted == NoError => \A d \in Doc : Accounted(d)

(* A thread without an error returns at the end of the input.              *)
Returned(w) ==
    pc[w] = "done" /\ ~gotError[w] => batch[w] = <<>> /\ w \in stopped

(* main looks at the threads after all of them have returned.              *)
ExitMeans ==
    /\ exit # "none" => \A w \in Worker : pc[w] = "done"
    /\ exit = "0" => NoError

IInvExit ==
    /\ IInv
    /\ AllAccounted
    /\ \A w \in Worker : Returned(w)
    /\ ExitMeans

(* The steps that leave a document behind set the error flag.              *)
LEMMA ErrorsAreFlagged ==
    ASSUME LocalTypeOK, CP!TypeOK, QP!TypeOK, NEW w \in Worker, Run(w), NoError'
    PROVE  /\ NoError
           /\ ~StartFails(w) /\ ~RejectFile(w) /\ ~ReadFails(w)
           /\ ~Recover(w) /\ ~RecoverFails(w)
<1>1. gotError \in [Worker -> BOOLEAN] /\ ~gotError'[w]
  BY DEF LocalTypeOK, NoError
<1>2. /\ ~StartFails(w) /\ ~RejectFile(w) /\ ~ReadFails(w)
      /\ ~Recover(w) /\ ~RecoverFails(w)
  BY <1>1 DEF StartFails, RejectFile, ReadFails, Recover, RecoverFails, Flag
<1>3. gotError' = gotError
  BY <1>2 DEF Run, Start, FetchFiles, OpenFile, InsertDocument,
     DocumentThrows, AnalyzerFails, EndOfFile, PushFull, HandleTransactions,
     Renew, RenewFails, PushRest, RunReturns, localVars
<1>4. QED BY <1>2, <1>3 DEF NoError

(* A document in front of a thread stays there until it is inserted or the *)
(* analyzer gives up its file.                                             *)
LEMMA AheadStays ==
    ASSUME IInv, NEW w \in Worker, Run(w), NEW d \in Doc, Ahead(w, d),
           ~StartFails(w), ~RejectFile(w), ~ReadFails(w), ~Recover(w),
           ~RecoverFails(w)
    PROVE  Ahead(w, d)' \/ d \in transaction'[w] \/ d[1] \in cutOff'
<1>1. LocalTypeOK /\ CP!TypeOK /\ Placed(w) /\ EachFileOnce
  BY DEF IInv, CP!IInv
<1>2. /\ d[1] \in File /\ d[2] \in Nat \ {0}
      /\ NofDocs[d[1]] \in Nat /\ d[2] <= NofDocs[d[1]]
      /\ d = <<d[1], d[2]>>
  BY DocType
<1>3. /\ batch[w] \in Seq(File) /\ batch[w] # <<>>
      /\ IsInjective(batch[w]) /\ d[1] \in ToSet(batch[w])
      /\ w \notin stopped
  <2>1. d[1] \in ToSet(batch[w]) /\ batch[w] \in Seq(File)
    BY <1>1 DEF Ahead, CP!TypeOK
  <2>2. batch[w] # <<>>
    BY <2>1 DEF ToSet
  <2>3. QED BY <1>1, <2>1, <2>2 DEF EachFileOnce, Placed
<1>4. nextDoc \in [Worker -> Nat \ {0}] /\ pc \in [Worker -> Pc]
      /\ transaction \in [Worker -> SUBSET Doc]
  BY <1>1 DEF LocalTypeOK
<1>5. ASSUME Crawler!FileDone(w), pc'[w] = "files", d[1] # Head(batch[w])
      PROVE  Ahead(w, d)'
  <2>1. batch'[w] = Tail(batch[w])
    BY <1>1, <1>5 DEF Crawler!FileDone, CP!TypeOK
  <2>2. d[1] \in ToSet(Tail(batch[w]))
    BY <1>3, <1>5, TakeFront
  <2>3. QED BY <1>5, <2>1, <2>2 DEF Ahead, InFile
<1> USE DEF Goto, Return
<1>6. CASE Start(w) \/ OpenFile(w) \/ DocumentThrows(w)
  BY <1>2, <1>3, <1>4, <1>6 DEF Start, OpenFile, DocumentThrows, crawlerVars,
     Ahead, InFile
<1>7. CASE FetchFiles(w)
  BY <1>3, <1>7 DEF FetchFiles, Crawler!Fetch, Crawler!FetchNothing,
     Crawler!FetchFails
<1>8. CASE InsertDocument(w)
  <2>1. /\ batch' = batch /\ nextDoc'[w] = nextDoc[w] + 1
        /\ NewDoc(w) \in transaction'[w]
        /\ pc[w] = "doc"
    BY <1>4, <1>8 DEF InsertDocument, crawlerVars, NewDoc
  <2>2. CASE d[1] = Head(batch[w]) /\ d[2] = nextDoc[w]
    BY <1>2, <2>1, <2>2 DEF NewDoc, CurrentFile
  <2>3. CASE d[1] = Head(batch[w]) /\ d[2] # nextDoc[w]
    <3>1. d[2] >= nextDoc[w]
      BY <2>1, <2>3 DEF Ahead, InFile
    <3>2. d[2] >= nextDoc'[w]
      BY <1>2, <1>4, <2>1, <2>3, <3>1
    <3>3. QED BY <1>3, <2>1, <3>2 DEF Ahead
  <2>4. CASE d[1] # Head(batch[w])
    BY <1>3, <2>1, <2>4 DEF Ahead
  <2>5. QED BY <2>2, <2>3, <2>4
<1>9. CASE AnalyzerFails(w)
  <2>1. Crawler!FileDone(w) /\ pc'[w] = "files" /\ CurrentFile(w) \in cutOff'
    BY <1>4, <1>9 DEF AnalyzerFails
  <2>2. QED BY <1>5, <2>1 DEF CurrentFile
<1>10. CASE EndOfFile(w)
  <2>1. /\ Crawler!FileDone(w) /\ pc[w] = "doc" /\ pc'[w] = "files"
        /\ nextDoc[w] > NofDocs[CurrentFile(w)]
    BY <1>4, <1>10 DEF EndOfFile
  <2>2. d[1] # Head(batch[w])
    <3>1. ASSUME d[1] = Head(batch[w]) PROVE FALSE
      <4>1. d[2] >= nextDoc[w] /\ nextDoc[w] > NofDocs[d[1]]
        BY <2>1, <3>1 DEF Ahead, InFile, CurrentFile
      <4>2. nextDoc[w] \in Nat
        BY <1>4
      <4>3. QED BY <1>2, <4>1, <4>2
    <3>2. QED BY <3>1
  <2>3. QED BY <1>5, <2>1, <2>2
<1>11. CASE PushFull(w) \/ HandleTransactions(w) \/ Renew(w) \/ RenewFails(w)
  <2>1. /\ batch' = batch /\ nextDoc' = nextDoc
        /\ pc'[w] \in InFile => pc[w] \in InFile
    BY <1>4, <1>11 DEF PushFull, HandleTransactions, Renew, RenewFails,
       crawlerVars, localVars, InFile
  <2>2. QED BY <2>1 DEF Ahead
<1>12. CASE PushRest(w) \/ RunReturns(w)
  BY <1>1, <1>3, <1>12 DEF PushRest, RunReturns, Placed
<1>13. QED
  BY <1>6, <1>7, <1>8, <1>9, <1>10, <1>11, <1>12 DEF Run

(* A step of a thread without error loses sight of no document.            *)
LEMMA RunAccounted ==
    ASSUME IInv, AllAccounted, NEW w \in Worker, Run(w)
    PROVE  AllAccounted'
<1> SUFFICES ASSUME NoError', NEW d \in Doc PROVE Accounted(d)'
  BY DEF AllAccounted
<1>1. /\ LocalTypeOK /\ CP!TypeOK /\ QP!TypeOK /\ EachFileOnce /\ Counted(w)
  BY DEF IInv, CP!IInv, QP!IInv
<1>2. /\ NoError
      /\ ~StartFails(w) /\ ~RejectFile(w) /\ ~ReadFails(w)
      /\ ~Recover(w) /\ ~RecoverFails(w)
  BY <1>1, ErrorsAreFlagged
<1>3. Accounted(d)
  BY <1>2 DEF AllAccounted
<1>4. CASE d[1] \in Queued
  <2>1. FilesMoved(w)
    BY <1>1, RunCrawlerStep, CrawlerMovesFiles
  <2>2. CASE d[1] \in Queued'
    BY <2>2 DEF Accounted
  <2>3. CASE d[1] \notin Queued' /\ d[1] \in ToSet(batch'[w])
    <3>1. d[1] \notin ToSet(batch[w])
      BY <1>1, <1>4 DEF EachFileOnce
    <3>2. chunkque' # chunkque
      BY <1>4, <2>3 DEF Queued
    <3>3. Crawler!Fetch(w) /\ FetchFiles(w)
      BY <1>2, <3>2 DEF Run, Start, FetchFiles, OpenFile, InsertDocument,
         DocumentThrows, AnalyzerFails, EndOfFile, PushFull,
         HandleTransactions, Renew, RenewFails, PushRest, RunReturns,
         crawlerVars, Crawler!FetchNothing, Crawler!FetchFails,
         Crawler!FileDone
    <3>4. pc'[w] = "files"
      BY <3>3 DEF FetchFiles, localVars
    <3>5. QED BY <2>3, <3>4 DEF Accounted, Ahead, InFile
  <2>4. QED BY <1>4, <2>1, <2>2, <2>3 DEF FilesMoved
<1>5. ASSUME NEW v \in Worker, Ahead(v, d) PROVE Accounted(d)'
  <2>1. CASE v = w
    BY <1>2, <1>5, <2>1, AheadStays DEF Accounted
  <2>2. CASE v # w
    <3>1. Ahead(v, d)'
      BY <1>1, <1>5, <2>2, OthersKeep DEF Ahead
    <3>2. QED BY <3>1 DEF Accounted
  <2>3. QED BY <2>1, <2>2
<1>6. ASSUME NEW v \in Worker, d \in transaction[v] PROVE Accounted(d)'
  <2>1. CASE v # w
    <3>1. d \in transaction'[v]
      BY <1>1, <1>6, <2>1, OthersKeep
    <3>2. QED BY <3>1 DEF Accounted
  <2>2. CASE v = w /\ (Kept \/ Gathered(w))
    <3>1. d \in transaction'[w]
      BY <1>1, <1>6, <2>2 DEF Kept, Gathered, LocalTypeOK
    <3>2. QED BY <3>1 DEF Accounted
  <2>3. CASE v = w /\ HandedOver(w)
    <3>1. d \in Pushed'
      BY <1>6, <2>3 DEF HandedOver, Pushed
    <3>2. QED BY <3>1 DEF Accounted
  <2>4. QED BY <1>1, <1>2, <2>1, <2>2, <2>3, RunMovesDocuments
<1>7. CASE d \in Pushed
  <2>1. pushed \subseteq pushed'
    BY <1>1, RunMovesDocuments DEF Kept, Gathered, HandedOver, ThrownAway
  <2>2. QED BY <1>7, <2>1 DEF Accounted, Pushed
<1>8. CASE d[1] \in cutOff
  <2>1. cutOff \subseteq cutOff'
    BY <1>2 DEF Run, Start, FetchFiles, OpenFile, InsertDocument,
       DocumentThrows, AnalyzerFails, EndOfFile, PushFull,
       HandleTransactions, Renew, RenewFails, PushRest, RunReturns,
       historyVars
  <2>2. QED BY <1>8, <2>1 DEF Accounted
<1>9. QED BY <1>3, <1>4, <1>5, <1>6, <1>7, <1>8 DEF Accounted

(* At the start all documents wait in the chunks.                          *)
LEMMA InitExit == Init => IInvExit
<1> SUFFICES ASSUME Init PROVE IInvExit
  OBVIOUS
<1>1. IInv
  BY InitIInv
<1>2. CP!Cut /\ chunkque = made
  BY <1>1 DEF IInv, CP!IInv, Init, Crawler!Init
<1>3. Queued = File
  BY <1>2, MadeOnce DEF Queued
<1>4. AllAccounted
  BY <1>3, DocType DEF AllAccounted, Accounted
<1>5. QED BY <1>1, <1>4 DEF Init, IInvExit, Returned, ExitMeans

(* A thread that returns without error has come to the end of the input,   *)
(* and one that has returned takes no step.                                *)
LEMMA RunReturned ==
    ASSUME IInv, NEW w \in Worker, Run(w), Returned(w)
    PROVE  Returned(w)' /\ pc[w] # "done"
<1>1. LocalTypeOK /\ CP!TypeOK /\ Placed(w)
  BY DEF IInv, CP!IInv
<1>2. /\ pc \in [Worker -> Pc] /\ gotError \in [Worker -> BOOLEAN]
      /\ w \in stopped => batch[w] = <<>>
      /\ pc[w] = "lastpush" => w \in stopped
  BY <1>1 DEF LocalTypeOK, Placed
<1> USE DEF Goto, Return, Flag, Returned
<1>3. CASE Start(w) \/ StartFails(w) \/ FetchFiles(w) \/ OpenFile(w)
           \/ RejectFile(w) \/ InsertDocument(w) \/ DocumentThrows(w)
  BY <1>2, <1>3 DEF Start, StartFails, FetchFiles, OpenFile, RejectFile,
     InsertDocument, DocumentThrows, localVars
<1>4. CASE AnalyzerFails(w) \/ ReadFails(w) \/ EndOfFile(w) \/ PushFull(w)
           \/ HandleTransactions(w) \/ Renew(w) \/ RenewFails(w)
  BY <1>2, <1>4 DEF AnalyzerFails, ReadFails, EndOfFile, PushFull,
     HandleTransactions, Renew, RenewFails, localVars
<1>5. CASE Recover(w) \/ RecoverFails(w) \/ PushRest(w) \/ RunReturns(w)
  BY <1>2, <1>5 DEF Recover, RecoverFails, PushRest, RunReturns, crawlerVars
<1>6. QED BY <1>3, <1>4, <1>5 DEF Run

(* Every step keeps account of the documents up to the exit of the program.*)
LEMMA NextExit == IInvExit /\ [Next]_vars => IInvExit'
<1> SUFFICES ASSUME IInvExit, [Next]_vars PROVE IInvExit'
  OBVIOUS
<1>1. IInv /\ IInv'
  BY NextIInv DEF IInvExit
<1>2. ASSUME NEW w \in Worker, Run(w) PROVE IInvExit'
  <2>1. AllAccounted'
    BY <1>1, <1>2, RunAccounted DEF IInvExit
  <2>2. Returned(w)' /\ pc[w] # "done"
    BY <1>1, <1>2, RunReturned DEF IInvExit
  <2>3. ASSUME NEW v \in Worker, v # w PROVE Returned(v)'
    <3>1. /\ pc'[v] = pc[v] /\ gotError'[v] = gotError[v]
          /\ batch'[v] = batch[v]
      BY <1>1, <1>2, <2>3, OthersKeep DEF IInv, CP!IInv, QP!IInv
    <3>2. stopped \subseteq stopped'
      BY <1>2, RunCrawlerStep DEF CrawlerStep, CP!Fetch, CP!FetchNothing,
         CP!FetchFails, CP!FileDone, CP!crawlerVars
    <3>3. Returned(v)
      BY DEF IInvExit
    <3>4. QED BY <3>1, <3>2, <3>3 DEF Returned
  <2>4. ExitMeans'
    <3>1. exit = "none"
      BY <2>2 DEF IInvExit, ExitMeans
    <3>2. exit' = "none"
      BY <1>2, <3>1, RunKeepsMain
    <3>3. QED BY <3>2 DEF ExitMeans
  <2>5. QED BY <1>1, <2>1, <2>2, <2>3, <2>4 DEF IInvExit
<1>3. CASE Main \/ Terminated \/ UNCHANGED vars
  <2>1. UNCHANGED <<crawlerVars, queueVars, localVars, historyVars>>
    BY <1>3 DEF Main, Terminated, vars, mainVars
  <2>2. AllAccounted'
    BY <2>1 DEF IInvExit, AllAccounted, Accounted, Ahead, NoError, Queued,
       Pushed, crawlerVars, queueVars, localVars, historyVars
  <2>3. \A w \in Worker : Returned(w)'
    BY <2>1 DEF IInvExit, Returned, crawlerVars, localVars
  <2>4. ExitMeans'
    <3>1. CASE Main
      BY <2>1, <3>1 DEF Main, ExitMeans, NoError, localVars
    <3>2. CASE exit' = exit
      BY <2>1, <3>2 DEF IInvExit, ExitMeans, NoError, localVars
    <3>3. QED BY <1>3, <3>1, <3>2 DEF Terminated, vars, mainVars
  <2>5. QED BY <1>1, <2>2, <2>3, <2>4 DEF IInvExit
<1>4. QED BY <1>2, <1>3 DEF Next

(* When no thread stopped without a failed fetch while files wait, these   *)
(* are in no chunk that was handed out.                                    *)
LEMMA QueuedIsNotHanded ==
    ASSUME IInv, NEW f \in Queued
    PROVE  /\ f \notin Range(FlattenSeq(handed))
           /\ stopped \subseteq broken
<1>1. /\ handed \in Seq(Seq(File)) /\ chunkque \in Seq(Seq(File))
      /\ handed \o chunkque = made
  BY DEF IInv, CP!IInv, CP!TypeOK, CP!ChunksConserved
<1>2. EachOnce(handed \o chunkque)
  BY <1>1, MadeOnce DEF IInv, CP!IInv
<1>3. f \notin Elements(handed)
  BY <1>1, <1>2, PartsApart DEF Queued
<1>4. ToSet(FlattenSeq(handed)) = Elements(handed)
  BY <1>1, FlattenElements
<1>5. Range(FlattenSeq(handed)) = ToSet(FlattenSeq(handed))
  BY DEF Range, ToSet
<1>6. stopped \subseteq broken
  <2>1. CP!NobodyStopsEarly
    BY CP!StopsAtTheEnd, FilesAssumption, InsertAssumption DEF IInv
  <2>2. CP!FlattenSeq(chunkque) = FlattenSeq(chunkque)
    BY DEF CP!FlattenSeq, FlattenSeq
  <2>3. ToSet(FlattenSeq(chunkque)) = Queued
    BY <1>1, FlattenElements DEF Queued
  <2>4. FlattenSeq(chunkque) # <<>>
    BY <2>3 DEF ToSet
  <2>5. QED BY <2>1, <2>2, <2>4 DEF CP!NobodyStopsEarly
<1>7. QED BY <1>3, <1>4, <1>5, <1>6

(* If strusInsert exits with 0, every document is in the storage but those *)
(* of the failed transactions it printed and those of the silent losses    *)
(* HonestExit names.                                                       *)
THEOREM ExitIsHonest == Spec => []HonestExit
<1>1. IInvExit => HonestExit
  <2> SUFFICES ASSUME IInvExit, exit = "0",
                      NEW d \in Doc, d \notin Inserted
               PROVE  \/ d \in UNION QP!Failed
                      \/ d \in UNION dropped
                      \/ d[1] \in cutOff
                      \/ broken = Worker /\ d[1] \notin Range(FlattenSeq(handed))
    BY DEF HonestExit, QP!Failed, QP!ToSet, Queue!Failed, Queue!ToSet
  <2>1. \A w \in Worker : /\ batch[w] = <<>> /\ w \in stopped
                          /\ transaction[w] = {} /\ stage[w] = "idle"
    <3>1. NoError /\ \A w \in Worker : pc[w] = "done"
      BY DEF IInvExit, ExitMeans
    <3>2. ASSUME NEW w \in Worker
          PROVE  /\ batch[w] = <<>> /\ w \in stopped
                 /\ transaction[w] = {} /\ stage[w] = "idle"
      <4>1. Returned(w) /\ Counted(w) /\ Placed(w)
        BY DEF IInvExit, IInv
      <4>2. QED BY <3>1, <4>1 DEF Returned, Counted, Placed, NoError
    <3>3. QED BY <3>2
  <2>2. Accounted(d)
    BY DEF IInvExit, ExitMeans, AllAccounted
  <2>3. CASE d[1] \in Queued
    <3>1. d[1] \notin Range(FlattenSeq(handed)) /\ stopped \subseteq broken
      BY <2>3, QueuedIsNotHanded DEF IInvExit
    <3>2. broken \subseteq stopped /\ stopped \subseteq Worker
      BY DEF IInvExit, IInv, CP!IInv, CP!TypeOK
    <3>3. QED BY <2>1, <3>1, <3>2
  <2>4. CASE d \in Pushed
    <3>1. pushed = QP!Settled
      BY <2>1, NoBatchAssumption, QP!QuietIsSettled
         DEF IInvExit, IInv, QP!QuietMeansSettled
    <3>2. Pushed = UNION (committed \cup QP!Failed \cup dropped)
      BY <3>1 DEF Pushed, QP!Settled
    <3>3. QED BY <2>4, <3>2 DEF Inserted
  <2>5. QED BY <2>1, <2>2, <2>3, <2>4 DEF Accounted, Ahead, ToSet
<1>2. QED BY <1>1, InitExit, NextExit, PTL DEF Spec

-----------------------------------------------------------------------------
(* Where the documents are, in the words of InsertPromise.                 *)
Open == UNION {transaction[w] : w \in Worker}
InQueue == UNION QP!OnTheWay
AllLost == discarded \cup LostInQueue

(* The sets of transactions of the program are those of the queue.         *)
LEMMA QueueNames ==
    /\ Queue!Waiting \cup Queue!InCommit = QP!OnTheWay
    /\ LostInQueue = UNION QP!Lost
<1>1. \A s : Queue!ToSet(s) = QP!ToSet(s)
  BY DEF Queue!ToSet, QP!ToSet
<1>2. Queue!Waiting = QP!Waiting /\ Queue!Failed = QP!Failed
  BY <1>1 DEF Queue!Waiting, QP!Waiting, Queue!Failed, QP!Failed
<1>3. Queue!InCommit = QP!InCommit
  BY DEF Queue!InCommit, QP!InCommit
<1>4. QED BY <1>2, <1>3 DEF QP!OnTheWay, QP!Lost, LostInQueue

(* Sets of transactions that share none have no document in common.        *)
LEMMA SharedDocument ==
    ASSUME Apart, NEW A \in SUBSET pushed, NEW B \in SUBSET pushed,
           A \cap B = {}
    PROVE  (UNION A) \cap (UNION B) = {}
BY DEF Apart

(* A document is open, in the queue, inserted or lost, or none of these.   *)
LEMMA OnePlace ==
    ASSUME IInv
    PROVE  /\ Pushed = InQueue \cup Inserted \cup LostInQueue
           /\ InQueue \cap Inserted = {} /\ InQueue \cap LostInQueue = {}
           /\ Inserted \cap LostInQueue = {}
           /\ Open \cap Pushed = {} /\ Open \cap discarded = {}
           /\ Pushed \cap discarded = {}
<1>1. /\ pushed = QP!OnTheWay \cup committed \cup QP!Lost
      /\ QP!OnTheWay \cap committed = {} /\ QP!OnTheWay \cap QP!Lost = {}
      /\ committed \cap QP!Lost = {}
  BY DEF IInv, QP!IInv, QP!NothingDisappears, QP!HeldOnce, QP!OneOutcome,
     QP!OnTheWay, QP!Lost, QP!Settled
<1>2. LostInQueue = UNION QP!Lost
  BY QueueNames
<1>3. /\ QP!OnTheWay \in SUBSET pushed /\ committed \in SUBSET pushed
      /\ QP!Lost \in SUBSET pushed
  BY <1>1
<1>4. Apart
  BY DEF IInv
<1>5. /\ InQueue \cap Inserted = {} /\ InQueue \cap LostInQueue = {}
      /\ Inserted \cap LostInQueue = {}
  BY <1>1, <1>2, <1>3, <1>4, SharedDocument DEF InQueue, Inserted
<1>6. Pushed = InQueue \cup Inserted \cup LostInQueue
  BY <1>1, <1>2 DEF Pushed, InQueue, Inserted
<1>7. Open \cap Pushed = {} /\ Open \cap discarded = {}
  BY <1>4 DEF Apart, Open
<1>8. QED BY <1>4, <1>5, <1>6, <1>7 DEF Apart

(* The place of a document is its status.                                  *)
StatusByPlace ==
    \A d \in Doc :
        /\ d \in Open => StatusOf(d) = "gathered"
        /\ d \in InQueue => StatusOf(d) = "handedOver"
        /\ d \in Inserted => StatusOf(d) = "inserted"
        /\ d \in AllLost => StatusOf(d) = "lost"
        /\ d \notin Open \cup InQueue \cup Inserted \cup AllLost =>
               StatusOf(d) = "waiting"

(* The cases of StatusOf exclude each other.                               *)
LEMMA StatusMeans == IInv => StatusByPlace
<1> SUFFICES ASSUME IInv, NEW d \in Doc
             PROVE  StatusByPlace!(d)
  BY DEF StatusByPlace
<1>1. /\ d \in Open => d \notin Pushed /\ d \notin discarded
      /\ d \in InQueue => d \in Pushed /\ d \notin Inserted /\ d \notin LostInQueue
      /\ d \in Inserted => d \in Pushed /\ d \notin LostInQueue
      /\ d \in LostInQueue => d \in Pushed
      /\ d \in Pushed => d \notin discarded
      /\ d \in Pushed => d \in InQueue \/ d \in Inserted \/ d \in LostInQueue
  BY OnePlace
<1>2. StatusOf(d) = CASE d \in Open -> "gathered"
                      [] d \in Inserted -> "inserted"
                      [] d \in AllLost -> "lost"
                      [] d \in Pushed \ (Inserted \cup LostInQueue) -> "handedOver"
                      [] OTHER -> "waiting"
  BY DEF StatusOf, Open, AllLost
<1>3. QED BY <1>1, <1>2 DEF AllLost

(* The same of the next state.                                             *)
LEMMA NextStatusMeans == IInv' => StatusByPlace'
BY StatusMeans, PTL

Status == [d \in Doc |-> StatusOf(d)]

(* The documents docs change their status to s, the others keep theirs.    *)
MoveTo(docs, s) == Status' = [d \in Doc |-> IF d \in docs THEN s ELSE Status[d]]

(* The sets of documents determine the status of all.                      *)
LEMMA SamePlaces ==
    ASSUME IInv, IInv', Open' = Open, InQueue' = InQueue, Inserted' = Inserted,
           AllLost' = AllLost
    PROVE  Status' = Status
<1>1. ASSUME NEW d \in Doc PROVE StatusOf(d)' = StatusOf(d)
  BY StatusMeans, NextStatusMeans DEF StatusByPlace
<1>2. QED BY <1>1 DEF Status

(* A document analyzed is gathered.                                        *)
LEMMA GatherMoves ==
    ASSUME IInv, IInv', NEW n \in Doc, n \notin Handled,
           Open' = Open \cup {n}, InQueue' = InQueue, Inserted' = Inserted,
           AllLost' = AllLost
    PROVE  MoveTo({n}, "gathered") /\ Status[n] = "waiting"
<1>1. n \notin Open \cup InQueue \cup Inserted \cup AllLost
  BY OnePlace DEF Handled, Open, AllLost
<1>2. ASSUME NEW d \in Doc
      PROVE  StatusOf(d)' = IF d \in {n} THEN "gathered" ELSE StatusOf(d)
  BY <1>1, StatusMeans, NextStatusMeans DEF StatusByPlace
<1>3. StatusOf(n) = "waiting"
  BY <1>1, StatusMeans, NextStatusMeans DEF StatusByPlace
<1>4. QED BY <1>2, <1>3 DEF MoveTo, Status

(* A transaction pushed is handed over, one given up is lost.              *)
LEMMA OpenMoves ==
    ASSUME IInv, IInv', NEW t \in SUBSET Doc, t \subseteq Open,
           Open' = Open \ t, Inserted' = Inserted,
           \/ InQueue' = InQueue \cup t /\ AllLost' = AllLost
           \/ InQueue' = InQueue /\ AllLost' = AllLost \cup t
    PROVE  /\ InQueue' = InQueue \cup t /\ AllLost' = AllLost =>
                  MoveTo(t, "handedOver")
           /\ InQueue' = InQueue /\ AllLost' = AllLost \cup t =>
                  MoveTo(t, "lost")
           /\ \A d \in t : Status[d] = "gathered"
<1>1. ASSUME NEW d \in Doc, InQueue' = InQueue \cup t, AllLost' = AllLost
      PROVE  StatusOf(d)' = IF d \in t THEN "handedOver" ELSE StatusOf(d)
  BY <1>1, StatusMeans, NextStatusMeans DEF StatusByPlace
<1>2. ASSUME NEW d \in Doc, InQueue' = InQueue, AllLost' = AllLost \cup t
      PROVE  StatusOf(d)' = IF d \in t THEN "lost" ELSE StatusOf(d)
  BY <1>2, StatusMeans, NextStatusMeans DEF StatusByPlace
<1>3. ASSUME NEW d \in t PROVE StatusOf(d) = "gathered"
  BY StatusMeans, NextStatusMeans DEF StatusByPlace
<1>4. QED BY <1>1, <1>2, <1>3 DEF MoveTo, Status

(* A transaction settled is inserted or lost.                              *)
LEMMA QueueMoves ==
    ASSUME IInv, IInv', NEW t \in SUBSET Doc, t \subseteq InQueue,
           InQueue' = InQueue \ t, Open' = Open,
           \/ Inserted' = Inserted \cup t /\ AllLost' = AllLost
           \/ Inserted' = Inserted /\ AllLost' = AllLost \cup t
    PROVE  MoveTo(t, "inserted") \/ MoveTo(t, "lost")
<1>1. ASSUME NEW d \in Doc, Inserted' = Inserted \cup t, AllLost' = AllLost
      PROVE  StatusOf(d)' = IF d \in t THEN "inserted" ELSE StatusOf(d)
  BY <1>1, StatusMeans, NextStatusMeans DEF StatusByPlace
<1>2. ASSUME NEW d \in Doc, Inserted' = Inserted, AllLost' = AllLost \cup t
      PROVE  StatusOf(d)' = IF d \in t THEN "lost" ELSE StatusOf(d)
  BY <1>2, StatusMeans, NextStatusMeans DEF StatusByPlace
<1>3. QED BY <1>1, <1>2 DEF MoveTo, Status

(* The variables and helpers of InsertPromise in these words.              *)
PromiseWords ==
    /\ [d \in Doc |-> StatusOf(d)] = Status
    /\ Queue!Waiting \cup Queue!InCommit = QP!OnTheWay
    /\ LostInQueue = UNION QP!Lost

(* They are, in this state and in the next.                                *)
LEMMA InPromiseWords == PromiseWords /\ PromiseWords'
<1>1. PromiseWords
  BY QueueNames DEF PromiseWords, Status
<1>2. QED BY <1>1, PTL

(* The helpers of InsertPromise, likewise.                                 *)
LEMMA PromiseHelpers ==
    /\ \A s : Promise!OfStatus(s) = {d \in Doc : Status[d] = s}
    /\ \A docs, s : Promise!Becomes(docs, s) =
                        [d \in Doc |-> IF d \in docs THEN s ELSE Status[d]]
    /\ \A docs : Promise!Cardinality(docs) = Cardinality(docs)
<1>1. Status = [d \in Doc |-> StatusOf(d)]
  BY DEF Status
<1>2. \A docs : Promise!Cardinality(docs) = Cardinality(docs)
  BY DEF Promise!Cardinality, Cardinality, Promise!IsFiniteSet, IsFiniteSet
<1>3. QED BY <1>1, <1>2 DEF Promise!OfStatus, Promise!Becomes

(* Where neither the documents nor the queue change, the promise does not. *)
LEMMA StutterKeepsPromise ==
    ASSUME UNCHANGED <<transactionSize, Status, QP!OnTheWay, exit>>
    PROVE  UNCHANGED Promise!promiseVars
BY InPromiseWords DEF PromiseWords, Promise!promiseVars

(* The step of InsertPromise for a document analyzed.                      *)
LEMMA GatherIsPromised ==
    ASSUME NEW n \in Doc, Status[n] = "waiting", MoveTo({n}, "gathered"),
           UNCHANGED <<transactionSize, QP!OnTheWay, exit>>
    PROVE  Promise!Gather
BY InPromiseWords, PromiseHelpers DEF PromiseWords, Promise!Gather, MoveTo

(* The step for a transaction pushed.                                      *)
LEMMA HandOverIsPromised ==
    ASSUME NEW t \in SUBSET Doc, t # {},
           \A d \in t : Status[d] = "gathered",
           transactionSize > 0 => Cardinality(t) <= transactionSize,
           MoveTo(t, "handedOver"),
           QP!OnTheWay' = QP!OnTheWay \cup {t},
           UNCHANGED <<transactionSize, exit>>
    PROVE  Promise!HandOver
BY InPromiseWords, PromiseHelpers DEF PromiseWords, Promise!HandOver, MoveTo

(* The step for a transaction given up.                                    *)
LEMMA DiscardIsPromised ==
    ASSUME NEW t \in SUBSET Doc, t # {},
           \A d \in t : Status[d] = "gathered", MoveTo(t, "lost"),
           UNCHANGED <<transactionSize, QP!OnTheWay, exit>>
    PROVE  Promise!Discard
BY InPromiseWords, PromiseHelpers DEF PromiseWords, Promise!Discard, MoveTo

(* The step for a transaction committed or lost in the queue.              *)
LEMMA SettleIsPromised ==
    ASSUME NEW t \in QP!OnTheWay,
           MoveTo(t, "inserted") \/ MoveTo(t, "lost"),
           QP!OnTheWay' = QP!OnTheWay \ {t},
           UNCHANGED <<transactionSize, exit>>
    PROVE  Promise!Settle
BY InPromiseWords, PromiseHelpers DEF PromiseWords, Promise!Settle, MoveTo

(* The end of the program.                                                 *)
LEMMA EndIsPromised ==
    ASSUME \A d \in Doc : Status[d] # "gathered", QP!OnTheWay = {},
           exit = "none", exit' # "none",
           UNCHANGED <<transactionSize, Status, QP!OnTheWay>>
    PROVE  Promise!End
BY InPromiseWords, PromiseHelpers DEF PromiseWords, Promise!End

(* A call of handleWaitingTransactions settles a batch of the promise.     *)
LEMMA HandlingKeepsPromise ==
    ASSUME IInv, IInv', NEW w \in Worker, HandleTransactions(w),
           QP!HandleWaitingTransactions(w)
    PROVE  Promise!Settle \/ UNCHANGED Promise!promiseVars
<1>1. /\ UNCHANGED <<transactionSize, exit, Open, discarded>>
  BY DEF HandleTransactions, localVars, mainVars, historyVars, Open
<1>2. QP!IInv
  BY DEF IInv
<1>3. \/ UNCHANGED <<QP!OnTheWay, pushed, committed, QP!Lost>>
      \/ \E t \in QP!OnTheWay : QP!Settles(t)
  BY <1>2, QP!HandlingSettlesOne, NoBatchAssumption
<1>4. LostInQueue = UNION QP!Lost /\ LostInQueue' = UNION QP!Lost'
  BY InPromiseWords DEF PromiseWords
<1>5. CASE UNCHANGED <<QP!OnTheWay, pushed, committed, QP!Lost>>
  <2>1. InQueue' = InQueue /\ Inserted' = Inserted /\ AllLost' = AllLost
    BY <1>1, <1>4, <1>5 DEF InQueue, Inserted, AllLost
  <2>2. QED BY <1>1, <1>5, <2>1, SamePlaces, StutterKeepsPromise
<1>6. ASSUME NEW t \in QP!OnTheWay, QP!Settles(t) PROVE Promise!Settle
  <2>1. /\ QP!OnTheWay' = QP!OnTheWay \ {t} /\ t \subseteq InQueue
        /\ t \in pushed /\ QP!OnTheWay \subseteq pushed
    BY <1>2, <1>6 DEF QP!Settles, InQueue, QP!IInv, QP!NothingDisappears,
       QP!OnTheWay
  <2>2. t \in SUBSET Doc
    BY <1>2, <2>1 DEF QP!IInv, QP!TypeOK, Batches
  <2>3. InQueue' = InQueue \ t
    <3>1. \A s \in QP!OnTheWay : s # t => s \cap t = {}
      BY <2>1 DEF IInv, Apart
    <3>2. QED BY <2>1, <3>1 DEF InQueue
  <2>4. \/ Inserted' = Inserted \cup t /\ AllLost' = AllLost
        \/ Inserted' = Inserted /\ AllLost' = AllLost \cup t
    BY <1>1, <1>4, <1>6 DEF QP!Settles, Inserted, AllLost
  <2>5. MoveTo(t, "inserted") \/ MoveTo(t, "lost")
    BY <1>1, <2>1, <2>2, <2>3, <2>4, QueueMoves
  <2>6. QED BY <1>1, <2>1, <2>5, SettleIsPromised
<1>7. QED BY <1>3, <1>5, <1>6

(* A call of pushTransaction hands over a batch of the size promised.      *)
LEMMA PushKeepsPromise ==
    ASSUME IInv, IInv', NEW w \in Worker, PushFull(w) \/ PushRest(w),
           QP!PushTransaction(w, transaction[w]), HandedOver(w),
           UNCHANGED <<transactionSize, exit>>
    PROVE  Promise!HandOver
<1>1. /\ LocalTypeOK /\ Counted(w) /\ QP!IInv /\ Apart
  BY DEF IInv
<1>2. /\ docCount[w] > 0 /\ docCount[w] = Cardinality(transaction[w])
      /\ transactionSize > 0 => Cardinality(transaction[w]) <= transactionSize
  BY <1>1 DEF PushFull, PushRest, Counted
<1>3. transaction[w] # {} /\ transaction[w] \in SUBSET Doc
  <2>1. transaction[w] # {}
    BY <1>2, FS_EmptySet
  <2>2. QED BY <1>1, <2>1 DEF LocalTypeOK
<1>4. PICK t \in SUBSET Doc : t = transaction[w]
  BY <1>3
<1>5. t # {} /\ t \in Batches
  BY <1>3, <1>4 DEF Batches
<1>6. /\ QP!OnTheWay' = QP!OnTheWay \cup {t}
      /\ UNCHANGED <<committed, QP!Lost>>
  BY <1>1, <1>4, <1>5, QP!PushAddsOne, NoBatchAssumption
<1>7. Open' = Open \ t /\ t \subseteq Open
  <2>1. \A v \in Worker : transaction'[v] = IF v = w THEN {} ELSE transaction[v]
    BY <1>1 DEF HandedOver, LocalTypeOK
  <2>2. \A v \in Worker : v # w => transaction[v] \cap t = {}
    BY <1>1, <1>4 DEF Apart
  <2>3. QED BY <1>4, <2>1, <2>2 DEF Open
<1>8. LostInQueue' = LostInQueue
  BY <1>6, InPromiseWords DEF PromiseWords
<1>9. InQueue' = InQueue \cup t /\ Inserted' = Inserted /\ AllLost' = AllLost
  BY <1>6, <1>8 DEF InQueue, Inserted, AllLost, HandedOver
<1>10. MoveTo(t, "handedOver") /\ \A d \in t : Status[d] = "gathered"
  BY <1>7, <1>9, OpenMoves
<1>11. QED BY <1>2, <1>4, <1>5, <1>6, <1>10, HandOverIsPromised

(* A step of a thread is a step of the promise or none.                    *)
LEMMA RunKeepsPromise ==
    ASSUME IInvExit, IInvExit', NEW w \in Worker, Run(w)
    PROVE  Promise!Next \/ UNCHANGED Promise!promiseVars
<1>1. /\ IInv /\ IInv' /\ LocalTypeOK /\ CP!TypeOK /\ HandledInOrder
      /\ Counted(w) /\ Placed(w) /\ Returned(w) /\ ExitMeans /\ Apart
  BY DEF IInvExit, IInv, CP!IInv
<1>2. UNCHANGED <<transactionSize, exit>> /\ exit = "none"
  BY <1>1, RunKeepsMain, RunReturned DEF ExitMeans
<1>3. CASE HandleTransactions(w) /\ QP!HandleWaitingTransactions(w)
  BY <1>1, <1>2, <1>3, HandlingKeepsPromise DEF Promise!Next
<1>4. CASE /\ PushFull(w) \/ PushRest(w)
           /\ QP!PushTransaction(w, transaction[w])
  <2>1. HandedOver(w)
    BY <1>4 DEF PushFull, PushRest, PushOpenTransaction, HandedOver,
       QP!PushTransaction, historyVars
  <2>2. QED BY <1>1, <1>2, <1>4, <2>1, PushKeepsPromise DEF Promise!Next
<1>5. CASE ~PushFull(w) /\ ~PushRest(w) /\ UNCHANGED queueVars
  <2>1. UNCHANGED <<QP!OnTheWay, LostInQueue, InQueue, Inserted>>
    <3>1. UNCHANGED <<QP!OnTheWay, QP!Lost, committed>>
      BY <1>5 DEF queueVars, QP!OnTheWay, QP!Lost, QP!Waiting, QP!InCommit,
         QP!Failed
    <3>2. QED BY <3>1, InPromiseWords DEF PromiseWords, InQueue, Inserted
  <2>2. CASE Kept
    <3>1. Open' = Open /\ AllLost' = AllLost
      BY <2>1, <2>2 DEF Kept, Open, AllLost
    <3>2. QED BY <1>1, <1>2, <2>1, <3>1, SamePlaces, StutterKeepsPromise
  <2>3. CASE Gathered(w)
    <3>1. PICK n \in Doc : n = NewDoc(w) /\ n \notin Handled
      BY <1>1, <2>3, NewDocIsNew DEF Gathered
    <3>2. \A v \in Worker : transaction'[v] =
              IF v = w THEN transaction[w] \cup {n} ELSE transaction[v]
      BY <1>1, <2>3, <3>1 DEF Gathered, LocalTypeOK
    <3>3. Open' = Open \cup {n} /\ AllLost' = AllLost
      BY <2>1, <2>3, <3>2 DEF Gathered, Open, AllLost
    <3>4. MoveTo({n}, "gathered") /\ Status[n] = "waiting"
      BY <1>1, <2>1, <3>1, <3>3, GatherMoves
    <3>5. QED BY <1>2, <2>1, <3>4, GatherIsPromised DEF Promise!Next
  <2>4. CASE ThrownAway(w)
    <3>1. PICK t \in SUBSET Doc : t = transaction[w]
      BY <1>1 DEF LocalTypeOK
    <3>2. \A v \in Worker : transaction'[v] = IF v = w THEN {} ELSE transaction[v]
      BY <1>1, <2>4 DEF ThrownAway, LocalTypeOK
    <3>3. \A v \in Worker : v # w => transaction[v] \cap t = {}
      BY <1>1, <3>1 DEF Apart
    <3>4. Open' = Open \ t /\ t \subseteq Open
      BY <3>1, <3>2, <3>3 DEF Open
    <3>5. AllLost' = AllLost \cup t
      BY <2>1, <2>4, <3>1 DEF ThrownAway, AllLost
    <3>6. MoveTo(t, "lost") /\ \A d \in t : Status[d] = "gathered"
      BY <1>1, <2>1, <3>4, <3>5, OpenMoves
    <3>7. CASE t # {}
      BY <1>2, <2>1, <3>6, <3>7, DiscardIsPromised DEF Promise!Next
    <3>8. CASE t = {}
      <4>1. Open' = Open /\ AllLost' = AllLost
        BY <3>4, <3>5, <3>8
      <4>2. QED BY <1>1, <1>2, <2>1, <4>1, SamePlaces, StutterKeepsPromise
    <3>9. QED BY <3>7, <3>8
  <2>5. QED BY <1>1, <1>5, <2>2, <2>3, <2>4, RunMovesDocuments
<1>6. QED BY <1>3, <1>4, <1>5, QueueCalls

(* The program ends where the promise may: nothing is open or waits.       *)
LEMMA MainKeepsPromise ==
    ASSUME IInvExit, IInvExit', Main
    PROVE  Promise!Next
<1>1. /\ IInv /\ IInv' /\ QP!IInv
      /\ \A w \in Worker : Counted(w) /\ Placed(w) /\ pc[w] = "done"
  BY DEF IInvExit, IInv, Main
<1>2. \A w \in Worker : transaction[w] = {} /\ stage[w] = "idle"
  BY <1>1 DEF Counted, Placed
<1>3. QP!OnTheWay = {}
  BY <1>1, <1>2, QP!QuietIsEmpty, NoBatchAssumption
<1>4. Open = {}
  BY <1>2 DEF Open
<1>5. UNCHANGED <<transaction, pushed, committed, discarded, QP!OnTheWay,
                  QP!Lost>>
  BY DEF Main, queueVars, localVars, historyVars, QP!OnTheWay, QP!Lost,
     QP!Waiting, QP!InCommit, QP!Failed
<1>6. LostInQueue' = LostInQueue
  BY <1>5, InPromiseWords DEF PromiseWords
<1>7. Open' = Open /\ InQueue' = InQueue /\ Inserted' = Inserted
      /\ AllLost' = AllLost
  BY <1>5, <1>6 DEF Open, InQueue, Inserted, AllLost
<1>8. Status' = Status
  BY <1>1, <1>7, SamePlaces
<1>9. \A d \in Doc : Status[d] # "gathered"
  <2>1. ASSUME NEW d \in Doc PROVE StatusOf(d) # "gathered"
    BY <1>1, <1>4, StatusMeans DEF StatusByPlace
  <2>2. QED BY <2>1 DEF Status
<1>10. exit = "none" /\ exit' # "none" /\ transactionSize' = transactionSize
  BY DEF Main
<1>11. QED BY <1>3, <1>5, <1>8, <1>9, <1>10, EndIsPromised DEF Promise!Next

(* Every step of strusInsert is a step of InsertPromise or none: whatever  *)
(* the threads, the queue and the storage do, a document is gathered once, *)
(* handed over in a batch not larger than asked for, and the batch is      *)
(* inserted or lost as a whole, once; at the end nothing is on its way.    *)
(* That every batch is settled in the end is left to the fairness of       *)
(* KeepsPromise.                                                           *)
THEOREM StepsKeepPromise ==
    Spec => Promise!Init /\ [][Promise!Next]_(Promise!promiseVars)
<1>1. Init => Promise!Init
  <2> SUFFICES ASSUME Init PROVE Promise!Init
    OBVIOUS
  <2>1. IInv /\ IInvExit
    BY InitIInv, InitExit
  <2>2. /\ transactionSize \in Nat /\ exit = "none"
    BY <2>1, InsertAssumption DEF Init, IInv, LocalTypeOK
  <2>3. /\ openTransactions = <<>> /\ errors = <<>> /\ pushed = {}
        /\ committed = {} /\ dropped = {} /\ discarded = {}
        /\ \A w \in Worker : current[w] = {} /\ transaction[w] = {}
    BY DEF Init, Queue!Init
  <2>4. QP!OnTheWay = {} /\ QP!Lost = {}
    BY <2>3 DEF QP!OnTheWay, QP!Lost, QP!Waiting, QP!InCommit, QP!Failed,
       QP!ToSet
  <2>5. Open = {} /\ InQueue = {} /\ Inserted = {} /\ AllLost = {}
    BY <2>3, <2>4, QueueNames DEF Open, InQueue, Inserted, AllLost
  <2>6. \A d \in Doc : StatusOf(d) = "waiting"
    BY <2>1, <2>5, StatusMeans DEF StatusByPlace
  <2>7. QED BY <2>2, <2>4, <2>6, QueueNames DEF Promise!Init
<1>2. IInvExit /\ IInvExit' /\ [Next]_vars =>
          [Promise!Next]_(Promise!promiseVars)
  <2> SUFFICES ASSUME IInvExit, IInvExit', [Next]_vars
               PROVE  [Promise!Next]_(Promise!promiseVars)
    OBVIOUS
  <2>1. CASE Terminated \/ UNCHANGED vars
    <3>1. UNCHANGED <<transactionSize, exit, transaction, pushed, committed,
                      discarded, QP!OnTheWay, QP!Lost>>
      BY <2>1 DEF Terminated, vars, queueVars, localVars, mainVars,
         historyVars, QP!OnTheWay, QP!Lost, QP!Waiting, QP!InCommit, QP!Failed
    <3>2. LostInQueue' = LostInQueue
      BY <3>1, InPromiseWords DEF PromiseWords
    <3>3. Open' = Open /\ InQueue' = InQueue /\ Inserted' = Inserted
          /\ AllLost' = AllLost
      BY <3>1, <3>2 DEF Open, InQueue, Inserted, AllLost
    <3>4. Status' = Status
      BY <3>3, SamePlaces DEF IInvExit
    <3>5. QED BY <3>1, <3>4, StutterKeepsPromise
  <2>2. QED BY <2>1, RunKeepsPromise, MainKeepsPromise DEF Next
<1>3. Spec => []IInvExit
  BY InitExit, NextExit, PTL DEF Spec
<1>4. QED BY <1>1, <1>2, <1>3, PTL DEF Spec
=============================================================================
