--------------------------- MODULE CalcStatistics ---------------------------
(***************************************************************************)
(* The program strusUpdateStorageCalcStatistics: it counts the document    *)
(* frequencies over all storages, then walks through the documents of each *)
(* storage and writes a weight into a metadata field, committing every so  *)
(* many updates                                                            *)
(* (src/src/strusUpdateStorageCalcStatistics/                              *)
(* strusUpdateStorageCalcStatistics.cpp).                                  *)
(*                                                                         *)
(* The program has one thread.  Any call of the storage may fail: an       *)
(* exception then ends the program and what was committed stays.           *)
(***************************************************************************)
EXTENDS Naturals, FiniteSets, FiniteSetsExt

CONSTANTS
    NofStorages,      \* the number of --storage options
    MaxDocno,         \* the largest maxDocumentNumber() of a storage
    TransactionSizes  \* values of option --commit, zero: one commit at the end

ASSUME CalcAssumption ==
    /\ NofStorages \in Nat
    /\ MaxDocno \in Nat
    /\ TransactionSizes \in SUBSET Nat

Storage == 1 .. NofStorages
Docno == 1 .. MaxDocno

VARIABLES
    transactionSize,
    nofDocuments,      \* maxDocumentNumber() of each storage
    withTerms,         \* the documents of each storage with terms of the type
    phase,             \* "fill", "open", "update", or how the program ended
    storage,           \* the storage the program is at
    dfmap,             \* the storages counted in the df map
    di,                \* the document number the loop is at
    transaction,       \* the documents updated in the open transaction
    transactionCount,  \* the updates counted since the last commit
    written            \* the documents whose update was committed

inputVars == <<transactionSize, nofDocuments, withTerms>>
loopVars == <<di, transaction, transactionCount>>
calcVars == <<inputVars, phase, storage, dfmap, loopVars, written>>

CalcInit ==
    /\ transactionSize \in TransactionSizes
    /\ nofDocuments \in [Storage -> 0 .. MaxDocno]
    /\ withTerms \in [Storage -> SUBSET Docno]
    /\ \A s \in Storage : withTerms[s] \subseteq 1 .. nofDocuments[s]
    /\ phase = "fill"
    /\ storage = 1
    /\ dfmap = {}
    /\ di = 0
    /\ transaction = {}
    /\ transactionCount = 0
    /\ written = [s \in Storage |-> {}]

-----------------------------------------------------------------------------
(* fillDfMap for the next storage.                                         *)
FillDfMap ==
    /\ phase = "fill"
    /\ storage \in Storage
    /\ dfmap' = dfmap \cup {storage}
    /\ storage' = storage + 1
    /\ UNCHANGED <<inputVars, phase, loopVars, written>>

(* All storages are counted, the functions are parsed: the updates begin.  *)
BeginUpdates ==
    /\ phase = "fill"
    /\ storage \notin Storage
    /\ phase' = "open"
    /\ storage' = 1
    /\ UNCHANGED <<inputVars, dfmap, loopVars, written>>

(* The next storage is opened, updateStorageWithFormula creates its first  *)
(* transaction.                                                            *)
OpenStorage ==
    /\ phase = "open"
    /\ storage \in Storage
    /\ phase' = "update"
    /\ di' = 1
    /\ transaction' = {}
    /\ transactionCount' = 0
    /\ UNCHANGED <<inputVars, storage, dfmap, written>>

(* The storage's answer: the first document from d on with terms of the    *)
(* type, zero if there is none, the iterator before its first term.        *)
SkipDoc(d) ==
    LET next == {e \in withTerms[storage] : e >= d}
    IN  IF next = {} THEN 0 ELSE Min(next)

InLoop == phase = "update" /\ di <= nofDocuments[storage] /\ SkipDoc(di) # 0

(* Definitions marked `faulty' are slips the definition after them could   *)
(* have; no specification uses them.                                       *)

(* faulty: the document is looked up after the loop index has advanced.    *)
UpdateNextDocument ==
    /\ InLoop
    /\ transactionCount + 1 < transactionSize
    /\ transaction' = transaction \cup ({SkipDoc(di + 1)} \ {0})
    /\ transactionCount' = transactionCount + 1
    /\ di' = di + 1
    /\ UNCHANGED <<inputVars, phase, storage, dfmap, written>>

(* A document is updated, the transaction stays open.  The loop goes on to *)
(* di + 1 and not to the number after the document's: a document behind a  *)
(* gap of numbers is updated and counted again.                            *)
UpdateDocument ==
    /\ InLoop
    /\ transactionCount + 1 < transactionSize
    /\ transaction' = transaction \cup {SkipDoc(di)}
    /\ transactionCount' = transactionCount + 1
    /\ di' = di + 1
    /\ UNCHANGED <<inputVars, phase, storage, dfmap, written>>

(* faulty: the loop index is set to the document and not advanced.         *)
UpdateAndStay ==
    /\ InLoop
    /\ transactionCount + 1 >= transactionSize
    /\ written' = [written EXCEPT ![storage] = @ \cup transaction \cup {SkipDoc(di)}]
    /\ transaction' = {}
    /\ transactionCount' = 0
    /\ di' = SkipDoc(di)
    /\ UNCHANGED <<inputVars, phase, storage, dfmap>>

(* faulty: the count is not reset by the commit.                           *)
UpdateAndCommitSameCount ==
    /\ InLoop
    /\ transactionCount + 1 >= transactionSize
    /\ written' = [written EXCEPT ![storage] = @ \cup transaction \cup {SkipDoc(di)}]
    /\ transaction' = {}
    /\ transactionCount' = transactionCount + 1
    /\ di' = di + 1
    /\ UNCHANGED <<inputVars, phase, storage, dfmap>>

(* A document is updated and the transaction is full: it is committed and  *)
(* a new one created.                                                      *)
UpdateAndCommit ==
    /\ InLoop
    /\ transactionCount + 1 >= transactionSize
    /\ written' = [written EXCEPT ![storage] = @ \cup transaction \cup {SkipDoc(di)}]
    /\ transaction' = {}
    /\ transactionCount' = 0
    /\ di' = di + 1
    /\ UNCHANGED <<inputVars, phase, storage, dfmap>>

(* The commit of a full transaction succeeds, the creation of the next     *)
(* transaction fails.                                                      *)
CommitAndFail ==
    /\ InLoop
    /\ transactionCount + 1 >= transactionSize
    /\ written' = [written EXCEPT ![storage] = @ \cup transaction \cup {SkipDoc(di)}]
    /\ phase' = "failed"
    /\ UNCHANGED <<inputVars, storage, dfmap, loopVars>>

(* The storage is closed, an uncommitted transaction goes with it.         *)
Close ==
    /\ phase' = "open"
    /\ storage' = storage + 1
    /\ transaction' = {}
    /\ transactionCount' = 0
    /\ UNCHANGED <<inputVars, dfmap, di>>

(* No document with terms is left: the function returns at once.           *)
NoDocumentLeft ==
    /\ phase = "update"
    /\ di <= nofDocuments[storage]
    /\ SkipDoc(di) = 0
    /\ UNCHANGED written
    /\ Close

(* The loop has passed the last document: what is pending is committed.    *)
EndOfDocuments ==
    /\ phase = "update"
    /\ di > nofDocuments[storage]
    /\ written' = IF transactionCount > 0
                  THEN [written EXCEPT ![storage] = @ \cup transaction]
                  ELSE written
    /\ Close

(* An exception: a storage that cannot be opened, a term without df, a     *)
(* commit that fails.                                                      *)
Fail ==
    /\ phase \in {"fill", "open", "update"}
    /\ phase' = "failed"
    /\ UNCHANGED <<inputVars, storage, dfmap, loopVars, written>>

(* All storages are updated: the program returns zero.                     *)
Done ==
    /\ phase = "open"
    /\ storage \notin Storage
    /\ phase' = "done"
    /\ UNCHANGED <<inputVars, storage, dfmap, loopVars, written>>

Terminated == phase \in {"done", "failed"} /\ UNCHANGED calcVars

(* The steps of a program none of whose calls fails.                       *)
Progress ==
    \/ FillDfMap
    \/ BeginUpdates
    \/ OpenStorage
    \/ UpdateDocument
    \/ UpdateAndCommit
    \/ NoDocumentLeft
    \/ EndOfDocuments
    \/ Done

CalcNext == Progress \/ CommitAndFail \/ Fail \/ Terminated

(* The program runs on; that it ends must not be due to a failure.         *)
CalcSpec == CalcInit /\ [][CalcNext]_calcVars /\ WF_calcVars(Progress)

-----------------------------------------------------------------------------
CalcTypeOK ==
    /\ transactionSize \in TransactionSizes
    /\ nofDocuments \in [Storage -> 0 .. MaxDocno]
    /\ withTerms \in [Storage -> SUBSET Docno]
    /\ phase \in {"fill", "open", "update", "done", "failed"}
    /\ storage \in 1 .. NofStorages + 1
    /\ dfmap \in SUBSET Storage
    /\ di \in 0 .. MaxDocno + 1
    /\ transaction \in SUBSET Docno
    /\ transactionCount \in {n \in Nat : n = 0 \/ n < transactionSize}
    /\ written \in [Storage -> SUBSET Docno]

(* The documents with terms in storage s that have no committed update.    *)
Missing(s) == withTerms[s] \ written[s]

(* Whatever the gaps between document numbers, the loop over one storage   *)
(* passes no document by: those before di are committed or in the open     *)
(* transaction.  Storages the program has not come to are untouched.  The  *)
(* transaction left open when a storage has no more documents with terms   *)
(* is thrown away: what is lost is less than one transaction, and it is    *)
(* the last documents, a program that ends well leaves a committed prefix  *)
(* in every storage.                                                       *)
UpdatedInOrder ==
    /\ \A s \in Storage : s > storage => written[s] = {}
    /\ phase = "update" =>
          {d \in withTerms[storage] : d < di} \subseteq written[storage] \cup transaction
    /\ phase = "done" =>
          \A s \in Storage :
              /\ Missing(s) # {} => Cardinality(Missing(s)) < transactionSize
              /\ \A d \in Missing(s), e \in written[s] : e < d

(* The program ends: a gap of document numbers, which makes the loop meet  *)
(* the same document again, does not hold it there.                        *)
ProgramEnds == <>(phase \in {"done", "failed"})

(* The description in the program's usage: the formula is calculated for   *)
(* each document and the metadata field updated with the result.           *)
EachDocumentUpdated == phase = "done" => \A s \in Storage : Missing(s) = {}
=============================================================================
