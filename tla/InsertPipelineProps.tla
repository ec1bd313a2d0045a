------------------------ MODULE InsertPipelineProps ------------------------
(***************************************************************************)
(* The properties of strusInsert and its refinement of InsertPromise.      *)
(***************************************************************************)
EXTENDS InsertPipeline

Pushed == UNION pushed
Inserted == UNION committed
LostInQueue == UNION (Queue!Failed \cup dropped)

(* A document is in one place only: the open transaction of one thread,    *)
(* one pushed transaction, or the discarded ones.  No interleaving, no     *)
(* error handling and no retry of a file inserts a document twice, and     *)
(* none throws away a document already given to the queue.  m_docCount is  *)
(* the number of documents of the open transaction whenever the next       *)
(* document may come, across pushes, failed renewals and recoveries; so no *)
(* transaction grows beyond the size asked for and no open document is     *)
(* forgotten at the end for a count of zero.                               *)
DocumentInOnePlace ==
    /\ \A v, w \in Worker : v # w => transaction[v] \cap transaction[w] = {}
    /\ \A s, t \in pushed : s # t => s \cap t = {}
    /\ Pushed \cap discarded = {}
    /\ \A w \in Worker :
          /\ transaction[w] \cap (Pushed \cup discarded) = {}
          /\ pc[w] \in {"files", "doc", "push"} =>
                 docCount[w] = Cardinality(transaction[w])
          /\ transactionSize > 0 => docCount[w] <= transactionSize
          /\ pc[w] = "done" => transaction[w] = {}

(* If the program exits with 0, then every document is inserted, except    *)
(* for those of failed transactions, which it printed and counts in its    *)
(* last line but not in the exit code, and for three losses the program is *)
(* silent about: a transaction lost to an out of memory in the commit, the *)
(* rest of a file the analyzer gave up, and files no thread fetched since  *)
(* every thread's last fetch failed.                                       *)
HonestExit ==
    exit = "0" =>
        \A d \in Doc \ Inserted :
            \/ d \in UNION Queue!Failed
            \/ d \in UNION dropped
            \/ d[1] \in cutOff
            \/ broken = Worker /\ d[1] \notin Range(FlattenSeq(handed))

(* The program ends.                                                       *)
ProgramEnds == <>(exit # "none")

-----------------------------------------------------------------------------
StatusOf(d) ==
    CASE d \in UNION {transaction[w] : w \in Worker} -> "gathered"
      [] d \in Inserted -> "inserted"
      [] d \in discarded \cup LostInQueue -> "lost"
      [] d \in Pushed \ (Inserted \cup LostInQueue) -> "handedOver"
      [] OTHER -> "waiting"

Promise == INSTANCE InsertPromise WITH
    batchSize <- transactionSize,
    status <- [d \in Doc |-> StatusOf(d)],
    batches <- Queue!Waiting \cup Queue!InCommit,
    ended <- exit # "none"

(* strusInsert does what InsertPromise says: batches are inserted or lost  *)
(* as a whole and once, and all is settled at the end.                     *)
KeepsPromise == Promise!Spec
=============================================================================
