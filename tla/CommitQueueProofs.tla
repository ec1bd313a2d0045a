------------------------- MODULE CommitQueueProofs -------------------------
(***************************************************************************)
(* Proofs about CommitQueue for every set of threads and transactions.     *)
(*                                                                         *)
(* IInv is the inductive invariant.  Besides the properties checked by     *)
(* TLC it says which threads hold a transaction (HoldersStage), that the   *)
(* queue's parts hold only pushed transactions, and that the counter is    *)
(* the length of the queue: without the counter nothing relates the test   *)
(* in getNextTransaction to the queue whose front it takes.                *)
(***************************************************************************)
EXTENDS CommitQueue, DataInduction

(* Exactly the threads between getNextTransaction and the end of the loop  *)
(* body hold a transaction.                                                *)
HoldersStage ==
    \A w \in Worker :
        current[w] # NoTransaction <=> stage[w] \in {"commit", "record"}

IInv ==
    /\ TypeOK
    /\ CounterExact
    /\ NobodyLeavesWorkBehind
    /\ HoldersStage
    /\ HeldOnce
    /\ OneOutcome
    /\ NothingDisappears

-----------------------------------------------------------------------------
(* A thread that holds nothing takes x.                                    *)
LEMMA TakesInCommit ==
    ASSUME TypeOK, NEW w \in Worker, NEW x \in Transaction,
           current[w] = NoTransaction,
           current' = [current EXCEPT ![w] = x]
    PROVE  InCommit' = InCommit \cup {x}
<1>1. x # NoTransaction
  BY NoTransactionAssumption
<1>2. \A v \in Worker : current'[v] = IF v = w THEN x ELSE current[v]
  BY DEF TypeOK
<1>3. QED BY <1>1, <1>2 DEF InCommit

(* A thread releases what it alone holds.                                  *)
LEMMA ReleasesInCommit ==
    ASSUME TypeOK, HeldOnce, NEW w \in Worker,
           current' = [current EXCEPT ![w] = NoTransaction]
    PROVE  InCommit' = InCommit \ {current[w]}
<1>1. \A v \in Worker :
          current'[v] = IF v = w THEN NoTransaction ELSE current[v]
  BY DEF TypeOK
<1>2. QED BY <1>1 DEF InCommit, HeldOnce

-----------------------------------------------------------------------------
(* The empty queue of the constructor satisfies the invariant.             *)
THEOREM InitIInv == Init => IInv
<1> SUFFICES ASSUME Init PROVE IInv
  OBVIOUS
<1>1. TypeOK
  BY DEF Init, TypeOK, Stage
<1>2. InCommit = {} /\ Waiting = {} /\ Failed = {}
  BY DEF Init, InCommit, Waiting, Failed, ToSet
<1>3. IsInjective(openTransactions) /\ IsInjective(errors)
  BY DEF Init, IsInjective
<1>4. QED
  BY <1>1, <1>2, <1>3 DEF Init, IInv, CounterExact, NobodyLeavesWorkBehind,
     HoldersStage, HeldOnce, OneOutcome, NothingDisappears, Settled

(* pushTransaction: the new transaction enters the queue and the counter   *)
(* grows with it; the thread that pushed is inside from now on.            *)
THEOREM PushIInv ==
    ASSUME IInv, NEW w \in Worker, NEW t \in Transaction,
           PushTransaction(w, t)
    PROVE  IInv'
<1> USE DEF IInv, PushTransaction
<1>1. t \notin Waiting \cup InCommit \cup Settled
  BY DEF NothingDisappears
<1>2. /\ openTransactions' \in Seq(Transaction)
      /\ Len(openTransactions') = Len(openTransactions) + 1
      /\ Waiting' = Waiting \cup {t}
      /\ IsInjective(openTransactions')
  BY <1>1, AppendNew DEF TypeOK, Waiting, HeldOnce
<1>3. InCommit' = InCommit /\ Failed' = Failed /\ Settled' = Settled
  BY DEF InCommit, Failed, Settled
<1>4. TypeOK'
  BY <1>2 DEF TypeOK, Stage
<1>5. CounterExact'
  BY <1>2 DEF CounterExact
<1>6. NobodyLeavesWorkBehind'
  BY DEF NobodyLeavesWorkBehind, TypeOK
<1>7. HoldersStage'
  BY DEF HoldersStage, TypeOK
<1>8. HeldOnce'
  BY <1>1, <1>2, <1>3 DEF HeldOnce
<1>9. OneOutcome'
  BY <1>3 DEF OneOutcome
<1>10. NothingDisappears'
  BY <1>2, <1>3 DEF NothingDisappears
<1>11. QED BY <1>4, <1>5, <1>6, <1>7, <1>8, <1>9, <1>10

(* getNextTransaction: the exact counter makes front() and pop() defined,  *)
(* and the transaction moves from the queue to one thread.                 *)
THEOREM GetNextIInv ==
    ASSUME IInv, NEW w \in Worker, GetNextTransaction(w)
    PROVE  IInv'
<1> USE DEF IInv, GetNextTransaction
<1> DEFINE h == Head(openTransactions)
<1>1. openTransactions # <<>>
  BY DEF CounterExact, TypeOK
<1>2. /\ h \in Transaction
      /\ h \in Waiting
      /\ openTransactions' \in Seq(Transaction)
      /\ Len(openTransactions') = Len(openTransactions) - 1
      /\ Waiting' = Waiting \ {h}
      /\ IsInjective(openTransactions')
  BY <1>1, TakeFront DEF TypeOK, Waiting, HeldOnce
<1>3. InCommit' = InCommit \cup {h}
  <2>1. current[w] = NoTransaction
    BY DEF HoldersStage
  <2>2. QED BY <1>2, <2>1, TakesInCommit
<1>4. Failed' = Failed /\ Settled' = Settled
  BY DEF Failed, Settled
<1>5. TypeOK'
  BY <1>2 DEF TypeOK, Stage, CounterExact
<1>6. CounterExact'
  BY <1>2 DEF CounterExact, TypeOK
<1>7. NobodyLeavesWorkBehind'
  BY DEF NobodyLeavesWorkBehind, TypeOK
<1>8. HoldersStage'
  BY <1>2, NoTransactionAssumption DEF HoldersStage, TypeOK
<1>9. HeldOnce'
  <2>1. \A v \in Worker : current[v] # h
    BY <1>2, NoTransactionAssumption DEF HeldOnce, InCommit
  <2>2. \A v \in Worker : current'[v] = IF v = w THEN h ELSE current[v]
    BY DEF TypeOK
  <2>3. \A u, v \in Worker :
            current'[u] = current'[v] /\ current'[u] # NoTransaction => u = v
    BY <2>1, <2>2 DEF HeldOnce
  <2>4. QED BY <1>2, <1>3, <1>4, <2>3 DEF HeldOnce
<1>10. OneOutcome'
  BY <1>4 DEF OneOutcome
<1>11. NothingDisappears'
  BY <1>2, <1>3, <1>4 DEF NothingDisappears
<1>12. QED BY <1>5, <1>6, <1>7, <1>8, <1>9, <1>10, <1>11

(* A thread that leaves has seen the counter at zero, hence the queue      *)
(* empty: it leaves no work behind.                                        *)
THEOREM NoneWaitingIInv ==
    ASSUME IInv, NEW w \in Worker, NoTransactionWaiting(w)
    PROVE  IInv'
<1> USE DEF IInv, NoTransactionWaiting
<1>1. openTransactions' = <<>>
  BY EmptySeq DEF CounterExact, TypeOK
<1>2. /\ Waiting' = Waiting /\ InCommit' = InCommit
      /\ Failed' = Failed /\ Settled' = Settled
  BY DEF Waiting, InCommit, Failed, Settled
<1>3. TypeOK'
  BY DEF TypeOK, Stage
<1>4. NobodyLeavesWorkBehind'
  BY <1>1 DEF NobodyLeavesWorkBehind
<1>5. HoldersStage'
  BY DEF HoldersStage, TypeOK
<1>6. CounterExact' /\ HeldOnce' /\ OneOutcome' /\ NothingDisappears'
  BY <1>2 DEF CounterExact, HeldOnce, OneOutcome, NothingDisappears
<1>7. QED BY <1>3, <1>4, <1>5, <1>6

(* The three ways the body of the loop ends give the transaction that was  *)
(* held its outcome and nothing else changes place.                        *)
THEOREM OutcomeIInv ==
    ASSUME IInv, NEW w \in Worker,
           \/ CommitSucceeds(w)
           \/ RecordError(w)
           \/ CommitOutOfMemory(w)
    PROVE  IInv'
<1> USE DEF IInv
<1> DEFINE c == current[w]
<1>1. stage[w] \in {"commit", "record"} /\ NextRound(w)
  BY DEF CommitSucceeds, RecordError, CommitOutOfMemory
<1>2. c \in Transaction /\ c # NoTransaction /\ c \in InCommit
  BY <1>1 DEF HoldersStage, TypeOK, InCommit
<1>3. c \notin Waiting \cup Settled
  BY <1>2 DEF HeldOnce
<1>4. InCommit' = InCommit \ {c}
  BY <1>1, ReleasesInCommit DEF NextRound
<1>5. Waiting' = Waiting
  BY <1>1 DEF NextRound, Waiting
<1>6. /\ errors' \in Seq(Transaction)
      /\ IsInjective(errors')
      /\ \/ /\ committed' = committed \cup {c}
            /\ Failed' = Failed /\ dropped' = dropped
         \/ /\ Failed' = Failed \cup {c}
            /\ committed' = committed /\ dropped' = dropped
         \/ /\ dropped' = dropped \cup {c}
            /\ Failed' = Failed /\ committed' = committed
  <2>1. CASE CommitSucceeds(w)
    BY <2>1 DEF CommitSucceeds, Failed, TypeOK, OneOutcome
  <2>2. CASE CommitOutOfMemory(w)
    BY <2>2 DEF CommitOutOfMemory, Failed, TypeOK, OneOutcome
  <2>3. CASE RecordError(w)
    <3>1. c \notin ToSet(errors)
      BY <1>3 DEF Settled, Failed
    <3>2. QED
      BY <1>2, <2>3, <3>1, AppendNew DEF RecordError, Failed, TypeOK, OneOutcome
  <2>4. QED BY <2>1, <2>2, <2>3
<1>7. Settled' = Settled \cup {c}
  BY <1>6 DEF Settled
<1>8. TypeOK'
  <2>1. pendingError' \in [Worker -> BOOLEAN]
    BY DEF TypeOK, CommitSucceeds, RecordError, CommitOutOfMemory
  <2>2. committed' \in SUBSET Transaction /\ dropped' \in SUBSET Transaction
    BY <1>2, <1>6 DEF TypeOK
  <2>3. QED BY <1>1, <1>6, <2>1, <2>2 DEF TypeOK, NextRound, Stage
<1>9. CounterExact'
  BY <1>1 DEF CounterExact, NextRound
<1>10. NobodyLeavesWorkBehind'
  BY <1>1 DEF NobodyLeavesWorkBehind, NextRound, TypeOK
<1>11. HoldersStage'
  BY <1>1 DEF HoldersStage, NextRound, TypeOK
<1>12. HeldOnce'
  <2>1. \A v \in Worker :
            current'[v] = IF v = w THEN NoTransaction ELSE current[v]
    BY <1>1 DEF NextRound, TypeOK
  <2>2. IsInjective(openTransactions')
    BY <1>1 DEF NextRound, HeldOnce
  <2>3. QED BY <1>3, <1>4, <1>5, <1>7, <2>1, <2>2 DEF HeldOnce
<1>13. OneOutcome'
  BY <1>3, <1>6 DEF OneOutcome, Settled
<1>14. NothingDisappears'
  BY <1>1, <1>2, <1>4, <1>5, <1>7 DEF NothingDisappears, NextRound
<1>15. QED BY <1>8, <1>9, <1>10, <1>11, <1>12, <1>13, <1>14

(* A failed commit changes no transaction's place until it is recorded.    *)
THEOREM CommitFailsIInv ==
    ASSUME IInv, NEW w \in Worker, CommitFails(w)
    PROVE  IInv'
<1> USE DEF IInv, CommitFails
<1>1. /\ Waiting' = Waiting /\ InCommit' = InCommit
      /\ Failed' = Failed /\ Settled' = Settled
  BY DEF Waiting, InCommit, Failed, Settled
<1>2. TypeOK'
  BY DEF TypeOK, Stage
<1>3. HoldersStage'
  BY DEF HoldersStage, TypeOK
<1>4. NobodyLeavesWorkBehind'
  BY DEF NobodyLeavesWorkBehind, TypeOK
<1>5. CounterExact' /\ HeldOnce' /\ OneOutcome' /\ NothingDisappears'
  BY <1>1 DEF CounterExact, HeldOnce, OneOutcome, NothingDisappears
<1>6. QED BY <1>2, <1>3, <1>4, <1>5

(* A step of something else leaves the queue as it is.                     *)
THEOREM StutterIInv == ASSUME IInv, UNCHANGED queueVars PROVE IInv'
BY DEF IInv, queueVars, TypeOK, CounterExact, NobodyLeavesWorkBehind,
   HoldersStage, HeldOnce, OneOutcome, NothingDisappears, Waiting, InCommit,
   Failed, Settled

(* The threads also use their error contexts outside of the queue.         *)
LEMMA ContextIInv ==
    ASSUME IInv, pendingError' \in [Worker -> BOOLEAN],
           UNCHANGED <<openTransactions, nofOpenTransactions, errors, stage,
                       current, pushed, committed, dropped>>
    PROVE  IInv'
BY DEF IInv, TypeOK, CounterExact, NobodyLeavesWorkBehind,
   HoldersStage, HeldOnce, OneOutcome, NothingDisappears, Waiting, InCommit,
   Failed, Settled

(* Every step of every thread preserves the invariant.                     *)
THEOREM NextIInv == IInv /\ [Next]_queueVars => IInv'
<1> SUFFICES ASSUME IInv, [Next]_queueVars PROVE IInv'
  OBVIOUS
<1>1. CASE UNCHANGED queueVars
  BY <1>1, StutterIInv
<1>2. ASSUME NEW w \in Worker, NEW t \in Transaction, PushTransaction(w, t)
      PROVE  IInv'
  BY <1>2, PushIInv
<1>3. ASSUME NEW w \in Worker, HandleWaitingTransactions(w)
      PROVE  IInv'
  BY <1>3, GetNextIInv, NoneWaitingIInv, OutcomeIInv, CommitFailsIInv
     DEF HandleWaitingTransactions
<1>4. QED BY <1>1, <1>2, <1>3 DEF Next

(* The inductive invariant holds in every reachable state of the queue.    *)
THEOREM InductiveInvariant == Spec => []IInv
BY InitIInv, NextIInv, PTL DEF Spec

(* The state of the queue has its type, whatever the numbers of threads    *)
(* and transactions.                                                       *)
THEOREM TypeCorrect == Spec => []TypeOK
<1>1. IInv => TypeOK
  BY DEF IInv
<1>2. QED BY <1>1, InductiveInvariant, PTL

(* The open-transaction counter of commitQueue.cpp is exact, so front()    *)
(* and pop() in getNextTransaction never meet an empty queue.              *)
THEOREM CounterIsExact == Spec => []CounterExact
<1>1. IInv => CounterExact
  BY DEF IInv
<1>2. QED BY <1>1, InductiveInvariant, PTL

(* No transaction is held by two threads or touched again once settled.    *)
THEOREM NeverHeldTwice == Spec => []HeldOnce
<1>1. IInv => HeldOnce
  BY DEF IInv
<1>2. QED BY <1>1, InductiveInvariant, PTL

(* A transaction has at most one outcome and m_errors counts it once.      *)
THEOREM AtMostOneOutcome == Spec => []OneOutcome
<1>1. IInv => OneOutcome
  BY DEF IInv
<1>2. QED BY <1>1, InductiveInvariant, PTL

(* A thread that leaves the queue never leaves a waiting transaction with  *)
(* nobody to commit it.                                                    *)
THEOREM WorkIsNeverLeftBehind == Spec => []NobodyLeavesWorkBehind
<1>1. IInv => NobodyLeavesWorkBehind
  BY DEF IInv
<1>2. QED BY <1>1, InductiveInvariant, PTL

(* A pushed transaction is always waiting, in commit or settled.           *)
THEOREM NoTransactionIsLost == Spec => []NothingDisappears
<1>1. IInv => NothingDisappears
  BY DEF IInv
<1>2. QED BY <1>1, InductiveInvariant, PTL

(* The invariant leaves a quiet queue no transaction to wait or to commit. *)
LEMMA QuietIsSettled == IInv => QuietMeansSettled
<1> SUFFICES ASSUME IInv, \A w \in Worker : stage[w] = "idle"
             PROVE  pushed = Settled
  BY DEF QuietMeansSettled
<1>1. InCommit = {}
  BY DEF IInv, HoldersStage, InCommit
<1>2. Waiting = {}
  BY DEF IInv, NobodyLeavesWorkBehind, Waiting, ToSet
<1>3. QED BY <1>1, <1>2 DEF IInv, NothingDisappears

(* When no thread is inside pushTransaction every transaction pushed so    *)
(* far is settled: main may close the storage after joining the threads.   *)
THEOREM QuietQueueIsSettled == Spec => []QuietMeansSettled
BY QuietIsSettled, InductiveInvariant, PTL

(* The promise of the queue, for every set of threads and transactions:    *)
(* each pushed transaction is handled by one thread at a time, gets one    *)
(* outcome, never disappears and is settled once the threads are quiet.    *)
THEOREM EachIsSettledOnce == Spec => []SettledOnce
<1>1. IInv => SettledOnce
  BY QuietIsSettled DEF IInv, SettledOnce
<1>2. QED BY <1>1, InductiveInvariant, PTL

-----------------------------------------------------------------------------
(* The transactions on their way, and those that are lost.                 *)
OnTheWay == Waiting \cup InCommit
Lost == Failed \cup dropped

Settles(t) ==
    /\ OnTheWay' = OnTheWay \ {t}
    /\ UNCHANGED pushed
    /\ \/ committed' = committed \cup {t} /\ UNCHANGED Lost
       \/ Lost' = Lost \cup {t} /\ UNCHANGED committed

(* With all threads outside of the queue nothing is on its way.            *)
LEMMA QuietIsEmpty ==
    ASSUME IInv, \A w \in Worker : stage[w] = "idle"
    PROVE  OnTheWay = {}
BY DEF IInv, HoldersStage, NobodyLeavesWorkBehind, OnTheWay, InCommit, Waiting,
   ToSet

(* The call of pushTransaction brings one transaction on its way.          *)
LEMMA PushAddsOne ==
    ASSUME IInv, NEW w \in Worker, NEW t \in Transaction, PushTransaction(w, t)
    PROVE  /\ OnTheWay' = OnTheWay \cup {t}
           /\ pushed' = pushed \cup {t}
           /\ UNCHANGED <<committed, Lost>>
<1>1. IsInjective(openTransactions) /\ t \notin Waiting
  BY DEF IInv, HeldOnce, NothingDisappears, PushTransaction
<1>2. Waiting' = Waiting \cup {t}
  BY <1>1, AppendNew DEF IInv, TypeOK, Waiting, PushTransaction
<1>3. QED BY <1>2 DEF OnTheWay, Lost, InCommit, Failed, PushTransaction

(* A step of the loop over the waiting transactions settles one of those   *)
(* on their way, or none.                                                  *)
LEMMA HandlingSettlesOne ==
    ASSUME IInv, NEW w \in Worker, HandleWaitingTransactions(w)
    PROVE  \/ UNCHANGED <<OnTheWay, pushed, committed, Lost>>
           \/ \E t \in OnTheWay : Settles(t)
<1>1. CASE GetNextTransaction(w)
  <2>1. current[w] = NoTransaction /\ openTransactions # <<>>
    BY <1>1 DEF IInv, HoldersStage, GetNextTransaction, CounterExact, TypeOK
  <2>2. PICK h \in Transaction : h = Head(openTransactions)
    BY <2>1, TakeFront DEF IInv, TypeOK, HeldOnce
  <2>3. h \in Waiting /\ Waiting' = Waiting \ {h}
    BY <1>1, <2>1, <2>2, TakeFront
       DEF IInv, TypeOK, HeldOnce, Waiting, GetNextTransaction
  <2>4. InCommit' = InCommit \cup {h}
    BY <1>1, <2>1, <2>2, TakesInCommit DEF IInv, GetNextTransaction
  <2>5. QED
    BY <1>1, <2>3, <2>4 DEF OnTheWay, Lost, Failed, GetNextTransaction
<1>2. CASE NoTransactionWaiting(w) \/ CommitFails(w)
  BY <1>2 DEF NoTransactionWaiting, CommitFails, OnTheWay, Lost, Waiting,
     InCommit, Failed
<1>3. CASE CommitSucceeds(w) \/ RecordError(w) \/ CommitOutOfMemory(w)
  <2>1. stage[w] \in {"commit", "record"} /\ NextRound(w)
    BY <1>3 DEF CommitSucceeds, RecordError, CommitOutOfMemory
  <2>2. PICK c \in Transaction : c = current[w] /\ c \in InCommit
    BY <2>1 DEF IInv, HoldersStage, TypeOK, InCommit
  <2>3. c \notin Waiting \cup Settled
    BY <2>2 DEF IInv, HeldOnce
  <2>4. InCommit' = InCommit \ {c} /\ Waiting' = Waiting /\ pushed' = pushed
    BY <2>1, <2>2, ReleasesInCommit DEF IInv, NextRound, Waiting
  <2>5. OnTheWay' = OnTheWay \ {c} /\ c \in OnTheWay
    BY <2>2, <2>3, <2>4 DEF OnTheWay
  <2>6. CASE CommitSucceeds(w)
    BY <2>2, <2>4, <2>5, <2>6 DEF CommitSucceeds, Settles, Lost, Failed
  <2>7. CASE CommitOutOfMemory(w)
    BY <2>2, <2>4, <2>5, <2>7 DEF CommitOutOfMemory, Settles, Lost, Failed
  <2>8. CASE RecordError(w)
    <3>1. Failed' = Failed \cup {c}
      BY <2>2, <2>3, <2>8, AppendNew
         DEF IInv, TypeOK, OneOutcome, Settled, Failed, RecordError
    <3>2. QED BY <2>4, <2>5, <2>8, <3>1 DEF RecordError, Settles, Lost
  <2>9. QED BY <1>3, <2>6, <2>7, <2>8
<1>4. QED BY <1>1, <1>2, <1>3 DEF HandleWaitingTransactions
=============================================================================
