---------------------------- MODULE CommitQueue ----------------------------
(***************************************************************************)
(* The queue of storage transactions shared by the inserter threads        *)
(* (class CommitQueue, src/src/strusInsert/commitQueue.cpp).               *)
(*                                                                         *)
(* A thread that has filled a transaction calls pushTransaction: it        *)
(* appends the transaction under m_mutex_openTransactions and then works   *)
(* in handleWaitingTransactions until it finds the queue empty, committing *)
(* whatever transaction is in front, its own or another thread's.  Each    *)
(* action below is one critical section or one call of the storage;        *)
(* between two of them any other thread may run.                           *)
(***************************************************************************)
EXTENDS Naturals, Sequences, SequencesExt

CONSTANTS
    Worker,          \* the threads that call pushTransaction
    Transaction,     \* the transaction objects they may push
    NoTransaction    \* the empty reference, getNextTransaction's "nothing"

ASSUME NoTransactionAssumption == NoTransaction \notin Transaction

VARIABLES
    openTransactions,     \* m_openTransactions
    nofOpenTransactions,  \* m_nofOpenTransactions
    errors,               \* m_errors, the transaction in place of its message
    stage,                \* where each thread is in pushTransaction
    current,              \* the local `transaction' of each thread
    pendingError,         \* hasError() of each thread's context in m_errorhnd
    (* history *)
    pushed,               \* the transactions handed to the queue so far
    committed,            \* those whose commit succeeded
    dropped               \* those lost to an out of memory, not in m_errors

queueVars == <<openTransactions, nofOpenTransactions, errors, stage, current,
               pendingError, pushed, committed, dropped>>

Stage == {"idle", "take", "commit", "record"}

TypeOK ==
    /\ openTransactions \in Seq(Transaction)
    /\ nofOpenTransactions \in Nat
    /\ errors \in Seq(Transaction)
    /\ stage \in [Worker -> Stage]
    /\ current \in [Worker -> Transaction \cup {NoTransaction}]
    /\ pendingError \in [Worker -> BOOLEAN]
    /\ pushed \in SUBSET Transaction
    /\ committed \in SUBSET Transaction
    /\ dropped \in SUBSET Transaction

Init ==
    /\ openTransactions = <<>>
    /\ nofOpenTransactions = 0
    /\ errors = <<>>
    /\ stage = [w \in Worker |-> "idle"]
    /\ current = [w \in Worker |-> NoTransaction]
    /\ pendingError = [w \in Worker |-> FALSE]
    /\ pushed = {}
    /\ committed = {}
    /\ dropped = {}

(* Faulty variants, each a slip the definition after it could have, are    *)
(* marked `faulty'; no specification uses them.                            *)

(* faulty: the call of handleWaitingTransactions is missing.               *)
PushAndLeave(w, t) ==
    /\ stage[w] = "idle"
    /\ t \notin pushed
    /\ openTransactions' = Append(openTransactions, t)
    /\ nofOpenTransactions' = nofOpenTransactions + 1
    /\ pushed' = pushed \cup {t}
    /\ UNCHANGED <<stage, errors, current, pendingError, committed, dropped>>

(* The critical section of pushTransaction.  Every call brings a fresh     *)
(* transaction object.                                                     *)
PushTransaction(w, t) ==
    /\ stage[w] = "idle"
    /\ t \notin pushed
    /\ openTransactions' = Append(openTransactions, t)
    /\ nofOpenTransactions' = nofOpenTransactions + 1
    /\ pushed' = pushed \cup {t}
    /\ stage' = [stage EXCEPT ![w] = "take"]
    /\ UNCHANGED <<errors, current, pendingError, committed, dropped>>

(* faulty: the front is read but not popped.                               *)
GetWithoutPop(w) ==
    /\ stage[w] = "take"
    /\ nofOpenTransactions # 0
    /\ nofOpenTransactions' = nofOpenTransactions - 1
    /\ current' = [current EXCEPT ![w] = Head(openTransactions)]
    /\ stage' = [stage EXCEPT ![w] = "commit"]
    /\ UNCHANGED <<openTransactions, errors, pendingError, pushed, committed,
                   dropped>>

(* getNextTransaction with a transaction waiting: the counter is tested    *)
(* and decremented, the front of the queue is taken.                       *)
GetNextTransaction(w) ==
    /\ stage[w] = "take"
    /\ nofOpenTransactions # 0
    /\ nofOpenTransactions' = nofOpenTransactions - 1
    /\ current' = [current EXCEPT ![w] = Head(openTransactions)]
    /\ openTransactions' = Tail(openTransactions)
    /\ stage' = [stage EXCEPT ![w] = "commit"]
    /\ UNCHANGED <<errors, pendingError, pushed, committed, dropped>>

(* faulty: the loop is not left when no transaction waits.                 *)
SpinOnEmpty(w) ==
    /\ stage[w] = "take"
    /\ nofOpenTransactions = 0
    /\ UNCHANGED queueVars

(* getNextTransaction with none waiting: the loop and the call end.        *)
NoTransactionWaiting(w) ==
    /\ stage[w] = "take"
    /\ nofOpenTransactions = 0
    /\ stage' = [stage EXCEPT ![w] = "idle"]
    /\ UNCHANGED <<openTransactions, nofOpenTransactions, errors, current,
                   pendingError, pushed, committed, dropped>>

(* The thread leaves the body of the loop for its next round: the local    *)
(* reference is released.                                                  *)
NextRound(w) ==
    /\ stage' = [stage EXCEPT ![w] = "take"]
    /\ current' = [current EXCEPT ![w] = NoTransaction]
    /\ UNCHANGED <<openTransactions, nofOpenTransactions, pushed>>

(* faulty: the reference is released before the commit.                    *)
CommitReleased(w) ==
    /\ stage[w] = "commit"
    /\ NextRound(w)
    /\ committed' = committed \cup {current'[w]}
    /\ UNCHANGED <<errors, pendingError, dropped>>

CommitSucceeds(w) ==
    /\ stage[w] = "commit"
    /\ committed' = committed \cup {current[w]}
    /\ NextRound(w)
    /\ UNCHANGED <<errors, pendingError, dropped>>

(* The commit reports a failure or throws: the error the storage left in   *)
(* the thread's context is fetched and reported again with more detail.    *)
CommitFails(w) ==
    /\ stage[w] = "commit"
    /\ pendingError' = [pendingError EXCEPT ![w] = TRUE]
    /\ stage' = [stage EXCEPT ![w] = "record"]
    /\ UNCHANGED <<openTransactions, nofOpenTransactions, errors, current,
                   pushed, committed, dropped>>

(* The end of the handler, under m_mutex_errors: the error moves from the  *)
(* thread's context to m_errors.                                           *)
RecordError(w) ==
    /\ stage[w] = "record"
    /\ errors' = Append(errors, current[w])
    /\ pendingError' = [pendingError EXCEPT ![w] = FALSE]
    /\ NextRound(w)
    /\ UNCHANGED <<committed, dropped>>

(* std::bad_alloc out of the commit: the error is reported to the thread's *)
(* context and stays there, m_errors does not get an entry.                *)
CommitOutOfMemory(w) ==
    /\ stage[w] = "commit"
    /\ pendingError' = [pendingError EXCEPT ![w] = TRUE]
    /\ dropped' = dropped \cup {current[w]}
    /\ NextRound(w)
    /\ UNCHANGED <<errors, committed>>

(* handleWaitingTransactions, one step of it.                              *)
HandleWaitingTransactions(w) ==
    \/ GetNextTransaction(w)
    \/ NoTransactionWaiting(w)
    \/ CommitSucceeds(w)
    \/ CommitFails(w)
    \/ RecordError(w)
    \/ CommitOutOfMemory(w)

Next == \E w \in Worker :
    \/ \E t \in Transaction : PushTransaction(w, t)
    \/ HandleWaitingTransactions(w)

(* A thread inside the call goes on: the scheduler runs it and the storage *)
(* answers a commit.  Nothing makes a thread call pushTransaction.         *)
Fairness == \A w \in Worker : WF_queueVars(HandleWaitingTransactions(w))

Spec == Init /\ [][Next]_queueVars /\ Fairness

-----------------------------------------------------------------------------
(* Where a transaction can be after it was pushed.                         *)
Waiting == ToSet(openTransactions)
InCommit == {current[w] : w \in Worker} \ {NoTransaction}
Failed == ToSet(errors)
Settled == committed \cup Failed \cup dropped

(* m_nofOpenTransactions is always the length of the queue: the test on it *)
(* in getNextTransaction never lets front() and pop() meet an empty queue  *)
(* and never leaves a transaction behind.                                  *)
CounterExact == nofOpenTransactions = Len(openTransactions)

(* While a transaction waits, some thread is inside                        *)
(* handleWaitingTransactions and will look at the queue again: a thread    *)
(* that finds the queue empty and leaves cannot miss a concurrent push.    *)
NobodyLeavesWorkBehind ==
    openTransactions # <<>> => \E w \in Worker : stage[w] # "idle"

(* A transaction a thread holds is held by that thread alone, waits no     *)
(* longer and has no outcome yet: no transaction is committed by two       *)
(* threads or committed again after it was settled.                        *)
HeldOnce ==
    /\ \A v, w \in Worker :
          current[v] = current[w] /\ current[v] # NoTransaction => v = w
    /\ IsInjective(openTransactions)
    /\ InCommit \cap (Waiting \cup Settled) = {}
    /\ Waiting \cap Settled = {}

(* A transaction has one outcome: committed, listed in m_errors, or lost   *)
(* without an entry, and m_errors lists it once, so that its size is the   *)
(* number of failed transactions the main program prints.                  *)
OneOutcome ==
    /\ committed \cap Failed = {}
    /\ committed \cap dropped = {}
    /\ Failed \cap dropped = {}
    /\ IsInjective(errors)

(* No transaction disappears: what was pushed waits, is being committed or *)
(* has an outcome.                                                         *)
NothingDisappears == pushed = Waiting \cup InCommit \cup Settled

(* When no thread is inside the queue, as when the main program has joined *)
(* all of them and closes the storage, every pushed transaction has been   *)
(* settled although no thread waited for its own.                          *)
QuietMeansSettled ==
    (\A w \in Worker : stage[w] = "idle") => pushed = Settled

(* What the threads owe the program at any moment, whoever pushed and      *)
(* whoever commits: a transaction is in one pair of hands at a time, gets  *)
(* one outcome, is never lost on the way, and is settled when all threads  *)
(* are back from their calls.                                              *)
SettledOnce ==
    /\ HeldOnce
    /\ OneOutcome
    /\ NothingDisappears
    /\ QuietMeansSettled

(* Every pushed transaction is settled in the end, by whichever thread,    *)
(* and every call of pushTransaction returns: with finitely many           *)
(* transactions no thread is kept committing for the others forever.       *)
PushCompletes ==
    /\ \A t \in Transaction : t \in pushed ~> t \in Settled
    /\ \A w \in Worker : stage[w] # "idle" ~> stage[w] = "idle"
=============================================================================
