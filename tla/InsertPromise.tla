--------------------------- MODULE InsertPromise ---------------------------
(***************************************************************************)
(* What strusInsert promises about the documents, without threads, chunks  *)
(* and queue: documents are gathered in batches; a batch is inserted as a  *)
(* whole or lost as a whole, exactly once; what is gathered may be         *)
(* discarded before it is handed over, never after; when the program ends  *)
(* no document is on its way.                                              *)
(***************************************************************************)
EXTENDS FiniteSets, Naturals

CONSTANT Doc

VARIABLES
    batchSize,  \* the largest batch allowed, zero for any size; fixed
    status,   \* of each document
    batches,  \* the batches handed over and not yet inserted or lost
    ended

promiseVars == <<batchSize, status, batches, ended>>

Becomes(docs, s) == [d \in Doc |-> IF d \in docs THEN s ELSE status[d]]
OfStatus(s) == {d \in Doc : status[d] = s}

Init ==
    /\ batchSize \in Nat
    /\ status = [d \in Doc |-> "waiting"]
    /\ batches = {}
    /\ ended = FALSE

Gather == \E d \in OfStatus("waiting") :
    /\ status' = Becomes({d}, "gathered")
    /\ UNCHANGED <<batchSize, batches, ended>>

HandOver == \E docs \in (SUBSET OfStatus("gathered")) \ {{}} :
    /\ batchSize > 0 => Cardinality(docs) <= batchSize
    /\ status' = Becomes(docs, "handedOver")
    /\ batches' = batches \cup {docs}
    /\ UNCHANGED <<batchSize, ended>>

Discard == \E docs \in (SUBSET OfStatus("gathered")) \ {{}} :
    /\ status' = Becomes(docs, "lost")
    /\ UNCHANGED <<batchSize, batches, ended>>

Settle == \E docs \in batches :
    /\ status' \in {Becomes(docs, "inserted"), Becomes(docs, "lost")}
    /\ batches' = batches \ {docs}
    /\ UNCHANGED <<batchSize, ended>>

End ==
    /\ ~ended
    /\ OfStatus("gathered") = {}
    /\ batches = {}
    /\ ended' = TRUE
    /\ UNCHANGED <<batchSize, status, batches>>

Next == ~ended /\ (Gather \/ HandOver \/ Discard \/ Settle \/ End)

(* What was handed over is settled and the program ends.                   *)
Fairness == WF_promiseVars(Settle) /\ WF_promiseVars(End)

Spec == Init /\ [][Next]_promiseVars /\ Fairness
=============================================================================
