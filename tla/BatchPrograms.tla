---------------------------- MODULE BatchPrograms ----------------------------
(***************************************************************************)
(* Three programs with a job of their own: strusTagMarkup (TagMarkup) and  *)
(* strusGenerateKeyMap (KeyMapGen), which take their files from a crawler, *)
(* and strusUpdateStorageCalcStatistics (CalcStatistics).  One of them is  *)
(* called; it shares nothing with the others.                              *)
(***************************************************************************)
EXTENDS KeyMapGen, TagMarkup, CalcStatistics

VARIABLE program  \* the program called

tagMarkupVars == <<markup, handlerVars, ended, outputs>>
keyMapOwnVars == <<localVars, keyOccurrenceListBuf, mainVars, counted>>
batchVars == <<program, crawlerVars, tagMarkupVars, keyMapOwnVars, calcVars>>

(* The arguments of a program that is not called are of no interest.       *)
BatchInit ==
    /\ program \in {"strusTagMarkup", "strusGenerateKeyMap",
                    "strusUpdateStorageCalcStatistics"}
    /\ Init /\ KeyMapInit /\ CalcInit
    /\ program # "strusTagMarkup" => markup = CHOOSE m \in Markups : TRUE
    /\ program # "strusUpdateStorageCalcStatistics" =>
           /\ transactionSize = CHOOSE n \in TransactionSizes : TRUE
           /\ nofDocuments = [s \in Storage |-> 0]

TagMarkupStep ==
    /\ program = "strusTagMarkup" /\ Next
    /\ UNCHANGED <<program, keyMapOwnVars, calcVars>>
KeyMapStep ==
    /\ program = "strusGenerateKeyMap" /\ KeyMapNext
    /\ UNCHANGED <<program, tagMarkupVars, calcVars>>
CalcStep(A) ==
    /\ program = "strusUpdateStorageCalcStatistics" /\ A
    /\ UNCHANGED <<program, crawlerVars, tagMarkupVars, keyMapOwnVars>>

BatchNext == TagMarkupStep \/ KeyMapStep \/ CalcStep(CalcNext)

(* Nothing but the system's scheduling keeps the loop over the documents.  *)
BatchSpec == BatchInit /\ [][BatchNext]_batchVars /\ WF_batchVars(CalcStep(Progress))

(* strusUpdateStorageCalcStatistics ends: a gap of document numbers, which *)
(* makes the loop of updateStorageWithFormula meet the same document       *)
(* again, does not hold it there.                                          *)
CalcEnds == program = "strusUpdateStorageCalcStatistics" => ProgramEnds
=============================================================================
