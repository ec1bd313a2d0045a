------------------------------ MODULE Inspect ------------------------------
(***************************************************************************)
(* The listings of strusInspect (src/src/strusInspect/strusInspect.cpp):   *)
(* what an item of the storage is in one document, or in all of them.      *)
(*                                                                         *)
(* A posting iterator finds with skipDoc(d) the first document from d on   *)
(* that has the term, 0 if there is none; a forward iterator does the same *)
(* with the positions of a document.  Both may be set back.                *)
(***************************************************************************)
EXTENDS Integers, Sequences, FiniteSets, SequencesExt, FiniteSetsExt

CONSTANTS
    MaxDocno,  \* storage.maxDocumentNumber()
    Task       \* the calls to look at

(* Some calls name a document: AllDocuments, UnknownDocument or its number.*)
AllDocuments == -1
UnknownDocument == 0

ASSUME InspectAssumption ==
    /\ MaxDocno \in Nat
    /\ \A t \in Task :
           /\ t.having \subseteq Nat \ {0}      \* with the item, or positions
           /\ t.empty \in BOOLEAN               \* option --empty
           /\ t.handle \in -1 .. 1              \* of --attribute: not given,
                                                \* unknown, known
           /\ t.document \in -1 .. MaxDocno
           /\ t.document = AllDocuments => t.having \subseteq 1 .. MaxDocno
           /\ t.fields \in Seq(Nat \X Nat)      \* ranges of a structure

VARIABLES
    task,     \* the call, <<>> before it
    docno,    \* the loop variable, of the fields in FieldContents
    pos,      \* the loop variable of the positions in a field
    lines,    \* what was printed: document or position and if it has the item
    wrapped,  \* the loop has started over; the lines are not repeated here
    result    \* "none" while at work, then "ok", "throw" or "crash"

inspectVars == <<task, docno, pos, lines, wrapped, result>>

InspectInit ==
    /\ task = <<>> /\ docno = 0 /\ pos = 0
    /\ lines = <<>> /\ wrapped = FALSE /\ result = "none"

(* skipDoc and skipPos.                                                    *)
SkipTo(d) ==
    LET later == {m \in task.having : m >= d}
    IN  IF later = {} THEN 0 ELSE Min(later)
Line(d) == [at |-> d, has |-> d \in task.having]
LinesOf(first, last) == [i \in 1 .. last - first + 1 |-> Line(first + i - 1)]
Ending(r) == result' = r /\ UNCHANGED <<task, docno, pos, wrapped>>
At(items) == result = "none" /\ task # <<>> /\ task.item \in items
Listing(items) == At(items) /\ task.document = AllDocuments
InLoop == docno <= MaxDocno

BeginInspect(t) ==
    /\ task = <<>>
    /\ task' = t /\ docno' = 1
    /\ pos' = IF t.fields = <<>> THEN 0
              ELSE LET later == {m \in t.having : m >= t.fields[1][1]}
                   IN  IF later = {} THEN 0 ELSE Min(later)
    /\ UNCHANGED <<lines, wrapped, result>>

(* The iterator or the reader for the item cannot be made, or there is no  *)
(* such element: an exception before the first line.                       *)
CannotStart ==
    /\ At({"pos", "indexterms", "ff", "indexstructs", "attribute", "metadata",
           "content", "fwmap", "token", "fields", "value"})
    /\ docno = 1 /\ lines = <<>>
    /\ Ending("throw") /\ UNCHANGED lines
(* The reader of the attribute that names the documents is not tested.     *)
NoReader ==
    /\ At({"pos", "indexterms", "ff", "ttf", "indexstructs", "metadata", "content"})
    /\ task.handle # -1 /\ docno = 1 /\ lines = <<>>
    /\ Ending("crash") /\ UNCHANGED lines

(* The end of each loop over the documents.                                *)
LastDocument ==
    /\ Listing({"pos", "indexterms", "ff", "ttf", "indexstructs", "attribute",
                "metadata", "content", "fwmap"})
    /\ ~InLoop
    /\ Ending("ok") /\ UNCHANGED lines

(* A term or a term type: from match to match.  --empty prints the gaps    *)
(* before a match; behind the last match the loop is left.                 *)
(* faulty: the gap before a match starts one document too late.            *)
ListMatchesLate ==
    /\ InLoop
    /\ LET next == SkipTo(docno) IN
       \/ next = 0 /\ Ending("ok") /\ UNCHANGED lines
       \/ /\ next # 0
          /\ lines' = lines \o LinesOf(IF task.empty /\ docno < next THEN docno + 1
                                       ELSE next, next)
          /\ docno' = next + 1
          /\ UNCHANGED <<task, pos, wrapped, result>>
ListMatches ==
    /\ InLoop
    /\ LET next == SkipTo(docno) IN
       \/ /\ next = 0
          /\ Ending("ok") /\ UNCHANGED lines
       \/ /\ next # 0
          /\ lines' = lines \o LinesOf(IF task.empty THEN docno ELSE next, next)
          /\ docno' = next + 1
          /\ UNCHANGED <<task, pos, wrapped, result>>
Positions == Listing({"pos"}) /\ ListMatches
IndexTerms == Listing({"indexterms"}) /\ ListMatches

(* The feature frequency: without --empty, or with the attribute to name   *)
(* the documents, docno is set to the next match, also if there is none.   *)
FeatureFrequency ==
    /\ Listing({"ff"}) /\ InLoop
    /\ LET next == SkipTo(docno)
           fills == task.empty /\ task.handle <= 0
       IN
       \/ /\ next = 0 /\ fills
          /\ lines' = lines \o LinesOf(docno, MaxDocno)
          /\ Ending("ok")
       \/ /\ next = 0 /\ ~fills
          /\ lines' = IF wrapped THEN lines ELSE lines \o LinesOf(0, 0)
          /\ docno' = 1 /\ wrapped' = TRUE
          /\ UNCHANGED <<task, pos, result>>
       \/ /\ next # 0
          /\ lines' = IF wrapped THEN lines
                      ELSE lines \o LinesOf(IF fills THEN docno ELSE next, next)
          /\ docno' = next + 1
          /\ UNCHANGED <<task, pos, wrapped, result>>

(* The items that are asked for document by document: printed if they are  *)
(* there or with --empty.                                                  *)
(* faulty: goes on to the next document only if it has printed this one.   *)
ListPresentStuck(empty) ==
    /\ InLoop
    /\ IF empty \/ docno \in task.having
       THEN lines' = lines \o LinesOf(docno, docno) /\ docno' = docno + 1
       ELSE UNCHANGED <<lines, docno>>
    /\ UNCHANGED <<task, pos, wrapped, result>>
ListPresent(empty) ==
    /\ InLoop
    /\ lines' = IF empty \/ docno \in task.having THEN lines \o LinesOf(docno, docno)
                ELSE lines
    /\ docno' = docno + 1
    /\ UNCHANGED <<task, pos, wrapped, result>>
IndexStructures == Listing({"indexstructs"}) /\ ListPresent(task.empty)
DocAttribute == Listing({"attribute"}) /\ ListPresent(task.empty)
DocMetaData == Listing({"metadata"}) /\ ListPresent(task.empty)
Content == Listing({"content"}) /\ ListPresent(task.empty)
DocumentTermTypeStats == Listing({"ttf"}) /\ ListPresent(TRUE)
ForwardIndexMap == Listing({"fwmap"}) /\ ListPresent(FALSE)

(* One document, by number or by identifier.                               *)
OneDocument ==
    /\ At({"pos", "indexterms", "ff", "ttf", "indexstructs", "attribute",
           "metadata", "content", "fwmap", "token"})
    /\ task.document > UnknownDocument
    /\ Ending("ok")
    /\ lines' = IF task.item \in {"pos", "indexterms", "indexstructs", "fwmap", "token"}
                   /\ task.document \notin task.having
                THEN lines ELSE LinesOf(task.document, task.document)
NoSuchDocument ==
    /\ result = "none" /\ task # <<>> /\ task.document = UnknownDocument
    /\ task.item \notin {"value", "unknown"}
    /\ Ending("throw") /\ UNCHANGED lines

(* The contents of the source and the sink fields of a structure in one    *)
(* document: the positions in each field [start,end), found one by one.    *)
FieldContents ==
    /\ At({"fields"}) /\ task.document > UnknownDocument
    /\ \/ /\ docno > Len(task.fields)
          /\ Ending("ok") /\ UNCHANGED lines
       \/ /\ docno <= Len(task.fields) /\ pos < task.fields[docno][2]
          /\ lines' = IF wrapped THEN lines ELSE lines \o LinesOf(pos, pos)
          /\ pos' = SkipTo(pos + 1)
          /\ wrapped' = (wrapped \/ pos' = 0)
          /\ UNCHANGED <<task, docno, result>>
       \/ /\ docno <= Len(task.fields) /\ pos >= task.fields[docno][2]
          /\ docno' = docno + 1
          /\ pos' = IF docno = Len(task.fields) THEN pos
                    ELSE SkipTo(task.fields[docno + 1][1])
          /\ UNCHANGED <<task, lines, wrapped, result>>

(* Items without a loop over documents: df, nofdocs, maxdocno, docno,      *)
(* attrnames, metatable, blockstats, config, diskusage; and a call with    *)
(* the wrong arguments or with an unknown item.                            *)
OneValue ==
    /\ At({"value", "unknown"})
    /\ Ending(IF task.item = "unknown" THEN "throw" ELSE "ok") /\ UNCHANGED lines

InspectStep ==
    \/ CannotStart \/ NoReader
    \/ LastDocument \/ Positions \/ IndexTerms \/ FeatureFrequency
    \/ IndexStructures \/ DocAttribute \/ DocMetaData \/ Content
    \/ DocumentTermTypeStats \/ ForwardIndexMap
    \/ OneDocument \/ NoSuchDocument \/ FieldContents \/ OneValue

InspectNext == InspectStep \/ \E t \in Task : BeginInspect(t)
InspectSpec == InspectInit /\ [][InspectNext]_inspectVars

-----------------------------------------------------------------------------

(* What a listing is to show: --empty, "Print non existing elements as     *)
(* empty value", asks for all documents; fwmap does not take the option.   *)
Wanted ==
    {d \in 1 .. MaxDocno :
        d \in task.having \/ task.item = "ttf" \/ (task.empty /\ task.item # "fwmap")}

(* What --empty does not show all the same: the terms leave out the        *)
(* documents behind the last match, and the frequency those without the    *)
(* term if documents are named by an attribute.                            *)
LeftOut ==
    {d \in 1 .. MaxDocno :
        /\ task.empty
        /\ \/ task.item \in {"pos", "indexterms"} /\ \A m \in task.having : m < d
           \/ task.item = "ff" /\ task.handle > 0 /\ d \notin task.having}

(* The documents that a listing of all of them has shown.                  *)
Shown == {lines[i].at : i \in DOMAIN lines}
Finished ==
    result = "ok" /\ task.document = AllDocuments
        /\ task.item \notin {"fields", "value", "unknown"}

(* The loops that do not end: the feature frequency if the last documents  *)
(* do not have the term, and a field that ends behind the last position    *)
(* with a forward index element.                                           *)
NeverEnds ==
    /\ task # <<>>
    /\ \/ /\ task.item = "ff" /\ task.document = AllDocuments
          /\ MaxDocno > 0 /\ MaxDocno \notin task.having
          /\ ~(task.empty /\ task.handle <= 0)
       \/ /\ task.item = "fields"
          /\ \E i \in DOMAIN task.fields :
                 task.fields[i][2] > 0 /\ \A m \in task.having : m < task.fields[i][2]

(* A listing of all documents that ends shows each document that has the   *)
(* item exactly once, in ascending order, and says of each whether it has  *)
(* the item; with --empty it shows the others as well, but for those of    *)
(* LeftOut, which the usage does not except: the loops of the inspect      *)
(* functions.                                                              *)
ListingIsComplete ==
    Finished =>
        /\ ~wrapped
        /\ Shown = Wanted \ LeftOut
        /\ \A i, j \in DOMAIN lines : i < j => lines[i].at < lines[j].at
        /\ \A i \in DOMAIN lines : lines[i].has = (lines[i].at \in task.having)

(* "Print non existing elements as empty value" (strusInspect.cpp:1200): a *)
(* listing with --empty shows every document.                              *)
EmptyIsPrinted == Finished => Shown = Wanted
=============================================================================
