----------------------------- MODULE TagMarkup -----------------------------
(***************************************************************************)
(* The program strusTagMarkup: workers that add an attribute to selected   *)
(* tags of the files handed out by the crawler                             *)
(* (src/src/strusTagMarkup/strusTagMarkup.cpp).                            *)
(*                                                                         *)
(* Every worker has a handler of its own that makes the attribute values:  *)
(* a counter ("count") or a map from the content of a tag to a number      *)
(* ("map").  The handlers share nothing; the values meet in the outputs.   *)
(* markupDocumentTags is external: it asks the handler for a value for     *)
(* each selected tag of the file, in order.                                *)
(***************************************************************************)
EXTENDS CrawlerClient, Sequences, FiniteSets, SequencesExt, FiniteSetsExt

CONSTANTS
    Content,  \* what the map handler sees of a tag
    Tags,     \* the selected tags of each file
    Start,    \* the number at the end of --parameter
    Markups   \* the values of --markup to check

ASSUME MarkupAssumption ==
    /\ Tags \in [File -> Seq(Content)]
    /\ Start \in Nat
    /\ Markups \subseteq {"count", "map"}

VARIABLES
    markup,    \* option --markup
    counter,   \* m_current of each worker's handler
    map,       \* m_map of each worker's handler, -1: no entry
    values,    \* the values of the tags marked up so far in each worker's file
    ended,     \* the workers whose run has returned
    (* what is on disk and how it came there *)
    outputs    \* the tags written: file, position, worker, content and value

handlerVars == <<counter, map, values>>
vars == <<crawlerVars, markup, handlerVars, ended, outputs>>

(* The distance between two values of a handler.                           *)
Increment == IF markup = "count" THEN NofInstances ELSE 1

(* Definitions marked `faulty' are slips the definition after them could   *)
(* have; no specification uses them.                                       *)

(* faulty: the handlers all start at the same number.                      *)
InitialCounterShared(w) == Start

(* faulty: the counter is the last number given, not the next one.         *)
InitialCounterBefore(w) ==
    (IF markup = "count" THEN Start + (w - 1) ELSE Start) - Increment

(* The handlers' constructors; the instance index is the worker's less one.*)
InitialCounter(w) == IF markup = "count" THEN Start + (w - 1) ELSE Start

Init ==
    /\ Crawler!Init
    /\ markup \in Markups
    /\ counter = [w \in Worker |-> InitialCounter(w)]
    /\ map = [w \in Worker |-> [c \in Content |-> -1]]
    /\ values = [w \in Worker |-> <<>>]
    /\ ended = {}
    /\ outputs = {}

-----------------------------------------------------------------------------
CurrentFile(w) == Head(batch[w])

(* The content of the next selected tag of the worker's file.              *)
NextTag(w) == Tags[CurrentFile(w)][Len(values[w]) + 1]

Give(w, value) == values' = [values EXCEPT ![w] = Append(@, value)]
Advance(w) == counter' = [counter EXCEPT ![w] = @ + Increment]

(* TagAttributeMarkupCount::synthesizeAttribute                            *)
Count(w) == Give(w, counter[w]) /\ Advance(w) /\ UNCHANGED map

(* faulty: a new content is given the number but not entered.              *)
LookUpForgotten(w) ==
    IF map[w][NextTag(w)] = -1
    THEN Give(w, counter[w]) /\ Advance(w) /\ UNCHANGED map
    ELSE Give(w, map[w][NextTag(w)]) /\ UNCHANGED <<counter, map>>

(* TagAttributeMarkupMap::synthesizeAttribute                              *)
LookUp(w) ==
    IF map[w][NextTag(w)] = -1
    THEN /\ Give(w, counter[w])
         /\ Advance(w)
         /\ map' = [map EXCEPT ![w][NextTag(w)] = counter[w]]
    ELSE Give(w, map[w][NextTag(w)]) /\ UNCHANGED <<counter, map>>

(* The loop of writeTagMarkup: the next chunk.  The worker's run returns   *)
(* when there is none.                                                     *)
FetchFiles(w) ==
    /\ w \notin ended
    /\ Crawler!Fetch(w) \/ Crawler!FetchNothing(w) \/ Crawler!FetchFails(w)
    /\ ended' = IF w \in stopped' THEN ended \cup {w} ELSE ended
    /\ UNCHANGED <<markup, handlerVars, outputs>>

(* The next selected tag of the file.                                      *)
MarkupTag(w) ==
    /\ w \notin ended
    /\ batch[w] # <<>>
    /\ Len(values[w]) < Len(Tags[CurrentFile(w)])
    /\ IF markup = "count" THEN Count(w) ELSE LookUp(w)
    /\ UNCHANGED <<crawlerVars, markup, ended, outputs>>

(* The worker is done with its file.                                       *)
NextFile(w) ==
    /\ Crawler!FileDone(w)
    /\ values' = [values EXCEPT ![w] = <<>>]
    /\ UNCHANGED <<markup, counter, map, ended>>

(* All selected tags have their values and the output is written.          *)
WriteFile(w) ==
    /\ w \notin ended
    /\ NextFile(w)
    /\ Len(values[w]) = Len(Tags[CurrentFile(w)])
    /\ outputs' = outputs \cup
          {[file |-> CurrentFile(w), tag |-> i, by |-> w,
            content |-> Tags[CurrentFile(w)][i], value |-> values[w][i]] :
              i \in DOMAIN values[w]}

(* The markup reports an error after some of the tags and yields an empty  *)
(* document, or the write fails and its result is not looked at: the loop  *)
(* goes on with the next file.                                             *)
FileLost(w) ==
    /\ w \notin ended
    /\ NextFile(w)
    /\ UNCHANGED outputs

(* An exception: the file cannot be read, its class is not supported, its  *)
(* output directory not made.  It ends the worker's run, and with it the   *)
(* rest of its chunk.                                                      *)
FileThrows(w) ==
    /\ w \notin ended
    /\ batch[w] # <<>>
    /\ ended' = ended \cup {w}
    /\ batch' = [batch EXCEPT ![w] = <<>>]
    /\ UNCHANGED <<chunkque, stopped, reading, made, handed, broken, markup,
                   handlerVars, outputs>>

Run(w) ==
    \/ FetchFiles(w)
    \/ MarkupTag(w)
    \/ WriteFile(w)
    \/ FileLost(w)
    \/ FileThrows(w)

(* main joins the threads and returns.                                     *)
Joined == ended = Worker /\ UNCHANGED vars

Next == (\E w \in Worker : Run(w)) \/ Joined

Spec == Init /\ [][Next]_vars

-----------------------------------------------------------------------------
TypeOK ==
    /\ Crawler!TypeOK
    /\ markup \in Markups
    /\ counter \in [Worker -> Nat]
    /\ map \in [Worker -> [Content -> Nat \cup {-1}]]
    /\ values \in [Worker -> Seq(Nat)]
    /\ ended \in SUBSET Worker
    /\ outputs \subseteq [file : File, tag : Nat \ {0}, by : Worker,
                          content : Content, value : Nat]

(* The usage of --markup count: the attribute is unique.  No two tags of   *)
(* any two files have the same number, whichever workers wrote them and    *)
(* whatever failed between: the workers count with different remainders.   *)
CountsAreUnique ==
    markup = "count" =>
        \A x, y \in outputs : x.value = y.value => x = y

(* Within the files of one worker the map gives the same number to equal   *)
(* contents and different numbers to different ones.  Between two workers  *)
(* nothing of the kind holds.                                              *)
MapsAreConsistent ==
    markup = "map" =>
        \A x, y \in outputs :
            x.by = y.by => (x.value = y.value <=> x.content = y.content)
=============================================================================
