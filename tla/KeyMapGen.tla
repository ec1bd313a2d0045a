----------------------------- MODULE KeyMapGen -----------------------------
(***************************************************************************)
(* The program strusGenerateKeyMap: threads count the search index terms   *)
(* of the files handed out by the crawler, one map per chunk, and push     *)
(* each map as an ordered list to a shared result list; the main program   *)
(* merges the lists and prints the most frequent terms                     *)
(* (src/src/strusInsert/keyMapGenProcessor.cpp, strusGenerateKeyMap.cpp).  *)
(*                                                                         *)
(* A term value is a number, in the order of std::string.  m_terminated is *)
(* not modelled: nothing calls sigStop.                                    *)
(***************************************************************************)
EXTENDS CrawlerClient, Sequences, FiniteSets, SequencesExt

CONSTANTS
    Name,        \* the term values
    Terms,       \* the terms of each file, in the order they are analyzed
    NofResults   \* option --results

ASSUME KeyMapAssumption ==
    /\ Name \in SUBSET Nat
    /\ Terms \in [File -> Seq(Name)]
    /\ NofResults \in Nat

VARIABLES
    inChunk,               \* the threads inside the body of the outer loop
    position,              \* the terms of its current file a thread has counted
    keyOccurrenceMap,      \* the counts of each thread's chunk, zero: no entry
    keyOccurrenceListBuf,  \* m_keyOccurrenceListBuf
    printed,               \* what the program wrote, empty before
    outcome,               \* "none", "done", or "undefined" behaviour was met
    (* history *)
    counted                \* the occurrences counted in maps not thrown away

localVars == <<inChunk, position, keyOccurrenceMap>>
mainVars == <<printed, outcome>>
keyMapVars == <<crawlerVars, localVars, keyOccurrenceListBuf, mainVars, counted>>

NoCounts == [n \in Name |-> 0]
KeyOccurrence == [name : Name, frequency : Nat \ {0}]

KeyMapInit ==
    /\ Crawler!Init
    /\ inChunk = {}
    /\ position = [w \in Worker |-> 0]
    /\ keyOccurrenceMap = [w \in Worker |-> NoCounts]
    /\ keyOccurrenceListBuf = <<>>
    /\ printed = <<>>
    /\ outcome = "none"
    /\ counted = NoCounts

-----------------------------------------------------------------------------
(* The loop of a thread.  Definitions marked `faulty' are slips the        *)
(* definition after them could have; no specification uses them.           *)

(* faulty: the map is declared outside of the loop.                        *)
FetchChunkOldMap(w) ==
    /\ w \notin inChunk
    /\ Crawler!Fetch(w) \/ Crawler!FetchNothing(w) \/ Crawler!FetchFails(w)
    /\ inChunk' = IF w \in stopped' THEN inChunk ELSE inChunk \cup {w}
    /\ UNCHANGED <<position, keyOccurrenceMap, keyOccurrenceListBuf, mainVars,
                   counted>>

(* faulty: the body of the loop is run for an empty list as well.          *)
FetchChunkDoWhile(w) ==
    /\ w \notin inChunk
    /\ Crawler!Fetch(w) \/ Crawler!FetchNothing(w) \/ Crawler!FetchFails(w)
    /\ inChunk' = inChunk \cup {w}
    /\ keyOccurrenceMap' = [keyOccurrenceMap EXCEPT ![w] = NoCounts]
    /\ UNCHANGED <<position, keyOccurrenceListBuf, mainVars, counted>>

(* The condition of the outer loop: the next chunk, with a new map.        *)
FetchChunk(w) ==
    /\ w \notin inChunk
    /\ Crawler!Fetch(w) \/ Crawler!FetchNothing(w) \/ Crawler!FetchFails(w)
    /\ inChunk' = IF w \in stopped' THEN inChunk ELSE inChunk \cup {w}
    /\ keyOccurrenceMap' = [keyOccurrenceMap EXCEPT ![w] = NoCounts]
    /\ UNCHANGED <<position, keyOccurrenceListBuf, mainVars, counted>>

(* The body of analyzeNext's loop for one term of the document.            *)
CountTerm(w) ==
    /\ w \in inChunk
    /\ batch[w] # <<>>
    /\ position[w] < Len(Terms[Head(batch[w])])
    /\ LET n == Terms[Head(batch[w])][position[w] + 1]
       IN  /\ keyOccurrenceMap' = [keyOccurrenceMap EXCEPT ![w][n] = @ + 1]
           /\ counted' = [counted EXCEPT ![n] = @ + 1]
    /\ position' = [position EXCEPT ![w] = @ + 1]
    /\ UNCHANGED <<crawlerVars, inChunk, keyOccurrenceListBuf, mainVars>>

(* The thread goes on with the next file of the chunk: at the end of the   *)
(* file, after a read error in it, after an exception, or when its class   *)
(* is not detected or has no analyzer.  What was counted stays counted.    *)
NextDocument(w) ==
    /\ w \in inChunk
    /\ Crawler!FileDone(w)
    /\ position' = [position EXCEPT ![w] = 0]
    /\ UNCHANGED <<inChunk, keyOccurrenceMap, keyOccurrenceListBuf, mainVars,
                   counted>>

(* The file's head cannot be read: `break' leaves the rest of the chunk.   *)
ReadAheadFails(w) ==
    /\ w \in inChunk
    /\ batch[w] # <<>>
    /\ position[w] = 0
    /\ batch' = [batch EXCEPT ![w] = <<>>]
    /\ UNCHANGED <<chunkque, stopped, reading, made, handed, broken, localVars,
                   keyOccurrenceListBuf, mainVars, counted>>

(* The elements of a set in an order.                                      *)
InOrder(S, Precedes(_, _)) ==
    CHOOSE s \in [1 .. Cardinality(S) -> S] :
        \A i, j \in 1 .. Cardinality(S) : i < j => Precedes(s[i], s[j])

(* The map in the order of its keys.                                       *)
Entries(map) == {[name |-> n, frequency |-> map[n]] : n \in {m \in Name : map[m] > 0}}
KeyOccurrenceList(map) == InOrder(Entries(map), LAMBDA a, b : a.name < b.name)

(* The end of the chunk: the list is pushed under the mutex.               *)
Push(w) ==
    /\ w \in inChunk
    /\ batch[w] = <<>>
    /\ keyOccurrenceListBuf' =
          Append(keyOccurrenceListBuf, KeyOccurrenceList(keyOccurrenceMap[w]))
    /\ inChunk' = inChunk \ {w}
    /\ UNCHANGED <<crawlerVars, position, keyOccurrenceMap, mainVars, counted>>

(* No memory for the list of the chunk, or, anywhere in the chunk, for the *)
(* message of a file that failed: the chunk's counts are lost with the     *)
(* rest of the chunk, the thread goes on with the next chunk.              *)
ChunkOutOfMemory(w) ==
    /\ w \in inChunk
    /\ counted' = [n \in Name |-> counted[n] - keyOccurrenceMap[w][n]]
    /\ inChunk' = inChunk \ {w}
    /\ batch' = [batch EXCEPT ![w] = <<>>]
    /\ position' = [position EXCEPT ![w] = 0]
    /\ UNCHANGED <<chunkque, stopped, reading, made, handed, broken,
                   keyOccurrenceMap, keyOccurrenceListBuf, mainVars>>

RunKeyMap(w) ==
    \/ FetchChunk(w)
    \/ CountTerm(w)
    \/ NextDocument(w)
    \/ ReadAheadFails(w)
    \/ Push(w)
    \/ ChunkOutOfMemory(w)

-----------------------------------------------------------------------------
(* The merge of printKeyOccurrenceList.                                    *)

(* One round of the loop over two ordered lists.                           *)
MergeRound(a, b, s) ==
    LET x == a[s.ai]
        y == b[s.bi]
    IN  CASE s.ai > Len(a) \/ s.bi > Len(b) -> s
          [] s.ai <= Len(a) /\ s.bi <= Len(b) /\ x.name = y.name ->
               [ai |-> s.ai + 1, bi |-> s.bi + 1,
                result |-> Append(s.result, [x EXCEPT !.frequency = @ + y.frequency])]
          [] s.ai <= Len(a) /\ s.bi <= Len(b) /\ x.name < y.name ->
               [s EXCEPT !.ai = @ + 1, !.result = Append(@, x)]
          [] OTHER -> [s EXCEPT !.bi = @ + 1, !.result = Append(@, y)]

(* The loop ends with the shorter list: what is left of the other is not   *)
(* copied.                                                                 *)
Merge(a, b) ==
    LET loop[n \in 0 .. Len(a) + Len(b)] ==
          IF n = 0 THEN [ai |-> 1, bi |-> 1, result |-> <<>>]
          ELSE MergeRound(a, b, loop[n - 1])
    IN  loop[Len(a) + Len(b)].result

MergedList(lists) ==
    LET result[i \in 1 .. Len(lists)] ==
          IF i = 1 THEN lists[1] ELSE Merge(result[i - 1], lists[i])
    IN  result[Len(lists)]

(* compareKeyMapOccurrenceFrequency                                        *)
MoreFrequent(a, b) ==
    \/ a.frequency > b.frequency
    \/ a.frequency = b.frequency /\ a.name < b.name

PrintKeyOccurrenceList(lists) ==
    LET ranked == InOrder(ToSet(MergedList(lists)), MoreFrequent)
    IN  SubSeq(ranked, 1, IF NofResults < Len(ranked) THEN NofResults ELSE Len(ranked))

(* All threads have been joined.  Without a single list the front of an    *)
(* empty vector is copied: nothing is known of what follows.               *)
FinalMerge ==
    /\ outcome = "none"
    /\ stopped = Worker
    /\ IF keyOccurrenceListBuf = <<>>
       THEN outcome' = "undefined" /\ UNCHANGED printed
       ELSE /\ outcome' = "done"
            /\ printed' = PrintKeyOccurrenceList(keyOccurrenceListBuf)
    /\ UNCHANGED <<crawlerVars, localVars, keyOccurrenceListBuf, counted>>

KeyMapTerminated == outcome # "none" /\ UNCHANGED keyMapVars

KeyMapNext == (\E w \in Worker : RunKeyMap(w)) \/ FinalMerge \/ KeyMapTerminated

KeyMapSpec == KeyMapInit /\ [][KeyMapNext]_keyMapVars

-----------------------------------------------------------------------------
KeyMapTypeOK ==
    /\ Crawler!TypeOK
    /\ inChunk \in SUBSET (Worker \ stopped)
    /\ position \in [Worker -> Nat]
    /\ keyOccurrenceMap \in [Worker -> [Name -> Nat]]
    /\ keyOccurrenceListBuf \in Seq(Seq(KeyOccurrence))
    /\ printed \in Seq(KeyOccurrence)
    /\ outcome \in {"none", "done", "undefined"}
    /\ counted \in [Name -> Nat]

Total(s) ==
    LET sum[k \in 0 .. Len(s)] == IF k = 0 THEN 0 ELSE sum[k - 1] + s[k]
    IN  sum[Len(s)]

(* How often the term n is in a list, in all lists, in the maps of the     *)
(* chunks at hand, in a file and in files.                                 *)
Listed(list, n) ==
    Total([i \in DOMAIN list |-> IF list[i].name = n THEN list[i].frequency ELSE 0])
InLists(n) ==
    Total([i \in DOMAIN keyOccurrenceListBuf |-> Listed(keyOccurrenceListBuf[i], n)])
InMaps(n) ==
    Total([w \in Worker |-> IF w \in inChunk THEN keyOccurrenceMap[w][n] ELSE 0])
Occurrences(f, n) == Cardinality({p \in DOMAIN Terms[f] : Terms[f][p] = n})
Contained(files, n) == Total([i \in DOMAIN files |-> Occurrences(files[i], n)])
InFiles(n) == Contained(Path, n)

(* The occurrences counted so far are in the lists or in the map of a      *)
(* thread's current chunk, each once, and no occurrence in a file is       *)
(* counted more often than it is there, however the files of the chunks    *)
(* are shared between the threads and wherever they fail.  The merge of    *)
(* any number of lists invents none: a printed term was counted at least   *)
(* as often as its printed rank says, no term is printed twice, and a more *)
(* frequent one never comes after a less frequent one.                     *)
OccurrencesConserved ==
    /\ \A n \in Name :
          counted[n] = InLists(n) + InMaps(n) /\ counted[n] <= InFiles(n)
    /\ \A i \in DOMAIN printed : printed[i].frequency <= InLists(printed[i].name)
    /\ \A i, j \in DOMAIN printed :
          i < j => MoreFrequent(printed[i], printed[j])
                   /\ printed[i].name # printed[j].name

(* The usage of the program: a list of the terms that result from the      *)
(* analysis of the files.  If every file was analyzed to its end and there *)
(* is room for all terms, all of them are printed.                         *)
AllTermsPrinted ==
    /\ outcome = "done"
    /\ NofResults >= Cardinality(Name)
    /\ \A n \in Name : counted[n] = InFiles(n)
    => \A n \in Name : counted[n] > 0 => \E i \in DOMAIN printed : printed[i].name = n
=============================================================================
