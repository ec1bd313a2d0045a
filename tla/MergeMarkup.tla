---------------------------- MODULE MergeMarkup ----------------------------
(***************************************************************************)
(* strusMergeMarkup (src/src/strusMergeMarkup/strusMergeMarkup.cpp) puts   *)
(* the tags of one set of documents into another set of the same texts.    *)
(*                                                                         *)
(* Workers fetch the input files, look for the markup file of the same     *)
(* name, search in the markup document for the text of each leaf of the    *)
(* input document and replace the leaf by what they find.  A document that *)
(* cannot be merged leaves a file with the error.                          *)
(*                                                                         *)
(* Of a document only its leaves count, in their order.                    *)
(***************************************************************************)
EXTENDS Integers, Sequences, FiniteSets, SequencesExt, FiniteSetsExt

CONSTANTS
    NofWorkers,    \* --threads, if not zero
    File, Dir, Path, FilesIn, SubDirs, ChunkSize,  \* see FileCrawler
    ErrorFile,     \* the file of the errors of each file: its extension replaced
    Tag, Char,     \* what the names of elements and the texts are made of
    Inputs, Markups,  \* the documents that each file and its markup file may hold
    MarkupOptions  \* the sets of tags --markup may list, empty: no such option

ASSUME MergeAssumption ==
    /\ NofWorkers \in Nat \ {0}
    /\ DOMAIN ErrorFile = File
    /\ IsFiniteSet(MarkupOptions)

Worker == 1 .. NofWorkers

VARIABLES
    chunkque, batch, stopped, reading, made, handed, broken,  \* the crawler
    program,    \* "run", "done" or "failed"
    threads,    \* FALSE: --threads 0, the first worker is run by main
    ended,      \* the workers whose run has returned
    stage,      \* where each worker is: "next" file, "merge" or "error"
    markupset,  \* m_markupset
    errorpath,  \* is there a directory to write errors to?
    outputs,    \* the output files, each with what it was made of
    errors,     \* the error files, each with the file it is about
    stderr      \* the files with an error printed to stderr

Crawler == INSTANCE FileCrawler

(* main makes a chunk size of zero one.                                    *)
ASSUME FilesAssumption == Crawler!Trees /\ ChunkSize > 0

crawlerVars == <<chunkque, batch, stopped, reading, made, handed, broken>>
optionVars == <<threads, markupset, errorpath>>
vars == <<crawlerVars, program, optionVars, ended, stage, outputs, errors, stderr>>

Absent == IF threads THEN {} ELSE Worker \ {1}

-----------------------------------------------------------------------------
(* Documents.  A leaf has the names of the elements above it, a name if it *)
(* is an element itself and its text without blanks (Segment::getKey).     *)
NoName == "none"

Segment == [above : Seq(Tag), name : Tag \cup {NoName}, key : Seq(Char)]

Document == Seq(Segment)

ASSUME DocumentAssumption ==
    Inputs \in [File -> SUBSET Document] /\ Markups \in [File -> SUBSET Document]

(* The tags of a segment, its own name the last one.                       *)
Tags(leaf) == IF leaf.name = NoName THEN leaf.above ELSE Append(leaf.above, leaf.name)

TextOf(leaves) == FlattenSeq([i \in DOMAIN leaves |-> leaves[i].key])

(* tagPathStartsWith                                                       *)
Below(leaf, segment) == IsPrefix(Tags(segment), Tags(leaf))

(* A leaf that is an element needs a tag of the set, if there is one.      *)
Allowed(leaf, tags) == leaf.name = NoName \/ tags = {} \/ leaf.name \in tags

HasMarkup(leaves) == \E i \in DOMAIN leaves : leaves[i].name # NoName

(* An element alone that repeats the segment: it would add nothing.        *)
Repeats(leaves, segment) == Len(leaves) = 1 /\ leaves[1].name = segment.name

(* Definitions marked `faulty' are slips the definition after them could   *)
(* have; no specification uses them.                                       *)

(* What matchSegment gathers from position i: leaf after leaf while each   *)
(* continues the text of the segment, is below its tags and is allowed.    *)
(* Leaves without a text behind the last one are gathered, too.            *)
Gather(segment, leaves, i, tags) ==
    LET rest(j) == SubSeq(segment.key, Len(TextOf(SubSeq(leaves, i, j - 1))) + 1,
                          Len(segment.key))
        stops(j) == \/ j > Len(leaves)
                    \/ ~IsPrefix(leaves[j].key, rest(j))
                    \/ ~Below(leaves[j], segment)
                    \/ ~Allowed(leaves[j], tags)
    IN  SubSeq(leaves, i, Min({j \in i .. Len(leaves) + 1 : stops(j)}) - 1)

(* faulty: a part of the text is enough.                                   *)
MatchesPrefix(segment, gathered) ==
    gathered # <<>> /\ HasMarkup(gathered) /\ ~Repeats(gathered, segment)

(* A match: the whole text, with some markup.                              *)
Matches(segment, gathered) ==
    /\ TextOf(gathered) = segment.key
    /\ HasMarkup(gathered)
    /\ ~Repeats(gathered, segment)

(* faulty: an element alone that repeats the segment ends the search.      *)
MatchSegmentGivesUp(segment, leaves, tags) ==
    LET found == {i \in DOMAIN leaves :
                    /\ TextOf(Gather(segment, leaves, i, tags)) = segment.key
                    /\ HasMarkup(Gather(segment, leaves, i, tags))}
    IN  IF segment.key = <<>> \/ found = {} THEN <<>>
        ELSE IF Repeats(Gather(segment, leaves, Min(found), tags), segment) THEN <<>>
        ELSE Gather(segment, leaves, Min(found), tags)

(* matchSegment: the first match, searched from the begin of the markup    *)
(* document for every segment; none if there is no match.                  *)
MatchSegment(segment, leaves, tags) ==
    LET found == {i \in DOMAIN leaves : Matches(segment, Gather(segment, leaves, i, tags))}
    IN  IF segment.key = <<>> \/ found = {} THEN <<>>
        ELSE Gather(segment, leaves, Min(found), tags)

(* deepCopyTree: the leaf, or what replaces its content.                   *)
Replaced(segment, match) ==
    IF match = <<>> THEN <<segment>>
    ELSE [i \in DOMAIN match |-> [match[i] EXCEPT !.above = Tags(segment)]]

MergeTree(input, markup, tags) ==
    FlattenSeq([i \in DOMAIN input |->
                  Replaced(input[i], MatchSegment(input[i], markup, tags))])

-----------------------------------------------------------------------------
Init ==
    /\ Crawler!Init
    /\ program = "run"
    /\ threads \in BOOLEAN
    /\ ended = Absent
    /\ stage = [w \in Worker |-> "next"]
    /\ markupset \in MarkupOptions
    /\ errorpath \in BOOLEAN
    /\ outputs = {}
    /\ errors = {}
    /\ stderr = {}

CurrentFile(w) == Head(batch[w])

At(w, place) == program = "run" /\ w \notin ended /\ batch[w] # <<>> /\ stage[w] = place

FetchFiles(w) ==
    /\ program = "run"
    /\ w \notin ended
    /\ Crawler!Fetch(w) \/ Crawler!FetchNothing(w) \/ Crawler!FetchFails(w)
    /\ ended' = IF w \in stopped' THEN ended \cup {w} ELSE ended
    /\ UNCHANGED <<program, optionVars, stage, outputs, errors, stderr>>

(* processFile first removes the error file of an earlier run.             *)
RemoveErrorFile(w) ==
    /\ At(w, "next")
    /\ stage' = [stage EXCEPT ![w] = "merge"]
    /\ errors' = IF errorpath
                 THEN {e \in errors : e.at # ErrorFile[CurrentFile(w)]}
                 ELSE errors
    /\ UNCHANGED <<crawlerVars, program, optionVars, ended, outputs, stderr>>

(* faulty: the worker does not begin the next file anew.                   *)
NextFileStageKept(w) ==
    /\ Crawler!FileDone(w)
    /\ UNCHANGED <<stage, program, optionVars, ended>>

NextFile(w) ==
    /\ Crawler!FileDone(w)
    /\ stage' = [stage EXCEPT ![w] = "next"]
    /\ UNCHANGED <<program, optionVars, ended>>

(* Both documents are read and merged and the result is written.           *)
MergeFile(w) ==
    /\ At(w, "merge")
    /\ \E input \in Inputs[CurrentFile(w)], markup \in Markups[CurrentFile(w)] :
          outputs' = outputs \cup
             {[file |-> CurrentFile(w), input |-> input, markup |-> markup,
               result |-> MergeTree(input, markup, markupset)]}
    /\ NextFile(w)
    /\ UNCHANGED <<errors, stderr>>

(* The error file cannot be removed; a file cannot be read, is not XML or  *)
(* has no markup file; the output cannot be written.                       *)
FileFails(w) ==
    /\ At(w, "next") \/ At(w, "merge")
    /\ stage' = [stage EXCEPT ![w] = "error"]
    /\ UNCHANGED <<crawlerVars, program, optionVars, ended, outputs, errors, stderr>>

(* faulty: without an error file nothing is printed.                       *)
PrintErrorToFileOnly(w) ==
    /\ At(w, "error")
    /\ errors' = IF errorpath
                 THEN {e \in errors : e.at # ErrorFile[CurrentFile(w)]} \cup
                        {[at |-> ErrorFile[CurrentFile(w)], file |-> CurrentFile(w)]}
                 ELSE errors
    /\ NextFile(w)
    /\ UNCHANGED <<outputs, stderr>>

(* printError                                                              *)
PrintError(w) ==
    /\ At(w, "error")
    /\ \/ /\ errorpath
          /\ errors' = {e \in errors : e.at # ErrorFile[CurrentFile(w)]} \cup
                         {[at |-> ErrorFile[CurrentFile(w)], file |-> CurrentFile(w)]}
          /\ UNCHANGED stderr
       \/ /\ ~errorpath
          /\ stderr' = stderr \cup {CurrentFile(w)}
          /\ UNCHANGED errors
    /\ NextFile(w)
    /\ UNCHANGED outputs

(* The error file cannot be written, or the memory is exhausted: nothing   *)
(* in run catches this.  A thread takes the process with it, without       *)
(* threads main catches it and returns an error.                           *)
WorkerDies(w) ==
    /\ program = "run" /\ w \notin ended /\ batch[w] # <<>>
    /\ program' = "failed"
    /\ UNCHANGED <<crawlerVars, optionVars, ended, stage, outputs, errors, stderr>>

(* main joins the workers.  It finds the error of a fetch if it was a      *)
(* worker itself.                                                          *)
Joined ==
    /\ program = "run"
    /\ ended = Worker
    /\ program' = IF ~threads /\ broken # {} THEN "failed" ELSE "done"
    /\ UNCHANGED <<crawlerVars, optionVars, ended, stage, outputs, errors, stderr>>

Terminated == program # "run" /\ UNCHANGED vars

Run(w) ==
    \/ FetchFiles(w)
    \/ RemoveErrorFile(w) \/ MergeFile(w) \/ FileFails(w) \/ PrintError(w)
    \/ WorkerDies(w)

Next == (\E w \in Worker : Run(w)) \/ Joined \/ Terminated

Spec == Init /\ [][Next]_vars

-----------------------------------------------------------------------------
TypeOK ==
    /\ Crawler!TypeOK
    /\ program \in {"run", "done", "failed"}
    /\ ended \subseteq Worker
    /\ stage \in [Worker -> {"next", "merge", "error"}]
    /\ \A w \in ended : stage[w] = "next"
    /\ {o.file : o \in outputs} \cup {e.file : e \in errors} \cup stderr \subseteq File

(* The tags around each character of the text of a document.               *)
TagsOfText(leaves) ==
    FlattenSeq([i \in DOMAIN leaves |->
                  [c \in DOMAIN leaves[i].key |-> Tags(leaves[i])]])

(* Whatever the markup document holds, the result has the text of the      *)
(* input, and every character stays below the tags it was below before,    *)
(* with at most one more, which is one of those asked for.                 *)
OnlyTagsAdded ==
    \A o \in outputs :
        LET before == TagsOfText(o.input)
            after == TagsOfText(o.result)
        IN  /\ TextOf(o.result) = TextOf(o.input)
            /\ \A c \in DOMAIN before :
                  \/ after[c] = before[c]
                  \/ /\ before[c] = Front(after[c])
                     /\ markupset = {} \/ Last(after[c]) \in markupset

(* The runs of leaves below the segment and allowed that spell its text    *)
(* and mark something in it.                                               *)
Spellings(segment, leaves, tags) ==
    {r \in (DOMAIN leaves) \X (DOMAIN leaves) :
        /\ r[1] <= r[2]
        /\ \A k \in r[1] .. r[2] : Below(leaves[k], segment) /\ Allowed(leaves[k], tags)
        /\ TextOf(SubSeq(leaves, r[1], r[2])) = segment.key
        /\ HasMarkup(SubSeq(leaves, r[1], r[2]))
        /\ ~Repeats(SubSeq(leaves, r[1], r[2]), segment)}

(* The search finds what there is to find: a leaf with a text is replaced  *)
(* if, and only if, some run of the markup document spells it, by the      *)
(* longest of the first ones.  In particular the reading on of leaves      *)
(* without a text never spoils a match.                                    *)
ReplacedIfSpelled ==
    \A o \in outputs :
        o.result = FlattenSeq([i \in DOMAIN o.input |->
            LET runs == IF o.input[i].key = <<>> THEN {}
                        ELSE Spellings(o.input[i], o.markup, markupset)
                first == Min({r[1] : r \in runs})
                last == Max({r[2] : r \in {x \in runs : x[1] = first}})
            IN  IF runs = {} THEN <<o.input[i]>>
                ELSE Replaced(o.input[i], SubSeq(o.markup, first, last))])

(* A run that ends well has an output or an error for every file the       *)
(* crawler found, unless a fetch failed for every worker.  The error may   *)
(* be gone if the file shares its error file with another one: they differ *)
(* in the extension only.                                                  *)
OutputOrError ==
    (program = "done" /\ broken # Worker) =>
        \A f \in {Crawler!AllFiles[i] : i \in DOMAIN Crawler!AllFiles} :
            \/ \E o \in outputs : o.file = f
            \/ f \in stderr \/ \E e \in errors : e.file = f
            \/ errorpath /\ \E g \in File \ {f} : ErrorFile[g] = ErrorFile[f]
=============================================================================
