----------------------------- MODULE PosTagger -----------------------------
(***************************************************************************)
(* The two runs of strusPosTagger and the part of speech tagger between    *)
(* them (src/src/strusPosTagger/strusPosTagger.cpp).                       *)
(*                                                                         *)
(* With -I the workers write the text of each document below a line with   *)
(* its name, each worker to a file of its own.  The user puts these files  *)
(* together, lets a tagger annotate the lines and passes the result to the *)
(* second run, which loads it, numbers the documents by their name lines   *)
(* and lets its workers mark up every document with the elements loaded    *)
(* for it.  The tagger is external: it turns the text of a document into   *)
(* elements and lets the name lines through.                               *)
(***************************************************************************)
EXTENDS Integers, Sequences, FiniteSets, SequencesExt

CONSTANTS
    NofWorkers,    \* --threads, if not zero
    File, Dir, Path, FilesIn, SubDirs, ChunkSize,  \* see FileCrawler
    NofElements,   \* the number of elements the tagger makes of each file
    BaseName,      \* the name of each file without its directory
    Outputs,       \* where --output may put the results
    MaxParts       \* bound: how many files the user puts together

ASSUME TaggerAssumption ==
    /\ NofWorkers \in Nat \ {0}
    /\ IsFiniteSet(File)
    /\ NofElements \in [File -> Nat]
    /\ DOMAIN BaseName = File
    /\ Outputs \subseteq {"beside", "dir", "stdout"}
    /\ MaxParts \in Nat

Worker == 1 .. NofWorkers

VARIABLES
    chunkque, batch, stopped, reading, made, handed, broken,  \* the crawler
    program,    \* "input", "load", "output", then "done" or "failed"
    threads,    \* FALSE: --threads 0, the first worker is run by main
    ended,      \* the workers whose run has returned
    reported,   \* the workers that printed an exception
    written,    \* the number of lines of its file each worker has written
    posinput,   \* the lines in the output file of each worker of the first run
    bad,        \* the workers whose output stream has failed
    left,       \* a message is in main's error buffer that nobody looked at
    posfile,    \* the tagged lines, <posfile> of the second run
    line,       \* linecnt, the lines read
    filename,   \* the file named last, if any
    docnocnt,   \* docnocnt
    elements,   \* the elements read since the last name line
    filemap,    \* the document number of each file, 0: no entry
    data,       \* the elements inserted for each document number
    options,    \* --output and whether --erroutput is given, of the second run
    outputs,    \* the output files: where, made for which file of what
    errorlog,   \* the files listed in the files of --erroutput
    (* history *)
    short       \* the files whose lines the first run did not write completely

Crawler == INSTANCE FileCrawler

(* main makes a chunk size of zero one.                                    *)
ASSUME FilesAssumption == Crawler!Trees /\ ChunkSize > 0

crawlerVars == <<chunkque, batch, stopped, reading, made, handed, broken>>
inputVars == <<written, posinput, bad, short>>
loadVars == <<posfile, line, filename, docnocnt, elements, filemap, data>>
outputVars == <<outputs, errorlog>>
vars == <<crawlerVars, program, threads, ended, reported, left, inputVars,
          loadVars, options, outputVars>>

NameLine(f) == [kind |-> "name", of |-> f]
ElementLine(f) == [kind |-> "element", of |-> f]
ElementsOf(f) == [i \in 1 .. NofElements[f] |-> ElementLine(f)]
InputLines(f) == <<NameLine(f)>> \o ElementsOf(f)
Line == [kind : {"name", "element"}, of : File]

(* The workers that are not made.                                          *)
Absent == IF threads THEN {} ELSE Worker \ {1}

(* The value of filename before the first name line, an empty string.      *)
NoFile == "none"

ASSUME NoFileAssumption == NoFile \notin File

Init ==
    /\ Crawler!Init
    /\ program = "input"
    /\ threads \in BOOLEAN
    /\ ended = Absent
    /\ reported = {}
    /\ written = [w \in Worker |-> 0]
    /\ posinput = [w \in Worker |-> <<>>]
    /\ bad = {}
    /\ left = FALSE
    /\ posfile = <<>>
    /\ line = 0
    /\ filename = NoFile
    /\ docnocnt = 0
    /\ elements = <<>>
    /\ filemap = [f \in File |-> 0]
    /\ data = [n \in 1 .. Cardinality(File) |-> <<>>]
    /\ options = [output |-> "beside", erroutput |-> FALSE]
    /\ outputs = {}
    /\ errorlog = {}
    /\ short = {}

-----------------------------------------------------------------------------
(* Both runs.  The workers fetch chunks until there is none.               *)
CurrentFile(w) == Head(batch[w])

HasFile(w) == w \notin ended /\ batch[w] # <<>>

FetchFiles(w) ==
    /\ program \in {"input", "output"}
    /\ w \notin ended
    /\ Crawler!Fetch(w) \/ Crawler!FetchNothing(w) \/ Crawler!FetchFails(w)
    /\ ended' = IF w \in stopped' THEN ended \cup {w} ELSE ended
    /\ UNCHANGED <<program, threads, reported, left, inputVars, loadVars, options,
                   outputVars>>

(* An exception is caught and printed by the worker's run; the rest of its *)
(* chunk is not processed.  The message of the failure is in the error     *)
(* buffer or was taken out of it for the text of the exception.            *)
Throw(w) ==
    /\ ended' = ended \cup {w}
    /\ reported' = reported \cup {w}
    /\ batch' = [batch EXCEPT ![w] = <<>>]
    /\ left' \in {FALSE, ~threads}
    /\ UNCHANGED <<chunkque, stopped, reading, made, handed, broken, program,
                   threads, inputVars, loadVars, options>>

(* main looks into its error buffer after joining the workers: it finds    *)
(* what they left there if it was a worker itself, the buffer of another   *)
(* thread is never looked at.                                              *)
ErrorInMain == ~threads /\ (broken # {} \/ left)

-----------------------------------------------------------------------------
(* The first run.  Definitions marked `faulty' are slips the definition    *)
(* after them could have; no specification uses them.                      *)

(* faulty: the number of the thread is not appended to the file name.      *)
OutputFileShared(w) == 1

(* The constructor of PosInputWorker gives each worker its own file.       *)
OutputFile(w) == w

(* writePosTaggerInput: the name of the file, then its text.               *)
Writing(w) == program = "input" /\ HasFile(w)

LineDone(w) ==
    /\ IF written[w] + 1 < Len(InputLines(CurrentFile(w)))
       THEN /\ written' = [written EXCEPT ![w] = @ + 1]
            /\ UNCHANGED batch
       ELSE /\ written' = [written EXCEPT ![w] = 0]
            /\ batch' = [batch EXCEPT ![w] = Tail(@)]
    /\ UNCHANGED <<chunkque, stopped, reading, made, handed, broken, program,
                   threads, ended, reported, loadVars, options, outputVars>>

WriteLine(w) ==
    /\ Writing(w)
    /\ w \notin bad
    /\ posinput' = [posinput EXCEPT ![OutputFile(w)] =
                      Append(@, InputLines(CurrentFile(w))[written[w] + 1])]
    /\ LineDone(w)
    /\ UNCHANGED <<bad, left, short>>

(* The stream fails or has failed: nobody looks at its state, the worker   *)
(* goes on and writes nothing any more.  A line is written whole or not at *)
(* all.                                                                    *)
LoseLine(w) ==
    /\ Writing(w)
    /\ bad' = bad \cup {w}
    /\ short' = short \cup {CurrentFile(w)}
    /\ LineDone(w)
    /\ UNCHANGED <<posinput, left>>

(* The text of the document or its entities could not be made, wholly or   *)
(* in part.  getPosTaggerInput and the segmenter leave a message that is   *)
(* not looked for; the name and what there is of the rest are written.     *)
TextFails(w) ==
    /\ Writing(w)
    /\ written[w] > 0
    /\ short' = short \cup {CurrentFile(w)}
    /\ left' = ~threads
    /\ LineDone(w)
    /\ UNCHANGED <<posinput, bad>>

(* The file cannot be read, its class is not known, an entity is defined   *)
(* twice or the segmenter has no context for them, the output file cannot  *)
(* be opened: all of it before the first line of the file is written.      *)
InputThrows(w) ==
    /\ Writing(w)
    /\ written[w] = 0
    /\ Throw(w)
    /\ UNCHANGED outputVars

-----------------------------------------------------------------------------
(* Between the runs.  The user puts the workers' files together, in any    *)
(* order, may forget one or take one twice, and the tagger may print       *)
(* something of its own ahead.  The second run finds the same files.       *)
Orders == UNION {[1 .. n -> Worker] : n \in 0 .. MaxParts}
Ahead == {<<>>} \cup {<<ElementLine(f)>> : f \in File}

Tagging ==
    /\ program = "input"
    /\ ended = Worker
    /\ ~ErrorInMain
    /\ \E order \in Orders, ahead \in Ahead :
          posfile' = ahead \o FlattenSeq([i \in DOMAIN order |-> posinput[order[i]]])
    /\ program' = "load"
    /\ options' \in [output : Outputs, erroutput : BOOLEAN]
    /\ chunkque' = made
    /\ batch' = [w \in Worker |-> <<>>]
    /\ stopped' = {}
    /\ handed' = <<>>
    /\ broken' = {}
    /\ ended' = Absent
    /\ reported' = {}
    /\ bad' = {}
    /\ left' = FALSE
    /\ UNCHANGED <<reading, made, threads, written, posinput, short, line,
                   filename, docnocnt, elements, filemap, data, outputVars>>

-----------------------------------------------------------------------------
(* The second run loads the tagged lines (loadPosTaggingFile).             *)
Loading == program = "load" /\ line < Len(posfile)
NextLine == posfile[line + 1]

(* Elements read before any name belong to no file.                        *)
Orphaned == elements # <<>> /\ filename = NoFile

Insert == IF elements # <<>> THEN [data EXCEPT ![docnocnt] = elements] ELSE data

(* faulty: the document is counted before the elements of the one before   *)
(* are inserted.                                                           *)
ReadNameCountedFirst ==
    /\ Loading
    /\ NextLine.kind = "name" /\ ~Orphaned /\ filemap[NextLine.of] = 0
    /\ data' = IF elements # <<>> /\ docnocnt + 1 \in DOMAIN data
               THEN [data EXCEPT ![docnocnt + 1] = elements] ELSE data
    /\ elements' = <<>>
    /\ filename' = NextLine.of
    /\ docnocnt' = docnocnt + 1
    /\ filemap' = [filemap EXCEPT ![NextLine.of] = docnocnt + 1]
    /\ line' = line + 1
    /\ UNCHANGED <<crawlerVars, program, threads, ended, reported, left, inputVars,
                   posfile, options, outputVars>>

(* A name line: the elements before it are inserted for the file before.   *)
ReadName ==
    /\ Loading
    /\ NextLine.kind = "name" /\ ~Orphaned /\ filemap[NextLine.of] = 0
    /\ data' = Insert
    /\ elements' = <<>>
    /\ filename' = NextLine.of
    /\ docnocnt' = docnocnt + 1
    /\ filemap' = [filemap EXCEPT ![NextLine.of] = docnocnt + 1]
    /\ line' = line + 1
    /\ UNCHANGED <<crawlerVars, program, threads, ended, reported, left, inputVars,
                   posfile, options, outputVars>>

ReadElement ==
    /\ Loading
    /\ NextLine.kind = "element"
    /\ elements' = Append(elements, NextLine)
    /\ line' = line + 1
    /\ UNCHANGED <<crawlerVars, program, threads, ended, reported, left, inputVars,
                   posfile, filename, docnocnt, filemap, data, options, outputVars>>

(* A file is named twice, or elements have no file.                        *)
RejectPosFile ==
    /\ \/ Loading /\ NextLine.kind = "name" /\ (Orphaned \/ filemap[NextLine.of] # 0)
       \/ program = "load" /\ line = Len(posfile) /\ Orphaned
    /\ program' = "failed"
    /\ UNCHANGED <<crawlerVars, threads, ended, reported, left, inputVars, loadVars,
                   options, outputVars>>

(* A line is not an element, the file cannot be read, an insert reports an *)
(* error, the last one found by main.                                      *)
LoadFails ==
    /\ program = "load"
    /\ program' = "failed"
    /\ UNCHANGED <<crawlerVars, threads, ended, reported, left, inputVars, loadVars,
                   options, outputVars>>

(* The end of the file: the last elements are inserted, the workers start. *)
StartOutput ==
    /\ program = "load"
    /\ line = Len(posfile)
    /\ ~Orphaned
    /\ data' = Insert
    /\ elements' = <<>>
    /\ program' = "output"
    /\ UNCHANGED <<crawlerVars, threads, ended, reported, left, inputVars, posfile,
                   line, filename, docnocnt, filemap, options, outputVars>>

-----------------------------------------------------------------------------
(* The workers of the second run (writePosTagging).                        *)
Target(f) == IF options.output = "dir" THEN BaseName[f] ELSE f

(* writeFile, or a line on standard output: an output to the same target   *)
(* replaces the one before.                                                *)
Write(f, content) ==
    outputs' = {o \in outputs : o.to # Target(f)} \cup
                 {[to |-> Target(f), file |-> f, elements |-> content]}

Tagged(f) == data[filemap[f]]

NextFile(w) ==
    /\ Crawler!FileDone(w)
    /\ UNCHANGED <<program, threads, ended, reported, inputVars, loadVars, options>>

(* The document is marked up with its elements; the tagger may leave a     *)
(* message all the same.                                                   *)
TagFile(w) ==
    /\ program = "output"
    /\ HasFile(w)
    /\ filemap[CurrentFile(w)] # 0
    /\ NextFile(w)
    /\ Write(CurrentFile(w), Tagged(CurrentFile(w)))
    /\ left' \in {left, ~threads}
    /\ UNCHANGED errorlog

(* faulty: the error is not listed.                                        *)
LogErrorSilently(w) ==
    /\ program = "output"
    /\ HasFile(w)
    /\ filemap[CurrentFile(w)] # 0
    /\ options.erroutput
    /\ NextFile(w)
    /\ left' = FALSE
    /\ UNCHANGED outputVars

(* The markup yields nothing: with --erroutput this is listed with the     *)
(* message in the error buffer, which is taken out of it, and the empty    *)
(* output is written as any other.                                         *)
LogError(w) ==
    /\ program = "output"
    /\ HasFile(w)
    /\ filemap[CurrentFile(w)] # 0
    /\ options.erroutput
    /\ NextFile(w)
    /\ left' = FALSE
    /\ errorlog' = errorlog \cup {CurrentFile(w)}
    /\ Write(CurrentFile(w), <<>>)

(* faulty: the exception is caught inside the loop over the files.         *)
OutputThrowsGoesOn(w) ==
    /\ program = "output"
    /\ HasFile(w)
    /\ Crawler!FileDone(w)
    /\ reported' = reported \cup {w}
    /\ UNCHANGED <<program, threads, ended, left, inputVars, loadVars, options,
                   outputVars>>

(* The file is not in the tagged lines, cannot be read, its class is not   *)
(* known, the markup yields nothing and there is no --erroutput or it      *)
(* cannot be written to, the output cannot be written.  The file may be in *)
(* the list of errors by then.                                             *)
OutputThrows(w) ==
    /\ program = "output"
    /\ HasFile(w)
    /\ Throw(w)
    /\ \/ UNCHANGED errorlog
       \/ /\ options.erroutput /\ options.output # "stdout"
          /\ filemap[CurrentFile(w)] # 0
          /\ errorlog' = errorlog \cup {CurrentFile(w)}
    /\ UNCHANGED outputs

(* main joins the workers; what they reported is not in its error buffer.  *)
Joined ==
    /\ \/ program = "output" /\ ended = Worker
       \/ program = "input" /\ ended = Worker /\ ErrorInMain
    /\ program' = IF ErrorInMain THEN "failed" ELSE "done"
    /\ UNCHANGED <<crawlerVars, threads, ended, reported, left, inputVars, loadVars,
                   options, outputVars>>

Terminated == program \in {"done", "failed"} /\ UNCHANGED vars

Run(w) ==
    \/ FetchFiles(w)
    \/ WriteLine(w) \/ LoseLine(w) \/ TextFails(w) \/ InputThrows(w)
    \/ TagFile(w) \/ LogError(w) \/ OutputThrows(w)

Load == ReadName \/ ReadElement \/ RejectPosFile \/ LoadFails \/ StartOutput

Next == (\E w \in Worker : Run(w)) \/ Tagging \/ Load \/ Joined \/ Terminated

Spec == Init /\ [][Next]_vars

-----------------------------------------------------------------------------
TypeOK ==
    /\ Crawler!TypeOK
    /\ program \in {"input", "load", "output", "done", "failed"}
    /\ reported \subseteq ended /\ ended \subseteq Worker
    /\ written \in [Worker -> Nat]
    /\ bad \subseteq Worker /\ left \in BOOLEAN /\ short \subseteq File
    /\ posinput \in [Worker -> Seq(Line)] /\ posfile \in Seq(Line)
    /\ line \in 0 .. Len(posfile)
    /\ filename \in File \cup {NoFile}
    /\ docnocnt \in 0 .. Cardinality(File)
    /\ elements \in Seq(Line) /\ data \in [DOMAIN data -> Seq(Line)]
    /\ filemap \in [File -> 0 .. docnocnt]
    /\ outputs \subseteq [to : File \cup {BaseName[f] : f \in File}, file : File,
                          elements : Seq(Line)]
    /\ errorlog \subseteq File

(* The lines between a name and the next one, or the end: what the format  *)
(* of the tagged file assigns to a file, without any counting.             *)
Section(i) ==
    LET names == {j \in DOMAIN posfile : posfile[j].kind = "name" /\ j > i}
        end == IF names = {} THEN Len(posfile) + 1
               ELSE CHOOSE j \in names : \A k \in names : j <= k
    IN  SubSeq(posfile, i + 1, end - 1)

(* A tagged file that is loaded names each file once and starts with a     *)
(* name, and the running number assigns to every file named in it exactly  *)
(* the elements below its name.                                            *)
LoadedAsWritten ==
    program \in {"output", "done"} =>
        /\ posfile # <<>> => posfile[1].kind = "name"
        /\ \A i \in DOMAIN posfile : posfile[i].kind = "name" =>
              /\ data[filemap[posfile[i].of]] = Section(i)
              /\ \A j \in DOMAIN posfile : posfile[j] = posfile[i] => j = i

(* Nothing but elements of the file, less than all of them.                *)
PartOf(s, f) ==
    \E n \in 0 .. NofElements[f] - 1 : s = [i \in 1 .. n |-> ElementLine(f)]

(* Whatever the order the workers of the first run took the documents in,  *)
(* wherever they failed and however their files were put together, the     *)
(* second run marks up a document with its own elements, all of them, or   *)
(* leaves an empty output for it that is listed as an error; it never gets *)
(* an element of another document.  The one exception is a document whose  *)
(* lines the first run lost in part, without a word if there are threads:  *)
(* it is marked up with those of its own elements that are left.           *)
TaggedByItsOwn ==
    \A o \in outputs :
        \/ o.elements = ElementsOf(o.file)
        \/ o.elements = <<>> /\ o.file \in errorlog
        \/ o.file \in short /\ PartOf(o.elements, o.file)

(* There is an output where that of the file belongs.                      *)
Answered(f) == \E o \in outputs : o.to = Target(f)

Holds(chunk, f) == \E k \in DOMAIN chunk : chunk[k] = f

(* If main calls the second run a success, there is an output where that   *)
(* of each document belongs (with --output it may be the one of another    *)
(* document of the same base name), with two exceptions.  A worker that    *)
(* printed an exception takes files of one chunk with it, and of no other, *)
(* however many there are to come.  And files that wait are left if every  *)
(* worker printed an exception or had a fetch fail: main does not ask.     *)
AllAccountedFor ==
    program = "done" =>
        \E lost \in [reported -> 0 .. Len(handed)] :
            \A n \in DOMAIN Crawler!AllFiles :
                LET f == Crawler!AllFiles[n]
                IN  \/ Answered(f)
                    \/ \E w \in reported : lost[w] # 0 /\ Holds(handed[lost[w]], f)
                    \/ /\ \E i \in DOMAIN chunkque : Holds(chunkque[i], f)
                       /\ Worker \subseteq reported \cup broken \cup Absent
=============================================================================
