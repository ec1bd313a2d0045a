---------------------------- MODULE PatternMatcher ----------------------------
(***************************************************************************)
(* The threads of strusPatternMatcher                                      *)
(* (src/src/strusPatternMatcher/strusPatternMatcher.cpp): each fetches     *)
(* files, splits them into documents, feeds the tokens of the segments of  *)
(* a document to the pattern matcher and prints the results under a        *)
(* header.  Each thread has an error buffer of its own; what printed the   *)
(* result of whom is told by the files named in the lines of the error     *)
(* output.                                                                 *)
(*                                                                         *)
(* The lexer returns for a segment the tokens with their ordinal positions *)
(* in ascending order, from 1; the segmenter returns the segments in the   *)
(* order of the document.  A stream takes what is written to it until it   *)
(* is lost, which it may be from the start: no open or write is tested.    *)
(***************************************************************************)
EXTENDS Integers, Sequences, FiniteSets, SequencesExt

CONSTANTS
    Thread,   \* the thread numbers, from 1; no thread is 0, main itself
    File,     \* m_files
    Documents \* what is in a file: the documents as sequences of segments,
              \* and these as sequences of the ordinal positions of tokens

Nothing == "nothing"  \* no file, no message

Ascending(lexems) == \A i, j \in DOMAIN lexems : i < j => lexems[i] <= lexems[j]

ASSUME MatcherAssumption ==
    /\ File \in Seq(Range(File)) /\ Nothing \notin Range(File)
    /\ Thread \subseteq Nat \ {0} /\ IsFiniteSet(Thread)
    /\ Documents \in [Range(File) -> Seq(Seq(Seq(Nat \ {0})))]
    /\ \A f \in Range(File) :
           /\ Documents[f] # <<>>
           /\ \A d \in DOMAIN Documents[f] : \A s \in DOMAIN Documents[f][d] :
                  Ascending(Documents[f][d][s])
    /\ IsInjective(File)

VARIABLES
    mode,      \* how the program was called, <<>> before
    fileitr,   \* m_fileitr: the number of files fetched
    ctx,       \* ThreadContext of each thread
    heading,   \* the last header in each output
    lost,      \* the outputs and the error outputs that take nothing any more
    told,      \* the files with a line in an error output, and of what origin
    printed,   \* the documents with a line in an output, and under what header
    settled,   \* (history) the documents that were processed to their end
    failed,    \* (history) the files with a failure of their own
    exhausted  \* (history) the files where memory ran out

outputVars == <<heading, printed, settled>>
matcherVars == <<mode, fileitr, ctx, outputVars, lost, told, failed, exhausted>>

Idle == [at |-> "fetch", todo |-> <<>>, file |-> Nothing, doc |-> 0, seg |-> 0,
         ordposOffset |-> 0, headed |-> FALSE, input |-> <<>>, buffer |-> Nothing]

MatcherInit ==
    /\ mode = <<>> /\ fileitr = 0
    /\ ctx = <<>> /\ heading = <<>>
    /\ lost = {} /\ told = {} /\ printed = {} /\ settled = {}
    /\ failed = {} /\ exhausted = {}

(* How the program may be called.  fetch: m_nofFilesPerFetch, multiple:    *)
(* fileContainsMultipleDocuments, shared: no output file, all use          *)
(* std::cout, always: g_printResultHeaderAlways (no --elimempty), tokens:  *)
(* printTokens, markup: some --markup, frail: the streams may be lost,     *)
(* found: the documents where a pattern matches.                           *)
Mode == [threads : (SUBSET (Thread \cup {0})) \ {{}}, fetch : Nat \ {0},
         multiple : BOOLEAN, shared : BOOLEAN, always : BOOLEAN,
         tokens : BOOLEAN, markup : BOOLEAN, frail : BOOLEAN,
         found : SUBSET (Range(File) \X (Nat \ {0}))]

(* The threads are made by main.                                           *)
BeginMatching(m) ==
    /\ mode = <<>> /\ mode' = m
    /\ ctx' = [t \in m.threads |-> Idle]
    /\ heading' = [t \in m.threads |-> <<>>]
    /\ UNCHANGED <<fileitr, lost, told, printed, settled, failed, exhausted>>

(* The thread number goes into the name of the output file; without a file *)
(* name everybody writes to the same stream.                               *)
(* faulty: the thread number is not in the name of the file.               *)
OutputOfAll(t) == CHOOSE s \in mode.threads : TRUE
OutputOf(t) == IF mode.shared THEN CHOOSE s \in mode.threads : TRUE ELSE t

ThreadAt(t, step) == t \in DOMAIN ctx /\ ctx[t].at = step
DocumentsOf(f) == IF mode.multiple THEN Documents[f] ELSE <<Documents[f][1]>>
Document(t) == <<ctx[t].file, ctx[t].doc>>
Segments(t) == DocumentsOf(ctx[t].file)[ctx[t].doc]
Pending(t) == ctx[t].buffer # Nothing

(* A stream could not be opened, or does not take a write, and so none     *)
(* after it.                                                               *)
LoseStream(t) ==
    /\ t \in DOMAIN ctx /\ ctx[t].at # "ended" /\ mode.frail
    /\ \E stream \in {<<"results", OutputOf(t)>>, <<"errors", t>>} \ lost :
           lost' = lost \cup {stream}
    /\ UNCHANGED <<mode, fileitr, ctx, outputVars, told, failed, exhausted>>
Tell(t, entries) ==
    told' = IF <<"errors", t>> \in lost THEN told ELSE told \cup entries

(* A failure of the file itself.  The handler of run prints what was       *)
(* thrown and what is in the buffer, and empties it.                       *)
(* faulty: a line is printed only for what is in the buffer.               *)
CaughtQuietly(t, own) ==
    /\ Tell(t, {<<ctx[t].file, o>> : o \in {ctx[t].buffer} \ {Nothing}})
    /\ ctx' = [ctx EXCEPT ![t].at = "next", ![t].buffer = Nothing]
(* faulty: the buffer is printed and not emptied.                          *)
CaughtAndKept(t, own) ==
    /\ Tell(t, {<<ctx[t].file, o>> : o \in
                   ((IF own THEN {ctx[t].file} ELSE {}) \cup {ctx[t].buffer}) \ {Nothing}})
    /\ ctx' = [ctx EXCEPT ![t].at = "next"]
Caught(t, own) ==
    /\ Tell(t, {<<ctx[t].file, o>> : o \in
                   ((IF own THEN {ctx[t].file} ELSE {}) \cup {ctx[t].buffer}) \ {Nothing}})
    /\ ctx' = [ctx EXCEPT ![t].at = "next", ![t].buffer = Nothing]
FailsAlone(t) ==
    /\ Caught(t, TRUE) /\ failed' = failed \cup {ctx[t].file}
    /\ UNCHANGED <<mode, fileitr, lost, exhausted>>
Fails(t) == FailsAlone(t) /\ UNCHANGED outputVars
FailsFor(t) ==
    /\ Caught(t, FALSE)
    /\ UNCHANGED <<mode, fileitr, outputVars, lost, failed, exhausted>>
Continues == UNCHANGED <<mode, fileitr, lost, told, failed, exhausted>>

(* fetchFiles, under the mutex.  After the last file what is still in the  *)
(* buffer is printed, and the thread ends.                                 *)
FetchFiles(t) ==
    /\ ThreadAt(t, "fetch")
    /\ LET upto == IF fileitr + mode.fetch < Len(File) THEN fileitr + mode.fetch
                   ELSE Len(File)
       IN  IF fileitr < Len(File)
           THEN /\ fileitr' = upto
                /\ ctx' = [ctx EXCEPT ![t].at = "next",
                                       ![t].todo = SubSeq(File, fileitr + 1, upto)]
                /\ UNCHANGED told
           ELSE /\ Tell(t, {<<Nothing, o>> : o \in {ctx[t].buffer} \ {Nothing}})
                /\ ctx' = [ctx EXCEPT ![t].at = "ended", ![t].buffer = Nothing]
                /\ UNCHANGED fileitr
    /\ UNCHANGED <<mode, outputVars, lost, failed, exhausted>>

NextFile(t) ==
    /\ ThreadAt(t, "next")
    /\ ctx' = IF ctx[t].todo = <<>>
              THEN [ctx EXCEPT ![t].at = "fetch", ![t].file = Nothing]
              ELSE [ctx EXCEPT ![t].at = "file", ![t].file = Head(ctx[t].todo),
                               ![t].todo = Tail(ctx[t].todo)]
    /\ Continues /\ UNCHANGED outputVars

(* processDocumentFile: reading, the document class and the segmenter;     *)
(* with many documents in a file the splitting tests the buffer.           *)
OpenFile(t) ==
    /\ ThreadAt(t, "file")
    /\ \/ mode.multiple /\ Pending(t) /\ FailsFor(t)
       \/ /\ ~(mode.multiple /\ Pending(t)) /\ Continues /\ UNCHANGED outputVars
          /\ ctx' = [ctx EXCEPT ![t].at = "document", ![t].doc = 1]
       \/ Fails(t)

(* The header of the document is written with the first line below it, or  *)
(* before.  A stream that is lost takes neither.                           *)
Headed(t, header) ==
    IF header /\ <<"results", OutputOf(t)>> \notin lost
    THEN [heading EXCEPT ![OutputOf(t)] = Document(t)] ELSE heading
PutLine(t, header) ==
    /\ heading' = Headed(t, header /\ ~ctx[t].headed)
    /\ printed' = IF <<"results", OutputOf(t)>> \in lost THEN printed
                  ELSE printed \cup {<<Document(t), heading'[OutputOf(t)]>>}

(* The identifier of the document and the contexts for it, then the header *)
(* unless it is left for later.                                            *)
OpenDocument(t) ==
    /\ ThreadAt(t, "document")
    /\ \/ /\ ctx' = [ctx EXCEPT ![t].at = "scan", ![t].seg = 1, ![t].headed = mode.always,
                                 ![t].ordposOffset = 0, ![t].input = <<>>]
          /\ Continues /\ UNCHANGED <<printed, settled>>
          /\ heading' = Headed(t, mode.always)
       \/ Fails(t)

(* The tokens of a segment go on counting where the segment before ended.  *)
Shifted(lexems, offset) == [i \in DOMAIN lexems |-> lexems[i] + offset]
(* faulty: a segment without tokens starts the count anew.                 *)
NextOffsetAnew(lexems, offset) ==
    IF lexems = <<>> THEN 0 ELSE Last(Shifted(lexems, offset))
NextOffset(lexems, offset) ==
    IF lexems = <<>> THEN offset ELSE Last(Shifted(lexems, offset))

(* With --tokens each token of the segment is printed.                     *)
PrintTokens(t) ==
    /\ UNCHANGED settled
    /\ IF mode.tokens /\ Segments(t)[ctx[t].seg] # <<>>
       THEN PutLine(t, TRUE) ELSE UNCHANGED <<heading, printed>>

(* An error of the lexer is noticed here only if there is no token.        *)
ScanSegment(t) ==
    /\ ThreadAt(t, "scan") /\ ctx[t].seg <= Len(Segments(t))
    /\ LET lexems == Segments(t)[ctx[t].seg]
           offset == ctx[t].ordposOffset
           tokens == [i \in DOMAIN lexems |->
                          <<ctx[t].seg, Shifted(lexems, offset)[i]>>]
           scanned == [ctx[t] EXCEPT !.seg = @ + 1,
                                     !.ordposOffset = NextOffset(lexems, offset),
                                     !.headed = @ \/ (mode.tokens /\ lexems # <<>>),
                                     !.input = @ \o tokens]
       IN
       \/ /\ ~(lexems = <<>> /\ Pending(t)) /\ Continues /\ PrintTokens(t)
          /\ ctx' = [ctx EXCEPT ![t] = scanned]
       \/ lexems = <<>> /\ Pending(t) /\ FailsFor(t)
       \/ Fails(t)
       \/ /\ lexems # <<>> /\ ~Pending(t) /\ PrintTokens(t)
          /\ ctx' = [ctx EXCEPT ![t] = [scanned EXCEPT !.buffer = ctx[t].file]]
          /\ failed' = failed \cup {ctx[t].file}
          /\ UNCHANGED <<mode, fileitr, lost, told, exhausted>>

(* printResults prints what the patterns found, if anything, under the     *)
(* header; markupResults prints the document, and writes no header.        *)
PrintFound(t) ==
    IF mode.markup THEN PutLine(t, FALSE)
    ELSE IF Document(t) \in mode.found THEN PutLine(t, TRUE)
    ELSE UNCHANGED <<heading, printed>>

(* After the last segment the buffer has to be empty; then the results are *)
(* printed, which may fail at the start or on the way.                     *)
PrintResults(t) ==
    /\ ThreadAt(t, "scan") /\ ctx[t].seg > Len(Segments(t))
    /\ \/ Pending(t) /\ FailsFor(t)
       \/ /\ ~Pending(t) /\ PrintFound(t) /\ Continues
          /\ settled' = settled \cup {Document(t)}
          /\ ctx' = IF ctx[t].doc < Len(DocumentsOf(ctx[t].file))
                    THEN [ctx EXCEPT ![t].at = "document", ![t].doc = @ + 1]
                    ELSE [ctx EXCEPT ![t].at = "next"]
       \/ ~Pending(t) /\ Fails(t)
       \/ ~Pending(t) /\ PrintFound(t) /\ UNCHANGED settled /\ FailsAlone(t)

(* The handler for std::bad_alloc prints its line and leaves the buffer.   *)
(* Some of the tokens or the results may be printed.                       *)
MemoryFails(t) ==
    /\ \E step \in {"file", "document", "scan"} : ThreadAt(t, step)
    /\ Tell(t, {<<ctx[t].file, ctx[t].file>>})
    /\ ctx' = [ctx EXCEPT ![t].at = "next"]
    /\ failed' = failed \cup {ctx[t].file}
    /\ exhausted' = exhausted \cup {ctx[t].file}
    /\ UNCHANGED <<mode, fileitr, lost, settled>>
    /\ \/ UNCHANGED <<heading, printed>>
       \/ /\ ThreadAt(t, "scan")
          /\ IF ctx[t].seg <= Len(Segments(t))
             THEN mode.tokens /\ Segments(t)[ctx[t].seg] # <<>> /\ PutLine(t, TRUE)
             ELSE ~Pending(t) /\ PrintFound(t)

MatchStep(t) ==
    \/ FetchFiles(t) \/ NextFile(t) \/ OpenFile(t) \/ OpenDocument(t)
    \/ ScanSegment(t) \/ PrintResults(t) \/ MemoryFails(t)

MatcherNext ==
    \/ \E m \in Mode : BeginMatching(m)
    \/ \E t \in Thread \cup {0} : MatchStep(t) \/ LoseStream(t)
MatcherSpec == MatcherInit /\ [][MatcherNext]_matcherVars

(* All threads are joined.                                                 *)
MatchingEnded == mode # <<>> /\ \A t \in DOMAIN ctx : ctx[t].at = "ended"

-----------------------------------------------------------------------------

Lost(kind) == \E stream \in lost : stream[1] = kind

(* When the threads have ended, each document was processed to its end, or *)
(* the error output has a line for its file; and one that was processed    *)
(* has its results, or the marked up text, in the output.  Only a lost     *)
(* stream, which nobody tests, takes answers away: fetchFiles, run.        *)
EachDocumentAnswered ==
    MatchingEnded =>
        \A f \in Range(File) : \A d \in DOMAIN DocumentsOf(f) :
            /\ \/ <<f, d>> \in settled \/ Lost("errors")
               \/ \E line \in told : line[1] = f
            /\ <<f, d>> \in settled /\ (mode.markup \/ <<f, d>> \in mode.found)
               => Lost("results") \/ \E p \in printed : p[1] = <<f, d>>

(* A file gets a line in the error output, and so loses its results, only  *)
(* for a failure of its own, or, as the handler for std::bad_alloc leaves  *)
(* the buffer full, for that of a file where memory ran out; and every     *)
(* failure has its line at the end, if no error output is lost: run.       *)
BlamedForItsOwn ==
    /\ \A line \in told :
           /\ line[2] \in failed
           /\ line[1] # line[2] => line[2] \in exhausted
    /\ MatchingEnded /\ ~Lost("errors") =>
           \A f \in failed : \E line \in told : line[2] = f

(* The one output without a header: that of --elimempty with --markup, if  *)
(* no token was printed before.                                            *)
HeaderMissing(doc) ==
    /\ mode.markup /\ ~mode.always
    /\ mode.tokens => \A s \in DOMAIN DocumentsOf(doc[1])[doc[2]] :
                          DocumentsOf(doc[1])[doc[2]][s] = <<>>

(* With an output file what is printed of a document stands under its own  *)
(* header, although with --elimempty the header is left to the first line  *)
(* below it, and the document before may have failed half way; but for the *)
(* marked up documents that get none.  On std::cout the headers and the    *)
(* results of the threads mix.                                             *)
PrintedUnderOwnHeader ==
    mode # <<>> /\ (mode.shared => Cardinality(mode.threads) = 1) =>
        \A p \in printed : p[1] = p[2] \/ HeaderMissing(p[1])

(* The pattern matcher gets the tokens of a document in ascending order,   *)
(* and those of different segments never at the same ordinal position:     *)
(* processDocumentContent, ordposOffset.                                   *)
TokensAscend ==
    \A t \in DOMAIN ctx : LET input == ctx[t].input IN
        \A i, j \in DOMAIN input : i < j =>
            /\ input[i][2] <= input[j][2]
            /\ input[i][1] < input[j][1] => input[i][2] < input[j][2]
=============================================================================
