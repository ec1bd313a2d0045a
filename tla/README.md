# TLA+ specifications of strusUtilities

strusUtilities is a collection of command line programs around the strus
search engine: they insert documents into a storage, update and inspect it, and
analyze or mark up documents.  The storage, the analyzer and the base library
are other projects.  What belongs to this repository is the *coordination*:
threads that share a list of files, transactions that are gathered, handed over
and committed, results that are merged, and what happens when one step of it
fails.  That is what is specified here.

All source paths below are relative to `src/src/`.

## The system

| Component | State | Operations | Talks to |
|---|---|---|---|
| File crawler (`filecrawler/`) | queue of chunks of file names, one mutex | constructor (directory walk, chunks), `fetch` | called by the workers of strusInsert, strusCheckInsert, strusGenerateKeyMap, strusAnalyze, strusPosTagger, strusTagMarkup, strusMergeMarkup |
| Commit queue (`strusInsert/commitQueue.cpp`) | queue of open transactions, their number, list of errors, two mutexes | `pushTransaction`, `errors` | called by the inserters; calls `commit` of the storage |
| Inserter (`strusInsert/insertProcessor.cpp`) | open transaction, document count, error flag, one per thread | `run`, `processDocument` | crawler, analyzer, storage, commit queue |
| strusInsert `main` | the threads, the exit code | start, join, close | all of the above |
| Key map generator (`keyMapGenProcessor.cpp`, `strusGenerateKeyMap.cpp`) | one map per chunk and thread, list of results under a mutex | `run`, `push`, `printKeyOccurrenceList` | crawler, analyzer |
| Insert check (`checkInsertProcessor.cpp`) | none shared but the crawler | `run` | crawler, analyzer, storage |
| Statistics update (`strusUpdateStorageCalcStatistics/`) | df map, open transaction, counters | `fillDfMap`, `updateStorageWithFormula` | several storages |
| Tag markup (`strusTagMarkup/`) | counter or map, one per worker | `writeTagMarkup` | crawler, analyzer, file system |
| POS tagger (`strusPosTagger/`) | map file to document number, tagging data | generate the tagger's input, load its output, write tagged files | crawler, analyzer, file system |
| Pattern matcher (`strusPatternMatcher/`) | shared list of files under a mutex, per thread an error context, output and error output | load files, fetch, split, feed tokens, print | analyzer, file system |
| Markup merge (`strusMergeMarkup/`) | leaves of two documents, error files | match, merge, write output or error | crawler, file system |
| Storage update, deletion, metadata changes | one storage, one transaction or a loop in the analyzer library | load, commit | storage |
| Program loader (`program/`) | token stream, frames of open expressions, two instruction lists, stack of nodes | `loadQuery`, translation of expressions and restrictions, print | analyzer |
| Inspection (`strusInspect/`) | the loop variables of a listing | one listing per kind of item | iterators of the storage |
| Creation, removal, dumps, checks, query, analysis front ends | none | one call or a loop of printing | external libraries |

All 26 programs share one life cycle: error buffer, options, modules *or* rpc,
license and version, usage, builders, the work, then a test of the error buffer
that turns into exit code -1 (-2 for an exhausted memory).  They differ in the
order of these steps, in what they test and in what they refuse.

Two conventions make the error handling hard.  An error of an external call
is reported to an error buffer with one context per thread, and the call
returns something that looks like a normal end (an empty list, no document, a
null reference).  And a worker catches its exceptions itself, so that `main`
learns of them only through flags, if at all.

### What is hard, and the properties that answer it

* **Interleaving.**  A thread that pushes a transaction also commits those of
  others and leaves when the queue is empty.  Nobody waits for his own
  transaction; still all have to be settled before the storage is closed
  (`NobodyLeavesWorkBehind`, `KeepsPromise`), each once (`SettledOnce`).  Threads
  of the pattern matcher write headers and results to one stream
  (`PrintedUnderOwnHeader`).
* **Partial failure.**  An error in a document drops the open transaction, a
  failing `createTransaction` ends the thread, an error of the analyzer looks
  like the end of a file, `fetch` fails with an empty list
  (`DocumentInOnePlace`, `HonestExit`, `KeepsPromise`, `EveryFileProcessed`,
  `OccurrencesConserved`).  One of many calls in a `main` fails, and only some
  test of the error buffer further on notices (`NothingDoneInError`,
  `SuccessIsComplete`).  A document fails in the middle of a file
  (`EachDocumentAnswered`).
* **Stale state.**  An error left in a thread's context is found after the next
  document or file (`HonestExit`, `BlamedForItsOwn`); two handlers of two threads
  know nothing of each other (`CountsAreUnique`, `MapsAreConsistent`).
* **Edges.**  Chunk size zero, transaction size zero, gaps between document
  numbers, lists of different length, segments without tokens
  (`NobodyStopsEarly`, `UpdatedInOrder`, `OccurrencesConserved`,
  `ListingIsComplete`, `TokensAscend`).
* **Long sequences.**  A result goes through two runs and an external tool
  before it is written (`LoadedAsWritten`, `TaggedByItsOwn`,
  `AllAccountedFor`).  A query is parsed into instructions, executed on a stack
  and printed from the tree (`ShownAsWritten`).
* **Contradictions.**  Options that exclude each other are found one by one on
  the way through `main` (`RefusedCommandLine`).
* **Search.**  A greedy search over the leaves of another document, with empty
  leaves and a filter (`OnlyTagsAdded`, `ReplacedIfSpelled`, `OutputOrError`).
* **Termination.**  The loops end and the pushes return (`PushCompletes`,
  `ProgramEnds`).

The list `hazards` of PROJECT.json has the lines, also of one that no property
covers.

## The modules

### CommitQueue

`strusInsert/commitQueue.cpp`.  One action per critical section and per call of
the storage.  `stage[w]` is where thread w is: `idle` (not in the call), `take`
(before `getNextTransaction`), `commit` (holds a transaction, outside of any
lock), `record` (in the handler, before `m_mutex_errors`).  `errors` holds the
transaction in place of the message.  `pendingError[w]` is `hasError()` of the
thread's context; it survives `CommitOutOfMemory`, which `m_errors` does not
learn of.  `pushed`, `committed` and `dropped` are history.

### FileCrawler

`filecrawler/fileCrawler.cpp` and the consumer's loop.  `Readings` are the ways
in which reading the tree may fail; they are chosen in `Init`, which computes
the chunks as the two constructors do.  A full chunk is followed by a new one
before the name of the next file is made, which may throw: then the last chunk is
empty (`places`, `AddFile`).  A thread fetches when its batch is
empty and leaves on an empty list.  Directories form a forest (`Trees`): the walk
would not end otherwise.

### InsertPipeline, InsertPipelineProps, InsertPromise

`strusInsert/insertProcessor.cpp` and the second half of `main`.
InsertPipeline composes FileCrawler and CommitQueue by sharing their variables:
`Crawler!Fetch`, `Queue!PushTransaction` and the other actions are conjoined
with what the inserter does at that point.  A transaction is the set of the
documents in it.  `pc` names the places between two calls that another thread
may see.  Everything the storage or the analyzer may answer is a choice, and
`main` may run out of memory (exit code -2).

InsertPromise is the abstract specification: documents are gathered, handed
over in batches, each batch is inserted or lost as a whole and once, what was
handed over is never discarded, and at the end nothing is on its way.
`KeepsPromise` states that the pipeline implements it, by the mapping
`StatusOf`, the fairness included.

### KeyMapGen

`keyMapGenProcessor.cpp` and the end of `strusGenerateKeyMap.cpp`.  It uses
FileCrawler through CrawlerClient, which has what this program and strusTagMarkup
share: the threads and their crawler.  Maps are functions from terms to counts;
`MergeRound` is the body of the loop of `printKeyOccurrenceList`, `Merge` the loop
over two lists and `MergedList` the loop over all of them, as recursive functions;
`InOrder` is the iteration of a `std::map` and the result of `std::sort`.  Memory may
run out at any place of a chunk (`ChunkOutOfMemory`).  A run
without any list dereferences the begin of an empty vector; the model calls that
`undefined` (variable `outcome`) and stops.

### CalcStatistics

`strusUpdateStorageCalcStatistics.cpp`, one thread.  Number of documents and
those with terms of the type are chosen for each storage.  Weights are not
modelled, an update is the document it is for.

### TagMarkup

`strusTagMarkup.cpp`.  It uses FileCrawler for a list of files, in chunks that are
not empty.  Every value given to a tag is a
step of the worker, so that workers interleave within files.  `outputs` is what
was written: a file that fails after some of its tags has used up their numbers.

### BatchPrograms

The three programs above in one specification, for one run: `program` is the one
that is called, and the steps are those of its module.  They share nothing; the
module has no behaviour of its own.

### PosTagger

`strusPosTagger.cpp`.  The model follows a collection through both runs of the
program: `program` is `input` while the workers of the first run write the text
of the documents below their names, `load` while the second run reads the tagged
lines, `output` while its workers write.  The tagger and the user are between
them in `Tagging`: the files of the workers are put together in any order, one
may be missing or taken twice, and the tagger may print something ahead.
`line`, `filename`, `docnocnt`, `elements` and `filemap` are the variables of
`loadPosTaggingFile`; `data` is what was inserted per document number.  An
output is the file it was made for and the elements it was made of.  Both runs
use FileCrawler.

The first run looks neither at the result of `getPosTaggerInput` nor at its output
stream.  `TextFails` is the first: name and rest are written, the text is missing or
short, and a message stays in the error buffer of the thread, which only `main` looks
at, and only in its own (`ErrorInMain`: without `--threads`).  `LoseLine` is the
second: a line, and every one behind it, does not get into the file, with no message at
all; a line is written whole or not at all.  `short` is history: the files this
happened to.  `InputThrows` has the failures that are exceptions, all of them before
the first line of a file.  In the second run a failed write of an output is an
exception (`writeFile` is tested), and the message of a failed markup is taken out of
the buffer for the line in `--erroutput` (`LogError`); a message that a successful
markup leaves is found by `main` without threads only.

### MergeMarkup

`strusMergeMarkup.cpp`.  A document is the sequence of its leaves, each with the
names above it, its own name and its text without blanks; reading and writing
XML is external.  `Gather`, `MatchSegment` and `Replaced` are the loops of
`matchSegment` and `deepCopyTree`; the branch behind "single child" that would
embed it is left out, since a single child always repeats the text of its
segment.  The names of elements are made of the constant `Tag`, the texts of `Char`;
what a file holds is any set of documents (`DocumentAssumption`), and the chunk size
is positive because `main` replaces a zero (`FilesAssumption`).  The workers are modelled up to the error files they remove and write:
`stage` is `next`, `merge` or `error`.  It uses FileCrawler.

### Stages, StoragePrograms, AnalyzerPrograms, DocumentPrograms, Programs

The `main` functions, written down as data.  A program is a sequence of stages;
a stage is a record: the kind of the step (`do`), what it is about, the options
without which (`need`) or with which (`bar`) it is passed over, limits of the
number of arguments and a return code.  Stages has the vocabulary and the
passages that many programs have word for word (`Parse`, `LoadModules`,
`Builders`, `DatabaseName`, ...).  The three `...Programs` modules have two
definitions for each program: `<P>Line` is `main` up to the return behind the
usage, `<P>Work` the rest.  Programs has the table of all 26, and what is
expected of each: the option sets it refuses (`Contradictions`), those of them it
compares only with the storage open (`LateRefusals`: the pairs of `--metadata`,
`--attribute` and `--useraccess` of strusUpdateStorage), the failures
with which it still returns 0 (`Tolerated`), those that it finds only after it has
done its work (`UnlookedFailures`, the constant `Unlooked` of ProgramLifecycle).

### ProgramLifecycle

What a stage of each kind does, one action per kind.  `err` is `hasError()` of
the buffer, `usage` and `rt` are the variables `printUsageAndExit` and `rt`;
`opened`, `done` and `part` are what was touched, completed or left incomplete;
`status` is what the process returned, modulo 256.  A call fails in one of four
ways, and the script says in which: `main` throws (`Try`, `Open`, `Effect`), a
message stays in the buffer (`Note`, `Attempt`), a message is printed and
forgotten (`Report`), or nobody looks and a null pointer follows
(`Dereference`).  Outside of all handlers of a thread there is nothing but the end of
the process (`Perish`).  `unseen` is history: the failures that did not become an
exception.

### Inspect

`strusInspect.cpp`.  A listing is a loop over documents; iterators of the
storage are the function `SkipTo`.  `lines` is what was printed, as the document
and whether it has the item.  Two loops never end for some storages (see
Findings); `wrapped` says that such a loop has started over and keeps the state
finite.  An iterator or a reader that cannot be made is an exception before the first
line (`CannotStart`), but for the attribute reader, which is not tested (`NoReader`).
`Wanted` is what the options ask for; `LeftOut` names what `--empty` drops of it, and
`EmptyIsPrinted`, the promise of the usage, does not except it.  In a listing over all documents, what has the item is among the document
numbers of the storage (`InspectAssumption`).

### QueryLoader

`program/programLoader.cpp` (`loadQuery`), `termExpression.cpp`,
`metadataExpression.cpp` and the class `Query` of `strusAnalyzeQuery.cpp`.
`TextOf` writes an abstract query as tokens, of which up to two may be cut off;
the parser's actions take tokens from `text`, `frames` are its recursive calls;
the translated instructions run on `tree` and `stack`; `Printed` is the output.
The analysis of a field is the function `Terms`, `Analyzer` has the types of field the
configuration of the analyzer may define, `JoinName` the operators the query processor
knows, `Numeric` the values of restrictions that the analyzer turns into a number,
whatever their token (a `'Europe'` among them); the analyzer may also fail
(`AnalyzerFails`).  `ShownAsWritten` is about the queries that are shown;
`ProperIsShown` says which have no reason to be refused: known operators and types,
numbers in restrictions, whatever stands around them.

### PatternMatcher

The threads of `strusPatternMatcher.cpp`.  `ctx[t]` is the ThreadContext with
the place it is at; `buffer` is its error context and holds the file that the
error is from.  `heading` is the last header in each output, `told` the lines of
the error outputs: the file that is named and the file the message is from.  `printed`
are the documents with a line in an output, and the header it stands under, `settled`
those processed to their end.  `mode` is how the program was called: the header comes
first, or with `--elimempty` with the first token or result, or with `--elimempty` and
`--markup` not at all (`HeaderMissing`).  No open and no write of an output is tested;
a `frail` mode may lose a stream at any time (`LoseStream`), and what is written to it
from then on is gone.  The lexems of a segment come in ascending order (`Ascending`),
and there is at least one thread, which is `main` itself without `--threads`.

### Utilities

Composes the lifecycle with the three components above: while `main` is at its
stage "work" the component takes its steps, and its end is the outcome of the
stage.  `MatchingPerishes` is the end of strusPatternMatcher by memory that runs out in
a thread outside of the handlers of `run`, or by a markup that cannot be created, which
nobody tests.  In the other programs the outcome is chosen; several of these components
have a module of their own (CommitQueue to MergeMarkup), where their outcome and
exit code are checked in detail (`HonestExit`).

## The runs

| Run | Question | Instance |
|---|---|---|
| commit_queue | Is every transaction settled once, whoever commits it? | 3 threads, 3 transactions |
| filecrawler | Is every file handed out once, whatever cannot be read? | 3 threads, tree of 3 directories, 5 files, chunks of 2 |
| filecrawler_no_chunk | May the chunk size be zero? | 1 thread, **violated** |
| insert_pipeline | Does strusInsert do what InsertPromise says, and is its exit code honest? | 2 inserters, 3 files with 3, 1 and 1 documents, transactions of 2 documents or unlimited |
| batch_programs | strusTagMarkup: are the counters unique and the maps consistent?  strusGenerateKeyMap: is every occurrence counted once?  strusUpdateStorageCalcStatistics: does the loop reach every document in order, and end? | 2 workers, 4 files, chunks of 2, both markups, 3 terms; 2 storages of up to 4 documents, transaction sizes 0 to 3 |
| keymap_complete | Is every counted term printed? | 2 threads, 4 files, chunks of 2, 3 terms, **violated** |
| calc_statistics_tail | Is each document updated? | 2 storages of up to 4 documents, transaction sizes 0 to 3, **violated** |
| pos_tagger | Is every document tagged with its own elements? | 2 workers, 3 files one by one, two of the same base name, up to 3 parts put together |
| merge_markup | Does the merge add tags and nothing else, all it can, and is every file accounted for? | 2 workers, 3 files one by one, two with one error file, inputs of up to 2 leaves, markups of up to 3 |
| utilities | Does each program refuse, fail and succeed as it says, and do the three components within do their work? | 26 programs; see below |
| inspect_empty | Does `--empty` show every document without the item? | the listings of strusInspect in *utilities*, **violated** |
| query_proper | Is a query refused only for what is wrong with it? | two restrictions, to one or two values, around a term, **violated** |

Bounds: `MaxParts` of PosTagger is the number of files the user puts together.
`BeginQuery` of QueryLoader cuts at most two tokens off a query.  No other
counter is bounded in a guard: the instances are finite because files, documents,
transactions, tasks and queries are.

The instance of *utilities*: each program with each of its options, each
contradiction, each pair of options that its stages relate to each other and
every number of arguments at or next to a limit; the three programs with a
component in detail with fewer options, since options do not reach their
component.  strusInspect: 3 documents, every set of them with the item, every
kind of listing, with and without `--empty` and a known or unknown attribute;
two fields over 4 positions.  strusPatternMatcher: 2 files, one with two documents, one
of which has no token, and one with a segment without tokens in the middle, no thread
but `main`, one or two, fetching one file or all at once, one output or one per thread, with and without
`--elimempty`, `--tokens` and `--markup`, streams that are lost and that are not: five
combinations of these (`Matching`).
strusAnalyzeQuery: fields of one and of two terms, plain, quoted, with tilde,
variable and weight, in expressions of depth one and two, two expressions after
each other, fields with known, new and missing types, an analyzer without a default
type, an unknown operator, restrictions to one and to two values in both orders, to
numbers, to names that the analyzer makes a number of and to one it does not.

Why the instances are large enough.  *Commit queue*: three threads give one
that commits, one that pushes and one that finds the queue empty at the same
time; with three transactions one thread may hold one while two wait.
*Crawler*: a full and a partial chunk, a chunk that joins the files of two
directories, an empty directory.  *Pipeline*: a transaction is filled within a
file, by the end of a file and across files; a chunk is left half done by a
thread that ends early; sizes 0 and 2 cover both forms of the commit.  *Key
map*: lists with common and with different terms, in both orders.
*CalcStatistics*: all gaps at all places with sizes below, at and above the
number of documents.  *TagMarkup*: a worker that gets no chunk, one or both, and
files with equal and different contents.
*PosTagger*: three parts give an order of two, one that is missing and one taken
twice, which is rejected; a file without elements is between others.
*MergeMarkup*: two leaves let neighbours compete for the same markup, three
leaves of markup give a match, a match with an empty leaf before or behind it, an
element that repeats the segment and a leaf with a tag that is not asked for; a
part of the text is matched, too, and rejected.
*Utilities*: a stage knows of options and of the error buffer only, so single
options and the related pairs meet every guard; an item is before, between and
behind gaps; two files of one thread let an error of the first meet the second, and a document
that fails before its header was written meet the next one;
a stack deeper than two would only be emptied more often.

Deadlock is checked, except for commit_queue, where the transactions are used up
and threads need not push, and for utilities, where processes end.  The other
models end in an explicit stuttering step.

The definitions marked *faulty* in the modules are slips their neighbours could
have; replacing the definition by its faulty form breaks the property named in
the `mutants` of PROJECT.json, which shows that the property depends on it.

## Fairness

* CommitQueue: weak fairness of each thread's `HandleWaitingTransactions`, that
  is, the scheduler runs it and `commit` returns.  Nothing makes a thread push.
* FileCrawler: weak fairness of each thread's loop.  The threads run until
  they have seen an empty list.
* InsertPipeline: weak fairness of each thread and of `main`, which joins them.
* CalcStatistics (in BatchPrograms): weak fairness of the steps without a failure, so that the program
  must end by its loops and not by an exception.
* Utilities: weak fairness of all steps but an exhausted memory: a process that
  can go on does, external calls return.  The threads of the pattern matcher need
  no fairness of their own, since each step of one of them uses up work.
* KeyMapGen, TagMarkup, PosTagger and MergeMarkup have safety properties only and no fairness.

No strong fairness is used: nothing in the code gives one thread a turn at a
mutex before another.

## What is proved

The theorems hold for every value of the constants, so for any number of
threads, files, documents and transactions, under the assumptions the modules
name; TLC evaluates these for the instances of the runs.

* **DataInduction.**  What the other proofs need of the natural numbers and of
  sequences: a set of numbers with the first and closed under successors has all of an
  interval, a set of numbers that is not empty has a least member, the flattening of
  sequences of sequences (type, order, elements, concatenation, and what a function
  makes of each element, one behind the other), sequences without repetition under
  `Append`, `Tail` and `\o`.  Induction is stated over *sets*, since the provers
  cannot instantiate an operator.
* **CommitQueueProofs.**  `Spec => []P` for the type invariant and the six
  invariants of the queue, from `NoTransactionAssumption`, and for `SettledOnce`,
  which follows from four of them.  None of them is inductive alone: that the front
  can be popped needs the exact counter, that a transaction taken is held once needs
  the queue to be without repetition, and that in turn needs that what is pushed was
  never pushed before, which is the accounting of `NothingDisappears`.  `IInv` is
  their conjunction, strengthened by `current[w]` being a transaction in the stages
  `commit` and `record` and only there.
* **FileCrawlerProofs.**  Types, conservation of the chunks, that an empty list is
  the end of the input, and `ChunksPartitionFiles`, for any finite set of
  directories (`Trees`: there is a depth that falls from a directory to those in it)
  and any way of failing to read them; the last chunk may be empty.  The walk and the cutting
  into chunks are recursive functions; their values are reasoned about with
  `DataInduction` over the set of depths, or of lengths, up to which the claim holds:
  a step of the constructor's loop appends a full chunk or fills the last one, so
  that the files in the chunks are the files added, in order.
* **InsertPipelineProofs.**  `TypeOK`, `DocumentInOnePlace` and `HonestExit`, for any
  threads, files and transaction sizes, from `InsertAssumption` (the files are the
  crawler's list, which has none twice).  `IInv` puts the inductive invariants of the
  crawler and of the queue together and adds what relates them to the inserters: a
  file waits in one chunk or is in the batch of one thread (`EachFileOnce`); the
  documents handled so far are those in front of `nextDoc` of the file a thread is in
  and of no file behind it (`HandledInOrder`), so that the next document is a new one;
  open transactions, what was pushed and what was discarded have nothing in common
  (`Apart`); `m_docCount` counts the open transaction where the thread relies on it
  (`Counted`).  `HonestExit` needs besides that, as long as no thread has set its
  error flag, every document is still to come, in an open transaction, pushed, or of a
  file that was cut off (`Accounted`), that every step that leaves a document behind
  sets the flag, and that a thread without it returns at the end of the input only.
  `StepsKeepPromise` is the safety half of the refinement: initial states map to
  initial states and every step of strusInsert to a step of InsertPromise or a
  stutter.
* **ProgramProofs.**  Three programs.  Of strusTagMarkup `TypeOK`,
  `CountsAreUnique` and `MapsAreConsistent`, for any number of workers and any
  contents.  For the counters the strengthening says that what worker w has given is `Start + (w - 1)` plus a multiple of the number of workers
  and less than its counter, and that the numbers of the file it is at differ from each
  other and from those written; for the maps (`MapInv`), that no map has a number
  twice and that every value given, written or not, is the one in the map.
  Of strusUpdateStorageCalcStatistics `CalcTypeOK` and `UpdatedInOrder`.  `LoopInv`
  says where the loop over a storage is: documents with terms below `di` are updated,
  what is updated comes before what is still to be met, what is committed before what
  is in the open transaction, and that has no more documents than its count; storages
  left behind miss the last documents only, fewer than make a transaction
  (`Finished`).
  Of strusGenerateKeyMap `KeyMapTypeOK` and `OccurrencesConserved`, for any number of
  threads, files and terms, any `--results` and any `--unit`, zero included.  That a
  count is never above what the files have is not inductive: `WithinFiles` says that
  the occurrences counted, those a thread has still ahead of it (in the rest of its
  file and in the files behind it in its batch) and those in the files still queued are
  together at most those in the files, so that a step can count only what was ahead.
  `CountsKept` is that what was counted is in the lists or in the map of a chunk at
  hand; it gives the types as well, since what is subtracted for a chunk thrown away
  was counted.  `MapsAndLists` says that a map has finitely many keys and that each
  list is in the order of the names, without one twice: only of such lists is the merge
  what it should be.  `MergeInv` is the invariant of the merge loop: what is written
  comes before everything left of both lists, and has of each name what the two lists
  have before the places the loop is at, so never more than both; `MergeOfOrdered`
  follows by induction over the rounds, `MergedListOrdered` over the lists, and
  `PrintedFromLists` adds the sort and the cut.  The sums are lemmas about `Total`
  (`TotalIsSum`, `TotalConcat`, `TotalChanged` and others), the existence of
  an ordering of a finite set is `OrderExists`.
* **MergeMarkupProofs.**  `TypeOK`, `OutputOrError`, `OnlyTagsAdded` and
  `ReplacedIfSpelled`, for any workers, files and options and documents of any length.
  For the files, `IInv` says that a file handed out is the current one of its worker,
  behind it in its batch, or settled: it has an output, an error printed or written, or
  shares its error file with another one; that nobody is left waiting at the end
  follows from the theorems about the crawler.  For the documents, `TextInv` says that
  an output is the merge of two documents, and the rest is about `MergeTree`: what is
  gathered is the run of leaves up to the first that does not continue the text
  (`GatherIsRun`), a match has the text of the segment and allowed leaves only
  (`MatchFits`), so a segment is replaced by leaves with its text and its tags, each
  widened by one at most (`ReplacedExtends`), and induction over the length of the
  input carries this to the whole (`MergeExtends`).  That nothing is missed needs
  that no leaf of a run that spells the segment stops the gathering and that those
  gathered behind it have no text (`SpelledIsGathered`), so that the positions where
  a match is found are those where a run begins, and the longest of them is what is
  gathered (`MatchIsSpelling`).
* **PosTaggerProofs.**  `TypeOK`, `LoadedAsWritten`, `TaggedByItsOwn` and
  `AllAccountedFor`, for any workers, files and contents and whatever parts, in whatever
  order, the user between the runs puts together; the assumptions are those on the
  crawler's directories, a chunk size above zero (`main` makes zero one) and that what
  stands for no file is not a file.  `TaggedByItsOwn` has to be followed through both
  runs: what a worker has appended are whole sections, a name and the elements of that
  file, or fewer of them if the file is in `short`, with a part of one more while the
  worker is at it (`WriteInv`); a stream that lost the name line takes nothing of that
  file any more, so no element stands below the name of another file; sections put
  together are sections again, so the loader reads sections.  `NumbersInv` says that the numbers the loader gives rise
  with the lines of the names, one for each file, `LoadInv` that the elements of the
  last name are at hand and those of all names before it stored under their numbers;
  that a second line with a name is refused is what makes `NumbersInv` inductive.
  `AllAccountedFor` needs that a file handed out is answered, in a batch, or in the one
  chunk that a worker which printed an exception had in hand (`AnsweredInv`), what is known of the workers that
  have returned (`WorkersInv`), and from `FileCrawlerProofs` that with an empty list
  every file was handed out (`AllHandedOut`).
* **UtilitiesProofs.**  First `main`: `TypeOK`, `RefusedCommandLine`,
  `NothingDoneInError` and `SuccessIsComplete`, for any table of programs that
  satisfies assumptions on the order of its stages: scripts end with the unconditional
  exit (`ScriptAssumption`); everything that decides on the usage comes before the one
  place where it is printed, and that before all that touches anything
  (`UsageAssumption`); each contradiction meets a stage that refuses it before anything
  is completed, and before anything is touched unless it is one of `LateRefusal`
  (`RefusalAssumption`); between a stage that may leave a message, unless it
  is one of the failures known to be found late, and one that completes something is a
  test that everybody meets (`HeedAssumption`); refusals have a code other than zero
  (`CodeAssumption`); a failure that is not tolerated meets a test of the error buffer,
  or for threads the verdict, before the exit, and none is taken out of the buffer
  before that (`NoticeAssumption`); each command line gives the program something to do
  (`WorkAssumption`).  TLC evaluates the assumptions for the 26 scripts; but for
  `WorkAssumption`, which quantifies over the command lines of the instance, they do
  not depend on the options, so the theorems hold for *all* option sets and numbers of
  arguments, of which the run checks a selection.
  `RefusedCommandLine` is not inductive; `RefusalInv` adds that what was touched means
  that `main` is behind a touching stage, that behind the usage nobody is who was to
  print it, and that nobody with a contradiction is behind the stage that refuses it.
  For `NothingDoneInError`, `HeedInv` says where a message comes from.  For
  `SuccessIsComplete`, `ZeroInv` says of every failure that is not tolerated which
  stage behind `main` it is from, and that no stage that would have noticed it was
  passed since, and the same of work that was tried and failed; at the exit no such
  stage can be left.
  Then `ListingIsComplete` for `InspectSpec`, any number of documents and any call of
  strusInspect: `ListingInv` says that the lines show the documents of `Wanted` without `LeftOut` below
  `docno`, each once and in order.
  Then the pattern matcher: `EachDocumentAnswered`, `BlamedForItsOwn`,
  `PrintedUnderOwnHeader` and `TokensAscend` for any number of threads and any files,
  from `MatcherAssumption` (among others that the lexems of a segment come in ascending
  order, as the term matcher of the analyzer delivers them).  Next to the types the invariants say:
  what is in the error buffers and that each failure has a line or is in a buffer,
  unless an error output is lost; that a file waits in the shared list, is before its
  thread, or all of its documents are settled or the file is told; that the last header
  in an output that one thread has for itself is that of the document it is at, once
  its header was written or lost; and that all tokens fed are below the offset of the
  segments to come.
  Last the composition: `UtilitySpec` implies the lifecycle, the listings and the
  pattern matcher, step by step (`ComposedLife`, `ComposedListing`,
  `ComposedMatcher`), so that the specification the run *utilities* checks keeps what
  is proved of its parts (`ComposedPromises`, `ComposedMatcherPromises`).

Only model-checked:

* all liveness (`PushCompletes`, `EveryFileProcessed`, `CalcEnds`, the two `ProgramEnds`) and the
  fairness of the refinement `KeepsPromise`: the provers have no rule for `ENABLED`;
* `ShownAsWritten`, which is induction over the nesting of expressions.

## Findings

* `--commit 0` without `--fetch` gives a chunk size of zero; the first chunk is
  then empty and stops the thread that fetches it (run filecrawler_no_chunk).
* The merge of strusGenerateKeyMap drops the rest of the longer list (run
  keymap_complete).
* strusUpdateStorageCalcStatistics drops the open transaction when the last
  documents have no terms of the type (run calc_statistics_tail).
* A transaction size of zero commits at every update in
  strusUpdateStorageCalcStatistics, but once at the end in strusInsert.

* `strusPosTagger --erroutput -` lists the errors in a file with the name `-`, where
  the usage promises standard error; `--output` puts files of the same name of
  different directories into one, where the usage speaks of subdirectories
  (`Target` of PosTagger).

* `strusMergeMarkup --erroutput -` writes below a directory `-`, where the usage
  promises standard error.

* `strusInspect ff <type> <value>` never ends if the last document does not have the
  term, and `indexstructs` with a forward index type never ends if a field ends
  behind the last position (`NeverEnds`).  `--empty` leaves out the documents behind
  the last match in `pos` and `indexterms`, and all of them in `ff` with
  `--attribute` (`LeftOut`; run inspect_empty), where the usage promises to print the non
  existing elements.
* strusAnalyzeQuery: `pushExpression` empties the whole stack, so that an operator
  as an argument but the first is refused; the missing comma in `g_tokens` makes
  weights a syntax error; a restriction to one value before one to several is
  refused (run query_proper).  `ProperIsShown` fails for each of the three; the run has
  queries of the last kind only.
* strusUpdateStorage refuses two kinds of update at once only after it has opened the
  storage (`LateRefusals`).
* strusPatternMatcher: an exhausted memory leaves the thread's error buffer full and
  the next file is blamed; threads without an output file mix their lines; a
  segment selected by two expressions is matched twice (`prev_segmentpos`).
* strusCreate finds an error in its configuration after it has created the storage;
  strusDeleteDocument commits what is left when a deletion failed;
  strusUpdateStorage does not look at errors if there was an update;
  strusUpdateStorageCalcStatistics with `--rpc` does nothing and succeeds.
* The programs do not refuse the same contradictions (comment of
  `Contradictions`); strusCheckStorage returns 0 for a storage with faults, and
  strusInsert for failed commits.  Nothing in the repository says otherwise.

Two properties of `matchSegment` that no document speaks of: every segment is
searched from the begin of the markup document, so that the second of two equal
texts gets the markup of the first; and an element without a text between two
matched segments goes into both of them.  `ReplacedIfSpelled` states the merge
with both.

## Not modelled

* `sigStop` and `m_terminated` of the inserters: nothing calls them.
* The pattern program parser (`program/patternMatchProgramParser.cpp`,
  `lexems.cpp`, `errorPosition.cpp`): not built, the parser begins with
  `#error DEPRECATED`.
* The lexer of queries, the syntax of the commands of strusAlterMetaData and of
  `parseFunctionDef`, the formats of markups, the texts of strusHelp: conversions of text
  without state.
* In strusPatternMatcher the loading of file names and the mapping of positions of
  results to the source; in strusPosTagger the selection of entities; in
  strusInspect the statistics of the forward index; in strusAnalyze the dump of an
  analyzed document; in strusCheckInsert the comparison with the storage; in
  strusInspectVectorStorage its queries.  All are sequential and print what an external
  library answers.
* What an option does inside an external library, and combinations of more than two
  options but for the theorems.
* Verbose output and counters that are only printed, contents of documents, weights.
* Integer overflow of the markup counter and of document counts, out of reach of
  real inputs.
* A transaction that is owned twice after an exhausted memory inside an
  exception handler (`commitQueue.cpp:67`, and `:76` if the push itself throws):
  undefined behaviour.

## Plan

1. Done: all modules above; proofs for CommitQueue, FileCrawler, InsertPipeline with
   the step simulation of InsertPromise, TagMarkup, CalcStatistics, KeyMapGen,
   MergeMarkup, PosTagger, PatternMatcher, the lifecycle, Inspect, and their
   composition.
2. Proofs: `ShownAsWritten`.  It needs the values of the recursive functions over
   nested expressions, what the parser and the stack machine make of one expression
   whatever surrounds it, and induction over the nesting.
3. The comparison of strusCheckInsert, the queries of strusInspectVectorStorage and
   the positions of markups in strusPatternMatcher.
