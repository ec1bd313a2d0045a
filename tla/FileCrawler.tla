---------------------------- MODULE FileCrawler ----------------------------
(***************************************************************************)
(* The crawler that hands out the files to process in chunks, shared by    *)
(* the threads of every multi-threaded program                             *)
(* (src/src/filecrawler/fileCrawler.cpp).                                  *)
(*                                                                         *)
(* The constructor reads the directories and cuts the list of files into   *)
(* chunks before any thread runs; after that the threads share only the    *)
(* queue of chunks, under one mutex.  A thread fetches chunks until it     *)
(* gets an empty list and processes the files of a chunk in order.         *)
(***************************************************************************)
EXTENDS Naturals, Sequences, FiniteSets, SequencesExt

CONSTANTS
    Worker,     \* the threads that fetch
    File, Dir,  \* the paths of regular files and of directories
    Path,       \* the paths passed to the constructor, a sequence
    FilesIn,    \* the files of each directory with the extension asked for
    SubDirs,    \* the subdirectories of each directory, in order
    ChunkSize   \* chunkSize_

(* The directories are trees: no directory is below itself.                *)
Trees ==
    /\ File \cap Dir = {}
    /\ Path \in Seq(File \cup Dir)
    /\ FilesIn \in [Dir -> Seq(File)]
    /\ SubDirs \in [Dir -> Seq(Dir)]
    /\ ChunkSize \in Nat
    /\ IsFiniteSet(Dir)
    /\ \E depth \in [Dir -> 0 .. Cardinality(Dir)] :
          \A d \in Dir : \A i \in DOMAIN SubDirs[d] :
              depth[SubDirs[d][i]] < depth[d]

ASSUME TreeAssumption == Trees

VARIABLES
    chunkque,  \* m_chunkque
    batch,     \* the files of the last chunk each thread has yet to process
    stopped,   \* the threads that left their loop on an empty list
    (* history *)
    reading,   \* what the directories yielded when they were read
    made,      \* the chunks the constructor made
    handed,    \* the chunks fetched so far, in the order of the fetches
    broken     \* the threads that left because a fetch failed

history == <<reading, made>>
crawlerVars == <<chunkque, batch, stopped, handed, broken, history>>

-----------------------------------------------------------------------------
(* Construction.  What a directory yields when it is read: the first       *)
(* `files' of its files, fewer than there are if the directory cannot be   *)
(* read (none) or an exception ends its collection, and if all files were  *)
(* taken the first `subdirs' of its subdirectories, again fewer than there *)
(* are if they cannot be listed or after an exception.  The exception may  *)
(* come after a place was made for the next file: `places' counts these.   *)
Readings ==
    { r \in [Dir -> [files : UNION {0 .. Len(FilesIn[d]) : d \in Dir},
                     places : UNION {0 .. Len(FilesIn[d]) : d \in Dir},
                     subdirs : UNION {0 .. Len(SubDirs[d]) : d \in Dir}]] :
        \A d \in Dir :
            /\ r[d].places \in {r[d].files, r[d].files + 1}
            /\ r[d].places <= Len(FilesIn[d])
            /\ r[d].subdirs <= Len(SubDirs[d])
            /\ r[d].subdirs > 0 => r[d].files = Len(FilesIn[d]) }

(* Definitions marked `faulty' are slips the definition after them could   *)
(* have; no specification uses them.                                       *)

(* faulty: a chunk takes one file more than its size.                      *)
AddFileOverfull(que, item) ==
    IF Len(Last(que)) > ChunkSize
    THEN Append(que, item)
    ELSE [que EXCEPT ![Len(que)] = @ \o item]

(* An item is one file, or none if the exception comes between making a    *)
(* place for the file and storing it there: a new chunk is opened if the   *)
(* last one is full, and is left empty if there is no file.                *)
AddFile(que, item) ==
    IF Len(Last(que)) >= ChunkSize
    THEN Append(que, item)
    ELSE [que EXCEPT ![Len(que)] = @ \o item]

(* The items collectFilesToProcess adds below a directory, in its order:   *)
(* the directory's own files first, then each subdirectory's.              *)
CollectFilesToProcess ==
    LET below[d \in Dir] ==
          [i \in 1 .. reading[d].places |->
              IF i <= reading[d].files THEN <<FilesIn[d][i]>> ELSE <<>>]
            \o FlattenSeq([i \in 1 .. reading[d].subdirs |-> below[SubDirs[d][i]]])
    IN  below

ItemsOf(path) ==
    IF path \in Dir THEN CollectFilesToProcess[path] ELSE << <<path>> >>

AllItems == FlattenSeq([i \in DOMAIN Path |-> ItemsOf(Path[i])])

(* The files found.                                                        *)
AllFiles == FlattenSeq(AllItems)

ChunkFiles(items) ==
    LET cut[n \in 0 .. Len(items)] ==
          IF n = 0 THEN << <<>> >> ELSE AddFile(cut[n - 1], items[n])
    IN  cut[Len(items)]

(* The constructor for a list of paths.                                    *)
ChunksOfPaths == ChunkFiles(AllItems)

(* The constructor for one path: a file becomes a chunk as it is.          *)
ChunksOfOnePath ==
    IF Path[1] \in Dir
    THEN ChunkFiles(CollectFilesToProcess[Path[1]])
    ELSE << <<Path[1]>> >>

Init ==
    /\ reading \in Readings
    /\ \/ made = ChunksOfPaths
       \/ Len(Path) = 1 /\ made = ChunksOfOnePath
    /\ chunkque = made
    /\ batch = [w \in Worker |-> <<>>]
    /\ stopped = {}
    /\ handed = <<>>
    /\ broken = {}

-----------------------------------------------------------------------------
(* faulty: the chunk is copied but stays in the queue.                     *)
FetchWithoutPop(w) ==
    /\ w \notin stopped
    /\ batch[w] = <<>>
    /\ chunkque # <<>>
    /\ batch' = [batch EXCEPT ![w] = Head(chunkque)]
    /\ handed' = Append(handed, Head(chunkque))
    /\ stopped' = IF Head(chunkque) = <<>> THEN stopped \cup {w} ELSE stopped
    /\ UNCHANGED <<chunkque, broken, history>>

(* fetch: the front chunk, removed from the queue.  A thread that gets an  *)
(* empty chunk takes it for the end of the input.                          *)
Fetch(w) ==
    /\ w \notin stopped
    /\ batch[w] = <<>>
    /\ chunkque # <<>>
    /\ batch' = [batch EXCEPT ![w] = Head(chunkque)]
    /\ chunkque' = Tail(chunkque)
    /\ handed' = Append(handed, Head(chunkque))
    /\ stopped' = IF Head(chunkque) = <<>> THEN stopped \cup {w} ELSE stopped
    /\ UNCHANGED <<broken, history>>

(* fetch with no chunk left.                                               *)
FetchNothing(w) ==
    /\ w \notin stopped
    /\ batch[w] = <<>>
    /\ chunkque = <<>>
    /\ stopped' = stopped \cup {w}
    /\ UNCHANGED <<chunkque, batch, handed, broken, history>>

(* faulty: the thread goes on after a failed fetch.                        *)
FetchFailsGoesOn(w) ==
    /\ w \notin stopped
    /\ batch[w] = <<>>
    /\ chunkque # <<>>
    /\ broken' = broken \cup {w}
    /\ UNCHANGED <<chunkque, batch, stopped, handed, history>>

(* fetch without the memory to copy the chunk: the exception is reported   *)
(* and an empty list returned, the chunk stays for the other threads.      *)
FetchFails(w) ==
    /\ w \notin stopped
    /\ batch[w] = <<>>
    /\ chunkque # <<>>
    /\ stopped' = stopped \cup {w}
    /\ broken' = broken \cup {w}
    /\ UNCHANGED <<chunkque, batch, handed, history>>

(* faulty: the iterator over the files is not advanced.                    *)
FileDoneAgain(w) ==
    /\ batch[w] # <<>>
    /\ UNCHANGED crawlerVars

(* The thread is done with the first of its files.                         *)
FileDone(w) ==
    /\ batch[w] # <<>>
    /\ batch' = [batch EXCEPT ![w] = Tail(@)]
    /\ UNCHANGED <<chunkque, stopped, handed, broken, history>>

Step(w) == Fetch(w) \/ FetchNothing(w) \/ FetchFails(w) \/ FileDone(w)

(* All threads have left their loops: the program goes on to its end.      *)
Finished ==
    /\ stopped = Worker
    /\ UNCHANGED crawlerVars

Next == (\E w \in Worker : Step(w)) \/ Finished

(* Each thread is scheduled and each file is processed in finite time.     *)
Fairness == \A w \in Worker : WF_crawlerVars(Step(w))

Spec == Init /\ [][Next]_crawlerVars /\ Fairness

-----------------------------------------------------------------------------
TypeOK ==
    /\ chunkque \in Seq(Seq(File))
    /\ batch \in [Worker -> Seq(File)]
    /\ stopped \in SUBSET Worker
    /\ reading \in Readings
    /\ made \in Seq(Seq(File))
    /\ handed \in Seq(Seq(File))
    /\ broken \in SUBSET stopped

(* The chunks fetched and the chunks waiting, in this order, are the       *)
(* chunks the constructor made: no two threads get the same chunk, none is *)
(* skipped and none comes out of order.                                    *)
ChunksConserved == handed \o chunkque = made

(* Cutting into chunks loses, repeats and reorders no file that was found, *)
(* and fills every chunk but the last up to the chunk size.  The last one  *)
(* may be empty, also behind full ones: see AddFile.                       *)
ChunksPartitionFiles ==
    /\ FlattenSeq(made) = AllFiles
    /\ \A i \in 1 .. Len(made) - 1 : Len(made[i]) = ChunkSize
    /\ Len(Last(made)) <= ChunkSize

(* A thread leaves its loop only when no chunk is left or when its fetch   *)
(* failed: an empty chunk never stops a thread in front of waiting files.  *)
NobodyStopsEarly == (stopped \ broken # {}) => FlattenSeq(chunkque) = <<>>

(* If some thread's fetches do not fail, every file found is handed out    *)
(* and processed, although other threads may have left the queue to it.    *)
EveryFileProcessed ==
    <>( \/ broken = Worker
        \/ chunkque = <<>> /\ \A w \in Worker : batch[w] = <<>> )
=============================================================================
