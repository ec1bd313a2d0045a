-------------------------- MODULE MergeMarkupProofs --------------------------
(***************************************************************************)
(* Proofs about strusMergeMarkup, for every tree of files, every number of *)
(* workers and every documents.                                            *)
(*                                                                         *)
(* The first part is about the workers: the state keeps its types, and a   *)
(* run that ends well has an output or an error for every file.  A file    *)
(* that was handed out is still before its worker, or it is settled: it    *)
(* has an output or an error, or it shares its error file with another     *)
(* one, which may have removed the error.                                  *)
(***************************************************************************)
EXTENDS MergeMarkup, FiniteSetTheorems, DataInduction

CP == INSTANCE FileCrawlerProofs

Settled(f) ==
    \/ \E o \in outputs : o.file = f
    \/ f \in stderr
    \/ \E e \in errors : e.file = f
    \/ errorpath /\ \E g \in File \ {f} : ErrorFile[g] = ErrorFile[f]

(* The errors are in the files they belong to, and what was handed out is  *)
(* settled or still with a worker.                                         *)
HandedInv ==
    /\ \A e \in errors : e.at = ErrorFile[e.file]
    /\ \A i \in DOMAIN handed : \A k \in DOMAIN handed[i] :
          \/ Settled(handed[i][k])
          \/ \E w \in Worker : \E j \in DOMAIN batch[w] : batch[w][j] = handed[i][k]

(* The workers that returned are those the crawler stopped and those that  *)
(* never ran; they have no file left, and a worker without a file is at    *)
(* the begin of the next one.  main is done when all returned.             *)
WorkersInv ==
    /\ ended = stopped \cup Absent
    /\ \A w \in ended : batch[w] = <<>>
    /\ \A w \in Worker : batch[w] = <<>> => stage[w] = "next"
    /\ program = "done" => ended = Worker /\ (threads \/ broken = {})

IInv ==
    /\ CP!IInv
    /\ CP!StoppedAtTheEnd
    /\ TypeOK
    /\ WorkersInv
    /\ HandedInv

-----------------------------------------------------------------------------
(* The crawler of the program is the one proved about: it finds the same   *)
(* files, starts alike...                                                  *)
LEMMA SameFiles ==
    /\ Crawler!CollectFilesToProcess = CP!CollectFilesToProcess
    /\ Crawler!AllItems = CP!AllItems
    /\ Crawler!AllFiles = CP!AllFiles
<1>1. \A s : Crawler!FlattenSeq(s) = CP!FlattenSeq(s)
  BY DEF Crawler!FlattenSeq, CP!FlattenSeq
<1>2. Crawler!CollectFilesToProcess = CP!CollectFilesToProcess
  BY <1>1 DEF Crawler!CollectFilesToProcess, CP!CollectFilesToProcess
<1>3. QED
  BY <1>1, <1>2 DEF Crawler!AllFiles, CP!AllFiles, Crawler!AllItems, CP!AllItems,
     Crawler!ItemsOf, CP!ItemsOf

(* The crawler starts as the theorems about it suppose.                    *)
LEMMA InitCrawler == Crawler!Init => CP!Init
<1>1. \A q, f : Crawler!AddFile(q, f) = CP!AddFile(q, f)
  BY DEF Crawler!AddFile, CP!AddFile, Crawler!Last, CP!Last
<1>2. \A s : Crawler!ChunkFiles(s) = CP!ChunkFiles(s)
  BY <1>1 DEF Crawler!ChunkFiles, CP!ChunkFiles
<1>3. Crawler!Readings = CP!Readings
  BY DEF Crawler!Readings, CP!Readings
<1>4. QED
  BY <1>2, <1>3, SameFiles DEF Crawler!Init, CP!Init, Crawler!ChunksOfPaths,
     CP!ChunksOfPaths, Crawler!ChunksOfOnePath, CP!ChunksOfOnePath

(* ... and has the same types.                                             *)
LEMMA CrawlerTypes == CP!TypeOK <=> Crawler!TypeOK
BY DEF CP!TypeOK, Crawler!TypeOK, CP!Readings, Crawler!Readings

(* ... over the same directories.                                          *)
LEMMA SameTrees == CP!Trees /\ ChunkSize > 0
<1>1. CP!IsFiniteSet(Dir) <=> Crawler!IsFiniteSet(Dir)
  BY DEF CP!IsFiniteSet, Crawler!IsFiniteSet
<1>2. CP!Cardinality(Dir) = Crawler!Cardinality(Dir)
  BY DEF CP!Cardinality, Crawler!Cardinality, CP!IsFiniteSet, Crawler!IsFiniteSet
<1>3. QED BY <1>1, <1>2, FilesAssumption DEF CP!Trees, Crawler!Trees

(* Every step keeps the invariants of the crawler.                         *)
LEMMA NextCrawler ==
    ASSUME CP!IInv, CP!StoppedAtTheEnd, [Next]_vars
    PROVE  CP!IInv' /\ CP!StoppedAtTheEnd'
<1> USE DEF Crawler!history, CP!history
<1>1. ASSUME NEW w \in Worker, FetchFiles(w)
      PROVE  CP!Next
  <2>1. CP!Step(w)
    BY <1>1 DEF FetchFiles, CP!Step, Crawler!Fetch, Crawler!FetchNothing,
       Crawler!FetchFails, CP!Fetch, CP!FetchNothing, CP!FetchFails
  <2>2. QED BY <2>1 DEF CP!Next
<1>2. ASSUME NEW w \in Worker, MergeFile(w) \/ PrintError(w)
      PROVE  CP!Next
  <2>1. CP!Step(w)
    BY <1>2 DEF MergeFile, PrintError, NextFile, CP!Step, Crawler!FileDone,
       CP!FileDone
  <2>2. QED BY <2>1 DEF CP!Next
<1>3. ASSUME NEW w \in Worker, RemoveErrorFile(w) \/ FileFails(w) \/ WorkerDies(w)
      PROVE  UNCHANGED CP!crawlerVars
  BY <1>3 DEF RemoveErrorFile, FileFails, WorkerDies, crawlerVars, CP!crawlerVars
<1>4. CASE UNCHANGED vars
  BY <1>4, SameTrees, CP!NextIInv, CP!NextStopped DEF vars, crawlerVars, CP!crawlerVars
<1>5. CASE Joined
  BY <1>5, SameTrees, CP!NextIInv, CP!NextStopped DEF Joined, crawlerVars, CP!crawlerVars
<1>6. QED
  BY <1>1, <1>2, <1>3, <1>4, <1>5, SameTrees, CP!NextIInv, CP!NextStopped
     DEF Next, Run, Terminated

-----------------------------------------------------------------------------
(* The workers before the first file.                                      *)
LEMMA InitIInv == Init => IInv
<1> SUFFICES ASSUME Init PROVE IInv
  OBVIOUS
<1>1. CP!IInv /\ CP!StoppedAtTheEnd
  BY InitCrawler, SameTrees, CP!InitIInv DEF Init
<1>2. /\ chunkque = made /\ batch = [w \in Worker |-> <<>>]
      /\ stopped = {} /\ handed = <<>> /\ broken = {}
  BY DEF Init, Crawler!Init
<1>3. Crawler!TypeOK
  BY <1>1, CrawlerTypes DEF CP!IInv
<1>4. TypeOK
  BY <1>3 DEF Init, TypeOK, Absent
<1>5. WorkersInv
  BY <1>2 DEF Init, WorkersInv, Absent
<1>6. HandedInv
  BY <1>2 DEF Init, HandedInv
<1>7. QED BY <1>1, <1>4, <1>5, <1>6 DEF IInv

(* The file at work is the first one of the worker.                        *)
LEMMA AtWork ==
    ASSUME IInv, NEW w \in Worker, batch[w] # <<>>
    PROVE  /\ batch \in [Worker -> Seq(File)]
           /\ batch[w] \in Seq(File)
           /\ CurrentFile(w) \in File
           /\ w \notin ended
<1>1. batch \in [Worker -> Seq(File)]
  BY DEF IInv, TypeOK, Crawler!TypeOK
<1>2. QED BY <1>1 DEF CurrentFile, IInv, WorkersInv

(* The state keeps its types.                                              *)
LEMMA NextTypes ==
    ASSUME IInv, [Next]_vars, CP!IInv'
    PROVE  TypeOK'
<1>1. CP!TypeOK' => Crawler!TypeOK'
  BY CrawlerTypes, PTL
<1>2. Crawler!TypeOK'
  BY <1>1 DEF CP!IInv
<1>3. CASE UNCHANGED vars
  BY <1>2, <1>3 DEF vars, optionVars, IInv, TypeOK
<1>4. ASSUME NEW w \in Worker, FetchFiles(w) PROVE TypeOK'
  <2>1. batch[w] = <<>> /\ stage[w] = "next"
    BY <1>4 DEF FetchFiles, Crawler!Fetch, Crawler!FetchNothing,
       Crawler!FetchFails, IInv, WorkersInv
  <2>2. QED BY <1>2, <1>4, <2>1 DEF FetchFiles, optionVars, IInv, TypeOK
<1>5. ASSUME NEW w \in Worker, RemoveErrorFile(w) PROVE TypeOK'
  BY <1>2, <1>5 DEF RemoveErrorFile, At, optionVars, IInv, TypeOK
<1>6. ASSUME NEW w \in Worker, MergeFile(w) PROVE TypeOK'
  <2>1. batch[w] # <<>>
    BY <1>6 DEF MergeFile, At
  <2>2. CurrentFile(w) \in File
    BY <2>1, AtWork
  <2>3. QED BY <1>2, <1>6, <2>2 DEF MergeFile, NextFile, optionVars, IInv, TypeOK
<1>7. ASSUME NEW w \in Worker, FileFails(w) PROVE TypeOK'
  BY <1>2, <1>7 DEF FileFails, At, optionVars, IInv, TypeOK
<1>8. ASSUME NEW w \in Worker, PrintError(w) PROVE TypeOK'
  <2>1. batch[w] # <<>>
    BY <1>8 DEF PrintError, At
  <2>2. CurrentFile(w) \in File
    BY <2>1, AtWork
  <2>3. QED BY <1>2, <1>8, <2>2 DEF PrintError, NextFile, optionVars, IInv, TypeOK
<1>9. ASSUME NEW w \in Worker, WorkerDies(w) PROVE TypeOK'
  BY <1>2, <1>9 DEF WorkerDies, optionVars, IInv, TypeOK
<1>10. CASE Joined
  BY <1>2, <1>10 DEF Joined, optionVars, IInv, TypeOK
<1>11. QED
  BY <1>3, <1>4, <1>5, <1>6, <1>7, <1>8, <1>9, <1>10 DEF Next, Run, Terminated

(* A worker returns when the crawler stops it, and main when all did.      *)
LEMMA NextWorkers ==
    ASSUME IInv, [Next]_vars
    PROVE  WorkersInv'
<1> USE DEF WorkersInv
<1>1. /\ WorkersInv /\ batch \in [Worker -> Seq(File)]
      /\ stage \in [Worker -> {"next", "merge", "error"}]
      /\ stopped \subseteq Worker /\ ended \subseteq Worker
  BY DEF IInv, TypeOK, Crawler!TypeOK
<1>2. threads' = threads
  BY DEF Next, Run, FetchFiles, RemoveErrorFile, MergeFile, FileFails, PrintError,
         WorkerDies, Joined, Terminated, NextFile, optionVars, vars
<1>3. Absent' = Absent
  BY <1>2 DEF Absent
<1>4. CASE UNCHANGED vars
  BY <1>1, <1>3, <1>4 DEF vars, crawlerVars, optionVars
<1>5. ASSUME NEW w \in Worker, FetchFiles(w) PROVE WorkersInv'
  <2>1. /\ program' = "run" /\ program = "run" /\ w \notin ended /\ w \notin stopped
        /\ ended' = IF w \in stopped' THEN ended \cup {w} ELSE ended
        /\ stage' = stage /\ stage[w] = "next"
    BY <1>1, <1>5 DEF FetchFiles, Crawler!Fetch, Crawler!FetchNothing,
       Crawler!FetchFails
  <2>2. CASE Crawler!Fetch(w)
    <3>1. PICK chunk : chunk = Head(chunkque)
      OBVIOUS
    <3>2. /\ batch' = [batch EXCEPT ![w] = chunk] /\ broken' = broken
          /\ stopped' = IF chunk = <<>> THEN stopped \cup {w} ELSE stopped
      BY <2>2, <3>1 DEF Crawler!Fetch
    <3>3. batch'[w] = chunk /\ \A v \in Worker \ {w} : batch'[v] = batch[v]
      BY <1>1, <3>2
    <3>4. ended' = stopped' \cup Absent' /\ ended' \subseteq ended \cup {w}
      BY <1>1, <1>3, <2>1, <3>2
    <3>5. w \in ended' => chunk = <<>>
      BY <1>1, <2>1, <3>2
    <3>6. QED BY <1>1, <2>1, <3>3, <3>4, <3>5
  <2>3. CASE Crawler!FetchNothing(w) \/ Crawler!FetchFails(w)
    BY <1>1, <1>3, <2>1, <2>3 DEF Crawler!FetchNothing, Crawler!FetchFails
  <2>4. QED BY <1>5, <2>2, <2>3 DEF FetchFiles
<1>6. ASSUME NEW w \in Worker, RemoveErrorFile(w) \/ FileFails(w) PROVE WorkersInv'
  BY <1>1, <1>3, <1>6 DEF RemoveErrorFile, FileFails, At, crawlerVars, optionVars
<1>7. ASSUME NEW w \in Worker, MergeFile(w) \/ PrintError(w) PROVE WorkersInv'
  <2>1. /\ w \notin ended /\ program = "run" /\ program' = program /\ ended' = ended
        /\ Crawler!FileDone(w) /\ stage' = [stage EXCEPT ![w] = "next"]
    BY <1>7 DEF MergeFile, PrintError, NextFile, At
  <2>2. /\ stopped' = stopped /\ broken' = broken
        /\ \A v \in Worker : v # w => batch'[v] = batch[v] /\ stage'[v] = stage[v]
        /\ stage'[w] = "next"
    BY <1>1, <2>1 DEF Crawler!FileDone
  <2>3. QED BY <1>1, <1>3, <2>1, <2>2
<1>8. ASSUME NEW w \in Worker, WorkerDies(w) PROVE WorkersInv'
  BY <1>1, <1>3, <1>8 DEF WorkerDies, crawlerVars, optionVars
<1>9. CASE Joined
  BY <1>1, <1>3, <1>9 DEF Joined, crawlerVars, optionVars
<1>10. QED
  BY <1>4, <1>5, <1>6, <1>7, <1>8, <1>9 DEF Next, Run, Terminated

-----------------------------------------------------------------------------
(* What is settled stays so if no output is lost, and an error only to an  *)
(* error about another file of the same error file.                        *)
LEMMA StaysSettled ==
    ASSUME NEW f, Settled(f), UNCHANGED errorpath,
           outputs \subseteq outputs', stderr \subseteq stderr',
           \A e \in errors : e \in errors' \/ Settled(e.file)'
    PROVE  Settled(f)'
BY DEF Settled

(* A file without a worker is settled if it was, or if its worker was at   *)
(* it and left it settled.                                                 *)
LEMMA StaysHanded ==
    ASSUME IInv, NEW w \in Worker, batch[w] # <<>>,
           UNCHANGED handed,
           batch' = [batch EXCEPT ![w] = Tail(@)],
           \A f : f = CurrentFile(w) => Settled(f)',
           \A f : Settled(f) => Settled(f)',
           \A e \in errors' : e.at = ErrorFile[e.file]
    PROVE  HandedInv'
<1> SUFFICES ASSUME NEW i \in DOMAIN handed, NEW k \in DOMAIN handed[i],
                    NEW f, f = handed[i][k], ~Settled(f)'
             PROVE  \E v \in Worker : \E j \in DOMAIN batch'[v] : batch'[v][j] = f
  BY DEF HandedInv
<1>1. PICK v \in Worker : \E j \in DOMAIN batch[v] : batch[v][j] = f
  BY DEF IInv, HandedInv
<1>2. PICK j \in DOMAIN batch[v] : batch[v][j] = f
  BY <1>1
<1>3. batch \in [Worker -> Seq(File)] /\ batch[w] \in Seq(File)
  BY AtWork
<1>4. CASE v # w
  BY <1>2, <1>3, <1>4
<1>5. CASE v = w
  <2>1. batch[w][1] # f
    BY <1>3 DEF CurrentFile
  <2>2. j \in 1 .. Len(batch[w]) /\ j # 1 /\ Len(batch[w]) \in Nat
    BY <1>2, <1>3, <1>5, <2>1
  <2>3. /\ j - 1 \in DOMAIN Tail(batch[w]) /\ Tail(batch[w])[j - 1] = batch[w][j]
    BY <1>3, <2>2
  <2>4. batch'[w] = Tail(batch[w])
    BY <1>3
  <2>5. QED BY <1>2, <1>5, <2>3, <2>4
<1>6. QED BY <1>4, <1>5

(* Nothing is lost when the errors in the file of f are removed but those  *)
(* about f itself.                                                         *)
LEMMA OthersStaySettled ==
    ASSUME IInv, NEW f \in File, UNCHANGED errorpath,
           outputs' = outputs, stderr' = stderr,
           errorpath, \A e \in errors : e.at # ErrorFile[f] => e \in errors'
    PROVE  \A g : g # f /\ Settled(g) => Settled(g)'
<1> SUFFICES ASSUME NEW g, g # f, Settled(g) PROVE Settled(g)'
  OBVIOUS
<1>1. CASE \E e \in errors : e.file = g
  <2>1. PICK e \in errors : e.file = g
    BY <1>1
  <2>2. e.at = ErrorFile[g]
    BY <2>1 DEF IInv, HandedInv
  <2>3. CASE ErrorFile[g] = ErrorFile[f]
    BY <2>3 DEF Settled
  <2>4. CASE ErrorFile[g] # ErrorFile[f]
    BY <2>1, <2>2, <2>4 DEF Settled
  <2>5. QED BY <2>3, <2>4
<1>2. CASE ~ \E e \in errors : e.file = g
  BY <1>2 DEF Settled
<1>3. QED BY <1>1, <1>2

(* A file leaves its worker settled, and a chunk goes to a worker whole.   *)
LEMMA NextHanded ==
    ASSUME IInv, [Next]_vars
    PROVE  HandedInv'
<1>1. /\ HandedInv /\ batch \in [Worker -> Seq(File)] /\ handed \in Seq(Seq(File))
      /\ chunkque \in Seq(Seq(File))
  BY DEF IInv, TypeOK, Crawler!TypeOK
<1>2. ASSUME UNCHANGED <<outputs, errors, stderr, errorpath, batch, handed>>
      PROVE  HandedInv'
  BY <1>1, <1>2 DEF HandedInv, Settled
<1>3. CASE UNCHANGED vars \/ Joined
  BY <1>2, <1>3 DEF vars, crawlerVars, optionVars, Joined
<1>4. ASSUME NEW w \in Worker, FileFails(w) \/ WorkerDies(w) PROVE HandedInv'
  BY <1>2, <1>4 DEF FileFails, WorkerDies, crawlerVars, optionVars
<1>5. ASSUME NEW w \in Worker, FetchFiles(w) PROVE HandedInv'
  <2>1. UNCHANGED <<outputs, errors, stderr, errorpath>> /\ batch[w] = <<>>
    BY <1>5 DEF FetchFiles, optionVars, Crawler!Fetch, Crawler!FetchNothing,
       Crawler!FetchFails
  <2>2. CASE Crawler!FetchNothing(w) \/ Crawler!FetchFails(w)
    BY <1>2, <2>1, <2>2 DEF Crawler!FetchNothing, Crawler!FetchFails
  <2>3. CASE Crawler!Fetch(w)
    <3>1. PICK chunk \in Seq(File) : chunk = Head(chunkque)
      BY <1>1, <2>3 DEF Crawler!Fetch
    <3>2. /\ batch' = [batch EXCEPT ![w] = chunk]
          /\ handed' = Append(handed, chunk)
      BY <2>3, <3>1 DEF Crawler!Fetch
    <3>3. /\ DOMAIN handed' = 1 .. Len(handed) + 1 /\ DOMAIN handed = 1 .. Len(handed)
          /\ \A i \in 1 .. Len(handed) : handed'[i] = handed[i]
          /\ handed'[Len(handed) + 1] = chunk /\ Len(handed) \in Nat
      BY <1>1, <3>2
    <3>4. batch'[w] = chunk /\ \A v \in Worker \ {w} : batch'[v] = batch[v]
      BY <1>1, <3>2
    <3>5. ASSUME NEW i \in DOMAIN handed', NEW k \in DOMAIN handed'[i],
                 NEW f, f = handed'[i][k]
          PROVE  \/ Settled(f)'
                 \/ \E v \in Worker : \E j \in DOMAIN batch'[v] : batch'[v][j] = f
      <4>1. CASE i = Len(handed) + 1
        BY <3>3, <3>4, <3>5, <4>1
      <4>2. CASE i # Len(handed) + 1
        <5>1. i \in DOMAIN handed /\ k \in DOMAIN handed[i] /\ f = handed[i][k]
          BY <3>3, <3>5, <4>2
        <5>2. CASE Settled(f)
          BY <2>1, <5>2 DEF Settled
        <5>3. CASE \E v \in Worker : \E j \in DOMAIN batch[v] : batch[v][j] = f
          <6>1. PICK v \in Worker : \E j \in DOMAIN batch[v] : batch[v][j] = f
            BY <5>3
          <6>2. v # w
            BY <2>1, <6>1
          <6>3. QED BY <3>4, <6>1, <6>2
        <5>4. QED BY <1>1, <5>1, <5>2, <5>3 DEF HandedInv
      <4>3. QED BY <4>1, <4>2
    <3>6. QED BY <1>1, <2>1, <3>5 DEF HandedInv
  <2>4. QED BY <1>5, <2>2, <2>3 DEF FetchFiles
<1>6. ASSUME NEW w \in Worker, RemoveErrorFile(w) PROVE HandedInv'
  <2>1. /\ batch[w] # <<>>
        /\ UNCHANGED <<outputs, stderr, errorpath, batch, handed>>
        /\ errors' = IF errorpath THEN {e \in errors : e.at # ErrorFile[CurrentFile(w)]}
                     ELSE errors
    BY <1>6 DEF RemoveErrorFile, At, crawlerVars, optionVars
  <2>2. PICK h \in File : h = CurrentFile(w)
    BY <2>1, AtWork
  <2>3. CASE ~errorpath
    BY <1>2, <2>1, <2>3
  <2>4. CASE errorpath
    <3>1. \A g : g # h /\ Settled(g) => Settled(g)'
      BY <2>1, <2>2, <2>4, OthersStaySettled
    <3>2. \E j \in DOMAIN batch[w] : batch[w][j] = h
      BY <1>1, <2>1, <2>2 DEF CurrentFile
    <3>3. errors' \subseteq errors
      BY <2>1
    <3>4. QED BY <1>1, <2>1, <3>1, <3>2, <3>3 DEF HandedInv
  <2>5. QED BY <2>3, <2>4
<1>7. ASSUME NEW w \in Worker, MergeFile(w) PROVE HandedInv'
  <2>1. /\ batch[w] # <<>> /\ UNCHANGED <<errors, stderr, errorpath, handed>>
        /\ batch' = [batch EXCEPT ![w] = Tail(@)]
        /\ outputs \subseteq outputs'
    BY <1>7 DEF MergeFile, At, NextFile, Crawler!FileDone, optionVars
  <2>2. \E o \in outputs' : o.file = CurrentFile(w)
    <3>1. PICK input, markup :
             outputs' = outputs \cup
                {[file |-> CurrentFile(w), input |-> input, markup |-> markup,
                  result |-> MergeTree(input, markup, markupset)]}
      BY <1>7 DEF MergeFile
    <3> DEFINE o == [file |-> CurrentFile(w), input |-> input, markup |-> markup,
                     result |-> MergeTree(input, markup, markupset)]
    <3>2. o \in outputs' /\ o.file = CurrentFile(w)
      BY <3>1
    <3>3. QED BY <3>2
  <2>3. \A f : f = CurrentFile(w) => Settled(f)'
    BY <2>2 DEF Settled
  <2>4. \A f : Settled(f) => Settled(f)'
    BY <2>1 DEF Settled
  <2>5. \A e \in errors' : e.at = ErrorFile[e.file]
    BY <1>1, <2>1 DEF HandedInv
  <2>6. QED BY <2>1, <2>3, <2>4, <2>5, StaysHanded
<1>8. ASSUME NEW w \in Worker, PrintError(w) PROVE HandedInv'
  <2>1. /\ batch[w] # <<>> /\ UNCHANGED <<outputs, errorpath, handed>>
        /\ batch' = [batch EXCEPT ![w] = Tail(@)]
    BY <1>8 DEF PrintError, At, NextFile, Crawler!FileDone, optionVars
  <2>2. PICK h \in File : h = CurrentFile(w)
    BY <2>1, AtWork
  <2>3. /\ Settled(h)' /\ \A f : Settled(f) => Settled(f)'
        /\ \A e \in errors' : e.at = ErrorFile[e.file]
    <3>1. CASE ~errorpath
      <4>1. stderr' = stderr \cup {h} /\ errors' = errors
        BY <1>8, <2>2, <3>1 DEF PrintError
      <4>2. QED BY <1>1, <2>1, <4>1 DEF Settled, HandedInv
    <3>2. CASE errorpath
      <4> DEFINE new == [at |-> ErrorFile[h], file |-> h]
      <4>1. /\ errors' = {e \in errors : e.at # ErrorFile[h]} \cup {new}
            /\ stderr' = stderr
        BY <1>8, <2>2, <3>2 DEF PrintError
      <4>2. new \in errors' /\ new.file = h /\ new.at = ErrorFile[h]
        BY <4>1
      <4> HIDE DEF new
      <4>3. Settled(h)'
        BY <4>2 DEF Settled
      <4>4. \A g : g # h /\ Settled(g) => Settled(g)'
        BY <2>1, <3>2, <4>1, OthersStaySettled
      <4>5. \A e \in errors' : e.at = ErrorFile[e.file]
        BY <1>1, <4>1, <4>2 DEF HandedInv
      <4>6. QED BY <4>3, <4>4, <4>5
    <3>3. QED BY <3>1, <3>2
  <2>4. QED BY <2>1, <2>2, <2>3, StaysHanded
<1>9. QED
  BY <1>3, <1>4, <1>5, <1>6, <1>7, <1>8 DEF Next, Run, Terminated

(* Every step keeps the invariant.                                         *)
LEMMA NextIInv == IInv /\ [Next]_vars => IInv'
<1> SUFFICES ASSUME IInv, [Next]_vars PROVE IInv'
  OBVIOUS
<1>1. CP!IInv' /\ CP!StoppedAtTheEnd'
  BY NextCrawler DEF IInv
<1>2. TypeOK'
  BY <1>1, NextTypes
<1>3. WorkersInv'
  BY NextWorkers
<1>4. HandedInv'
  BY NextHanded
<1>5. QED BY <1>1, <1>2, <1>3, <1>4 DEF IInv

(* The state has its type: outputs and errors are about files the crawler  *)
(* found, and a worker that returned left no file behind.                  *)
THEOREM TypeCorrect == Spec => []TypeOK
<1>1. IInv => TypeOK
  BY DEF IInv
<1>2. QED BY <1>1, InitIInv, NextIInv, PTL DEF Spec

(* If main is done and some fetches did not fail, no file waits.           *)
LEMMA NoneWaits ==
    ASSUME IInv, program = "done", broken # Worker
    PROVE  CP!FlattenSeq(chunkque) = <<>>
<1>1. ended = Worker /\ ended = stopped \cup Absent /\ (threads \/ broken = {})
  BY DEF IInv, WorkersInv
<1>2. stopped \ broken # {}
  <2>1. CASE threads
    <3>1. stopped = Worker
      BY <1>1, <2>1 DEF Absent
    <3>2. broken \subseteq Worker
      BY DEF IInv, TypeOK, Crawler!TypeOK
    <3>3. QED BY <3>1, <3>2
  <2>2. CASE ~threads
    <3>1. 1 \in Worker /\ 1 \notin Absent
      BY <2>2, MergeAssumption DEF Worker, Absent
    <3>2. QED BY <1>1, <2>2, <3>1
  <2>3. QED BY <2>1, <2>2
<1>3. CP!NobodyStopsEarly
  BY SameTrees, CP!StopsAtTheEnd DEF IInv
<1>4. QED BY <1>2, <1>3 DEF CP!NobodyStopsEarly

(* strusMergeMarkup ends well only with an output or an error for every    *)
(* file, unless another file has the same error file or no worker could    *)
(* fetch to the end.                                                       *)
THEOREM MergedOrBlamed == Spec => []OutputOrError
<1>1. ASSUME IInv PROVE OutputOrError
  <2> SUFFICES ASSUME program = "done", broken # Worker,
                      NEW n \in DOMAIN Crawler!AllFiles,
                      NEW f, f = Crawler!AllFiles[n]
               PROVE  Settled(f)
    BY DEF OutputOrError, Settled
  <2>1. CP!FlattenSeq(chunkque) = <<>>
    BY <1>1, NoneWaits
  <2>2. PICK i \in DOMAIN handed : \E k \in DOMAIN handed[i] : handed[i][k] = f
    <3>1. \/ \E i \in DOMAIN handed : \E k \in DOMAIN handed[i] : handed[i][k] = f
          \/ \E i \in DOMAIN chunkque : \E k \in DOMAIN chunkque[i] : chunkque[i][k] = f
      BY <1>1, SameTrees, SameFiles, CP!HandedOutOrWaiting DEF IInv
    <3>2. \A i \in DOMAIN chunkque : DOMAIN chunkque[i] = {}
      BY <1>1, <2>1, SameTrees, CP!WaitingFile DEF IInv
    <3>3. QED BY <3>1, <3>2
  <2>3. \A w \in Worker : batch[w] = <<>>
    BY <1>1 DEF IInv, WorkersInv
  <2>4. QED BY <1>1, <2>2, <2>3 DEF IInv, HandedInv
<1>2. QED BY <1>1, InitIInv, NextIInv, PTL DEF Spec

-----------------------------------------------------------------------------
(* The texts.  What was written was made from the documents of the file.   *)
TextInv ==
    \A o \in outputs :
        /\ o.input \in Document /\ o.markup \in Document
        /\ o.result = MergeTree(o.input, o.markup, markupset)

(* TextInv holds of no outputs and is kept by every merge.                 *)
LEMMA InitTextInv == Init => TextInv
BY DEF Init, TextInv

LEMMA NextTextInv == IInv /\ TextInv /\ [Next]_vars => TextInv'
<1> SUFFICES ASSUME IInv, TextInv, [Next]_vars PROVE TextInv'
  OBVIOUS
<1>1. markupset' = markupset
  BY DEF Next, Run, FetchFiles, RemoveErrorFile, MergeFile, FileFails, PrintError,
         WorkerDies, Joined, Terminated, NextFile, optionVars, vars
<1>2. ASSUME NEW w \in Worker, MergeFile(w) PROVE TextInv'
  <2>1. batch[w] # <<>>
    BY <1>2 DEF MergeFile, At
  <2>2. CurrentFile(w) \in File
    BY <2>1, AtWork
  <2>3. PICK input \in Inputs[CurrentFile(w)], markup \in Markups[CurrentFile(w)] :
           outputs' = outputs \cup
              {[file |-> CurrentFile(w), input |-> input, markup |-> markup,
                result |-> MergeTree(input, markup, markupset)]}
    BY <1>2 DEF MergeFile
  <2>4. input \in Document /\ markup \in Document
    BY <2>2, DocumentAssumption
  <2> DEFINE new == [file |-> CurrentFile(w), input |-> input, markup |-> markup,
                     result |-> MergeTree(input, markup, markupset)]
  <2>5. /\ new.input = input /\ new.markup = markup
        /\ new.result = MergeTree(input, markup, markupset)
        /\ outputs' = outputs \cup {new}
    BY <2>3
  <2> HIDE DEF new
  <2>6. QED BY <1>1, <2>4, <2>5 DEF TextInv
<1>3. ASSUME outputs' = outputs PROVE TextInv'
  BY <1>1, <1>3 DEF TextInv
<1>4. QED
  BY <1>2, <1>3 DEF Next, Run, FetchFiles, RemoveErrorFile, FileFails, PrintError,
     WorkerDies, Joined, Terminated, vars

-----------------------------------------------------------------------------
(* The text of each segment, and for each of its characters its tags.      *)
KeyOf == [x \in Segment |-> x.key]
TagsAt == [x \in Segment |-> [c \in DOMAIN x.key |-> Tags(x)]]

(* The types of the tags and the text of a segment.                        *)
LEMMA SegmentTags ==
    ASSUME NEW x \in Segment
    PROVE  /\ Tags(x) \in Seq(Tag)
           /\ x.key \in Seq(Char)
           /\ x.name # NoName => x.name \in Tag /\ Tags(x) = Append(x.above, x.name)
           /\ x.name = NoName => Tags(x) = x.above
<1>1. x.above \in Seq(Tag) /\ x.name \in Tag \cup {NoName} /\ x.key \in Seq(Char)
  BY DEF Segment
<1>2. QED BY <1>1 DEF Tags

(* A segment has as many tag lists as characters.                          *)
LEMMA KeyTypes ==
    /\ KeyOf \in [Segment -> Seq(Char)]
    /\ TagsAt \in [Segment -> Seq(Seq(Tag))]
    /\ \A x \in Segment : Len(TagsAt[x]) = Len(KeyOf[x])
<1>1. KeyOf \in [Segment -> Seq(Char)]
  BY SegmentTags DEF KeyOf
<1>2. ASSUME NEW x \in Segment
      PROVE  TagsAt[x] \in Seq(Seq(Tag)) /\ Len(TagsAt[x]) = Len(KeyOf[x])
  <2>1. PICK n \in Nat : n = Len(x.key) /\ DOMAIN x.key = 1 .. n
    BY SegmentTags
  <2>2. TagsAt[x] = [c \in 1 .. n |-> Tags(x)]
    BY <2>1 DEF TagsAt
  <2>3. PICK tags \in Seq(Tag) : tags = Tags(x)
    BY SegmentTags
  <2>4. [c \in 1 .. n |-> tags] \in Seq(Seq(Tag)) /\ Len([c \in 1 .. n |-> tags]) = n
    OBVIOUS
  <2>5. QED BY <2>1, <2>2, <2>3, <2>4 DEF KeyOf
<1>3. TagsAt \in [Segment -> Seq(Seq(Tag))]
  <2>1. TagsAt = [x \in Segment |-> TagsAt[x]]
    BY DEF TagsAt
  <2>2. QED BY <1>2, <2>1
<1>4. QED BY <1>1, <1>2, <1>3

(* The text of a document is that of its segments, and so are its tags.    *)
LEMMA TextIsSpread ==
    ASSUME NEW leaves \in Document
    PROVE  /\ TextOf(leaves) = Spread(KeyOf, leaves)
           /\ TagsOfText(leaves) = Spread(TagsAt, leaves)
<1>1. \A i \in DOMAIN leaves : leaves[i] \in Segment
  BY DEF Document
<1>2. [i \in DOMAIN leaves |-> leaves[i].key] = Each(KeyOf, leaves)
  BY <1>1 DEF Each, KeyOf
<1>3. [i \in DOMAIN leaves |-> [c \in DOMAIN leaves[i].key |-> Tags(leaves[i])]]
         = Each(TagsAt, leaves)
  BY <1>1 DEF Each, TagsAt
<1>4. QED BY <1>2, <1>3 DEF TextOf, TagsOfText, Spread

(* The text of nothing, of one segment and of two documents.               *)
LEMMA TextOfOne ==
    ASSUME NEW x \in Segment
    PROVE  /\ <<x>> \in Document
           /\ TextOf(<<x>>) = x.key
           /\ TagsOfText(<<x>>) = TagsAt[x]
<1>1. <<x>> \in Document
  BY DEF Document
<1>2. Spread(KeyOf, <<x>>) = KeyOf[x] /\ Spread(TagsAt, <<x>>) = TagsAt[x]
  BY KeyTypes, SpreadOne
<1>3. KeyOf[x] = x.key
  BY DEF KeyOf
<1>4. QED BY <1>1, <1>2, <1>3, TextIsSpread

LEMMA TextOfNone == TextOf(<<>>) = <<>> /\ TagsOfText(<<>>) = <<>>
<1>1. <<>> \in Document
  BY DEF Document
<1>2. Spread(KeyOf, <<>>) = <<>> /\ Spread(TagsAt, <<>>) = <<>>
  BY SpreadEmpty
<1>3. QED BY <1>1, <1>2, TextIsSpread

(* The types of the text and the tags of a document.                       *)
LEMMA TextType ==
    ASSUME NEW s \in Document
    PROVE  TextOf(s) \in Seq(Char) /\ TagsOfText(s) \in Seq(Seq(Tag))
<1>1. Spread(KeyOf, s) \in Seq(Char)
  BY KeyTypes, SpreadType DEF Document
<1>2. Spread(TagsAt, s) \in Seq(Seq(Tag))
  BY KeyTypes, SpreadType DEF Document
<1>3. QED BY <1>1, <1>2, TextIsSpread

LEMMA TextOfConcat ==
    ASSUME NEW s \in Document, NEW t \in Document
    PROVE  /\ s \o t \in Document
           /\ TextOf(s \o t) = TextOf(s) \o TextOf(t)
           /\ TagsOfText(s \o t) = TagsOfText(s) \o TagsOfText(t)
<1>1. s \o t \in Document
  BY ConcatProperties DEF Document
<1>2. \A g \in [Segment -> Seq(Char)] : \A u, v \in Seq(Segment) :
         Spread(g, u \o v) = Spread(g, u) \o Spread(g, v)
  BY SpreadConcat
<1>3. \A g \in [Segment -> Seq(Seq(Tag))] : \A u, v \in Seq(Segment) :
         Spread(g, u \o v) = Spread(g, u) \o Spread(g, v)
  BY SpreadConcat
<1>4. /\ Spread(KeyOf, s \o t) = Spread(KeyOf, s) \o Spread(KeyOf, t)
      /\ Spread(TagsAt, s \o t) = Spread(TagsAt, s) \o Spread(TagsAt, t)
  BY <1>2, <1>3, KeyTypes DEF Document
<1>5. QED BY <1>1, <1>4, TextIsSpread

(* Each character has tags of its own.                                     *)
LEMMA TagsPerCharacter ==
    ASSUME NEW s \in Document
    PROVE  Len(TagsOfText(s)) = Len(TextOf(s))
<1>1. SameLengths(TagsAt, KeyOf, Segment, Seq(Tag), Char)
  BY KeyTypes DEF SameLengths
<1>2. \A u \in Seq(Segment) : Len(Spread(TagsAt, u)) = Len(Spread(KeyOf, u))
  BY <1>1, SpreadLengths
<1>3. QED BY <1>2, TextIsSpread DEF Document

-----------------------------------------------------------------------------
(* y are the tags x, with at most one more behind them.                    *)
Widened(x, y, tags) ==
    y = x \/ (x = Front(y) /\ (tags = {} \/ Last(y) \in tags))

(* v are the tags u around the characters of a text, widened so.           *)
Extends(u, v, tags) ==
    /\ u \in Seq(Seq(Tag)) /\ v \in Seq(Seq(Tag))
    /\ Len(u) = Len(v)
    /\ \A c \in 1 .. Len(u) : Widened(u[c], v[c], tags)

(* Texts that are widened one after the other are widened as a whole.      *)
LEMMA ExtendsConcat ==
    ASSUME NEW tags, NEW u1, NEW u2, NEW v1, NEW v2,
           Extends(u1, v1, tags), Extends(u2, v2, tags)
    PROVE  Extends(u1 \o u2, v1 \o v2, tags)
<1>1. /\ u1 \in Seq(Seq(Tag)) /\ v1 \in Seq(Seq(Tag)) /\ Len(u1) = Len(v1)
      /\ u2 \in Seq(Seq(Tag)) /\ v2 \in Seq(Seq(Tag)) /\ Len(u2) = Len(v2)
      /\ Len(u1) \in Nat /\ Len(u2) \in Nat
  BY DEF Extends
<1>2. /\ u1 \o u2 \in Seq(Seq(Tag)) /\ Len(u1 \o u2) = Len(u1) + Len(u2)
      /\ \A c \in 1 .. Len(u1) + Len(u2) :
            (u1 \o u2)[c] = IF c <= Len(u1) THEN u1[c] ELSE u2[c - Len(u1)]
  BY <1>1, ConcatProperties
<1>3. /\ v1 \o v2 \in Seq(Seq(Tag)) /\ Len(v1 \o v2) = Len(v1) + Len(v2)
      /\ \A c \in 1 .. Len(v1) + Len(v2) :
            (v1 \o v2)[c] = IF c <= Len(v1) THEN v1[c] ELSE v2[c - Len(v1)]
  BY <1>1, ConcatProperties
<1>4. ASSUME NEW c \in 1 .. Len(u1) + Len(u2)
      PROVE  Widened((u1 \o u2)[c], (v1 \o v2)[c], tags)
  <2>1. CASE c <= Len(u1)
    <3>1. c \in 1 .. Len(u1) /\ (u1 \o u2)[c] = u1[c] /\ (v1 \o v2)[c] = v1[c]
      BY <1>1, <1>2, <1>3, <2>1
    <3>2. QED BY <3>1 DEF Extends
  <2>2. CASE ~(c <= Len(u1))
    <3>1. PICK d : d = c - Len(u1)
      OBVIOUS
    <3>2. d \in 1 .. Len(u2) /\ (u1 \o u2)[c] = u2[d] /\ (v1 \o v2)[c] = v2[d]
      BY <1>1, <1>2, <1>3, <2>2, <3>1
    <3>3. Widened(u2[d], v2[d], tags)
      BY <3>2 DEF Extends
    <3>4. QED BY <3>2, <3>3
  <2>3. QED BY <2>1, <2>2
<1>5. QED BY <1>1, <1>2, <1>3, <1>4 DEF Extends

(* A text is widened by nothing.                                           *)
LEMMA ExtendsItself ==
    ASSUME NEW tags, NEW u \in Seq(Seq(Tag))
    PROVE  Extends(u, u, tags)
BY DEF Extends, Widened

(* A tag more behind the others.                                           *)
LEMMA OneTagMore ==
    ASSUME NEW tags, NEW x \in Seq(Tag), NEW t \in Tag, tags = {} \/ t \in tags
    PROVE  Append(x, t) \in Seq(Tag) /\ Widened(x, Append(x, t), tags)
<1> DEFINE y == Append(x, t)
<1>1. /\ y \in Seq(Tag) /\ Len(y) = Len(x) + 1 /\ Len(x) \in Nat
      /\ \A i \in 1 .. Len(x) : y[i] = x[i]
      /\ y[Len(x) + 1] = t
  BY AppendProperties
<1> HIDE DEF y
<1>2. Last(y) = t
  BY <1>1 DEF Last
<1>3. Front(y) = x
  <2>1. PICK n \in Nat : n = Len(x)
    BY <1>1
  <2>2. \A i \in 1 .. n : y[i] \in Tag
    BY <1>1, <2>1
  <2>3. /\ SubSeq(y, 1, n) \in Seq(Tag)
        /\ Len(SubSeq(y, 1, n)) = IF 1 <= n THEN n - 1 + 1 ELSE 0
        /\ \A i \in 1 .. n - 1 + 1 : SubSeq(y, 1, n)[i] = y[1 + i - 1]
    BY <2>2, SubSeqProperties
  <2>4. Len(SubSeq(y, 1, n)) = Len(x)
    BY <2>1, <2>3
  <2>5. \A i \in 1 .. Len(SubSeq(y, 1, n)) : SubSeq(y, 1, n)[i] = x[i]
    BY <1>1, <2>1, <2>3
  <2>6. SubSeq(y, 1, n) = x
    BY <2>3, <2>4, <2>5, SeqEqual
  <2>7. Len(y) - 1 = n
    BY <1>1, <2>1
  <2>8. QED BY <2>6, <2>7 DEF Front
<1>4. QED BY <1>1, <1>2, <1>3 DEF Widened, y

-----------------------------------------------------------------------------
(* What replaces a segment has its text and widens its tags.               *)
LEMMA ReplacedExtends ==
    ASSUME NEW x \in Segment, NEW match \in Document, NEW tags,
           \/ match = <<>>
           \/ /\ TextOf(match) = x.key
              /\ \A i \in DOMAIN match : Allowed(match[i], tags)
    PROVE  /\ Replaced(x, match) \in Document
           /\ TextOf(Replaced(x, match)) = x.key
           /\ Extends(TagsAt[x], TagsOfText(Replaced(x, match)), tags)
<1>1. TagsAt[x] \in Seq(Seq(Tag))
  BY KeyTypes
<1>2. CASE match = <<>>
  <2>1. Replaced(x, match) = <<x>>
    BY <1>2 DEF Replaced
  <2>2. QED BY <1>1, <2>1, TextOfOne, ExtendsItself
<1>3. CASE match # <<>>
  <2> DEFINE put(i) == [match[i] EXCEPT !.above = Tags(x)]
             m == [i \in DOMAIN match |-> put(i)]
  <2>1. Replaced(x, match) = m
    BY <1>3 DEF Replaced
  <2>2. ASSUME NEW i \in DOMAIN match
        PROVE  /\ put(i) \in Segment /\ match[i] \in Segment
               /\ put(i).key = match[i].key
               /\ put(i).name = match[i].name /\ put(i).above = Tags(x)
    <3>1. match[i] \in Segment
      BY DEF Document
    <3>2. Tags(x) \in Seq(Tag)
      BY SegmentTags
    <3>3. QED BY <3>1, <3>2 DEF Segment
  <2> HIDE DEF put
  <2>3. m \in Document /\ DOMAIN m = DOMAIN match
    <3>1. PICK n \in Nat : n = Len(match) /\ DOMAIN match = 1 .. n
      BY DEF Document
    <3>2. \A i \in 1 .. n : put(i) \in Segment
      BY <2>2, <3>1
    <3>3. [i \in 1 .. n |-> put(i)] \in Seq(Segment)
      BY <3>2
    <3>4. QED BY <3>1, <3>3 DEF Document
  <2>4. TextOf(m) = x.key
    <3>1. [i \in DOMAIN m |-> m[i].key] = [i \in DOMAIN match |-> match[i].key]
      BY <2>2, <2>3
    <3>2. TextOf(match) = x.key
      BY <1>3
    <3> HIDE DEF m
    <3>3. QED BY <3>1, <3>2 DEF TextOf
  <2>5. ASSUME NEW i \in DOMAIN match
        PROVE  Widened(Tags(x), Tags(m[i]), tags)
    <3>1. m[i] \in Segment /\ m[i].name = match[i].name /\ m[i].above = Tags(x)
      BY <2>2, <2>3
    <3>2. match[i].name = NoName \/ tags = {} \/ match[i].name \in tags
      BY <1>3 DEF Allowed
    <3> HIDE DEF m
    <3>3. CASE m[i].name = NoName
      <4>1. Tags(m[i]) = Tags(x)
        BY <3>1, <3>3, SegmentTags
      <4>2. QED BY <4>1 DEF Widened
    <3>4. CASE m[i].name # NoName
      <4>1. m[i].name \in Tag /\ Tags(m[i]) = Append(Tags(x), m[i].name)
        BY <3>1, <3>4, SegmentTags
      <4>2. Tags(x) \in Seq(Tag)
        BY SegmentTags
      <4>3. QED BY <3>1, <3>2, <3>4, <4>1, <4>2, OneTagMore
    <3>5. QED BY <3>3, <3>4
  <2>6. Extends(TagsAt[x], TagsOfText(m), tags)
    <3>1. TagsOfText(m) \in Seq(Seq(Tag)) /\ Len(TagsOfText(m)) = Len(x.key)
      BY <2>3, <2>4, TextType, TagsPerCharacter
    <3>2. Len(TagsAt[x]) = Len(x.key)
      BY KeyTypes DEF KeyOf
    <3>3. \A c \in 1 .. Len(x.key) : TagsAt[x][c] = Tags(x)
      BY SegmentTags DEF TagsAt
    <3>4. ASSUME NEW c \in 1 .. Len(TagsOfText(m))
          PROVE  \E i \in DOMAIN match : TagsOfText(m)[c] = Tags(m[i])
      <4>1. TagsOfText(m) = FlattenSeq(Each(TagsAt, m))
        BY <2>3, TextIsSpread DEF Spread
      <4>2. Each(TagsAt, m) \in Seq(Seq(Seq(Tag)))
        BY <2>3, KeyTypes, EachType DEF Document
      <4>3. TagsOfText(m)[c] \in ToSet(FlattenSeq(Each(TagsAt, m)))
        <5>1. PICK u \in Seq(Seq(Tag)) : u = TagsOfText(m)
          BY <3>1
        <5>2. DOMAIN u = 1 .. Len(u)
          OBVIOUS
        <5>3. c \in DOMAIN u
          BY <5>1, <5>2
        <5>4. u[c] \in ToSet(u)
          BY <5>3, ZenonT(20) DEF ToSet
        <5>5. QED BY <4>1, <5>1, <5>4
      <4>4. TagsOfText(m)[c] \in Elements(Each(TagsAt, m))
        BY <4>2, <4>3, FlattenElements
      <4>5. PICK i \in DOMAIN m : TagsOfText(m)[c] \in ToSet(TagsAt[m[i]])
        BY <4>4 DEF Elements, Each
      <4>6. m[i] \in Segment
        BY <2>2, <2>3
      <4>7. ToSet(TagsAt[m[i]]) \subseteq {Tags(m[i])}
        BY <4>6 DEF TagsAt, ToSet
      <4>8. QED BY <2>3, <4>5, <4>7
    <3> HIDE DEF m
    <3>5. \A c \in 1 .. Len(TagsAt[x]) : Widened(TagsAt[x][c], TagsOfText(m)[c], tags)
      BY <2>5, <3>1, <3>2, <3>3, <3>4
    <3>6. QED BY <1>1, <3>1, <3>2, <3>5 DEF Extends
  <2>7. QED BY <2>1, <2>3, <2>4, <2>6
<1>4. QED BY <1>2, <1>3
-----------------------------------------------------------------------------
(* Gathering the leaves from position i stops at position j.               *)
StopsAt(segment, leaves, i, tags, j) ==
    \/ j > Len(leaves)
    \/ ~IsPrefix(leaves[j].key,
                 SubSeq(segment.key, Len(TextOf(SubSeq(leaves, i, j - 1))) + 1, Len(segment.key)))
    \/ ~Below(leaves[j], segment)
    \/ ~Allowed(leaves[j], tags)

(* The leaves from i up to the one before m are gathered.                  *)
GatheredUpTo(segment, leaves, i, tags, m) ==
    /\ m \in i .. Len(leaves) + 1
    /\ StopsAt(segment, leaves, i, tags, m)
    /\ \A j \in i .. m - 1 : ~StopsAt(segment, leaves, i, tags, j)
    /\ Gather(segment, leaves, i, tags) = SubSeq(leaves, i, m - 1)

(* What is gathered is such a run of leaves.                               *)
LEMMA GatherIsRun ==
    ASSUME NEW x \in Segment, NEW leaves \in Document, NEW i \in DOMAIN leaves, NEW tags
    PROVE  \E m \in i .. Len(leaves) + 1 : GatheredUpTo(x, leaves, i, tags, m)
<1>1. Len(leaves) \in Nat /\ DOMAIN leaves = 1 .. Len(leaves)
  BY DEF Document
<1> DEFINE stops == {j \in i .. Len(leaves) + 1 : StopsAt(x, leaves, i, tags, j)}
<1>2. Len(leaves) + 1 \in stops
  BY <1>1 DEF StopsAt
<1>3. stops \subseteq Nat /\ stops # {}
  BY <1>1, <1>2
<1>4. Gather(x, leaves, i, tags) = SubSeq(leaves, i, Min(stops) - 1)
  BY DEF Gather, StopsAt
<1>5. stops \subseteq i .. Len(leaves) + 1
  OBVIOUS
<1>6. \A j \in i .. Len(leaves) + 1 : StopsAt(x, leaves, i, tags, j) <=> j \in stops
  OBVIOUS
<1> HIDE DEF stops
<1>7. PICK m : m = Min(stops)
  OBVIOUS
<1>8. m \in stops /\ \A n \in stops : m <= n
  BY <1>3, <1>7, MinOfNumbers
<1>9. m \in i .. Len(leaves) + 1
  BY <1>5, <1>8
<1>10. ASSUME NEW j \in i .. m - 1 PROVE ~StopsAt(x, leaves, i, tags, j)
  <2>1. j \in i .. Len(leaves) + 1 /\ ~(m <= j)
    BY <1>1, <1>9
  <2>2. j \notin stops
    BY <1>8, <2>1
  <2>3. QED BY <1>6, <2>1, <2>2
<1>11. StopsAt(x, leaves, i, tags, m)
  BY <1>6, <1>8, <1>9
<1>12. QED BY <1>4, <1>7, <1>9, <1>10, <1>11 DEF GatheredUpTo

(* The leaves from i to n of a document.                                   *)
LEMMA RunOfLeaves ==
    ASSUME NEW leaves \in Document, NEW i \in DOMAIN leaves, NEW n \in Int, n <= Len(leaves)
    PROVE  /\ SubSeq(leaves, i, n) \in Document
           /\ Len(SubSeq(leaves, i, n)) = IF i <= n THEN n - i + 1 ELSE 0
           /\ DOMAIN SubSeq(leaves, i, n) = 1 .. n - i + 1
           /\ \A k \in 1 .. n - i + 1 : /\ i + k - 1 \in i .. n /\ i + k - 1 \in DOMAIN leaves
                                        /\ SubSeq(leaves, i, n)[k] = leaves[i + k - 1]
<1>1. Len(leaves) \in Nat /\ DOMAIN leaves = 1 .. Len(leaves) /\ leaves \in Seq(Segment)
  BY DEF Document
<1>2. \A k \in i .. n : leaves[k] \in Segment
  BY <1>1
<1>3. /\ SubSeq(leaves, i, n) \in Seq(Segment)
      /\ Len(SubSeq(leaves, i, n)) = IF i <= n THEN n - i + 1 ELSE 0
      /\ \A k \in 1 .. n - i + 1 : SubSeq(leaves, i, n)[k] = leaves[i + k - 1]
  <2>1. i \in Int
    BY <1>1
  <2>2. QED BY <1>2, <2>1, SubSeqProperties
<1>4. DOMAIN SubSeq(leaves, i, n) = 1 .. n - i + 1
  <2>1. DOMAIN SubSeq(leaves, i, n) = 1 .. Len(SubSeq(leaves, i, n))
    BY <1>3
  <2>2. QED BY <1>1, <1>3, <2>1
<1>5. \A k \in 1 .. n - i + 1 : i + k - 1 \in i .. n /\ i + k - 1 \in DOMAIN leaves
  BY <1>1
<1>6. QED BY <1>3, <1>4, <1>5 DEF Document

(* A match spells the text of the segment with leaves that are allowed.    *)
LEMMA MatchFits ==
    ASSUME NEW x \in Segment, NEW leaves \in Document, NEW tags
    PROVE  \E match \in Document :
              /\ match = MatchSegment(x, leaves, tags)
              /\ \/ match = <<>>
                 \/ /\ TextOf(match) = x.key
                    /\ \A k \in DOMAIN match : Allowed(match[k], tags)
<1> DEFINE found == {i \in DOMAIN leaves : Matches(x, Gather(x, leaves, i, tags))}
<1>1. CASE x.key = <<>> \/ found = {}
  <2>1. MatchSegment(x, leaves, tags) = <<>>
    BY <1>1 DEF MatchSegment
  <2>2. <<>> \in Document
    BY DEF Document
  <2>3. QED BY <2>1, <2>2
<1>2. CASE ~(x.key = <<>> \/ found = {})
  <2>1. MatchSegment(x, leaves, tags) = Gather(x, leaves, Min(found), tags)
    BY <1>2 DEF MatchSegment
  <2>2. Len(leaves) \in Nat /\ DOMAIN leaves = 1 .. Len(leaves)
    BY DEF Document
  <2>3. found \subseteq Nat /\ found # {}
    BY <1>2, <2>2
  <2>4. \A k \in found : k \in DOMAIN leaves /\ Matches(x, Gather(x, leaves, k, tags))
    OBVIOUS
  <2> HIDE DEF found
  <2>5. PICK i \in found : i = Min(found)
    BY <2>3, MinOfNumbers
  <2>6. i \in DOMAIN leaves /\ Matches(x, Gather(x, leaves, i, tags))
    BY <2>4
  <2>7. PICK m \in i .. Len(leaves) + 1 : GatheredUpTo(x, leaves, i, tags, m)
    BY <2>6, GatherIsRun
  <2>8. PICK match : match = SubSeq(leaves, i, m - 1)
    OBVIOUS
  <2>9. match = MatchSegment(x, leaves, tags) /\ TextOf(match) = x.key
    BY <2>1, <2>5, <2>6, <2>7, <2>8 DEF GatheredUpTo, Matches
  <2>10. m - 1 \in Int /\ m - 1 <= Len(leaves)
    BY <2>2, <2>6
  <2>11. /\ match \in Document
         /\ DOMAIN match = 1 .. (m - 1) - i + 1
         /\ \A k \in 1 .. (m - 1) - i + 1 : /\ i + k - 1 \in i .. m - 1
                                            /\ match[k] = leaves[i + k - 1]
    BY <2>6, <2>8, <2>10, RunOfLeaves
  <2>12. ASSUME NEW k \in DOMAIN match PROVE Allowed(match[k], tags)
    <3>1. PICK l \in i .. m - 1 : match[k] = leaves[l]
      BY <2>11
    <3>2. ~StopsAt(x, leaves, i, tags, l)
      BY <2>7 DEF GatheredUpTo
    <3>3. QED BY <3>1, <3>2 DEF StopsAt
  <2>13. QED BY <2>9, <2>11, <2>12
<1>3. QED BY <1>1, <1>2

-----------------------------------------------------------------------------
(* What replaces each segment.                                             *)
Merged(markup, tags) ==
    [x \in Segment |-> Replaced(x, MatchSegment(x, markup, tags))]

(* Merging replaces segment by segment.                                    *)
LEMMA MergeIsSpread ==
    ASSUME NEW input \in Document, NEW markup, NEW tags
    PROVE  MergeTree(input, markup, tags) = Spread(Merged(markup, tags), input)
<1>1. \A i \in DOMAIN input : input[i] \in Segment
  BY DEF Document
<1>2. [i \in DOMAIN input |->
         Replaced(input[i], MatchSegment(input[i], markup, tags))]
         = Each(Merged(markup, tags), input)
  BY <1>1 DEF Each, Merged
<1>3. QED BY <1>2 DEF MergeTree, Spread

(* What replaces a segment keeps its text and widens its tags.             *)
LEMMA SegmentMerged ==
    ASSUME NEW markup \in Document, NEW tags, NEW x \in Segment
    PROVE  /\ Merged(markup, tags)[x] \in Document
           /\ TextOf(Merged(markup, tags)[x]) = x.key
           /\ Extends(TagsAt[x], TagsOfText(Merged(markup, tags)[x]), tags)
<1>1. PICK match \in Document :
         /\ match = MatchSegment(x, markup, tags)
         /\ \/ match = <<>>
            \/ /\ TextOf(match) = x.key
               /\ \A k \in DOMAIN match : Allowed(match[k], tags)
  BY MatchFits
<1>2. Merged(markup, tags)[x] = Replaced(x, match)
  BY <1>1 DEF Merged
<1>3. /\ Replaced(x, match) \in Document
      /\ TextOf(Replaced(x, match)) = x.key
      /\ Extends(TagsAt[x], TagsOfText(Replaced(x, match)), tags)
  BY <1>1, ReplacedExtends
<1>4. QED BY <1>2, <1>3

(* The merged document has the text of the input, its tags widened.        *)
LEMMA MergeExtends ==
    ASSUME NEW markup \in Document, NEW tags
    PROVE  \A s \in Document :
              /\ MergeTree(s, markup, tags) \in Document
              /\ TextOf(MergeTree(s, markup, tags)) = TextOf(s)
              /\ Extends(TagsOfText(s), TagsOfText(MergeTree(s, markup, tags)), tags)
<1>1. PICK g : g = Merged(markup, tags)
  OBVIOUS
<1>2. \A x \in Segment : /\ g[x] \in Document
                         /\ TextOf(g[x]) = x.key
                         /\ Extends(TagsAt[x], TagsOfText(g[x]), tags)
  BY <1>1, SegmentMerged
<1>3. g \in [Segment -> Seq(Segment)]
  BY <1>1, <1>2 DEF Merged, Document
<1>4. \A a, b \in Seq(Segment) : Spread(g, a \o b) = Spread(g, a) \o Spread(g, b)
  BY <1>3, SpreadConcat
<1>5. \A x \in Segment : Spread(g, <<x>>) = g[x]
  <2>1. ASSUME NEW x \in Segment PROVE Spread(g, <<x>>) = g[x]
    BY <1>3, SpreadOne
  <2>2. QED BY <2>1, Zenon
<1>6. \A s \in Seq(Segment) : Spread(g, s) \in Seq(Segment)
  BY <1>3, SpreadType
<1> DEFINE P(s) == /\ TextOf(Spread(g, s)) = TextOf(s)
                   /\ Extends(TagsOfText(s), TagsOfText(Spread(g, s)), tags)
           T == {n \in Nat : \A s \in Seq(Segment) : Len(s) = n => P(s)}
<1>7. 0 \in T
  <2>1. Spread(g, <<>>) = <<>>
    BY SpreadEmpty
  <2>2. <<>> \in Seq(Seq(Tag))
    OBVIOUS
  <2>3. Extends(<<>>, <<>>, tags)
    BY <2>2, ExtendsItself
  <2>4. P(<<>>)
    BY <2>1, <2>3, TextOfNone
  <2>5. \A s \in Seq(Segment) : Len(s) = 0 => s = <<>>
    OBVIOUS
  <2> HIDE DEF P
  <2>6. QED BY <2>4, <2>5
<1>8. ASSUME NEW n \in Nat, n \in T PROVE n + 1 \in T
  <2> SUFFICES ASSUME NEW s \in Seq(Segment), Len(s) = n + 1
               PROVE  P(s)
    OBVIOUS
  <2>1. s # <<>>
    OBVIOUS
  <2>2. PICK t \in Seq(Segment), x \in Segment : s = Append(t, x)
    BY <2>1, SequenceEmptyOrAppend
  <2>3. s = t \o <<x>> /\ <<x>> \in Seq(Segment) /\ Len(t) = n
    BY <2>2
  <2>4. P(t)
    BY <1>8, <2>3
  <2>5. Spread(g, s) = Spread(g, t) \o g[x]
    BY <1>4, <1>5, <2>3
  <2>6. Spread(g, t) \in Document /\ g[x] \in Document /\ t \in Document /\ <<x>> \in Document
    BY <1>2, <1>6, <2>3 DEF Document
  <2>7. /\ TextOf(s) = TextOf(t) \o x.key
        /\ TagsOfText(s) = TagsOfText(t) \o TagsAt[x]
    <3>1. /\ TextOf(t \o <<x>>) = TextOf(t) \o TextOf(<<x>>)
          /\ TagsOfText(t \o <<x>>) = TagsOfText(t) \o TagsOfText(<<x>>)
      BY <2>6, TextOfConcat
    <3>2. QED BY <2>3, <3>1, TextOfOne
  <2>8. /\ TextOf(Spread(g, s)) = TextOf(Spread(g, t)) \o TextOf(g[x])
        /\ TagsOfText(Spread(g, s)) = TagsOfText(Spread(g, t)) \o TagsOfText(g[x])
    <3>1. /\ TextOf(Spread(g, t) \o g[x]) = TextOf(Spread(g, t)) \o TextOf(g[x])
          /\ TagsOfText(Spread(g, t) \o g[x]) = TagsOfText(Spread(g, t)) \o TagsOfText(g[x])
      BY <2>6, TextOfConcat
    <3>2. QED BY <2>5, <3>1
  <2>9. TextOf(Spread(g, s)) = TextOf(s)
    BY <1>2, <2>4, <2>7, <2>8
  <2>10. Extends(TagsOfText(t) \o TagsAt[x],
                 TagsOfText(Spread(g, t)) \o TagsOfText(g[x]), tags)
    BY <1>2, <2>4, ExtendsConcat
  <2>11. QED BY <2>7, <2>8, <2>9, <2>10
<1> HIDE DEF T
<1>9. \A n \in Nat : n \in T
  BY <1>7, <1>8, InductiveSet
<1>10. \A s \in Seq(Segment) : Len(s) \in Nat
  OBVIOUS
<1>11. \A s \in Seq(Segment) : P(s)
  BY <1>9, <1>10 DEF T
<1>12. \A s \in Document : MergeTree(s, markup, tags) = Spread(g, s)
  BY <1>1, MergeIsSpread
<1>13. QED BY <1>6, <1>11, <1>12 DEF Document

(* Whatever the documents hold, merging keeps the text of the input and    *)
(* every character below the tags it was below, with at most one more,     *)
(* which is one of those asked for.                                        *)
THEOREM MergeOnlyAddsTags == Spec => []OnlyTagsAdded
<1>1. ASSUME TextInv PROVE OnlyTagsAdded
  <2> SUFFICES ASSUME NEW o \in outputs
               PROVE  /\ TextOf(o.result) = TextOf(o.input)
                      /\ \A c \in DOMAIN TagsOfText(o.input) :
                            \/ TagsOfText(o.result)[c] = TagsOfText(o.input)[c]
                            \/ /\ TagsOfText(o.input)[c] = Front(TagsOfText(o.result)[c])
                               /\ \/ markupset = {}
                                  \/ Last(TagsOfText(o.result)[c]) \in markupset
    BY DEF OnlyTagsAdded
  <2>1. /\ o.input \in Document /\ o.markup \in Document
        /\ o.result = MergeTree(o.input, o.markup, markupset)
    BY <1>1 DEF TextInv
  <2>2. /\ TextOf(o.result) = TextOf(o.input)
        /\ Extends(TagsOfText(o.input), TagsOfText(o.result), markupset)
    BY <2>1, MergeExtends
  <2>3. PICK u \in Seq(Seq(Tag)) : u = TagsOfText(o.input)
    BY <2>2 DEF Extends
  <2>4. DOMAIN u = 1 .. Len(u)
    OBVIOUS
  <2>5. \A c \in DOMAIN u : Widened(u[c], TagsOfText(o.result)[c], markupset)
    BY <2>2, <2>3, <2>4 DEF Extends
  <2>6. QED BY <2>2, <2>3, <2>5 DEF Widened
<1>2. QED
  BY <1>1, InitIInv, NextIInv, InitTextInv, NextTextInv, PTL DEF Spec

-----------------------------------------------------------------------------
(* A part of a text is a prefix of what comes behind the parts before it.  *)
LEMMA PartIsPrefix ==
    ASSUME NEW S, NEW a \in Seq(S), NEW b \in Seq(S), NEW c \in Seq(S)
    PROVE  \A text : text = a \o (b \o c) =>
              IsPrefix(b, SubSeq(text, Len(a) + 1, Len(text)))
<1>1. PICK la \in Nat, lb \in Nat, lc \in Nat : la = Len(a) /\ lb = Len(b) /\ lc = Len(c)
  OBVIOUS
<1>2. /\ b \o c \in Seq(S) /\ Len(b \o c) = lb + lc
      /\ \A i \in 1 .. lb + lc : (b \o c)[i] = IF i <= lb THEN b[i] ELSE c[i - lb]
  BY <1>1, ConcatProperties
<1>3. PICK d \in Seq(S) : d = b \o c
  BY <1>2
<1>4. /\ a \o d \in Seq(S) /\ Len(a \o d) = la + (lb + lc)
      /\ \A i \in 1 .. la + (lb + lc) : (a \o d)[i] = IF i <= la THEN a[i] ELSE d[i - la]
  BY <1>1, <1>2, <1>3, ConcatProperties
<1>5. PICK text \in Seq(S) : text = a \o d
  BY <1>4
<1>6. /\ Len(text) = la + (lb + lc)
       /\ \A i \in 1 .. la + (lb + lc) : text[i] = IF i <= la THEN a[i] ELSE d[i - la]
  BY <1>5, <1>4
<1>7. PICK t : t = SubSeq(text, la + 1, la + (lb + lc))
  OBVIOUS
<1>8. \A i \in la + 1 .. la + (lb + lc) : text[i] \in S
  <2>1. \A i \in 1 .. Len(text) : text[i] \in S
    OBVIOUS
  <2>2. QED BY <1>6, <2>1
<1>9. /\ t \in Seq(S)
      /\ Len(t) = IF la + 1 <= la + (lb + lc) THEN la + (lb + lc) - (la + 1) + 1 ELSE 0
      /\ \A i \in 1 .. la + (lb + lc) - (la + 1) + 1 : t[i] = text[la + 1 + i - 1]
  BY <1>7, <1>8, SubSeqProperties
<1>10. Len(t) = lb + lc
  BY <1>9
<1>11. ASSUME NEW i \in 1 .. lb PROVE t[i] = b[i]
  <2>1. /\ i \in 1 .. la + (lb + lc) - (la + 1) + 1
        /\ la + 1 + i - 1 = la + i /\ la + i \in 1 .. la + (lb + lc)
        /\ ~(la + i <= la) /\ la + i - la = i /\ i \in 1 .. lb + lc /\ i <= lb
    OBVIOUS
  <2>2. t[i] = text[la + i]
    BY <1>9, <2>1
  <2>3. text[la + i] = d[i]
    BY <1>6, <2>1
  <2>4. d[i] = b[i]
    BY <1>2, <1>3, <2>1
  <2>5. QED BY <2>2, <2>3, <2>4
<1>12. SubSeq(b, 1, lb) = SubSeq(t, 1, lb)
  <2>1. \A i \in 1 .. lb : b[i] \in S /\ t[i] \in S
    BY <1>1, <1>11
  <2>2. /\ SubSeq(b, 1, lb) \in Seq(S)
        /\ Len(SubSeq(b, 1, lb)) = IF 1 <= lb THEN lb - 1 + 1 ELSE 0
        /\ \A i \in 1 .. lb - 1 + 1 : SubSeq(b, 1, lb)[i] = b[1 + i - 1]
    BY <2>1, SubSeqProperties
  <2>3. /\ SubSeq(t, 1, lb) \in Seq(S)
        /\ Len(SubSeq(t, 1, lb)) = IF 1 <= lb THEN lb - 1 + 1 ELSE 0
        /\ \A i \in 1 .. lb - 1 + 1 : SubSeq(t, 1, lb)[i] = t[1 + i - 1]
    BY <2>1, SubSeqProperties
  <2>4. Len(SubSeq(b, 1, lb)) = lb /\ Len(SubSeq(t, 1, lb)) = lb
    BY <2>2, <2>3
  <2>5. \A i \in 1 .. lb : SubSeq(b, 1, lb)[i] = SubSeq(t, 1, lb)[i]
    BY <1>11, <2>2, <2>3
  <2>6. QED BY <2>2, <2>3, <2>4, <2>5, SeqEqual
<1>13. lb <= lb + lc
  OBVIOUS
<1>14. IsPrefix(b, t)
  BY <1>1, <1>10, <1>12, <1>13 DEF IsPrefix
<1>15. t = SubSeq(text, Len(a) + 1, Len(text))
  BY <1>1, <1>7, <1>6
<1>16. QED BY <1>5, <1>3, <1>14, <1>15

(* A run of leaves is one up to j and the rest.                            *)
LEMMA SplitRun ==
    ASSUME NEW leaves \in Document, NEW i \in DOMAIN leaves, NEW n \in i .. Len(leaves),
           NEW j \in i .. n
    PROVE  SubSeq(leaves, i, n) = SubSeq(leaves, i, j) \o SubSeq(leaves, j + 1, n)
<1>1. Len(leaves) \in Nat /\ DOMAIN leaves = 1 .. Len(leaves) /\ leaves \in Seq(Segment)
  BY DEF Document
<1>2. \A k \in i .. n : leaves[k] \in Segment
  BY <1>1
<1>3. PICK r : r = SubSeq(leaves, i, n)
  OBVIOUS
<1>4. PICK u : u = SubSeq(leaves, i, j)
  OBVIOUS
<1>5. PICK v : v = SubSeq(leaves, j + 1, n)
  OBVIOUS
<1>6. /\ r \in Seq(Segment) /\ Len(r) = n - i + 1
      /\ \A k \in 1 .. n - i + 1 : r[k] = leaves[i + k - 1]
  BY <1>1, <1>2, <1>3, SubSeqProperties
<1>7. /\ u \in Seq(Segment) /\ Len(u) = j - i + 1
      /\ \A k \in 1 .. j - i + 1 : u[k] = leaves[i + k - 1]
  BY <1>1, <1>2, <1>4, SubSeqProperties
<1>8. /\ v \in Seq(Segment) /\ Len(v) = n - j
      /\ \A k \in 1 .. n - j : v[k] = leaves[j + k]
  <2>1. \A k \in j + 1 .. n : leaves[k] \in Segment
    BY <1>1, <1>2
  <2>2. /\ v \in Seq(Segment)
        /\ Len(v) = IF j + 1 <= n THEN n - (j + 1) + 1 ELSE 0
        /\ \A k \in 1 .. n - (j + 1) + 1 : v[k] = leaves[j + 1 + k - 1]
    BY <1>1, <1>5, <2>1, SubSeqProperties
  <2>3. QED BY <1>1, <2>2
<1>9. /\ u \o v \in Seq(Segment) /\ Len(u \o v) = Len(u) + Len(v)
      /\ \A k \in 1 .. Len(u) + Len(v) :
            (u \o v)[k] = IF k <= Len(u) THEN u[k] ELSE v[k - Len(u)]
  BY <1>7, <1>8, ConcatProperties
<1>10. Len(u) + Len(v) = n - i + 1
  BY <1>1, <1>7, <1>8
<1>11. ASSUME NEW k \in 1 .. n - i + 1 PROVE r[k] = (u \o v)[k]
  <2>1. CASE k <= j - i + 1
    <3>1. k \in 1 .. j - i + 1
      BY <1>1, <2>1
    <3>2. QED BY <1>6, <1>7, <1>9, <1>10, <3>1
  <2>2. CASE ~(k <= j - i + 1)
    <3>1. PICK l : l = k - (j - i + 1)
      OBVIOUS
    <3>2. l \in 1 .. n - j /\ j + l = i + k - 1
      BY <1>1, <2>2, <3>1
    <3>3. (u \o v)[k] = v[l]
      BY <1>7, <1>9, <1>10, <2>2, <3>1
    <3>4. QED BY <1>6, <1>8, <3>2, <3>3
  <2>3. QED BY <2>1, <2>2
<1>12. r = u \o v
  BY <1>6, <1>9, <1>10, <1>11, SeqEqual
<1>13. QED BY <1>3, <1>4, <1>5, <1>12

(* The text of the leaves up to j: the one before it and the leaf's own.   *)
LEMMA TextUpTo ==
    ASSUME NEW leaves \in Document, NEW i \in DOMAIN leaves, NEW j \in i .. Len(leaves)
    PROVE  TextOf(SubSeq(leaves, i, j)) = TextOf(SubSeq(leaves, i, j - 1)) \o leaves[j].key
<1>1. Len(leaves) \in Nat /\ DOMAIN leaves = 1 .. Len(leaves) /\ leaves \in Seq(Segment)
  BY DEF Document
<1>2. leaves[j] \in Segment /\ j \in Int
  BY <1>1
<1>3. SubSeq(leaves, j, j) = <<leaves[j]>>
  <2>1. PICK s : s = SubSeq(leaves, j, j)
    OBVIOUS
  <2>2. \A k \in j .. j : leaves[k] \in Segment
    BY <1>2
  <2>3. s \in Seq(Segment) /\ Len(s) = j - j + 1 /\ \A k \in 1 .. j - j + 1 : s[k] = leaves[j + k - 1]
    BY <1>2, <2>1, <2>2, SubSeqProperties
  <2>4. Len(s) = 1 /\ s[1] = leaves[j]
    BY <1>2, <2>3
  <2>5. s = <<leaves[j]>>
    <3>1. <<leaves[j]>> \in Seq(Segment) /\ Len(<<leaves[j]>>) = 1
      BY <1>2
    <3>2. \A k \in 1 .. Len(s) : s[k] = <<leaves[j]>>[k]
      BY <2>4
    <3>3. QED BY <2>3, <2>4, <3>1, <3>2, SeqEqual
  <2>6. QED BY <2>1, <2>4, <2>5
<1>4. CASE j = i
  <2>1. SubSeq(leaves, i, j - 1) = <<>>
    BY <1>1, <1>4, SubSeqEmpty
  <2>2. TextOf(SubSeq(leaves, i, j)) = leaves[j].key
    BY <1>2, <1>3, <1>4, TextOfOne
  <2>3. leaves[j].key \in Seq(Char)
    BY <1>2, SegmentTags
  <2>4. QED BY <2>1, <2>2, <2>3, TextOfNone, ConcatEmptySeq
<1>5. CASE j # i
  <2>1. PICK p : p = j - 1
    OBVIOUS
  <2>2. p \in i .. j /\ p + 1 = j /\ p \in Int /\ p <= Len(leaves)
    BY <1>1, <1>5, <2>1
  <2>3. SubSeq(leaves, i, j) = SubSeq(leaves, i, p) \o SubSeq(leaves, p + 1, j)
    BY <2>2, SplitRun
  <2>4. SubSeq(leaves, i, j) = SubSeq(leaves, i, p) \o <<leaves[j]>>
    BY <1>3, <2>2, <2>3
  <2>5. SubSeq(leaves, i, p) \in Document /\ <<leaves[j]>> \in Document
    BY <1>2, <2>2, RunOfLeaves, TextOfOne
  <2>6. TextOf(SubSeq(leaves, i, p) \o <<leaves[j]>>)
           = TextOf(SubSeq(leaves, i, p)) \o TextOf(<<leaves[j]>>)
    BY <2>5, TextOfConcat
  <2>7. QED BY <1>2, <2>1, <2>4, <2>6, TextOfOne
<1>6. QED BY <1>4, <1>5

-----------------------------------------------------------------------------
(* Leaves that spell the text of a segment are all gathered, and the       *)
(* leaves gathered behind them have no text.                               *)
LEMMA SpelledIsGathered ==
    ASSUME NEW x \in Segment, NEW leaves \in Document, NEW tags,
           NEW i \in DOMAIN leaves, NEW n \in i .. Len(leaves),
           \A k \in i .. n : Below(leaves[k], x) /\ Allowed(leaves[k], tags),
           TextOf(SubSeq(leaves, i, n)) = x.key,
           NEW m \in i .. Len(leaves) + 1, GatheredUpTo(x, leaves, i, tags, m)
    PROVE  /\ n + 1 <= m
           /\ TextOf(SubSeq(leaves, i, m - 1)) = x.key
<1>1. Len(leaves) \in Nat /\ DOMAIN leaves = 1 .. Len(leaves) /\ leaves \in Seq(Segment)
  BY DEF Document
<1>2. x.key \in Seq(Char) /\ \A k \in DOMAIN leaves : leaves[k].key \in Seq(Char)
  BY <1>1, SegmentTags
<1>3. \A k \in Int : k <= Len(leaves) => /\ SubSeq(leaves, i, k) \in Document
                                         /\ TextOf(SubSeq(leaves, i, k)) \in Seq(Char)
  BY RunOfLeaves, TextType
<1>4. ASSUME NEW j \in i .. n PROVE ~StopsAt(x, leaves, i, tags, j)
  <2>1. j \in DOMAIN leaves /\ ~(j > Len(leaves)) /\ j - 1 \in Int /\ j - 1 <= Len(leaves)
        /\ n \in Int /\ j \in i .. Len(leaves)
    BY <1>1
  <2>2. SubSeq(leaves, i, n) = SubSeq(leaves, i, j) \o SubSeq(leaves, j + 1, n)
    BY SplitRun
  <2>3. SubSeq(leaves, j + 1, n) \in Document
    <3>1. CASE j = n
      <4>1. SubSeq(leaves, j + 1, n) = <<>>
        BY <2>1, <3>1, SubSeqEmpty
      <4>2. QED BY <4>1 DEF Document
    <3>2. CASE j # n
      <4>1. j + 1 \in DOMAIN leaves /\ n <= Len(leaves)
        BY <1>1, <2>1, <3>2
      <4>2. QED BY <2>1, <4>1, RunOfLeaves
    <3>3. QED BY <3>1, <3>2
  <2>4. SubSeq(leaves, i, j) \in Document
    BY <1>1, <1>3, <2>1
  <2>5. x.key = TextOf(SubSeq(leaves, i, j)) \o TextOf(SubSeq(leaves, j + 1, n))
    BY <2>2, <2>3, <2>4, TextOfConcat
  <2>6. TextOf(SubSeq(leaves, i, j)) = TextOf(SubSeq(leaves, i, j - 1)) \o leaves[j].key
    BY <2>1, TextUpTo
  <2>7. PICK a \in Seq(Char), b \in Seq(Char), c \in Seq(Char) :
           /\ a = TextOf(SubSeq(leaves, i, j - 1)) /\ b = leaves[j].key
           /\ c = TextOf(SubSeq(leaves, j + 1, n))
    BY <1>2, <1>3, <2>1, <2>3, TextType
  <2>8. (a \o b) \o c = a \o (b \o c)
    BY ConcatAssociative
  <2>9. x.key = a \o (b \o c)
    BY <2>5, <2>6, <2>7, <2>8
  <2>10. IsPrefix(b, SubSeq(x.key, Len(a) + 1, Len(x.key)))
    BY <2>9, PartIsPrefix
  <2>11. IsPrefix(leaves[j].key,
           SubSeq(x.key, Len(TextOf(SubSeq(leaves, i, j - 1))) + 1, Len(x.key)))
    BY <2>7, <2>10
  <2>12. Below(leaves[j], x) /\ Allowed(leaves[j], tags)
    OBVIOUS
  <2>13. QED BY <2>1, <2>11, <2>12 DEF StopsAt
<1>5. n + 1 <= m
  <2>1. ~(m \in i .. n)
    BY <1>4 DEF GatheredUpTo
  <2>2. QED BY <1>1, <2>1
<1> DEFINE T == {d \in Nat : d <= m - 1 - n => TextOf(SubSeq(leaves, i, n + d)) = x.key}
<1>6. 0 \in T
  BY <1>1
<1>7. ASSUME NEW d \in Nat, d \in T PROVE d + 1 \in T
  <2> SUFFICES ASSUME d + 1 <= m - 1 - n
               PROVE  TextOf(SubSeq(leaves, i, n + (d + 1))) = x.key
    OBVIOUS
  <2>1. TextOf(SubSeq(leaves, i, n + d)) = x.key
    BY <1>1, <1>7
  <2>2. PICK j : j = n + (d + 1)
    OBVIOUS
  <2>3. /\ j \in i .. m - 1 /\ j - 1 = n + d /\ j \in i .. Len(leaves) /\ j \in DOMAIN leaves
        /\ ~(j > Len(leaves))
    BY <1>1, <2>2
  <2>4. ~StopsAt(x, leaves, i, tags, j)
    BY <2>3 DEF GatheredUpTo
  <2>5. IsPrefix(leaves[j].key, SubSeq(x.key, Len(x.key) + 1, Len(x.key)))
    BY <2>1, <2>3, <2>4 DEF StopsAt
  <2>6. SubSeq(x.key, Len(x.key) + 1, Len(x.key)) = <<>>
    <3>1. Len(x.key) \in Nat
      BY <1>2
    <3>2. QED BY <3>1, SubSeqEmpty
  <2>7. leaves[j].key = <<>>
    <3>1. PICK b \in Seq(Char) : b = leaves[j].key
      BY <1>2, <2>3
    <3>2. Len(b) <= Len(<<>>)
      BY <2>5, <2>6, <3>1 DEF IsPrefix
    <3>3. b = <<>>
      BY <3>2
    <3>4. QED BY <3>1, <3>3
  <2>8. TextOf(SubSeq(leaves, i, j)) = x.key \o <<>>
    <3>1. TextOf(SubSeq(leaves, i, j)) = TextOf(SubSeq(leaves, i, j - 1)) \o leaves[j].key
      BY <2>3, TextUpTo
    <3>2. QED BY <2>1, <2>3, <2>7, <3>1
  <2>9. x.key \o <<>> = x.key
    BY <1>2, ConcatEmptySeq
  <2>10. QED BY <2>2, <2>8, <2>9
<1> HIDE DEF T
<1>8. \A d \in Nat : d \in T
  BY <1>6, <1>7, InductiveSet
<1>9. m - 1 - n \in Nat /\ n + (m - 1 - n) = m - 1
  BY <1>1, <1>5
<1>10. m - 1 - n \in T
  BY <1>8, <1>9
<1>11. QED BY <1>5, <1>9, <1>10 DEF T

(* The runs that mark the text of a segment, by their first position.      *)
LEMMA SpelledIsFound ==
    ASSUME NEW x \in Segment, NEW leaves \in Document, NEW tags, x.key # <<>>,
           NEW i \in DOMAIN leaves,
           NEW m \in i .. Len(leaves) + 1, GatheredUpTo(x, leaves, i, tags, m)
    PROVE  /\ Matches(x, Gather(x, leaves, i, tags))
                 => <<i, m - 1>> \in Spellings(x, leaves, tags)
           /\ \A n \in DOMAIN leaves : <<i, n>> \in Spellings(x, leaves, tags) =>
                 n <= m - 1 /\ Matches(x, Gather(x, leaves, i, tags))
<1>1. Len(leaves) \in Nat /\ DOMAIN leaves = 1 .. Len(leaves)
  BY DEF Document
<1>2. Gather(x, leaves, i, tags) = SubSeq(leaves, i, m - 1)
  BY DEF GatheredUpTo
<1>3. \A k \in i .. m - 1 : Below(leaves[k], x) /\ Allowed(leaves[k], tags)
  BY DEF GatheredUpTo, StopsAt
<1>4. ASSUME Matches(x, Gather(x, leaves, i, tags))
      PROVE  <<i, m - 1>> \in Spellings(x, leaves, tags)
  <2>1. i <= m - 1
    <3>1. CASE m = i
      <4>1. SubSeq(leaves, i, m - 1) = <<>>
        BY <1>1, <3>1, SubSeqEmpty
      <4>2. TextOf(<<>>) = x.key
        BY <1>2, <1>4, <4>1 DEF Matches
      <4>3. QED BY <4>2, TextOfNone
    <3>2. QED BY <1>1, <3>1
  <2>2. PICK n : n = m - 1
    OBVIOUS
  <2>3. n \in DOMAIN leaves /\ i <= n
    BY <1>1, <2>1, <2>2
  <2>4. /\ TextOf(SubSeq(leaves, i, n)) = x.key
        /\ HasMarkup(SubSeq(leaves, i, n))
        /\ ~Repeats(SubSeq(leaves, i, n), x)
    BY <1>2, <1>4, <2>2 DEF Matches
  <2>5. \A k \in i .. n : Below(leaves[k], x) /\ Allowed(leaves[k], tags)
    BY <1>3, <2>2
  <2>6. <<i, n>> \in Spellings(x, leaves, tags)
    BY <2>3, <2>4, <2>5 DEF Spellings
  <2>7. QED BY <2>2, <2>6
<1>5. ASSUME NEW n \in DOMAIN leaves, <<i, n>> \in Spellings(x, leaves, tags)
      PROVE  n <= m - 1 /\ Matches(x, Gather(x, leaves, i, tags))
  <2>1. /\ i <= n
        /\ \A k \in i .. n : Below(leaves[k], x) /\ Allowed(leaves[k], tags)
        /\ TextOf(SubSeq(leaves, i, n)) = x.key
        /\ HasMarkup(SubSeq(leaves, i, n))
        /\ ~Repeats(SubSeq(leaves, i, n), x)
    BY <1>5 DEF Spellings
  <2>2. n \in i .. Len(leaves)
    BY <1>1, <2>1
  <2>3. n + 1 <= m /\ TextOf(SubSeq(leaves, i, m - 1)) = x.key
    BY <2>1, <2>2, SpelledIsGathered
  <2>4. PICK p : p = m - 1
    OBVIOUS
  <2>5. p \in Int /\ p <= Len(leaves) /\ n <= p /\ i <= p /\ n \in Int /\ n <= Len(leaves)
    BY <1>1, <2>1, <2>3, <2>4
  <2>6. /\ Len(SubSeq(leaves, i, n)) = n - i + 1
        /\ DOMAIN SubSeq(leaves, i, n) = 1 .. n - i + 1
        /\ \A k \in 1 .. n - i + 1 : SubSeq(leaves, i, n)[k] = leaves[i + k - 1]
    BY <2>1, <2>5, RunOfLeaves
  <2>7. /\ Len(SubSeq(leaves, i, p)) = p - i + 1
        /\ DOMAIN SubSeq(leaves, i, p) = 1 .. p - i + 1
        /\ \A k \in 1 .. p - i + 1 : SubSeq(leaves, i, p)[k] = leaves[i + k - 1]
    BY <2>5, RunOfLeaves
  <2>8. HasMarkup(SubSeq(leaves, i, p))
    <3>1. PICK k \in 1 .. n - i + 1 : SubSeq(leaves, i, n)[k].name # NoName
      BY <2>1, <2>6 DEF HasMarkup
    <3>2. k \in 1 .. p - i + 1 /\ SubSeq(leaves, i, p)[k] = SubSeq(leaves, i, n)[k]
      BY <1>1, <2>5, <2>6, <2>7
    <3>3. QED BY <2>7, <3>1, <3>2 DEF HasMarkup
  <2>9. ~Repeats(SubSeq(leaves, i, p), x)
    <3>1. CASE p = n
      BY <2>1, <3>1
    <3>2. CASE p # n
      <4>1. Len(SubSeq(leaves, i, p)) # 1
        BY <1>1, <2>1, <2>5, <2>7, <3>2
      <4>2. QED BY <4>1 DEF Repeats
    <3>3. QED BY <3>1, <3>2
  <2>10. QED BY <1>2, <2>3, <2>4, <2>5, <2>8, <2>9 DEF Matches
<1>6. QED BY <1>4, <1>5

(* Max gives m if m is one of the numbers and none is greater.             *)
LEMMA MaxIs ==
    ASSUME NEW S, S \subseteq Nat, NEW m \in S, \A n \in S : n <= m
    PROVE  Max(S) = m
<1>1. \A y \in S : m >= y
  OBVIOUS
<1>2. Max(S) \in S /\ \A y \in S : Max(S) >= y
  BY <1>1 DEF Max
<1>3. Max(S) >= m /\ m >= Max(S) /\ Max(S) \in Nat /\ m \in Nat
  BY <1>1, <1>2
<1>4. QED BY <1>3

(* The search finds the longest of the first runs, if there is any.        *)
FirstOf(runs) == Min({r[1] : r \in runs})
LastOf(runs) == Max({r[2] : r \in {y \in runs : y[1] = FirstOf(runs)}})

(* Of the runs that spell a segment: what matchSegment returns.            *)
LEMMA MatchIsSpelling ==
    ASSUME NEW x \in Segment, NEW leaves \in Document, NEW tags, x.key # <<>>,
           NEW runs, runs = Spellings(x, leaves, tags)
    PROVE  MatchSegment(x, leaves, tags) =
              IF runs = {} THEN <<>> ELSE SubSeq(leaves, FirstOf(runs), LastOf(runs))
<1>1. Len(leaves) \in Nat /\ DOMAIN leaves = 1 .. Len(leaves)
  BY DEF Document
<1> DEFINE found == {i \in DOMAIN leaves : Matches(x, Gather(x, leaves, i, tags))}
           firsts == {r[1] : r \in runs}
<1>2. runs \subseteq (DOMAIN leaves) \X (DOMAIN leaves)
  BY DEF Spellings
<1>3. \A r \in runs : r[1] \in DOMAIN leaves /\ r[2] \in DOMAIN leaves /\ r = <<r[1], r[2]>>
  BY <1>2
<1>4. ASSUME NEW i \in found PROVE i \in firsts
  <2>1. i \in DOMAIN leaves /\ Matches(x, Gather(x, leaves, i, tags))
    OBVIOUS
  <2>2. PICK m \in i .. Len(leaves) + 1 : GatheredUpTo(x, leaves, i, tags, m)
    BY <2>1, GatherIsRun
  <2>3. <<i, m - 1>> \in runs
    BY <2>1, <2>2, SpelledIsFound
  <2>4. QED BY <2>3
<1>5. ASSUME NEW r \in runs PROVE r[1] \in found
  <2>1. PICK m \in r[1] .. Len(leaves) + 1 : GatheredUpTo(x, leaves, r[1], tags, m)
    BY <1>3, GatherIsRun
  <2>2. Matches(x, Gather(x, leaves, r[1], tags))
    BY <1>3, <2>1, SpelledIsFound
  <2>3. QED BY <1>3, <2>2
<1>6. found = firsts
  BY <1>4, <1>5
<1>7. MatchSegment(x, leaves, tags) =
         IF found = {} THEN <<>> ELSE Gather(x, leaves, Min(found), tags)
  BY DEF MatchSegment
<1>8. CASE runs = {}
  <2>1. firsts = {}
    BY <1>8
  <2>2. QED BY <1>6, <1>7, <1>8, <2>1
<1>9. CASE runs # {}
  <2>1. firsts # {} /\ firsts \subseteq Nat
    BY <1>1, <1>3, <1>9
  <2>2. FirstOf(runs) = Min(firsts)
    BY DEF FirstOf
  <2> HIDE DEF found
  <2>3. PICK i \in firsts : i = Min(firsts)
    <3> HIDE DEF firsts
    <3>1. QED BY <2>1, MinOfNumbers
  <2>4. i \in DOMAIN leaves /\ i \in found
    BY <1>3, <1>6
  <2>5. PICK m \in i .. Len(leaves) + 1 : GatheredUpTo(x, leaves, i, tags, m)
    BY <2>4, GatherIsRun
  <2>6. Matches(x, Gather(x, leaves, i, tags))
    BY <2>4 DEF found
  <2>7. <<i, m - 1>> \in runs
    BY <2>4, <2>5, <2>6, SpelledIsFound
  <2> DEFINE lasts == {r[2] : r \in {y \in runs : y[1] = i}}
  <2>8. m - 1 \in lasts
    BY <2>7
  <2>9. ASSUME NEW n \in lasts PROVE n \in Nat /\ n <= m - 1
    <3>1. PICK r \in runs : r[1] = i /\ n = r[2]
      OBVIOUS
    <3>2. n \in DOMAIN leaves /\ <<i, n>> \in runs
      BY <1>3, <3>1
    <3>3. n <= m - 1
      BY <2>4, <2>5, <3>2, SpelledIsFound
    <3>4. QED BY <1>1, <3>2, <3>3
  <2>10. LastOf(runs) = Max(lasts)
    BY <2>2, <2>3 DEF LastOf
  <2> HIDE DEF lasts
  <2>11. Max(lasts) = m - 1
    BY <2>8, <2>9, MaxIs
  <2>12. Gather(x, leaves, i, tags) = SubSeq(leaves, i, m - 1)
    BY <2>5 DEF GatheredUpTo
  <2>13. found # {} /\ Min(found) = i
    BY <1>6, <2>3
  <2>14. MatchSegment(x, leaves, tags) = SubSeq(leaves, i, m - 1)
    BY <1>7, <2>12, <2>13
  <2>15. QED BY <1>9, <2>2, <2>3, <2>10, <2>11, <2>14
<1>10. QED BY <1>8, <1>9

(* A leaf with a text is replaced if, and only if, some run of the markup  *)
(* document spells it, by the longest of the first ones: the search, its   *)
(* reading on of leaves without a text included, misses none.              *)
THEOREM MergeFindsAll == Spec => []ReplacedIfSpelled
<1>1. ASSUME TextInv PROVE ReplacedIfSpelled
  <2> DEFINE expected(x, markup) ==
        LET runs == IF x.key = <<>> THEN {} ELSE Spellings(x, markup, markupset)
            first == Min({r[1] : r \in runs})
            last == Max({r[2] : r \in {y \in runs : y[1] = first}})
        IN  IF runs = {} THEN <<x>> ELSE Replaced(x, SubSeq(markup, first, last))
  <2>1. ASSUME NEW x \in Segment, NEW markup \in Document
        PROVE  Replaced(x, MatchSegment(x, markup, markupset)) = expected(x, markup)
    <3>1. CASE x.key = <<>>
      <4>1. MatchSegment(x, markup, markupset) = <<>>
        BY <3>1 DEF MatchSegment
      <4>2. expected(x, markup) = <<x>>
        BY <3>1
      <4>3. QED BY <4>1, <4>2 DEF Replaced
    <3>2. CASE x.key # <<>>
      <4>1. PICK runs : runs = Spellings(x, markup, markupset)
        OBVIOUS
      <4>2. MatchSegment(x, markup, markupset) =
               IF runs = {} THEN <<>> ELSE SubSeq(markup, FirstOf(runs), LastOf(runs))
        BY <3>2, <4>1, MatchIsSpelling
      <4>3. expected(x, markup) =
               IF runs = {} THEN <<x>>
               ELSE Replaced(x, SubSeq(markup, FirstOf(runs), LastOf(runs)))
        BY <3>2, <4>1 DEF FirstOf, LastOf
      <4> HIDE DEF expected
      <4>4. CASE runs = {}
        <5>1. Replaced(x, <<>>) = <<x>>
          BY DEF Replaced
        <5>2. QED BY <4>2, <4>3, <4>4, <5>1
      <4>5. CASE runs # {}
        BY <4>2, <4>3, <4>5
      <4>6. QED BY <4>4, <4>5
    <3>3. QED BY <3>1, <3>2
  <2>2. ReplacedIfSpelled <=>
           \A o \in outputs :
              o.result = FlattenSeq([i \in DOMAIN o.input |-> expected(o.input[i], o.markup)])
    BY DEF ReplacedIfSpelled
  <2> HIDE DEF expected
  <2>3. ASSUME NEW o \in outputs
        PROVE  o.result = FlattenSeq([i \in DOMAIN o.input |-> expected(o.input[i], o.markup)])
    <3>1. /\ o.input \in Document /\ o.markup \in Document
          /\ o.result = MergeTree(o.input, o.markup, markupset)
      BY <1>1 DEF TextInv
    <3>2. \A i \in DOMAIN o.input : o.input[i] \in Segment
      BY <3>1 DEF Document
    <3>3. [i \in DOMAIN o.input |->
             Replaced(o.input[i], MatchSegment(o.input[i], o.markup, markupset))]
             = [i \in DOMAIN o.input |-> expected(o.input[i], o.markup)]
      BY <2>1, <3>1, <3>2
    <3>4. QED BY <3>1, <3>3 DEF MergeTree
  <2>4. QED BY <2>2, <2>3
<1>2. QED
  BY <1>1, InitIInv, NextIInv, InitTextInv, NextTextInv, PTL DEF Spec

=============================================================================
