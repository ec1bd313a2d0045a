--------------------------- MODULE PosTaggerProofs ---------------------------
(***************************************************************************)
(* Proofs about strusPosTagger, for every tree of files, every number of   *)
(* workers and every way to put their files together.                      *)
(*                                                                         *)
(* The lines a worker writes are whole sections, a name and the elements   *)
(* of its file, fewer if some were lost, but for the last one while the    *)
(* worker is at it (WriteInv).                                             *)
(* So are those the second run loads.  The numbers it gives to the files   *)
(* rise with the lines of their names, and a number is the key of the      *)
(* elements below the name (LoadInv).                                      *)
(***************************************************************************)
EXTENDS PosTagger, FiniteSetTheorems, DataInduction

CP == INSTANCE FileCrawlerProofs

-----------------------------------------------------------------------------
(* The k lines behind line i are elements of the file it names, and a name *)
(* or the end is behind them.                                              *)
SectionAt(s, i, k) ==
    /\ i + k <= Len(s)
    /\ \A j \in 1 .. k : s[i + j] = ElementLine(s[i].of)
    /\ i + k < Len(s) => s[i + k + 1].kind = "name"

(* All lines of the file, or it is one of those that lost some.            *)
Enough(S, f, k) == k = NofElements[f] \/ f \in S

(* Every name line has the elements of its file below it.                  *)
Sections(s, S) ==
    \A i \in 1 .. Len(s) : s[i].kind = "name" =>
        \E k \in 0 .. NofElements[s[i].of] : Enough(S, s[i].of, k) /\ SectionAt(s, i, k)

(* Nothing but such sections.                                              *)
Whole(s, S) ==
    /\ s \in Seq(Line)
    /\ Sections(s, S)
    /\ s # <<>> => s[1].kind = "name"

(* The name of a file and k of its elements.                               *)
Part(f, k) == <<NameLine(f)>> \o [i \in 1 .. k |-> ElementLine(f)]

(* The file of a worker ends with a part of the section of the file it is  *)
(* at; outside of the first run no worker is within a section.             *)
WriteInv ==
    \A w \in Worker :
        /\ written[w] # 0 => /\ program = "input" /\ batch[w] # <<>>
                             /\ written[w] <= NofElements[CurrentFile(w)]
        /\ written[w] = 0 \/ w \in bad => Whole(posinput[w], short)
        /\ written[w] # 0 /\ w \notin bad =>
              \E s \in Seq(Line) : \E k \in 0 .. written[w] - 1 :
                 /\ Whole(s, short)
                 /\ k = written[w] - 1 \/ CurrentFile(w) \in short
                 /\ posinput[w] = s \o Part(CurrentFile(w), k)

(* The workers that returned: those the crawler stopped, those that were   *)
(* not made and those that printed an exception.                           *)
WorkersInv ==
    /\ ended = stopped \cup Absent \cup reported
    /\ \A w \in ended : batch[w] = <<>>
    /\ program = "done" => ended = Worker /\ (threads \/ broken = {})

(* The name lines read so far, and the number of the file of one.          *)
NamesRead == {i \in 1 .. line : posfile[i].kind = "name"}
NumberOf(i) == filemap[posfile[i].of]
Numbered == {f \in File : filemap[f] # 0}

(* The files are numbered in the order of their name lines.                *)
NumbersInv ==
    /\ \A i \in NamesRead : NumberOf(i) # 0
    /\ \A i, j \in NamesRead : i < j => NumberOf(i) < NumberOf(j)
    /\ \A f \in Numbered : \E i \in NamesRead : posfile[i].of = f
    /\ docnocnt = Cardinality(Numbered)
    /\ DOMAIN data = 1 .. Cardinality(File)

(* While the lines are loaded: the elements of the last name are at hand,  *)
(* those of the names before are inserted.                                 *)
LoadingInv ==
    /\ NamesRead = {} => elements = SubSeq(posfile, 1, line)
    /\ \A k \in DOMAIN data : k >= docnocnt => data[k] = <<>>
    /\ NamesRead # {} => \E i \in NamesRead : NumberOf(i) = docnocnt
    /\ \A i \in NamesRead :
          IF NumberOf(i) = docnocnt
          THEN elements = SubSeq(posfile, i + 1, line) /\ \A j \in NamesRead : j <= i
          ELSE data[NumberOf(i)] = Section(i)

LoadInv ==
    /\ NamesRead = {} => filename = NoFile /\ docnocnt = 0
    /\ NamesRead # {} => filename # NoFile /\ posfile[1].kind = "name"
    /\ program \in {"input", "load"} => LoadingInv
    /\ program \in {"output", "done"} =>
          /\ line = Len(posfile)
          /\ posfile # <<>> => posfile[1].kind = "name"
          /\ \A i \in NamesRead : data[NumberOf(i)] = Section(i)
    /\ program = "input" => posfile = <<>>
    /\ Sections(posfile, short)

(* Each worker is at one of the chunks handed out, or at none; a file of   *)
(* one without an output where it belongs is with the worker, or was lost  *)
(* by its exception.                                                       *)
Covers(at) ==
    \A i \in DOMAIN handed : \A k \in DOMAIN handed[i] :
        \/ Answered(handed[i][k])
        \/ \E w \in Worker : at[w] = i /\ (w \in reported \/ Holds(batch[w], handed[i][k]))

AnsweredInv ==
    /\ program \in {"input", "load"} => outputs = {}
    /\ program = "load" => handed = <<>>
    /\ program \in {"load", "output", "done"} =>
          \E at \in [Worker -> 0 .. Len(handed)] : Covers(at)

IInv ==
    /\ CP!IInv
    /\ CP!StoppedAtTheEnd
    /\ TypeOK
    /\ WorkersInv
    /\ WriteInv
    /\ NumbersInv
    /\ LoadInv
    /\ AnsweredInv
    /\ TaggedByItsOwn

-----------------------------------------------------------------------------
(* The crawler of the program is the one proved about: it finds the same   *)
(* files, starts alike...                                                  *)
LEMMA SameFiles ==
    /\ Crawler!CollectFilesToProcess = CP!CollectFilesToProcess
    /\ Crawler!AllItems = CP!AllItems
    /\ Crawler!AllFiles = CP!AllFiles
<1>1. \A s : Crawler!FlattenSeq(s) = CP!FlattenSeq(s)
  BY DEF Crawler!FlattenSeq, CP!FlattenSeq
<1>2. Crawler!CollectFilesToProcess = CP!CollectFilesToProcess
  BY <1>1 DEF Crawler!CollectFilesToProcess, CP!CollectFilesToProcess
<1>3. QED
  BY <1>1, <1>2 DEF Crawler!AllFiles, CP!AllFiles, Crawler!AllItems, CP!AllItems,
     Crawler!ItemsOf, CP!ItemsOf

(* The crawler starts as the theorems about it suppose.                    *)
LEMMA InitCrawler == Crawler!Init => CP!Init
<1>1. \A q, f : Crawler!AddFile(q, f) = CP!AddFile(q, f)
  BY DEF Crawler!AddFile, CP!AddFile, Crawler!Last, CP!Last
<1>2. \A s : Crawler!ChunkFiles(s) = CP!ChunkFiles(s)
  BY <1>1 DEF Crawler!ChunkFiles, CP!ChunkFiles
<1>3. Crawler!Readings = CP!Readings
  BY DEF Crawler!Readings, CP!Readings
<1>4. QED
  BY <1>2, <1>3, SameFiles DEF Crawler!Init, CP!Init, Crawler!ChunksOfPaths,
     CP!ChunksOfPaths, Crawler!ChunksOfOnePath, CP!ChunksOfOnePath

(* ... and has the same types.                                             *)
LEMMA CrawlerTypes == CP!TypeOK <=> Crawler!TypeOK
BY DEF CP!TypeOK, Crawler!TypeOK, CP!Readings, Crawler!Readings

(* ... over the same directories.                                          *)
LEMMA SameTrees == CP!Trees /\ ChunkSize > 0
<1>1. CP!IsFiniteSet(Dir) <=> Crawler!IsFiniteSet(Dir)
  BY DEF CP!IsFiniteSet, Crawler!IsFiniteSet
<1>2. CP!Cardinality(Dir) = Crawler!Cardinality(Dir)
  BY DEF CP!Cardinality, Crawler!Cardinality, CP!IsFiniteSet, Crawler!IsFiniteSet
<1>3. QED BY <1>1, <1>2, FilesAssumption DEF CP!Trees, Crawler!Trees

(* The second run finds the files of the first one: the crawler starts     *)
(* anew with the same chunks.                                              *)
LEMMA CrawlerAnew ==
    ASSUME CP!IInv, chunkque' = made, batch' = [w \in Worker |-> <<>>],
           stopped' = {}, handed' = <<>>, broken' = {}, UNCHANGED <<reading, made>>
    PROVE  CP!IInv' /\ CP!StoppedAtTheEnd'
<1>1. CP!Cut'
  BY SameTrees, CP!CutIsKept DEF CP!IInv, CP!history
<1>2. made \in Seq(Seq(File)) /\ reading \in CP!Readings
  BY DEF CP!IInv, CP!TypeOK
<1>3. <<>> \o made = made
  BY <1>2, ConcatEmptySeq
<1>4. CP!TypeOK'
  <2>1. batch' \in [Worker -> Seq(File)] /\ <<>> \in Seq(Seq(File))
    OBVIOUS
  <2>2. reading' \in CP!Readings
    BY <1>2
  <2> HIDE DEF CP!Readings
  <2>3. QED BY <1>2, <2>1, <2>2 DEF CP!TypeOK
<1>5. CP!ChunksConserved'
  BY <1>3 DEF CP!ChunksConserved
<1>6. QED BY <1>1, <1>4, <1>5 DEF CP!IInv, CP!StoppedAtTheEnd

(* What a step of a worker does to the crawler.                            *)
CrawlerStep(w) ==
    Crawler!Fetch(w) \/ Crawler!FetchNothing(w) \/ Crawler!FetchFails(w) \/ Crawler!FileDone(w)

(* What is dropped of a chunk is lost for its worker only.                 *)
Dropped(w) ==
    /\ batch[w] # <<>>
    /\ batch' = [batch EXCEPT ![w] = <<>>]
    /\ UNCHANGED <<chunkque, stopped, reading, made, handed, broken>>

(* Every step is one of the crawler, drops files, starts it anew or none.  *)
LEMMA StepsOfCrawler ==
    ASSUME [Next]_vars
    PROVE  \/ \E w \in Worker : CrawlerStep(w) \/ Dropped(w)
           \/ Tagging
           \/ UNCHANGED crawlerVars
<1>1. ASSUME NEW w \in Worker, FetchFiles(w) \/ TagFile(w) \/ LogError(w)
      PROVE  CrawlerStep(w)
  BY <1>1 DEF FetchFiles, TagFile, LogError, NextFile, CrawlerStep
<1>2. ASSUME NEW w \in Worker, InputThrows(w) \/ OutputThrows(w)
      PROVE  Dropped(w)
  BY <1>2 DEF InputThrows, OutputThrows, Writing, Throw, HasFile, Dropped
<1>3. ASSUME NEW w \in Worker, WriteLine(w) \/ LoseLine(w) \/ TextFails(w)
      PROVE  CrawlerStep(w) \/ UNCHANGED crawlerVars
  BY <1>3 DEF WriteLine, LoseLine, TextFails, Writing, LineDone, HasFile, CrawlerStep,
     Crawler!FileDone, Crawler!history, crawlerVars
<1>4. ASSUME Load \/ Joined PROVE UNCHANGED crawlerVars
  BY <1>4 DEF Load, ReadName, ReadElement, RejectPosFile, LoadFails, StartOutput,
     Joined, crawlerVars
<1>5. ASSUME UNCHANGED vars PROVE UNCHANGED crawlerVars
  BY <1>5 DEF vars, crawlerVars
<1>6. QED BY <1>1, <1>2, <1>3, <1>4, <1>5 DEF Next, Run, Terminated

(* Every step keeps the invariants of the crawler.                         *)
LEMMA NextCrawler ==
    ASSUME CP!IInv, CP!StoppedAtTheEnd, [Next]_vars
    PROVE  CP!IInv' /\ CP!StoppedAtTheEnd'
<1>1. ASSUME NEW w \in Worker, CrawlerStep(w) PROVE CP!IInv' /\ CP!StoppedAtTheEnd'
  <2>1. CP!Step(w)
    BY <1>1 DEF CrawlerStep, CP!Step, Crawler!Fetch, Crawler!FetchNothing,
       Crawler!FetchFails, CP!Fetch, CP!FetchNothing, CP!FetchFails,
       Crawler!FileDone, CP!FileDone, Crawler!history, CP!history
  <2>2. CP!Next
    BY <2>1 DEF CP!Next
  <2>3. QED BY <2>2, SameTrees, CP!NextIInv, CP!NextStopped
<1>2. ASSUME NEW w \in Worker, Dropped(w) PROVE CP!IInv' /\ CP!StoppedAtTheEnd'
  <2>1. batch' \in [Worker -> Seq(File)]
    BY <1>2 DEF Dropped, CP!IInv, CP!TypeOK
  <2>2. CP!IInv'
    BY <1>2, <2>1, SameTrees, CP!DroppedFiles DEF Dropped, CP!history
  <2>3. CP!StoppedAtTheEnd'
    BY <1>2 DEF Dropped, CP!StoppedAtTheEnd
  <2>4. QED BY <2>2, <2>3
<1>3. ASSUME UNCHANGED crawlerVars PROVE CP!IInv' /\ CP!StoppedAtTheEnd'
  BY <1>3, SameTrees, CP!NextIInv, CP!NextStopped DEF crawlerVars, CP!crawlerVars, CP!history
<1>4. CASE Tagging
  BY <1>4, CrawlerAnew DEF Tagging
<1>5. QED BY <1>1, <1>2, <1>3, <1>4, StepsOfCrawler

-----------------------------------------------------------------------------
(* The lines written for a file: its name, then its elements.              *)
LEMMA LinesOfFile ==
    ASSUME NEW f \in File
    PROVE  /\ NofElements[f] \in Nat
           /\ ElementsOf(f) \in Seq(Line)
           /\ Len(ElementsOf(f)) = NofElements[f]
           /\ InputLines(f) \in Seq(Line)
           /\ Len(InputLines(f)) = NofElements[f] + 1
           /\ InputLines(f)[1] = NameLine(f)
           /\ \A k \in 1 .. NofElements[f] : InputLines(f)[1 + k] = ElementLine(f)
<1>1. NameLine(f) \in Line /\ ElementLine(f) \in Line
  BY DEF NameLine, ElementLine, Line
<1>2. PICK n \in Nat : n = NofElements[f]
  BY TaggerAssumption
<1>3. PICK x \in Line, y \in Line : x = NameLine(f) /\ y = ElementLine(f)
  BY <1>1
<1>4. PICK e : e = [i \in 1 .. n |-> y]
  OBVIOUS
<1>5. e \in Seq(Line) /\ Len(e) = n /\ \A k \in 1 .. n : e[k] = y
  BY <1>4
<1>6. <<x>> \in Seq(Line) /\ Len(<<x>>) = 1 /\ <<x>>[1] = x
  OBVIOUS
<1>7. /\ <<x>> \o e \in Seq(Line) /\ Len(<<x>> \o e) = 1 + n
      /\ \A k \in 1 .. 1 + n : (<<x>> \o e)[k] = IF k <= 1 THEN <<x>>[k] ELSE e[k - 1]
  BY <1>5, <1>6, ConcatProperties
<1>8. (<<x>> \o e)[1] = x
  BY <1>6, <1>7
<1>9. \A k \in 1 .. n : (<<x>> \o e)[1 + k] = y
  BY <1>5, <1>7
<1>10. e = ElementsOf(f)
  BY <1>2, <1>3, <1>4 DEF ElementsOf
<1>11. InputLines(f) = <<x>> \o e
  BY <1>3, <1>10 DEF InputLines
<1>12. QED BY <1>2, <1>3, <1>5, <1>7, <1>8, <1>9, <1>10, <1>11

(* A line names a file or is an element of one.                            *)
LEMMA LineKinds ==
    /\ \A x \in Line : x.kind \in {"name", "element"} /\ x.of \in File
    /\ \A f \in File : NameLine(f).kind = "name" /\ ElementLine(f).kind = "element"
    /\ \A f \in File : NameLine(f).of = f /\ ElementLine(f).of = f
    /\ "name" # "element"
BY DEF Line, NameLine, ElementLine

(* A part of these lines is a section, if it is all of them or some may be *)
(* lost.                                                                   *)
LEMMA PartIsSection ==
    ASSUME NEW f \in File, NEW k \in 0 .. NofElements[f], NEW S, Enough(S, f, k)
    PROVE  Whole(Part(f, k), S)
<1>1. PICK x \in Line, y \in Line : x = NameLine(f) /\ y = ElementLine(f)
  BY DEF NameLine, ElementLine, Line
<1>2. k \in Nat
  BY TaggerAssumption
<1>3. PICK e : e = [i \in 1 .. k |-> y]
  OBVIOUS
<1>4. e \in Seq(Line) /\ Len(e) = k /\ \A j \in 1 .. k : e[j] = y
  BY <1>2, <1>3
<1>5. <<x>> \in Seq(Line) /\ Len(<<x>>) = 1 /\ <<x>>[1] = x
  OBVIOUS
<1>6. PICK s : s = <<x>> \o e
  OBVIOUS
<1>7. /\ s \in Seq(Line) /\ Len(s) = 1 + k
      /\ \A j \in 1 .. 1 + k : s[j] = IF j <= 1 THEN <<x>>[j] ELSE e[j - 1]
  BY <1>4, <1>5, <1>6, ConcatProperties
<1>8. s[1] = x /\ \A j \in 1 .. k : s[1 + j] = y
  BY <1>2, <1>4, <1>5, <1>7
<1>9. ASSUME NEW i \in 1 .. Len(s), s[i].kind = "name" PROVE i = 1
  <2>1. CASE i # 1
    <3>1. i - 1 \in 1 .. k /\ 1 + (i - 1) = i
      BY <1>2, <1>7, <2>1
    <3>2. s[i] = ElementLine(f)
      BY <1>1, <1>8, <3>1
    <3>3. QED BY <1>9, <3>2, LineKinds
  <2>2. QED BY <2>1
<1>10. s[1].of = f /\ s[1].kind = "name"
  BY <1>1, <1>8, LineKinds
<1>11. SectionAt(s, 1, k)
  BY <1>1, <1>2, <1>7, <1>8, <1>10 DEF SectionAt
<1>12. Sections(s, S)
  BY <1>9, <1>10, <1>11 DEF Sections
<1>13. s = Part(f, k)
  BY <1>1, <1>3, <1>6 DEF Part
<1>14. s # <<>>
  BY <1>2, <1>7
<1>15. QED BY <1>7, <1>10, <1>12, <1>13, <1>14 DEF Whole

(* The more files may lose lines, the more is a section.                   *)
LEMMA MoreShort ==
    ASSUME NEW S, NEW T, S \subseteq T, NEW s, Whole(s, S)
    PROVE  Whole(s, T)
BY DEF Whole, Sections, Enough

(* A part grows by an element.                                             *)
LEMMA PartGrows ==
    ASSUME NEW f \in File, NEW k \in Nat
    PROVE  /\ Part(f, 0) = <<NameLine(f)>>
           /\ Part(f, k + 1) = Append(Part(f, k), ElementLine(f))
           /\ Part(f, k) \in Seq(Line)
<1>1. PICK x \in Line, y \in Line : x = NameLine(f) /\ y = ElementLine(f)
  BY DEF NameLine, ElementLine, Line
<1> DEFINE e(n) == [i \in 1 .. n |-> y]
<1>2. /\ e(0) = <<>> /\ e(k) \in Seq(Line) /\ e(k + 1) = Append(e(k), y)
      /\ <<x>> \in Seq(Line)
  <2>1. 1 .. 0 = {} /\ e(k) \in Seq(Line) /\ Len(e(k)) = k
    OBVIOUS
  <2>2. Append(e(k), y) = [i \in 1 .. k + 1 |-> IF i = k + 1 THEN y ELSE e(k)[i]]
    BY <2>1
  <2>3. e(k + 1) = Append(e(k), y)
    BY <2>2
  <2>4. QED BY <2>1, <2>3
<1> HIDE DEF e
<1>3. <<x>> \o Append(e(k), y) = Append(<<x>> \o e(k), y)
  BY <1>2, AppendToConcat
<1>4. <<x>> \o e(0) = <<x>> /\ <<x>> \o e(k) \in Seq(Line)
  <2>1. PICK a, b : a = <<x>> /\ b = e(k) /\ a \in Seq(Line) /\ b \in Seq(Line)
    BY <1>2
  <2>2. a \o b \in Seq(Line) /\ a \o <<>> = a
    BY <2>1, ConcatEmptySeq
  <2>3. QED BY <1>2, <2>1, <2>2
<1>5. \A n : Part(f, n) = <<x>> \o e(n)
  BY <1>1 DEF Part, e
<1>6. QED BY <1>1, <1>2, <1>3, <1>4, <1>5

(* Sections behind sections are sections.                                  *)
LEMMA SectionsConcat ==
    ASSUME NEW S, NEW s \in Seq(Line), Sections(s, S), NEW t, Whole(t, S)
    PROVE  /\ s \o t \in Seq(Line)
           /\ Sections(s \o t, S)
           /\ Whole(s, S) => Whole(s \o t, S)
<1>1. t \in Seq(Line) /\ Sections(t, S) /\ (t # <<>> => t[1].kind = "name")
  BY DEF Whole
<1>2. PICK m \in Nat, n \in Nat : m = Len(s) /\ n = Len(t)
  BY <1>1
<1>3. PICK r : r = s \o t
  OBVIOUS
<1>4. /\ r \in Seq(Line) /\ Len(r) = m + n
      /\ \A i \in 1 .. m + n : r[i] = IF i <= m THEN s[i] ELSE t[i - m]
  BY <1>1, <1>2, <1>3, ConcatProperties
<1>5. /\ \A i \in 1 .. m : i \in 1 .. m + n /\ r[i] = s[i]
      /\ \A i \in 1 .. n : m + i \in 1 .. m + n /\ r[m + i] = t[i]
  BY <1>4
<1>6. \A i \in 1 .. m + n : r[i] \in Line /\ NofElements[r[i].of] \in Nat
  BY <1>4, LineKinds, TaggerAssumption
<1>7. ASSUME NEW i \in 1 .. m + n, r[i].kind = "name"
      PROVE  \E k \in 0 .. NofElements[r[i].of] :
                 Enough(S, r[i].of, k) /\ SectionAt(r, i, k)
  <2>1. CASE i <= m
    <3>1. i \in 1 .. m /\ r[i] = s[i]
      BY <1>5, <2>1
    <3>2. PICK k \in 0 .. NofElements[r[i].of] :
             /\ Enough(S, r[i].of, k)
             /\ i + k <= m
             /\ \A j \in 1 .. k : s[i + j] = ElementLine(r[i].of)
             /\ i + k < m => s[i + k + 1].kind = "name"
      BY <1>2, <1>7, <3>1 DEF Sections, SectionAt
    <3>3. k \in Nat
      BY <1>6
    <3>4. ASSUME NEW j \in 1 .. k PROVE r[i + j] = ElementLine(r[i].of)
      <4>1. i + j \in 1 .. m
        BY <3>1, <3>2, <3>3
      <4>2. QED BY <1>5, <3>2, <4>1
    <3>5. ASSUME i + k < m + n PROVE r[i + k + 1].kind = "name"
      <4>1. CASE i + k < m
        <5>1. i + k + 1 \in 1 .. m
          BY <3>1, <3>3, <4>1
        <5>2. QED BY <1>5, <3>2, <4>1, <5>1
      <4>2. CASE ~(i + k < m)
        <5>1. i + k = m /\ 1 \in 1 .. n /\ i + k + 1 = m + 1 /\ n # 0
          BY <3>2, <3>3, <3>5, <4>2
        <5>2. t # <<>>
          BY <1>2, <5>1
        <5>3. r[m + 1] = t[1]
          BY <1>5, <5>1
        <5>4. QED BY <1>1, <5>1, <5>2, <5>3
      <4>3. QED BY <4>1, <4>2
    <3>6. i + k <= m + n
      BY <3>2, <3>3
    <3>7. SectionAt(r, i, k)
      BY <1>4, <3>4, <3>5, <3>6 DEF SectionAt
    <3>8. QED BY <3>2, <3>7
  <2>2. CASE ~(i <= m)
    <3>1. PICK l \in 1 .. n : l = i - m
      BY <2>2
    <3>2. i = m + l /\ r[i] = t[l]
      BY <1>5, <3>1
    <3>3. PICK k \in 0 .. NofElements[r[i].of] :
             /\ Enough(S, r[i].of, k)
             /\ l + k <= n
             /\ \A j \in 1 .. k : t[l + j] = ElementLine(r[i].of)
             /\ l + k < n => t[l + k + 1].kind = "name"
      BY <1>1, <1>2, <1>7, <3>2 DEF Sections, SectionAt
    <3>4. k \in Nat
      BY <1>6
    <3>5. ASSUME NEW j \in 1 .. k PROVE r[i + j] = ElementLine(r[i].of)
      <4>1. l + j \in 1 .. n /\ i + j = m + (l + j)
        BY <3>2, <3>3, <3>4
      <4>2. QED BY <1>5, <3>3, <4>1
    <3>6. ASSUME i + k < m + n PROVE r[i + k + 1].kind = "name"
      <4>1. l + k < n /\ l + k + 1 \in 1 .. n /\ i + k + 1 = m + (l + k + 1)
        BY <3>2, <3>4, <3>6
      <4>2. QED BY <1>5, <3>3, <4>1
    <3>7. i + k <= m + n
      BY <3>2, <3>3, <3>4
    <3>8. SectionAt(r, i, k)
      BY <1>4, <3>5, <3>6, <3>7 DEF SectionAt
    <3>9. QED BY <3>3, <3>8
  <2>3. QED BY <2>1, <2>2
<1>8. Sections(r, S)
  BY <1>4, <1>7 DEF Sections
<1>9. ASSUME Whole(s, S) PROVE Whole(r, S)
  <2>1. CASE s = <<>>
    <3>1. r = t
      BY <1>1, <1>3, <2>1, ConcatEmptySeq
    <3>2. QED BY <3>1
  <2>2. CASE s # <<>>
    <3>1. s[1].kind = "name" /\ 1 \in 1 .. m
      BY <1>2, <1>9, <2>2 DEF Whole
    <3>2. r[1] = s[1]
      BY <1>5, <3>1
    <3>3. QED BY <1>4, <1>8, <3>1, <3>2 DEF Whole
  <2>3. QED BY <2>1, <2>2
<1>10. QED BY <1>3, <1>4, <1>8, <1>9

(* No lines are sections, and files of sections put together, too.         *)
LEMMA NothingIsWhole == \A S : Whole(<<>>, S)
<1>1. <<>> \in Seq(Line) /\ Len(<<>>) = 0
  OBVIOUS
<1>2. QED BY <1>1 DEF Whole, Sections

LEMMA PartsAreWhole ==
    ASSUME NEW S, NEW parts \in [Worker -> Seq(Line)],
           \A w \in Worker : Whole(parts[w], S)
    PROVE  \A order \in Seq(Worker) : Whole(Spread(parts, order), S)
<1>1. \A a, b \in Seq(Worker) : Spread(parts, a \o b) = Spread(parts, a) \o Spread(parts, b)
  BY SpreadConcat
<1>2. ASSUME NEW w \in Worker PROVE Spread(parts, <<w>>) = parts[w]
  BY SpreadOne
<1> DEFINE T == {n \in Nat : \A s \in Seq(Worker) : Len(s) = n => Whole(Spread(parts, s), S)}
<1>3. 0 \in T
  <2>1. \A s \in Seq(Worker) : Len(s) = 0 => s = <<>>
    OBVIOUS
  <2>2. QED BY <2>1, SpreadEmpty, NothingIsWhole
<1>4. ASSUME NEW n \in Nat, n \in T PROVE n + 1 \in T
  <2> SUFFICES ASSUME NEW s \in Seq(Worker), Len(s) = n + 1
               PROVE  Whole(Spread(parts, s), S)
    OBVIOUS
  <2>1. s # <<>>
    OBVIOUS
  <2>2. PICK t \in Seq(Worker), w \in Worker : s = Append(t, w)
    BY <2>1, SequenceEmptyOrAppend
  <2>3. s = t \o <<w>> /\ <<w>> \in Seq(Worker) /\ Len(t) = n
    BY <2>2
  <2>4. Whole(Spread(parts, t), S) /\ Whole(parts[w], S)
    BY <1>4, <2>3
  <2>5. Spread(parts, s) = Spread(parts, t) \o Spread(parts, <<w>>)
    BY <1>1, <2>3
  <2>6. Spread(parts, s) = Spread(parts, t) \o parts[w]
    BY <1>2, <2>5
  <2>7. Whole(Spread(parts, t) \o parts[w], S)
    BY <2>4, SectionsConcat DEF Whole
  <2>8. QED BY <2>6, <2>7
<1> HIDE DEF T
<1>5. \A n \in Nat : n \in T
  BY <1>3, <1>4, InductiveSet
<1>6. \A s \in Seq(Worker) : Len(s) \in Nat
  OBVIOUS
<1>7. QED BY <1>5, <1>6 DEF T

-----------------------------------------------------------------------------
(* Before the first file nothing is written and nothing is loaded.         *)
LEMMA InitIInv == Init => IInv
<1> SUFFICES ASSUME Init PROVE IInv
  OBVIOUS
<1>1. CP!IInv /\ CP!StoppedAtTheEnd
  BY InitCrawler, SameTrees, CP!InitIInv DEF Init
<1>2. /\ chunkque = made /\ batch = [w \in Worker |-> <<>>]
      /\ stopped = {} /\ handed = <<>> /\ broken = {}
  BY DEF Init, Crawler!Init
<1>3. Crawler!TypeOK
  BY <1>1, CrawlerTypes DEF CP!IInv
<1>4. Cardinality(File) \in Nat
  BY TaggerAssumption, FS_CardinalityType
<1>5. TypeOK
  <2>1. posinput \in [Worker -> Seq(Line)] /\ posfile \in Seq(Line) /\ Len(posfile) = 0
        /\ elements \in Seq(Line) /\ data \in [DOMAIN data -> Seq(Line)]
    BY <1>4 DEF Init
  <2>2. bad \subseteq Worker /\ left \in BOOLEAN /\ short \subseteq File
        /\ outputs = {} /\ errorlog = {} /\ written \in [Worker -> Nat]
    BY DEF Init
  <2>3. reported \subseteq ended /\ ended \subseteq Worker
    BY DEF Init, Absent
  <2>4. docnocnt \in 0 .. Cardinality(File) /\ filemap \in [File -> 0 .. docnocnt]
        /\ line \in 0 .. 0 /\ filename \in File \cup {NoFile} /\ program = "input"
    BY <1>4 DEF Init
  <2>5. QED BY <1>3, <2>1, <2>2, <2>3, <2>4 DEF TypeOK
<1>6. WorkersInv
  BY <1>2 DEF Init, WorkersInv, Absent
<1>7. WriteInv
  BY NothingIsWhole DEF Init, WriteInv
<1>8. line = 0 /\ NamesRead = {} /\ Numbered = {}
  BY DEF Init, NamesRead, Numbered
<1>9. NumbersInv
  BY <1>8, FS_EmptySet DEF Init, NumbersInv
<1>10. LoadInv
  <2>1. SubSeq(posfile, 1, line) = <<>>
    BY <1>8, SubSeqEmpty
  <2>2. LoadingInv
    BY <1>8, <2>1 DEF Init, LoadingInv
  <2>3. Sections(posfile, short)
    BY NothingIsWhole DEF Init, Whole
  <2>4. QED BY <1>8, <2>2, <2>3 DEF Init, LoadInv
<1>11. AnsweredInv
  BY <1>2 DEF Init, AnsweredInv
<1>12. TaggedByItsOwn
  BY DEF Init, TaggedByItsOwn
<1>13. QED BY <1>1, <1>5, <1>6, <1>7, <1>9, <1>10, <1>11, <1>12 DEF IInv

(* The file at work is the first one of the worker.                        *)
LEMMA AtWork ==
    ASSUME IInv, NEW w \in Worker, batch[w] # <<>>
    PROVE  /\ batch \in [Worker -> Seq(File)]
           /\ batch[w] \in Seq(File)
           /\ CurrentFile(w) \in File
           /\ w \notin ended
<1>1. batch \in [Worker -> Seq(File)]
  BY DEF IInv, TypeOK, Crawler!TypeOK
<1>2. QED BY <1>1 DEF CurrentFile, IInv, WorkersInv

(* A line is written or lost.                                              *)
LineStep(w) == WriteLine(w) \/ LoseLine(w) \/ TextFails(w)

(* A worker returns when the crawler stops it or after an exception.       *)
LEMMA NextWorkers ==
    ASSUME IInv, [Next]_vars
    PROVE  WorkersInv'
<1> USE DEF WorkersInv
<1>1. /\ WorkersInv /\ batch \in [Worker -> Seq(File)]
      /\ stopped \subseteq Worker /\ ended \subseteq Worker /\ reported \subseteq Worker
  BY DEF IInv, TypeOK, Crawler!TypeOK
<1>2. threads' = threads
  BY DEF Next, Run, FetchFiles, WriteLine, LoseLine, TextFails, LineDone, InputThrows,
         TagFile, LogError, OutputThrows, Throw, NextFile, Tagging, Load, ReadName,
         ReadElement, RejectPosFile, LoadFails, StartOutput, Joined, Terminated, vars
<1>3. Absent' = Absent
  BY <1>2 DEF Absent
<1>4. ASSUME UNCHANGED <<crawlerVars, ended, reported>>, program' # "done"
      PROVE  WorkersInv'
  BY <1>1, <1>3, <1>4 DEF crawlerVars
<1>5. CASE UNCHANGED vars
  BY <1>1, <1>3, <1>5 DEF vars, crawlerVars
<1>6. ASSUME NEW w \in Worker, FetchFiles(w) PROVE WorkersInv'
  <2>1. /\ program' = program /\ program # "done" /\ w \notin ended /\ w \notin stopped
        /\ ended' = IF w \in stopped' THEN ended \cup {w} ELSE ended
        /\ reported' = reported
    BY <1>1, <1>6 DEF FetchFiles
  <2>2. CASE Crawler!Fetch(w)
    <3>1. PICK chunk : chunk = Head(chunkque)
      OBVIOUS
    <3>2. /\ batch' = [batch EXCEPT ![w] = chunk] /\ broken' = broken
          /\ stopped' = IF chunk = <<>> THEN stopped \cup {w} ELSE stopped
      BY <2>2, <3>1 DEF Crawler!Fetch
    <3>3. batch'[w] = chunk /\ \A v \in Worker \ {w} : batch'[v] = batch[v]
      BY <1>1, <3>2
    <3>4. ended' = stopped' \cup Absent' \cup reported' /\ ended' \subseteq ended \cup {w}
      BY <1>1, <1>3, <2>1, <3>2
    <3>5. w \in ended' => chunk = <<>>
      BY <1>1, <2>1, <3>2
    <3>6. QED BY <1>1, <2>1, <3>3, <3>4, <3>5
  <2>3. CASE Crawler!FetchNothing(w) \/ Crawler!FetchFails(w)
    BY <1>1, <1>3, <2>1, <2>3 DEF Crawler!FetchNothing, Crawler!FetchFails
  <2>4. QED BY <1>6, <2>2, <2>3 DEF FetchFiles
<1>7. ASSUME NEW w \in Worker, LineStep(w) \/ TagFile(w) \/ LogError(w)
      PROVE  WorkersInv'
  <2>1. /\ w \notin ended /\ program' = program /\ program # "done"
        /\ ended' = ended /\ reported' = reported
        /\ stopped' = stopped /\ broken' = broken
        /\ batch' = batch \/ batch' = [batch EXCEPT ![w] = Tail(@)]
    BY <1>7 DEF LineStep, WriteLine, LoseLine, TextFails, Writing, LineDone, TagFile,
       LogError, NextFile, HasFile, Crawler!FileDone
  <2>2. \A v \in Worker : v # w => batch'[v] = batch[v]
    BY <1>1, <2>1
  <2>3. QED BY <1>1, <1>3, <2>1, <2>2
<1>8. ASSUME NEW w \in Worker, InputThrows(w) \/ OutputThrows(w) PROVE WorkersInv'
  <2>1. /\ program' = program /\ program # "done"
        /\ ended' = ended \cup {w} /\ reported' = reported \cup {w}
        /\ stopped' = stopped /\ broken' = broken
        /\ batch' = [batch EXCEPT ![w] = <<>>]
    BY <1>8 DEF InputThrows, OutputThrows, Writing, Throw
  <2>2. batch'[w] = <<>> /\ \A v \in Worker : v # w => batch'[v] = batch[v]
    BY <1>1, <2>1
  <2>3. QED BY <1>1, <1>3, <2>1, <2>2
<1>9. CASE Load
  BY <1>4, <1>9 DEF Load, ReadName, ReadElement, RejectPosFile, LoadFails, StartOutput,
     Loading
<1>10. CASE Tagging
  BY <1>3, <1>10 DEF Tagging, Absent
<1>11. CASE Joined
  BY <1>1, <1>3, <1>11 DEF Joined, ErrorInMain, crawlerVars
<1>12. QED
  BY <1>5, <1>6, <1>7, <1>8, <1>9, <1>10, <1>11 DEF Next, Run, LineStep, Terminated

-----------------------------------------------------------------------------
(* Nothing is half written when all workers of the first run returned.     *)
LEMMA AllWritten ==
    ASSUME IInv, program # "input" \/ ended = Worker
    PROVE  \A w \in Worker : written[w] = 0 /\ Whole(posinput[w], short)
<1>1. \A w \in Worker : w \in ended => batch[w] = <<>>
  BY DEF IInv, WorkersInv
<1>2. QED BY <1>1 DEF IInv, WriteInv

(* A part of a sequence with the next element is the part one longer.      *)
LEMMA SubSeqNext ==
    ASSUME NEW t \in Seq(Line), NEW a \in Nat, NEW n \in Nat,
           a # 0, a <= n + 1, n + 1 <= Len(t)
    PROVE  /\ SubSeq(t, a, n) \in Seq(Line) /\ t[n + 1] \in Line
           /\ SubSeq(t, a, n + 1) = Append(SubSeq(t, a, n), t[n + 1])
<1>1. PICK u : u = SubSeq(t, a, n)
  OBVIOUS
<1>2. PICK x : x = t[n + 1]
  OBVIOUS
<1>3. x \in Line
  BY <1>2
<1>4. u \in Seq(Line)
  <2>1. \A k \in a .. n : t[k] \in Line
    OBVIOUS
  <2>2. QED BY <1>1, <2>1, SubSeqProperties
<1>5. SubSeq(t, a, n + 1) = u \o <<x>>
  <2>1. a \in 1 .. Len(t) /\ n + 1 \in a .. Len(t) /\ (n + 1) - 1 = n
    OBVIOUS
  <2>2. SubSeq(t, a, n + 1) = SubSeq(t, a, (n + 1) - 1) \o <<t[n + 1]>>
    BY <2>1, SubSeqRecursiveSecond
  <2>3. QED BY <1>1, <1>2, <2>1, <2>2
<1>6. u \o <<x>> = Append(u, x)
  BY <1>3, <1>4, AppendIsConcat
<1>7. QED BY <1>1, <1>2, <1>3, <1>4, <1>5, <1>6, Zenon

(* The part of a section a worker has written before a line, if its stream *)
(* is good.                                                                *)
PartWritten(w, f, n) ==
    \E s \in Seq(Line) : \E k \in 0 .. n - 1 :
       /\ Whole(s, short)
       /\ k = n - 1 \/ f \in short
       /\ posinput[w] = s \o Part(f, k)

(* What there is of a section when a worker has done a line of it.         *)
LEMMA LinesDone ==
    ASSUME IInv, NEW w \in Worker, LineStep(w),
           NEW f \in File, f = CurrentFile(w), NEW n \in Nat, n = written[w]
    PROVE  IF w \in bad' THEN Whole(posinput'[w], short') ELSE PartWritten(w, f, n + 1)'
<1>1. /\ WriteInv /\ posinput \in [Worker -> Seq(Line)] /\ NofElements[f] \in Nat
  BY TaggerAssumption DEF IInv, TypeOK
<1>2. /\ n # 0 => n <= NofElements[f]
      /\ n = 0 \/ w \in bad => Whole(posinput[w], short)
      /\ n # 0 /\ w \notin bad => PartWritten(w, f, n)
  BY <1>1 DEF WriteInv, PartWritten
<1>3. CASE WriteLine(w)
  <2>1. PICK x : x = InputLines(f)[n + 1]
    OBVIOUS
  <2>2. /\ w \notin bad /\ bad' = bad /\ short' = short
        /\ posinput' = [posinput EXCEPT ![w] = Append(@, x)]
    BY <1>3, <2>1 DEF WriteLine, OutputFile
  <2>3. posinput'[w] = Append(posinput[w], x)
    BY <1>1, <2>2
  <2>4. CASE n = 0
    <3>1. x = NameLine(f)
      BY <2>1, <2>4, LinesOfFile
    <3>2. Part(f, 0) = <<x>> /\ x \in Line
      BY <3>1, PartGrows DEF NameLine, Line
    <3>3. posinput'[w] = posinput[w] \o Part(f, 0)
      <4>1. PICK p \in Seq(Line) : p = posinput[w]
        BY <1>1
      <4>2. Append(p, x) = p \o <<x>>
        BY <3>2, <4>1, AppendIsConcat
      <4>3. QED BY <2>3, <3>2, <4>1, <4>2, Zenon
    <3>4. 0 \in 0 .. (n + 1) - 1 /\ 0 = (n + 1) - 1
      BY <2>4
    <3>5. Whole(posinput[w], short') /\ posinput[w] \in Seq(Line)
      BY <1>1, <1>2, <2>2, <2>4
    <3>6. QED BY <2>2, <3>3, <3>4, <3>5 DEF PartWritten
  <2>5. CASE n # 0
    <3>1. PICK s \in Seq(Line), k \in 0 .. n - 1 :
             /\ Whole(s, short) /\ (k = n - 1 \/ f \in short)
             /\ posinput[w] = s \o Part(f, k)
      BY <1>2, <2>2, <2>5 DEF PartWritten
    <3>2. n \in 1 .. NofElements[f] /\ n + 1 = 1 + n
      BY <1>1, <1>2, <2>5
    <3>3. x = ElementLine(f)
      BY <2>1, <3>2, LinesOfFile
    <3>4. x \in Line
      BY <3>3 DEF ElementLine, Line
    <3>5. /\ k \in Nat /\ k + 1 \in 0 .. (n + 1) - 1
          /\ k + 1 = (n + 1) - 1 \/ f \in short
      BY <2>5, <3>1
    <3>6. Part(f, k + 1) = Append(Part(f, k), x) /\ Part(f, k) \in Seq(Line)
      BY <3>3, <3>5, PartGrows
    <3>7. s \o Append(Part(f, k), x) = Append(s \o Part(f, k), x)
      BY <3>4, <3>6, AppendToConcat
    <3>8. posinput'[w] = s \o Part(f, k + 1)
      BY <2>3, <3>1, <3>6, <3>7, Zenon
    <3>9. PartWritten(w, f, n + 1)'
      BY <2>2, <3>1, <3>5, <3>8 DEF PartWritten
    <3>10. QED BY <2>2, <3>9
  <2>6. QED BY <2>4, <2>5
<1>4. CASE LoseLine(w) \/ TextFails(w)
  <2>1. /\ posinput' = posinput /\ short' = short \cup {f}
        /\ bad' = bad \cup {w} \/ (bad' = bad /\ n # 0)
    BY <1>4 DEF LoseLine, TextFails
  <2>2. short \subseteq short' /\ f \in short'
    BY <2>1
  <2>3. CASE n = 0 \/ w \in bad
    BY <1>2, <2>1, <2>2, <2>3, MoreShort
  <2>4. CASE n # 0 /\ w \notin bad
    <3>1. PICK s \in Seq(Line), k \in 0 .. n - 1 :
             Whole(s, short) /\ posinput[w] = s \o Part(f, k)
      BY <1>2, <2>4 DEF PartWritten
    <3>2. k \in 0 .. NofElements[f] /\ k \in 0 .. (n + 1) - 1
      BY <1>1, <1>2, <2>4
    <3>3. Whole(s, short') /\ Enough(short', f, k)
      BY <2>2, <3>1, MoreShort DEF Enough
    <3>4. CASE w \in bad'
      <4>1. Whole(Part(f, k), short')
        BY <3>2, <3>3, PartIsSection
      <4>2. Whole(s \o Part(f, k), short')
        BY <3>3, <4>1, SectionsConcat DEF Whole
      <4>3. QED BY <2>1, <3>1, <3>4, <4>2
    <3>5. CASE w \notin bad'
      <4>1. PartWritten(w, f, n + 1)'
        BY <2>1, <2>2, <3>1, <3>2, <3>3 DEF PartWritten
      <4>2. QED BY <3>5, <4>1
    <3>6. QED BY <3>4, <3>5
  <2>5. QED BY <2>3, <2>4
<1>5. QED BY <1>3, <1>4 DEF LineStep

(* A worker adds lines to its own file only, section by section.           *)
LEMMA NextWrite ==
    ASSUME IInv, [Next]_vars
    PROVE  WriteInv'
<1>1. /\ WriteInv /\ batch \in [Worker -> Seq(File)]
      /\ written \in [Worker -> Nat] /\ posinput \in [Worker -> Seq(Line)]
  BY DEF IInv, TypeOK, Crawler!TypeOK
<1>2. ASSUME UNCHANGED <<written, posinput, short>>, program # "input" \/ ended = Worker
      PROVE  WriteInv'
  BY <1>2, AllWritten DEF WriteInv
<1>3. ASSUME UNCHANGED <<inputVars, program>>, NEW w \in Worker, written[w] = 0,
             \A v \in Worker : v # w => batch'[v] = batch[v]
      PROVE  WriteInv'
  <2>1. \A v \in Worker : written[v] # 0 => batch'[v] = batch[v] /\ CurrentFile(v)' = CurrentFile(v)
    BY <1>3 DEF CurrentFile
  <2>2. UNCHANGED <<written, posinput, bad, short, program>>
    BY <1>3 DEF inputVars
  <2>3. QED BY <1>1, <1>3, <2>1, <2>2 DEF WriteInv
<1>4. ASSUME NEW w \in Worker, FetchFiles(w) PROVE WriteInv'
  <2>1. /\ UNCHANGED <<inputVars, program>> /\ batch[w] = <<>>
        /\ batch' = batch \/ batch' = [batch EXCEPT ![w] = Head(chunkque)]
    BY <1>4 DEF FetchFiles, Crawler!Fetch, Crawler!FetchNothing, Crawler!FetchFails
  <2>2. written[w] = 0
    BY <1>1, <2>1 DEF WriteInv
  <2>3. \A v \in Worker : v # w => batch'[v] = batch[v]
    BY <1>1, <2>1
  <2>4. QED BY <1>3, <2>1, <2>2, <2>3
<1>5. ASSUME NEW w \in Worker, InputThrows(w) PROVE WriteInv'
  <2>1. /\ UNCHANGED <<inputVars, program>> /\ written[w] = 0
        /\ batch' = [batch EXCEPT ![w] = <<>>]
    BY <1>5 DEF InputThrows, Throw
  <2>2. \A v \in Worker : v # w => batch'[v] = batch[v]
    BY <1>1, <2>1
  <2>3. QED BY <1>3, <2>1, <2>2
<1>6. ASSUME NEW w \in Worker, TagFile(w) \/ LogError(w) \/ OutputThrows(w) PROVE WriteInv'
  BY <1>2, <1>6 DEF TagFile, LogError, OutputThrows, NextFile, Throw, inputVars
<1>7. ASSUME Tagging \/ Load \/ Joined PROVE WriteInv'
  BY <1>2, <1>7 DEF Tagging, Load, ReadName, ReadElement, RejectPosFile, LoadFails,
     StartOutput, Joined, Loading, inputVars
<1>8. ASSUME NEW w \in Worker, LineStep(w) PROVE WriteInv'
  <2>1. PICK f \in File, n \in Nat : f = CurrentFile(w) /\ n = written[w]
    BY <1>1, <1>8, AtWork DEF LineStep, WriteLine, LoseLine, TextFails, Writing, HasFile
  <2>2. Len(InputLines(f)) = NofElements[f] + 1 /\ NofElements[f] \in Nat
    BY LinesOfFile
  <2>3. /\ program = "input" /\ program' = program /\ batch[w] # <<>>
        /\ \/ /\ n + 1 < NofElements[f] + 1
              /\ written' = [written EXCEPT ![w] = @ + 1] /\ batch' = batch
           \/ /\ ~(n + 1 < NofElements[f] + 1)
              /\ written' = [written EXCEPT ![w] = 0]
              /\ batch' = [batch EXCEPT ![w] = Tail(@)]
    BY <1>8, <2>1, <2>2
       DEF LineStep, WriteLine, LoseLine, TextFails, Writing, LineDone, HasFile
  <2>4. /\ short \subseteq short' /\ \A v \in Worker : v # w => (v \in bad' <=> v \in bad)
        /\ \/ posinput' = posinput
           \/ \E x : posinput' = [posinput EXCEPT ![w] = x]
    BY <1>8 DEF LineStep, WriteLine, LoseLine, TextFails, OutputFile
  <2>5. \A v \in Worker : v # w => /\ posinput'[v] = posinput[v] /\ batch'[v] = batch[v]
                                   /\ written'[v] = written[v]
    BY <1>1, <2>3, <2>4
  <2>6. IF w \in bad' THEN Whole(posinput'[w], short') ELSE PartWritten(w, f, n + 1)'
    BY <1>8, <2>1, LinesDone
  <2>7. n # 0 => n <= NofElements[f]
    BY <1>1, <2>1 DEF WriteInv
  <2>9. ASSUME NEW v \in Worker, v # w
        PROVE  /\ written'[v] # 0 => /\ program' = "input" /\ batch'[v] # <<>>
                                      /\ written'[v] <= NofElements[CurrentFile(v)']
               /\ written'[v] = 0 \/ v \in bad' => Whole(posinput'[v], short')
               /\ written'[v] # 0 /\ v \notin bad' =>
                     \E s \in Seq(Line) : \E k \in 0 .. written'[v] - 1 :
                        /\ Whole(s, short')
                        /\ k = written'[v] - 1 \/ CurrentFile(v)' \in short'
                        /\ posinput'[v] = s \o Part(CurrentFile(v)', k)
    <3>1. CurrentFile(v)' = CurrentFile(v)
      BY <2>5, <2>9 DEF CurrentFile
    <3>2. /\ written[v] # 0 => /\ program = "input" /\ batch[v] # <<>>
                               /\ written[v] <= NofElements[CurrentFile(v)]
          /\ written[v] = 0 \/ v \in bad => Whole(posinput[v], short)
          /\ written[v] # 0 /\ v \notin bad =>
                \E s \in Seq(Line) : \E k \in 0 .. written[v] - 1 :
                   /\ Whole(s, short)
                   /\ k = written[v] - 1 \/ CurrentFile(v) \in short
                   /\ posinput[v] = s \o Part(CurrentFile(v), k)
      BY <1>1 DEF WriteInv
    <3>3. \A s : Whole(s, short) => Whole(s, short')
      BY <2>4, MoreShort
    <3>4. /\ written'[v] = written[v] /\ batch'[v] = batch[v] /\ posinput'[v] = posinput[v]
          /\ v \in bad' <=> v \in bad
      BY <2>4, <2>5, <2>9
    <3>5. CurrentFile(v) \in short => CurrentFile(v)' \in short'
      BY <2>4, <3>1
    <3>6. written'[v] = 0 \/ v \in bad' => Whole(posinput'[v], short')
      BY <3>2, <3>3, <3>4
    <3>7. ASSUME written'[v] # 0, v \notin bad'
          PROVE  \E s \in Seq(Line) : \E k \in 0 .. written'[v] - 1 :
                    /\ Whole(s, short')
                    /\ k = written'[v] - 1 \/ CurrentFile(v)' \in short'
                    /\ posinput'[v] = s \o Part(CurrentFile(v)', k)
      <4>1. PICK s \in Seq(Line), k \in 0 .. written[v] - 1 :
                    /\ Whole(s, short)
                    /\ k = written[v] - 1 \/ CurrentFile(v) \in short
                    /\ posinput[v] = s \o Part(CurrentFile(v), k)
        BY <3>2, <3>4, <3>7
      <4>2. /\ k \in 0 .. written'[v] - 1 /\ Whole(s, short')
            /\ k = written'[v] - 1 \/ CurrentFile(v)' \in short'
            /\ posinput'[v] = s \o Part(CurrentFile(v)', k)
        BY <3>1, <3>3, <3>4, <3>5, <4>1
      <4>3. QED BY <4>2
    <3>8. QED BY <2>3, <3>1, <3>2, <3>4, <3>6, <3>7
  <2>8. CASE n + 1 < NofElements[f] + 1
    <3>1. written'[w] = n + 1 /\ batch'[w] = batch[w] /\ CurrentFile(w)' = f
      BY <1>1, <2>1, <2>3, <2>8 DEF CurrentFile
    <3>2. n + 1 # 0 /\ n + 1 <= NofElements[f]
      BY <2>2, <2>8
    <3>3. /\ written'[w] # 0 /\ batch'[w] # <<>>
          /\ written'[w] <= NofElements[CurrentFile(w)']
      BY <2>3, <3>1, <3>2
    <3>4. w \in bad' => Whole(posinput'[w], short')
      BY <2>6
    <3>5. ASSUME w \notin bad'
          PROVE  \E s \in Seq(Line) : \E k \in 0 .. written'[w] - 1 :
                        /\ Whole(s, short')
                        /\ k = written'[w] - 1 \/ CurrentFile(w)' \in short'
                        /\ posinput'[w] = s \o Part(CurrentFile(w)', k)
      BY <2>6, <3>1, <3>5 DEF PartWritten
    <3>6. QED BY <2>3, <3>3, <3>4, <3>5, <2>9 DEF WriteInv
  <2>10. CASE ~(n + 1 < NofElements[f] + 1)
    <3>1. written'[w] = 0 /\ n = NofElements[f]
      BY <1>1, <2>2, <2>3, <2>7, <2>10
    <3>2. Whole(posinput'[w], short')
      <4>1. CASE w \in bad'
        BY <2>6, <4>1
      <4>2. CASE w \notin bad'
        <5>1. PICK s \in Seq(Line), k \in 0 .. (n + 1) - 1 :
                 /\ Whole(s, short') /\ (k = (n + 1) - 1 \/ f \in short')
                 /\ posinput'[w] = s \o Part(f, k)
          BY <2>6, <4>2 DEF PartWritten
        <5>2. k \in 0 .. NofElements[f] /\ Enough(short', f, k)
          BY <2>2, <3>1, <5>1 DEF Enough
        <5>3. Whole(Part(f, k), short')
          BY <5>2, PartIsSection
        <5>4. QED BY <5>1, <5>3, SectionsConcat DEF Whole
      <4>3. QED BY <4>1, <4>2
    <3>3. QED BY <3>1, <3>2, <2>9 DEF WriteInv
  <2>11. QED BY <2>8, <2>10
<1>9. CASE UNCHANGED vars
  BY <1>1, <1>9 DEF vars, crawlerVars, inputVars, WriteInv, CurrentFile
<1>10. QED
  BY <1>4, <1>5, <1>6, <1>7, <1>8, <1>9 DEF Next, Run, LineStep, Terminated

-----------------------------------------------------------------------------
(* What is typed where, as the proofs about loading use it.                *)
LEMMA LoadTypes ==
    ASSUME IInv
    PROVE  /\ posfile \in Seq(Line) /\ line \in 0 .. Len(posfile) /\ line \in Nat
           /\ docnocnt \in Nat /\ docnocnt \in 0 .. Cardinality(File)
           /\ filemap \in [File -> 0 .. docnocnt] /\ \A f \in File : filemap[f] \in Nat
           /\ elements \in Seq(Line)
           /\ DOMAIN data = 1 .. Cardinality(File) /\ Cardinality(File) \in Nat
           /\ data \in [1 .. Cardinality(File) -> Seq(Line)]
           /\ \A i \in 1 .. Len(posfile) :
                 /\ posfile[i] \in Line /\ posfile[i].of \in File
                 /\ posfile[i].kind \in {"name", "element"}
<1>1. posfile \in Seq(Line) /\ line \in 0 .. Len(posfile)
  BY DEF IInv, TypeOK
<1>2. Cardinality(File) \in Nat
  BY TaggerAssumption, FS_CardinalityType
<1>3. /\ docnocnt \in 0 .. Cardinality(File) /\ filemap \in [File -> 0 .. docnocnt]
      /\ elements \in Seq(Line) /\ data \in [DOMAIN data -> Seq(Line)]
  BY DEF IInv, TypeOK
<1>4. DOMAIN data = 1 .. Cardinality(File)
  BY DEF IInv, NumbersInv
<1>5. \A i \in 1 .. Len(posfile) : posfile[i] \in Line
  BY <1>1
<1>6. QED BY <1>1, <1>2, <1>3, <1>4, <1>5, LineKinds

(* A name line read: its file gets the next number, the others keep theirs. *)
LEMMA NameIsRead ==
    ASSUME IInv, ReadName
    PROVE  \E f \in File :
              /\ posfile[line + 1].of = f /\ posfile[line + 1].kind = "name"
              /\ line + 1 \in 1 .. Len(posfile)
              /\ f \notin Numbered
              /\ filemap'[f] = docnocnt + 1
              /\ \A g \in File : g # f => filemap'[g] = filemap[g]
              /\ filemap' \in [File -> 0 .. docnocnt + 1]
              /\ NamesRead' = NamesRead \cup {line + 1}
              /\ \A i \in NamesRead : i < line + 1 /\ NumberOf(i)' = NumberOf(i)
              /\ Numbered' = Numbered \cup {f}
<1>1. PICK f : f = posfile[line + 1].of
  OBVIOUS
<1>2. /\ line < Len(posfile) /\ posfile[line + 1].kind = "name" /\ filemap[f] = 0
      /\ filemap' = [filemap EXCEPT ![f] = docnocnt + 1]
      /\ line' = line + 1 /\ posfile' = posfile
  BY <1>1 DEF ReadName, Loading, NextLine
<1>3. line + 1 \in 1 .. Len(posfile)
  BY <1>2, LoadTypes
<1>4. f \in File
  BY <1>1, <1>3, LoadTypes
<1>5. /\ filemap'[f] = docnocnt + 1
      /\ \A g \in File : g # f => filemap'[g] = filemap[g]
      /\ filemap' \in [File -> 0 .. docnocnt + 1]
  BY <1>2, <1>4, LoadTypes
<1>6. f \notin Numbered
  BY <1>2 DEF Numbered
<1>7. NamesRead' = NamesRead \cup {line + 1}
  <2>1. 1 .. line + 1 = (1 .. line) \cup {line + 1}
    <3>1. line \in Nat
      BY LoadTypes
    <3>2. QED BY <3>1
  <2>2. QED BY <1>2, <2>1 DEF NamesRead
<1>8. ASSUME NEW i \in NamesRead PROVE i < line + 1 /\ NumberOf(i)' = NumberOf(i)
  <2>1. i \in 1 .. line /\ i \in 1 .. Len(posfile) /\ i < line + 1
    BY LoadTypes DEF NamesRead
  <2>2. posfile[i].of \in File /\ filemap[posfile[i].of] # 0
    BY <2>1, LoadTypes DEF IInv, NumbersInv, NumberOf
  <2>3. posfile[i].of # f
    BY <1>2, <2>2
  <2>4. QED BY <1>2, <1>5, <2>1, <2>2, <2>3 DEF NumberOf
<1>9. Numbered' = Numbered \cup {f}
  BY <1>2, <1>4, <1>5, LoadTypes DEF Numbered
<1>10. QED BY <1>1, <1>2, <1>3, <1>4, <1>5, <1>6, <1>7, <1>8, <1>9

(* There are never more numbers than files.                                *)
LEMMA NumbersSuffice ==
    ASSUME IInv, ReadName
    PROVE  docnocnt + 1 = Cardinality(Numbered') /\ docnocnt + 1 <= Cardinality(File)
<1>1. PICK f \in File : f \notin Numbered /\ Numbered' = Numbered \cup {f}
  BY NameIsRead
<1>2. Numbered \subseteq File /\ IsFiniteSet(Numbered) /\ docnocnt = Cardinality(Numbered)
  <2>1. Numbered \subseteq File
    BY DEF Numbered
  <2>2. QED BY <2>1, TaggerAssumption, FS_Subset DEF IInv, NumbersInv
<1>3. Cardinality(Numbered \cup {f}) = docnocnt + 1
  BY <1>1, <1>2, FS_AddElement
<1>4. Numbered' \subseteq File
  BY <1>1, <1>2
<1>5. Cardinality(Numbered') <= Cardinality(File)
  BY <1>4, TaggerAssumption, FS_Subset
<1>6. QED BY <1>1, <1>3, <1>5

(* A line read that is no name changes nothing of this.                    *)
LEMMA ElementIsRead ==
    ASSUME IInv, ReadElement
    PROVE  NamesRead' = NamesRead /\ line + 1 \notin NamesRead
<1>1. /\ line < Len(posfile) /\ posfile[line + 1].kind = "element"
      /\ line' = line + 1 /\ posfile' = posfile
  BY DEF ReadElement, Loading, NextLine
<1>2. 1 .. line + 1 = (1 .. line) \cup {line + 1} /\ line + 1 \notin 1 .. line
  BY LoadTypes
<1>3. posfile[line + 1].kind # "name"
  BY <1>1
<1>4. QED BY <1>1, <1>2, <1>3 DEF NamesRead

(* Before the lines are read no file has a number.                         *)
LEMMA NothingRead ==
    ASSUME IInv, program = "input"
    PROVE  NamesRead = {} /\ Numbered = {} /\ line = 0 /\ posfile = <<>>
<1>1. posfile = <<>>
  BY DEF IInv, LoadInv
<1>2. line = 0
  BY <1>1, LoadTypes
<1>3. NamesRead = {}
  BY <1>2 DEF NamesRead
<1>4. QED BY <1>1, <1>2, <1>3 DEF IInv, NumbersInv

(* The steps that leave the loading alone.                                 *)
LEMMA OthersKeepLoad ==
    ASSUME [Next]_vars
    PROVE  \/ UNCHANGED loadVars
           \/ Tagging \/ ReadName \/ ReadElement \/ StartOutput
BY DEF Next, Run, FetchFiles, WriteLine, LoseLine, TextFails, LineDone, InputThrows,
       TagFile, LogError, OutputThrows, Throw, NextFile, Load, RejectPosFile, LoadFails, Joined, Terminated, vars

(* The files are numbered line by line.                                    *)
LEMMA NextNumbers ==
    ASSUME IInv, [Next]_vars
    PROVE  NumbersInv'
<1>1. NumbersInv
  BY DEF IInv
<1>2. ASSUME UNCHANGED <<posfile, filemap, docnocnt>>, NamesRead' = NamesRead,
             DOMAIN data' = DOMAIN data
      PROVE  NumbersInv'
  BY <1>1, <1>2 DEF NumbersInv, NumberOf, Numbered
<1>3. CASE UNCHANGED loadVars
  BY <1>2, <1>3 DEF loadVars, NamesRead
<1>4. CASE Tagging
  <2>1. NamesRead = {} /\ Numbered = {} /\ line = 0
    BY <1>4, NothingRead DEF Tagging
  <2>2. NamesRead' = {} /\ Numbered' = {} /\ docnocnt' = docnocnt /\ data' = data
    BY <1>4, <2>1 DEF Tagging, NamesRead, Numbered
  <2>3. QED BY <1>1, <2>1, <2>2 DEF NumbersInv
<1>5. CASE ReadElement
  BY <1>2, <1>5, ElementIsRead DEF ReadElement
<1>6. DOMAIN Insert = DOMAIN data
  BY DEF Insert
<1>7. CASE StartOutput
  BY <1>2, <1>6, <1>7 DEF StartOutput, NamesRead
<1>8. CASE ReadName
  <2>1. PICK f \in File :
           /\ posfile[line + 1].of = f
           /\ filemap'[f] = docnocnt + 1
           /\ NamesRead' = NamesRead \cup {line + 1}
           /\ \A i \in NamesRead : i < line + 1 /\ NumberOf(i)' = NumberOf(i)
           /\ Numbered' = Numbered \cup {f}
    BY <1>8, NameIsRead
  <2>2. posfile' = posfile /\ docnocnt' = docnocnt + 1 /\ data' = Insert
    BY <1>8 DEF ReadName
  <2>3. PICK n : n = line + 1
    OBVIOUS
  <2>4. NumberOf(n)' = docnocnt + 1
    BY <2>1, <2>2, <2>3 DEF NumberOf
  <2>5. ASSUME NEW i \in NamesRead
        PROVE  /\ i \in Nat /\ i < n /\ NumberOf(i)' = NumberOf(i)
               /\ NumberOf(i) # 0 /\ NumberOf(i) \in Nat /\ NumberOf(i) < docnocnt + 1
    <3>1. i \in 1 .. line /\ i \in 1 .. Len(posfile)
      BY LoadTypes DEF NamesRead
    <3>2. filemap[posfile[i].of] \in 0 .. docnocnt
      BY <3>1, LoadTypes
    <3>3. QED BY <1>1, <2>1, <2>3, <3>1, <3>2, LoadTypes DEF NumbersInv, NumberOf
  <2>6. docnocnt + 1 # 0 /\ n \in Nat
    BY <2>3, LoadTypes
  <2>7. \A i \in NamesRead' : NumberOf(i)' # 0
    BY <2>1, <2>3, <2>4, <2>5, <2>6
  <2>8. ASSUME NEW i \in NamesRead', NEW j \in NamesRead', i < j
        PROVE  NumberOf(i)' < NumberOf(j)'
    <3>1. (i \in NamesRead \/ i = n) /\ (j \in NamesRead \/ j = n)
      BY <2>1, <2>3
    <3>2. i \in NamesRead
      BY <2>5, <2>6, <2>8, <3>1
    <3>3. CASE j = n
      BY <2>4, <2>5, <3>2, <3>3
    <3>4. CASE j \in NamesRead
      BY <1>1, <2>5, <2>8, <3>2, <3>4 DEF NumbersInv
    <3>5. QED BY <3>1, <3>3, <3>4
  <2>9. \A g \in Numbered' : \E i \in NamesRead' : posfile'[i].of = g
    BY <1>1, <2>1, <2>2, <2>3 DEF NumbersInv
  <2>10. docnocnt' = Cardinality(Numbered)'
    BY <1>8, <2>2, NumbersSuffice
  <2>11. DOMAIN data' = 1 .. Cardinality(File)
    BY <1>1, <1>6, <2>2 DEF NumbersInv
  <2>12. QED BY <2>7, <2>8, <2>9, <2>10, <2>11 DEF NumbersInv
<1>9. QED BY <1>3, <1>4, <1>5, <1>7, <1>8, OthersKeepLoad

-----------------------------------------------------------------------------
(* The section of a name is what is between it and the next name line, or  *)
(* the end.                                                                *)
LEMMA SectionIs ==
    ASSUME posfile \in Seq(Line), NEW i \in Nat, NEW e \in Nat,
           i < e, e <= Len(posfile) + 1,
           \A k \in i + 1 .. e - 1 : posfile[k].kind # "name",
           e = Len(posfile) + 1 \/ posfile[e].kind = "name"
    PROVE  Section(i) = SubSeq(posfile, i + 1, e - 1)
<1> DEFINE names == {j \in DOMAIN posfile : posfile[j].kind = "name" /\ j > i}
           least == CHOOSE j \in names : \A k \in names : j <= k
<1>1. PICK n \in Nat : n = Len(posfile) /\ DOMAIN posfile = 1 .. n
  OBVIOUS
<1>2. ASSUME NEW j \in names PROVE j \in 1 .. n /\ e <= j
  <2>1. j \in 1 .. n /\ posfile[j].kind = "name" /\ j > i
    BY <1>1
  <2>2. ~(j \in i + 1 .. e - 1)
    BY <2>1
  <2>3. QED BY <2>1, <2>2
<1>3. e \in names \/ e = n + 1
  <2>1. CASE e # n + 1
    <3>1. e \in 1 .. n /\ posfile[e].kind = "name" /\ e > i
      BY <1>1, <2>1
    <3>2. QED BY <1>1, <3>1
  <2>2. QED BY <2>1
<1>4. Section(i) = SubSeq(posfile, i + 1,
                          (IF names = {} THEN Len(posfile) + 1 ELSE least) - 1)
  BY DEF Section
<1> HIDE DEF names
<1>5. CASE names = {}
  BY <1>1, <1>3, <1>4, <1>5
<1>6. CASE names # {}
  <2>1. PICK j \in names : j \in 1 .. n /\ e <= j
    BY <1>2, <1>6
  <2>2. e \in names
    BY <1>3, <2>1
  <2>3. \E l \in names : \A k \in names : l <= k
    BY <1>2, <2>2
  <2>4. least \in names /\ \A k \in names : least <= k
    BY <2>3
  <2> HIDE DEF least
  <2>5. least = e
    BY <1>2, <2>2, <2>4
  <2>6. QED BY <1>4, <1>6, <2>5
<1>7. QED BY <1>5, <1>6

(* The elements below the last name read, when the lines after it are read *)
(* up to the next name or the end.                                         *)
LEMMA Inserted ==
    ASSUME IInv, program = "load", ~Orphaned,
           line = Len(posfile) \/ (Loading /\ NextLine.kind = "name")
    PROVE  /\ NamesRead = {} => line = 0 /\ elements = <<>> /\ docnocnt = 0
           /\ \A i \in NamesRead : Insert[NumberOf(i)] = Section(i)
           /\ \A k \in DOMAIN data : k >= docnocnt + 1 => Insert[k] = <<>>
           /\ DOMAIN Insert = DOMAIN data
<1>1. LoadingInv /\ NumbersInv
  BY DEF IInv, LoadInv
<1>2. ASSUME NamesRead = {} PROVE line = 0 /\ elements = <<>> /\ docnocnt = 0
  <2>1. filename = NoFile /\ docnocnt = 0
    BY <1>2 DEF IInv, LoadInv
  <2>2. elements = <<>>
    BY <2>1 DEF Orphaned
  <2>3. PICK n \in Nat : n = line /\ n <= Len(posfile)
    BY LoadTypes
  <2>4. PICK u : u = SubSeq(posfile, 1, n)
    OBVIOUS
  <2>5. u = <<>>
    BY <1>1, <1>2, <2>2, <2>3, <2>4 DEF LoadingInv
  <2>6. n = 0
    <3>1. \A i \in 1 .. n : posfile[i] \in Line
      BY <2>3, LoadTypes
    <3>2. Len(u) = IF 1 <= n THEN n - 1 + 1 ELSE 0
      BY <2>4, <3>1, SubSeqProperties
    <3>3. QED BY <2>5, <3>2
  <2>7. QED BY <2>1, <2>2, <2>3, <2>6
<1>3. \A k : k # docnocnt => Insert[k] = data[k]
  BY LoadTypes DEF Insert
<1>4. docnocnt \in DOMAIN data => Insert[docnocnt] = elements
  BY <1>1, LoadTypes DEF Insert, LoadingInv
<1>5. ASSUME NEW i \in NamesRead PROVE Insert[NumberOf(i)] = Section(i)
  <2>1. i \in Nat /\ i <= line /\ i \in 1 .. Len(posfile) /\ line \in Nat
    BY LoadTypes DEF NamesRead
  <2>2. NumberOf(i) \in 0 .. docnocnt /\ NumberOf(i) # 0
    BY <1>1, <2>1, LoadTypes DEF NumbersInv, NumberOf
  <2>3. CASE NumberOf(i) # docnocnt
    BY <1>1, <1>3, <2>3 DEF LoadingInv
  <2>4. CASE NumberOf(i) = docnocnt
    <3>1. docnocnt \in DOMAIN data
      BY <2>2, <2>4, LoadTypes
    <3>2. elements = SubSeq(posfile, i + 1, line) /\ \A j \in NamesRead : j <= i
      BY <1>1, <2>4 DEF LoadingInv
    <3>3. \A k \in i + 1 .. (line + 1) - 1 : posfile[k].kind # "name"
      <4> SUFFICES ASSUME NEW k \in i + 1 .. (line + 1) - 1, posfile[k].kind = "name"
                   PROVE  FALSE
        OBVIOUS
      <4>1. k \in 1 .. line /\ k > i
        BY <2>1
      <4>2. k \in NamesRead
        BY <4>1 DEF NamesRead
      <4>3. QED BY <2>1, <3>2, <4>1, <4>2
    <3>4. /\ line + 1 = Len(posfile) + 1 \/ posfile[line + 1].kind = "name"
          /\ line + 1 <= Len(posfile) + 1 /\ i < line + 1 /\ line + 1 \in Nat
      <4>1. line <= Len(posfile) /\ Len(posfile) \in Nat
        BY LoadTypes
      <4>2. line = Len(posfile) \/ posfile[line + 1].kind = "name"
        BY DEF Loading, NextLine
      <4>3. QED BY <2>1, <4>1, <4>2
    <3>5. posfile \in Seq(Line)
      BY LoadTypes
    <3>6. Section(i) = SubSeq(posfile, i + 1, (line + 1) - 1)
      BY <2>1, <3>3, <3>4, <3>5, SectionIs
    <3>7. (line + 1) - 1 = line
      BY <2>1
    <3>8. QED BY <1>4, <2>4, <3>1, <3>2, <3>6, <3>7
  <2>5. QED BY <2>3, <2>4
<1>6. ASSUME NEW k \in DOMAIN data, k >= docnocnt + 1 PROVE Insert[k] = <<>>
  <2>1. k # docnocnt /\ k >= docnocnt
    BY <1>6, LoadTypes
  <2>2. QED BY <1>1, <1>3, <2>1 DEF LoadingInv
<1>7. QED BY <1>2, <1>5, <1>6 DEF Insert

(* The elements below a name are inserted when the next name is read.      *)
LEMMA NameKeepsLoad ==
    ASSUME IInv, ReadName
    PROVE  LoadInv'
<1>1. PICK n \in Nat : n = line + 1
  BY LoadTypes
<1>2. PICK d \in Nat : d = docnocnt
  BY LoadTypes
<1>3. PICK f \in File :
         /\ posfile[n].of = f /\ posfile[n].kind = "name" /\ n \in 1 .. Len(posfile)
         /\ filemap'[f] = d + 1
         /\ NamesRead' = NamesRead \cup {n}
         /\ \A i \in NamesRead : i < n /\ NumberOf(i)' = NumberOf(i)
  BY <1>1, <1>2, NameIsRead
<1>4. /\ program = "load" /\ program' = "load" /\ posfile' = posfile /\ line' = n
      /\ filename' = f /\ docnocnt' = d + 1 /\ elements' = <<>> /\ data' = Insert
  BY <1>1, <1>2, <1>3 DEF ReadName, Loading, NextLine
<1>5. /\ NamesRead = {} => line = 0 /\ elements = <<>> /\ docnocnt = 0
      /\ \A i \in NamesRead : Insert[NumberOf(i)] = Section(i)
      /\ \A k \in DOMAIN data : k >= d + 1 => Insert[k] = <<>>
      /\ DOMAIN Insert = DOMAIN data
  BY <1>2, Inserted DEF ReadName, Loading, NextLine
<1>6. NumberOf(n)' = d + 1
  BY <1>3, <1>4 DEF NumberOf
<1>7. n \in NamesRead'
  BY <1>3
<1>8. filename' # NoFile
  BY <1>4, NoFileAssumption
<1>9. posfile'[1].kind = "name"
  <2>1. CASE NamesRead = {}
    BY <1>1, <1>3, <1>4, <1>5, <2>1
  <2>2. CASE NamesRead # {}
    BY <1>4, <2>2 DEF IInv, LoadInv
  <2>3. QED BY <2>1, <2>2
<1>10. LoadingInv'
  <2>1. \A k \in DOMAIN data' : k >= docnocnt' => data'[k] = <<>>
    BY <1>4, <1>5
  <2>2. \E i \in NamesRead' : NumberOf(i)' = docnocnt'
    BY <1>4, <1>6, <1>7
  <2>3. SubSeq(posfile', n + 1, line') = <<>>
    BY <1>4, SubSeqEmpty
  <2>4. ASSUME NEW i \in NamesRead'
        PROVE  IF NumberOf(i)' = docnocnt'
               THEN elements' = SubSeq(posfile', i + 1, line') /\ \A j \in NamesRead' : j <= i
               ELSE data'[NumberOf(i)'] = Section(i)'
    <3>1. CASE i = n
      <4>1. \A j \in NamesRead' : j <= n
        <5>1. \A j \in NamesRead : j \in Nat /\ j < n
          BY <1>3 DEF NamesRead
        <5>2. QED BY <1>3, <5>1
      <4>2. QED BY <1>4, <1>6, <2>3, <3>1, <4>1
    <3>2. CASE i # n
      <4>1. i \in NamesRead
        BY <1>3, <3>2
      <4>2. NumberOf(i)' = NumberOf(i) /\ NumberOf(i) \in 0 .. d
        BY <1>2, <1>3, <4>1, LoadTypes DEF NumberOf, NamesRead
      <4>3. NumberOf(i)' # docnocnt'
        BY <1>4, <4>2
      <4>4. Section(i)' = Section(i)
        BY <1>4 DEF Section
      <4>5. QED BY <1>4, <1>5, <4>1, <4>2, <4>3, <4>4
    <3>3. QED BY <3>1, <3>2
  <2>5. QED BY <1>7, <2>1, <2>2, <2>4 DEF LoadingInv
<1>11. Sections(posfile', short')
  BY <1>4 DEF ReadName, inputVars, IInv, LoadInv
<1>12. QED BY <1>4, <1>7, <1>8, <1>9, <1>10, <1>11 DEF LoadInv

(* An element read is one more of those below the last name.               *)
LEMMA ElementKeepsLoad ==
    ASSUME IInv, ReadElement
    PROVE  LoadInv'
<1>1. PICK n \in Nat : n = line /\ n + 1 <= Len(posfile)
  BY LoadTypes DEF ReadElement, Loading
<1>2. PICK x : x = posfile[n + 1]
  OBVIOUS
<1>3. /\ program = "load" /\ program' = "load" /\ posfile' = posfile /\ line' = n + 1
      /\ elements' = Append(elements, x)
      /\ UNCHANGED <<filename, docnocnt, data, filemap, short>>
  BY <1>1, <1>2 DEF ReadElement, Loading, NextLine, inputVars
<1>4. NamesRead' = NamesRead /\ \A i : NumberOf(i)' = NumberOf(i) /\ Section(i)' = Section(i)
  BY <1>3, ElementIsRead DEF NumberOf, Section
<1>5. LoadingInv
  BY <1>3 DEF IInv, LoadInv
<1>6. ASSUME NEW a \in Nat, a # 0, a <= n + 1, elements = SubSeq(posfile, a, line)
      PROVE  elements' = SubSeq(posfile', a, line')
  <2>1. posfile \in Seq(Line)
    BY LoadTypes
  <2>2. SubSeq(posfile, a, n + 1) = Append(SubSeq(posfile, a, n), posfile[n + 1])
    BY <1>1, <1>6, <2>1, SubSeqNext
  <2>3. QED BY <1>1, <1>2, <1>3, <1>6, <2>2
<1>7. \A i \in NamesRead : i \in Nat /\ i + 1 # 0 /\ i + 1 <= n + 1 /\ i + 1 \in Nat
  BY <1>1 DEF NamesRead
<1>8. LoadingInv'
  <2>1. NamesRead' = {} => elements' = SubSeq(posfile', 1, line')
    <3>1. 1 \in Nat /\ 1 # 0 /\ 1 <= n + 1
      OBVIOUS
    <3>2. QED BY <1>4, <1>5, <1>6, <3>1 DEF LoadingInv
  <2>2. ASSUME NEW i \in NamesRead'
        PROVE  IF NumberOf(i)' = docnocnt'
               THEN elements' = SubSeq(posfile', i + 1, line') /\ \A j \in NamesRead' : j <= i
               ELSE data'[NumberOf(i)'] = Section(i)'
    BY <1>3, <1>4, <1>5, <1>6, <1>7 DEF LoadingInv
  <2>3. QED BY <1>3, <1>4, <1>5, <2>1, <2>2 DEF LoadingInv
<1>9. Sections(posfile, short)' /\ (NamesRead # {} => filename # NoFile /\ posfile[1].kind = "name")
  BY <1>3 DEF IInv, LoadInv, Sections, SectionAt, Enough
<1>10. QED BY <1>3, <1>4, <1>8, <1>9 DEF IInv, LoadInv

(* At the end of the lines those below the last name are inserted.         *)
LEMMA StartKeepsLoad ==
    ASSUME IInv, StartOutput
    PROVE  LoadInv'
<1>1. /\ program = "load" /\ program' = "output" /\ line = Len(posfile) /\ ~Orphaned
      /\ data' = Insert /\ UNCHANGED <<posfile, line, filename, docnocnt, filemap, short>>
  BY DEF StartOutput, inputVars
<1>2. NamesRead' = NamesRead /\ \A i : NumberOf(i)' = NumberOf(i) /\ Section(i)' = Section(i)
  BY <1>1 DEF NamesRead, NumberOf, Section
<1>3. /\ NamesRead = {} => line = 0
      /\ \A i \in NamesRead : Insert[NumberOf(i)] = Section(i)
  BY <1>1, Inserted
<1>4. ASSUME posfile # <<>> PROVE posfile[1].kind = "name"
  <2>1. line # 0
    BY <1>1, <1>4, LoadTypes
  <2>2. QED BY <1>3, <2>1 DEF IInv, LoadInv
<1>5. Sections(posfile, short)'
  BY <1>1 DEF IInv, LoadInv, Sections, SectionAt, Enough
<1>6. QED BY <1>1, <1>2, <1>3, <1>4, <1>5 DEF IInv, LoadInv

(* Files put together are sections, what the tagger prints ahead of them   *)
(* is no name.                                                             *)
LEMMA TaggingMakesLines ==
    ASSUME IInv, Tagging
    PROVE  posfile' \in Seq(Line) /\ Sections(posfile', short')
<1>1. PICK order \in Orders, ahead \in Ahead :
         posfile' = ahead \o FlattenSeq([i \in DOMAIN order |-> posinput[order[i]]])
  BY DEF Tagging
<1>2. posinput \in [Worker -> Seq(Line)] /\ \A w \in Worker : Whole(posinput[w], short)
  BY AllWritten DEF Tagging, IInv, TypeOK
<1>3. order \in Seq(Worker)
  BY DEF Orders
<1>4. PICK t : t = Spread(posinput, order)
  OBVIOUS
<1>5. Whole(t, short) /\ posfile' = ahead \o t
  BY <1>1, <1>2, <1>3, <1>4, PartsAreWhole DEF Spread, Each
<1>6. ahead \in Seq(Line) /\ Sections(ahead, short)
  <2>1. CASE ahead = <<>>
    BY <2>1, NothingIsWhole DEF Whole
  <2>2. ASSUME NEW f \in File, ahead = <<ElementLine(f)>>
        PROVE  ahead \in Seq(Line) /\ Sections(ahead, short)
    <3>1. PICK x : x = ElementLine(f)
      OBVIOUS
    <3>2. x \in Line /\ x.kind # "name"
      BY <3>1, LineKinds DEF ElementLine, Line
    <3>3. <<x>> \in Seq(Line) /\ Len(<<x>>) = 1 /\ <<x>>[1] = x
      BY <3>2
    <3>4. Sections(<<x>>, short)
      BY <3>2, <3>3 DEF Sections
    <3>5. QED BY <2>2, <3>1, <3>3, <3>4
  <2>3. QED BY <2>1, <2>2 DEF Ahead
<1>7. short' = short
  BY DEF Tagging
<1>8. QED BY <1>5, <1>6, <1>7, SectionsConcat

LEMMA TaggingKeepsLoad ==
    ASSUME IInv, Tagging
    PROVE  LoadInv'
<1>1. /\ NamesRead = {} /\ line = 0 /\ posfile = <<>> /\ program = "input"
  BY NothingRead DEF Tagging
<1>2. /\ program' = "load" /\ UNCHANGED <<line, filename, docnocnt, elements, filemap, data>>
  BY DEF Tagging
<1>3. Sections(posfile', short')
  BY TaggingMakesLines
<1>4. NamesRead' = {}
  BY <1>1, <1>2 DEF NamesRead
<1>5. filename = NoFile /\ docnocnt = 0 /\ LoadingInv
  BY <1>1 DEF IInv, LoadInv
<1>6. elements = <<>>
  <2>1. SubSeq(posfile, 1, 0) = <<>>
    BY SubSeqEmpty
  <2>2. QED BY <1>1, <1>5, <2>1 DEF LoadingInv
<1>7. LoadingInv'
  <2>1. SubSeq(posfile', 1, 0) = <<>>
    BY SubSeqEmpty
  <2>2. elements' = SubSeq(posfile', 1, line')
    BY <1>1, <1>2, <1>6, <2>1
  <2>3. \A k \in DOMAIN data' : k >= docnocnt' => data'[k] = <<>>
    BY <1>2, <1>5 DEF LoadingInv
  <2>4. QED BY <1>4, <2>2, <2>3 DEF LoadingInv
<1>8. QED BY <1>2, <1>3, <1>4, <1>5, <1>7 DEF LoadInv

LEMMA NextLoad ==
    ASSUME IInv, [Next]_vars
    PROVE  LoadInv'
<1>1. \/ program' = program \/ program' = "failed"
      \/ program = "output" /\ program' = "done"
      \/ Tagging \/ StartOutput
  BY DEF Next, Run, FetchFiles, WriteLine, LoseLine, TextFails, LineDone, InputThrows,
         TagFile, LogError, OutputThrows, Throw, NextFile, Load, ReadName, ReadElement, RejectPosFile, LoadFails, Joined,
         ErrorInMain, Terminated, vars
<1>2. CASE UNCHANGED loadVars /\ ~Tagging /\ ~StartOutput
  <2>1. /\ UNCHANGED <<line, posfile, filename, docnocnt, elements, filemap, data>>
        /\ NamesRead' = NamesRead
        /\ \A i : NumberOf(i)' = NumberOf(i) /\ Section(i)' = Section(i)
    BY <1>2 DEF loadVars, NamesRead, NumberOf, Section
  <2>2. LoadingInv => LoadingInv'
    BY <2>1 DEF LoadingInv
  <2>3. LoadInv
    BY DEF IInv
  <2>4. /\ program' \in {"input", "load"} => program' = program
        /\ program' \in {"output", "done"} => program \in {"output", "done"}
    BY <1>1, <1>2
  <2>5. Sections(posfile', short')
    <3>1. CASE short' = short
      BY <2>1, <2>3, <3>1 DEF LoadInv
    <3>2. CASE short' # short
      <4>1. program = "input"
        BY <1>2, <3>2 DEF Next, Run, FetchFiles, WriteLine, LoseLine, TextFails, Writing,
           InputThrows, TagFile, LogError, OutputThrows, Throw, NextFile, Load, ReadName,
           ReadElement, RejectPosFile, LoadFails, Joined, Terminated, vars, inputVars
      <4>2. posfile' = <<>>
        BY <2>1, <2>3, <4>1 DEF LoadInv
      <4>3. QED BY <4>2, NothingIsWhole DEF Whole
    <3>3. QED BY <3>1, <3>2
  <2>6. QED BY <2>1, <2>2, <2>3, <2>4, <2>5 DEF LoadInv
<1>3. QED
  BY <1>2, OthersKeepLoad, NameKeepsLoad, ElementKeepsLoad, StartKeepsLoad, TaggingKeepsLoad

-----------------------------------------------------------------------------
(* A worker of the second run leaves an output where that of its file      *)
(* belongs; another one there is replaced.                                 *)
LEMMA WriteAnswers ==
    ASSUME NEW f, NEW content, Write(f, content), UNCHANGED options
    PROVE  /\ \A g : Answered(g) => Answered(g)'
           /\ \A g : g = f => Answered(g)'
<1>1. outputs' = {o \in outputs : o.to # Target(f)} \cup
                   {[to |-> Target(f), file |-> f, elements |-> content]}
  BY DEF Write
<1>2. [to |-> Target(f), file |-> f, elements |-> content].to = Target(f)
  OBVIOUS
<1>3. \A g : Target(g)' = Target(g)
  BY DEF Target
<1>4. \E o \in outputs' : o.to = Target(f)
  BY <1>1, <1>2
<1>5. ASSUME NEW g, Answered(g) PROVE Answered(g)'
  <2>1. PICK o \in outputs : o.to = Target(g)
    BY <1>5 DEF Answered
  <2>2. CASE Target(g) = Target(f)
    BY <1>3, <1>4, <2>2 DEF Answered
  <2>3. CASE Target(g) # Target(f)
    BY <1>1, <1>3, <2>1, <2>3 DEF Answered
  <2>4. QED BY <2>2, <2>3
<1>6. QED BY <1>3, <1>4, <1>5 DEF Answered

(* A file leaves its worker with an output or takes the rest of the chunk  *)
(* with it, and a chunk goes to a worker whole.                            *)
LEMMA NextAnswered ==
    ASSUME IInv, [Next]_vars
    PROVE  AnsweredInv'
<1>1. /\ AnsweredInv /\ batch \in [Worker -> Seq(File)] /\ handed \in Seq(Seq(File))
      /\ chunkque \in Seq(Seq(File))
  BY DEF IInv, TypeOK, Crawler!TypeOK
<1>2. ASSUME UNCHANGED <<outputs, options, batch, handed, reported>>,
             \/ program' = program \/ program' = "failed"
             \/ program = "output" /\ program' = "done"
      PROVE  AnsweredInv'
  <2>1. \A at : Covers(at) => Covers(at)'
    BY <1>2 DEF Covers, Answered, Target
  <2>2. QED BY <1>1, <1>2, <2>1 DEF AnsweredInv
<1>3. ASSUME outputs' = outputs, program = "input", program' = "input"
      PROVE  AnsweredInv'
  BY <1>1, <1>3 DEF AnsweredInv
<1>4. CASE UNCHANGED vars
  BY <1>2, <1>4 DEF vars, crawlerVars, outputVars
<1>5. CASE Joined
  <2>1. CASE program = "output"
    BY <1>2, <1>5, <2>1 DEF Joined, crawlerVars, outputVars
  <2>2. CASE program # "output"
    BY <1>2, <1>5, <2>2 DEF Joined, crawlerVars, outputVars
  <2>3. QED BY <2>1, <2>2
<1>6. ASSUME outputs' = {}, handed' = <<>> PROVE AnsweredInv'
  <2>1. DOMAIN handed' = {} /\ Len(handed') = 0
    BY <1>6
  <2>2. PICK at : at = [w \in Worker |-> 0]
    OBVIOUS
  <2>3. at \in [Worker -> 0 .. Len(handed')] /\ Covers(at)'
    BY <2>1, <2>2 DEF Covers
  <2>4. QED BY <1>6, <2>3 DEF AnsweredInv
<1>7. CASE Tagging
  BY <1>1, <1>6, <1>7 DEF Tagging, AnsweredInv, outputVars
<1>8. CASE Load
  <2>1. program = "load" /\ UNCHANGED <<outputs, handed>>
    BY <1>8 DEF Load, ReadName, ReadElement, RejectPosFile, LoadFails, StartOutput,
       Loading, crawlerVars, outputVars
  <2>2. QED BY <1>1, <1>6, <2>1 DEF AnsweredInv
<1>9. ASSUME NEW w \in Worker, LineStep(w) \/ InputThrows(w) PROVE AnsweredInv'
  BY <1>3, <1>9 DEF LineStep, WriteLine, LoseLine, TextFails, Writing, LineDone,
     InputThrows, Throw, outputVars
<1>10. ASSUME NEW w \in Worker, OutputThrows(w) PROVE AnsweredInv'
  <2>1. /\ program = "output" /\ program' = "output" /\ UNCHANGED <<outputs, options, handed>>
        /\ reported' = reported \cup {w} /\ batch' = [batch EXCEPT ![w] = <<>>]
    BY <1>10 DEF OutputThrows, Throw
  <2>2. \A v \in Worker : v # w => batch'[v] = batch[v]
    BY <1>1, <2>1
  <2>3. \A f : Answered(f) => Answered(f)'
    BY <2>1 DEF Answered, Target
  <2>4. \A at : Covers(at) => Covers(at)'
    BY <2>1, <2>2, <2>3 DEF Covers
  <2>5. QED BY <1>1, <2>1, <2>4 DEF AnsweredInv
<1>11. ASSUME NEW w \in Worker, TagFile(w) \/ LogError(w) PROVE AnsweredInv'
  <2>1. PICK f \in File : f = CurrentFile(w) /\ batch[w] # <<>> /\ batch[w] \in Seq(File)
    BY <1>11, AtWork DEF TagFile, LogError, HasFile
  <2>2. /\ program = "output" /\ program' = "output"
        /\ UNCHANGED <<options, handed, reported>>
        /\ batch' = [batch EXCEPT ![w] = Tail(@)]
        /\ \E content : Write(f, content)
    BY <1>11, <2>1 DEF TagFile, LogError, NextFile, Crawler!FileDone
  <2>3. PICK content : Write(f, content)
    BY <2>2
  <2>4. \A g : Answered(g) \/ g = f => Answered(g)'
    BY <2>2, <2>3, WriteAnswers
  <2>5. ASSUME NEW v \in Worker, NEW g, Holds(batch[v], g), g # f
        PROVE  Holds(batch'[v], g)
    <3>1. PICK j \in DOMAIN batch[v] : batch[v][j] = g
      BY <2>5 DEF Holds
    <3>2. CASE v # w
      BY <1>1, <2>2, <2>5, <3>2
    <3>3. CASE v = w
      <4>1. batch[w][1] = f
        BY <2>1 DEF CurrentFile
      <4>2. j \in 1 .. Len(batch[w]) /\ j # 1 /\ Len(batch[w]) \in Nat
        BY <2>1, <2>5, <3>1, <3>3, <4>1
      <4>3. j - 1 \in DOMAIN Tail(batch[w]) /\ Tail(batch[w])[j - 1] = batch[w][j]
        BY <2>1, <4>2
      <4>4. batch'[w] = Tail(batch[w])
        BY <1>1, <2>2
      <4>5. QED BY <3>1, <3>3, <4>3, <4>4 DEF Holds
    <3>4. QED BY <3>2, <3>3
  <2>6. ASSUME NEW at, Covers(at), NEW i \in DOMAIN handed, NEW k \in DOMAIN handed[i],
               NEW g, g = handed[i][k]
        PROVE  \/ Answered(g)'
               \/ \E v \in Worker : at[v] = i /\ (v \in reported \/ Holds(batch'[v], g))
    <3>1. \/ Answered(g)
          \/ \E v \in Worker : at[v] = i /\ (v \in reported \/ Holds(batch[v], g))
      BY <2>6 DEF Covers
    <3>2. QED BY <2>4, <2>5, <3>1
  <2>7. \A at : Covers(at) => Covers(at)'
    BY <2>2, <2>6 DEF Covers
  <2>8. QED BY <1>1, <2>2, <2>7 DEF AnsweredInv
<1>12. ASSUME NEW w \in Worker, FetchFiles(w) PROVE AnsweredInv'
  <2>1. /\ UNCHANGED <<outputs, options, program, reported>> /\ batch[w] = <<>>
        /\ program \in {"input", "output"} /\ w \notin reported
    BY <1>12 DEF FetchFiles, outputVars, Crawler!Fetch, Crawler!FetchNothing,
       Crawler!FetchFails, IInv, TypeOK
  <2>2. CASE program = "input"
    BY <1>3, <2>1, <2>2
  <2>3. CASE Crawler!FetchNothing(w) \/ Crawler!FetchFails(w)
    BY <1>2, <2>1, <2>3 DEF Crawler!FetchNothing, Crawler!FetchFails
  <2>4. CASE program = "output" /\ Crawler!Fetch(w)
    <3>1. PICK chunk \in Seq(File) : chunk = Head(chunkque)
      BY <1>1, <2>4 DEF Crawler!Fetch
    <3>2. /\ batch' = [batch EXCEPT ![w] = chunk]
          /\ handed' = Append(handed, chunk)
      BY <2>4, <3>1 DEF Crawler!Fetch
    <3>3. PICK m \in Nat : m = Len(handed)
      BY <1>1
    <3>4. /\ DOMAIN handed' = 1 .. m + 1 /\ DOMAIN handed = 1 .. m /\ Len(handed') = m + 1
          /\ \A i \in 1 .. m : handed'[i] = handed[i]
          /\ handed'[m + 1] = chunk
      BY <1>1, <3>2, <3>3
    <3>5. batch'[w] = chunk /\ \A v \in Worker : v # w => batch'[v] = batch[v]
      BY <1>1, <3>2
    <3>6. PICK at \in [Worker -> 0 .. m] : Covers(at)
      BY <1>1, <2>4, <3>3 DEF AnsweredInv
    <3>7. PICK new : new = [at EXCEPT ![w] = m + 1]
      OBVIOUS
    <3>8. /\ new \in [Worker -> 0 .. m + 1] /\ new[w] = m + 1
          /\ \A v \in Worker : v # w => new[v] = at[v]
      <4>1. /\ m + 1 \in 0 .. m + 1 /\ \A v \in Worker : at[v] \in 0 .. m + 1
        OBVIOUS
      <4>2. QED BY <3>6, <3>7, <4>1
    <3>9. \A f : Answered(f) => Answered(f)'
      BY <2>1 DEF Answered, Target
    <3>10. ASSUME NEW i \in 1 .. m + 1, NEW k \in DOMAIN handed'[i], NEW f, f = handed'[i][k]
           PROVE  \/ Answered(f)'
                  \/ \E v \in Worker : new[v] = i /\ (v \in reported \/ Holds(batch'[v], f))
      <4>1. CASE i = m + 1
        <5>1. Holds(batch'[w], f)
          BY <3>4, <3>5, <3>10, <4>1 DEF Holds
        <5>2. QED BY <3>8, <4>1, <5>1
      <4>2. CASE i # m + 1
        <5>1. i \in 1 .. m
          BY <4>2
        <5>2. i \in DOMAIN handed /\ k \in DOMAIN handed[i] /\ f = handed[i][k]
          BY <3>4, <3>10, <5>1
        <5>3. CASE Answered(f)
          BY <3>9, <5>3
        <5>4. ASSUME NEW v \in Worker, at[v] = i, v \in reported \/ Holds(batch[v], f)
              PROVE  new[v] = i /\ (v \in reported \/ Holds(batch'[v], f))
          <6>1. ~ Holds(<<>>, f)
            BY DEF Holds
          <6>2. v # w
            BY <2>1, <5>4, <6>1
          <6>3. QED BY <3>5, <3>8, <5>4, <6>2
        <5>5. QED BY <3>6, <5>2, <5>3, <5>4 DEF Covers
      <4>3. QED BY <4>1, <4>2
    <3>11. Covers(new)'
      BY <2>1, <3>4, <3>10 DEF Covers
    <3>12. QED BY <1>1, <2>1, <2>4, <3>4, <3>8, <3>11 DEF AnsweredInv
  <2>5. QED BY <1>12, <2>1, <2>2, <2>3, <2>4 DEF FetchFiles
<1>13. QED
  BY <1>4, <1>5, <1>7, <1>8, <1>9, <1>10, <1>11, <1>12 DEF Next, Run, LineStep, Terminated

-----------------------------------------------------------------------------
(* What the second run has for a file it knows are elements of it, all of  *)
(* them if none was lost.                                                  *)
LEMMA TaggedIsOwn ==
    ASSUME IInv, program = "output", NEW f \in File, filemap[f] # 0
    PROVE  Tagged(f) = ElementsOf(f) \/ (f \in short /\ PartOf(Tagged(f), f))
<1>1. f \in Numbered
  BY DEF Numbered
<1>2. PICK i \in NamesRead : posfile[i].of = f
  BY <1>1 DEF IInv, NumbersInv
<1>3. data[NumberOf(i)] = Section(i) /\ Sections(posfile, short)
  BY DEF IInv, LoadInv
<1>4. NofElements[f] \in Nat
  BY TaggerAssumption
<1>5. i \in 1 .. Len(posfile) /\ posfile[i].kind = "name" /\ posfile \in Seq(Line)
  BY LoadTypes DEF NamesRead
<1>6. PICK n \in 0 .. NofElements[f] :
         /\ Enough(short, f, n)
         /\ i + n <= Len(posfile)
         /\ \A k \in 1 .. n : posfile[i + k] = ElementLine(f)
         /\ i + n < Len(posfile) => posfile[i + n + 1].kind = "name"
  BY <1>2, <1>3, <1>5 DEF Sections, SectionAt
<1>12. n \in Nat
  BY <1>4
<1>7. Section(i) = SubSeq(posfile, i + 1, i + n)
  <2>1. \A k \in i + 1 .. (i + n + 1) - 1 : posfile[k].kind # "name"
    <3> SUFFICES ASSUME NEW k \in i + 1 .. (i + n + 1) - 1 PROVE posfile[k].kind # "name"
      OBVIOUS
    <3>1. k - i \in 1 .. n /\ i + (k - i) = k
      BY <1>5, <1>12
    <3>2. posfile[k] = ElementLine(f)
      BY <1>6, <3>1
    <3>3. QED BY <3>2, LineKinds
  <2>2. /\ i \in Nat /\ i + n + 1 \in Nat /\ i < i + n + 1
        /\ i + n + 1 <= Len(posfile) + 1 /\ (i + n + 1) - 1 = i + n
        /\ i + n + 1 = Len(posfile) + 1 \/ i + n < Len(posfile)
    <3>1. PICK l \in Nat : l = Len(posfile)
      BY <1>5
    <3>2. i \in Nat /\ i + n <= l
      BY <1>5, <1>6, <1>12, <3>1
    <3>3. /\ i + n + 1 \in Nat /\ i < i + n + 1
          /\ i + n + 1 <= l + 1 /\ (i + n + 1) - 1 = i + n
          /\ i + n + 1 = l + 1 \/ i + n < l
      BY <1>12, <3>2
    <3>4. QED BY <3>1, <3>2, <3>3
  <2>3. i + n + 1 = Len(posfile) + 1 \/ posfile[i + n + 1].kind = "name"
    BY <1>6, <2>2
  <2>4. Section(i) = SubSeq(posfile, i + 1, (i + n + 1) - 1)
    BY <1>5, <2>1, <2>2, <2>3, SectionIs
  <2>5. QED BY <2>2, <2>4
<1>8. PICK u : u = SubSeq(posfile, i + 1, i + n)
  OBVIOUS
<1>9. u \in Seq(Line) /\ Len(u) = n /\ \A k \in 1 .. n : u[k] = ElementLine(f)
  <2>1. /\ i + 1 \in Int /\ i + n \in Int
        /\ \A k \in i + 1 .. i + n : posfile[k] \in Line
    BY <1>5, <1>6, <1>12
  <2>2. /\ u \in Seq(Line) /\ Len(u) = IF i + 1 <= i + n THEN (i + n) - (i + 1) + 1 ELSE 0
        /\ \A k \in 1 .. (i + n) - (i + 1) + 1 : u[k] = posfile[(i + 1) + k - 1]
    BY <1>5, <1>8, <2>1, SubSeqProperties
  <2>3. Len(u) = n /\ \A k \in 1 .. n : u[k] = posfile[i + k]
    <3>1. (i + n) - (i + 1) + 1 = n /\ \A k \in 1 .. n : (i + 1) + k - 1 = i + k
      BY <1>5, <1>12
    <3>2. i + 1 <= i + n <=> n # 0
      BY <1>5, <1>12
    <3>3. QED BY <2>2, <3>1, <3>2
  <2>4. QED BY <1>6, <2>2, <2>3
<1>10. u = [k \in 1 .. n |-> ElementLine(f)]
  BY <1>9, <1>12
<1>11. u = Tagged(f)
  BY <1>2, <1>3, <1>7, <1>8 DEF Tagged, NumberOf
<1>13. CASE n = NofElements[f]
  BY <1>10, <1>11, <1>13 DEF ElementsOf
<1>14. CASE n # NofElements[f]
  <2>1. f \in short
    BY <1>6, <1>14 DEF Enough
  <2>2. n \in 0 .. NofElements[f] - 1
    BY <1>4, <1>6, <1>14
  <2>3. QED BY <1>10, <1>11, <2>1, <2>2 DEF PartOf
<1>15. QED BY <1>13, <1>14

(* An output has the elements of its file, or is empty and listed.         *)
LEMMA NextTagged ==
    ASSUME IInv, [Next]_vars
    PROVE  TaggedByItsOwn'
<1>1. TaggedByItsOwn
  BY DEF IInv
<1>2. ASSUME outputs' = outputs, errorlog \subseteq errorlog', short \subseteq short'
      PROVE  TaggedByItsOwn'
  BY <1>1, <1>2 DEF TaggedByItsOwn
<1>3. ASSUME NEW w \in Worker, TagFile(w) PROVE TaggedByItsOwn'
  <2>1. PICK f \in File : f = CurrentFile(w)
    BY <1>3, AtWork DEF TagFile, HasFile
  <2>2. /\ program = "output" /\ filemap[f] # 0 /\ Write(f, Tagged(f))
        /\ errorlog' = errorlog /\ short' = short
    BY <1>3, <2>1 DEF TagFile, NextFile, inputVars
  <2>3. Tagged(f) = ElementsOf(f) \/ (f \in short /\ PartOf(Tagged(f), f))
    BY <2>2, TaggedIsOwn
  <2>4. \A o \in outputs' : o \in outputs \/ (o.elements = Tagged(f) /\ o.file = f)
    BY <2>2 DEF Write
  <2>5. QED BY <1>1, <2>2, <2>3, <2>4 DEF TaggedByItsOwn
<1>4. ASSUME NEW w \in Worker, LogError(w) PROVE TaggedByItsOwn'
  <2>1. PICK f : f = CurrentFile(w)
    OBVIOUS
  <2>2. Write(f, <<>>) /\ errorlog' = errorlog \cup {f} /\ short' = short
    BY <1>4, <2>1 DEF LogError, NextFile, inputVars
  <2>3. \A o \in outputs' : o \in outputs \/ (o.elements = <<>> /\ o.file = f)
    BY <2>2 DEF Write
  <2>4. QED BY <1>1, <2>2, <2>3 DEF TaggedByItsOwn
<1>5. ASSUME NEW w \in Worker, OutputThrows(w) PROVE TaggedByItsOwn'
  BY <1>2, <1>5 DEF OutputThrows, Throw, inputVars
<1>6. ASSUME NEW w \in Worker, FetchFiles(w) \/ LineStep(w) \/ InputThrows(w)
      PROVE TaggedByItsOwn'
  BY <1>2, <1>6 DEF FetchFiles, LineStep, WriteLine, LoseLine, TextFails, LineDone,
     InputThrows, Throw, inputVars, outputVars
<1>7. CASE Tagging \/ Load \/ Joined
  BY <1>2, <1>7 DEF Tagging, Load, ReadName, ReadElement, RejectPosFile, LoadFails,
     StartOutput, Joined, inputVars, outputVars
<1>8. CASE UNCHANGED vars
  BY <1>2, <1>8 DEF vars, inputVars, outputVars
<1>9. QED
  BY <1>3, <1>4, <1>5, <1>6, <1>7, <1>8 DEF Next, Run, LineStep, Terminated

-----------------------------------------------------------------------------
(* The types: lines of files, numbers of files.                            *)
LEMMA NextTypes ==
    ASSUME IInv, [Next]_vars
    PROVE  TypeOK'
<1>1. Crawler!TypeOK'
  <2>1. CP!TypeOK'
    BY NextCrawler DEF IInv, CP!IInv
  <2>2. QED BY <2>1 DEF CP!TypeOK, Crawler!TypeOK, CP!Readings, Crawler!Readings
<1>2. /\ TypeOK /\ batch \in [Worker -> Seq(File)]
  BY DEF IInv, TypeOK, Crawler!TypeOK
<1> DEFINE ProgramType == /\ program \in {"input", "load", "output", "done", "failed"}
                          /\ reported \subseteq ended /\ ended \subseteq Worker
           InputType == /\ written \in [Worker -> Nat] /\ posinput \in [Worker -> Seq(Line)]
                        /\ bad \subseteq Worker /\ short \subseteq File
           LoadType == /\ posfile \in Seq(Line)
                       /\ line \in 0 .. Len(posfile)
                       /\ filename \in File \cup {NoFile}
                       /\ docnocnt \in 0 .. Cardinality(File)
                       /\ elements \in Seq(Line) /\ data \in [DOMAIN data -> Seq(Line)]
                       /\ filemap \in [File -> 0 .. docnocnt]
           OutputType == /\ outputs \subseteq [to : File \cup {BaseName[f] : f \in File},
                                               file : File, elements : Seq(Line)]
                         /\ errorlog \subseteq File
<1>3. ProgramType'
  <2>1. \/ program' = program
        \/ program' \in {"input", "load", "output", "done", "failed"}
    BY DEF Next, Run, FetchFiles, WriteLine, LoseLine, TextFails, LineDone, InputThrows,
       TagFile, LogError, OutputThrows, Throw, NextFile, Tagging, Load, ReadName, ReadElement, RejectPosFile,
       LoadFails, StartOutput, Joined, Loading, Terminated, vars
  <2>2. /\ program \in {"input", "load", "output", "done", "failed"}
        /\ reported \subseteq ended /\ ended \subseteq Worker
    BY <1>2 DEF TypeOK
  <2>3. ASSUME UNCHANGED reported, ended' = ended \/ \E w \in Worker : ended' = ended \cup {w}
        PROVE  reported' \subseteq ended' /\ ended' \subseteq Worker
    BY <2>2, <2>3
  <2>4. ASSUME NEW w \in Worker, Run(w)
        PROVE  reported' \subseteq ended' /\ ended' \subseteq Worker
    <3>1. CASE InputThrows(w) \/ OutputThrows(w)
      BY <2>2, <3>1 DEF InputThrows, OutputThrows, Throw
    <3>2. CASE FetchFiles(w)
      BY <2>3, <3>2 DEF FetchFiles
    <3>3. CASE LineStep(w) \/ TagFile(w) \/ LogError(w)
      BY <2>3, <3>3 DEF LineStep, WriteLine, LoseLine, TextFails, LineDone, TagFile,
         LogError, NextFile
    <3>4. QED BY <2>4, <3>1, <3>2, <3>3 DEF Run, LineStep
  <2>5. CASE Tagging
    BY <2>5 DEF Tagging, Absent
  <2>6. CASE Load \/ Joined \/ UNCHANGED vars
    <3>1. ended' = ended /\ reported' = reported
      BY <2>6 DEF Load, ReadName, ReadElement, RejectPosFile, LoadFails, StartOutput,
         Joined, vars
    <3>2. QED BY <2>1, <2>2, <3>1, Zenon
  <2>7. QED BY <2>1, <2>2, <2>4, <2>5, <2>6 DEF Next, Terminated
<1>4. InputType'
  <2>1. ASSUME UNCHANGED inputVars PROVE InputType'
    BY <1>2, <2>1 DEF TypeOK, inputVars
  <2>2. ASSUME NEW w \in Worker, LineStep(w) PROVE InputType'
    <3>1. PICK f \in File, n \in Nat : f = CurrentFile(w) /\ n = written[w]
      BY <1>2, <2>2, AtWork
         DEF LineStep, WriteLine, LoseLine, TextFails, Writing, HasFile, TypeOK
    <3>2. Len(InputLines(f)) = NofElements[f] + 1 /\ InputLines(f) \in Seq(Line)
          /\ NofElements[f] \in Nat
      BY LinesOfFile
    <3>3. n + 1 \in 1 .. Len(InputLines(f))
      BY <3>1, <3>2 DEF IInv, WriteInv
    <3>4. PICK x \in Line : x = InputLines(f)[n + 1]
      BY <3>2, <3>3
    <3>5. /\ \/ posinput' = [posinput EXCEPT ![w] = Append(posinput[w], x)]
             \/ posinput' = posinput
          /\ \/ written' = [written EXCEPT ![w] = @ + 1]
             \/ written' = [written EXCEPT ![w] = 0]
      BY <2>2, <3>1, <3>4
         DEF LineStep, WriteLine, LoseLine, TextFails, LineDone, OutputFile
    <3>6. posinput' \in [Worker -> Seq(Line)]
      <4>1. posinput \in [Worker -> Seq(Line)]
        BY <1>2 DEF TypeOK
      <4>2. PICK z \in Seq(Line) : z = posinput[w]
        BY <4>1
      <4>3. Append(z, x) \in Seq(Line)
        OBVIOUS
      <4>4. PICK y \in Seq(Line) : y = Append(z, x)
        BY <4>3
      <4>5. posinput' = posinput \/ posinput' = [posinput EXCEPT ![w] = y]
        BY <3>5, <4>2, <4>4, Zenon
      <4>6. QED BY <4>1, <4>5
    <3>7. written' \in [Worker -> Nat]
      <4>1. written \in [Worker -> Nat] /\ 0 \in Nat /\ written[w] + 1 \in Nat
        BY <1>2 DEF TypeOK
      <4>2. QED BY <3>5, <4>1
    <3>8. bad' \subseteq Worker /\ short' \subseteq File
      <4>1. bad' \subseteq bad \cup {w} /\ short' \subseteq short \cup {f}
        BY <2>2, <3>1 DEF LineStep, WriteLine, LoseLine, TextFails
      <4>2. bad \subseteq Worker /\ short \subseteq File
        BY <1>2 DEF TypeOK
      <4>3. QED BY <4>1, <4>2
    <3>9. QED BY <3>6, <3>7, <3>8
  <2>3. CASE Tagging
    <3>1. UNCHANGED <<written, posinput, short>> /\ bad' = {}
      BY <2>3 DEF Tagging
    <3>2. QED BY <1>2, <3>1 DEF TypeOK
  <2>4. ASSUME ~ \E w \in Worker : LineStep(w), ~ Tagging PROVE UNCHANGED inputVars
    BY <2>4 DEF Next, Run, LineStep, FetchFiles, InputThrows, TagFile, LogError,
       OutputThrows, Throw, NextFile, Load, ReadName, ReadElement, RejectPosFile,
       LoadFails, StartOutput, Joined, Terminated, vars
  <2>5. QED BY <2>1, <2>2, <2>3, <2>4
<1>8. left' \in BOOLEAN
  <2>1. left \in BOOLEAN /\ (~threads) \in BOOLEAN
    BY <1>2 DEF TypeOK
  <2>2. left' \in {left, FALSE, ~threads}
    BY DEF Next, Run, FetchFiles, WriteLine, LoseLine, TextFails, InputThrows, TagFile,
       LogError, OutputThrows, Throw, Tagging, Load, ReadName, ReadElement,
       RejectPosFile, LoadFails, StartOutput, Joined, Terminated, vars
  <2>3. QED BY <2>1, <2>2
<1>5. LoadType'
  <2>1. CASE UNCHANGED loadVars
    BY <1>2, <2>1 DEF TypeOK, loadVars
  <2>2. Insert \in [DOMAIN Insert -> Seq(Line)]
    BY <1>2 DEF TypeOK, Insert
  <2>3. CASE StartOutput
    <3>1. <<>> \in Seq(Line)
      OBVIOUS
    <3>2. QED BY <1>2, <2>2, <2>3, <3>1 DEF TypeOK, StartOutput
  <2>4. CASE ReadElement
    <3>1. PICK x : x = posfile[line + 1]
      OBVIOUS
    <3>2. line + 1 \in 1 .. Len(posfile) /\ line + 1 \in 0 .. Len(posfile)
      BY <2>4, LoadTypes DEF ReadElement, Loading
    <3>3. x \in Line
      BY <3>1, <3>2, LoadTypes
    <3>4. elements' = Append(elements, x) /\ line' = line + 1
          /\ UNCHANGED <<posfile, filename, docnocnt, filemap, data>>
      BY <2>4, <3>1 DEF ReadElement, NextLine
    <3>5. elements' \in Seq(Line)
      BY <1>2, <3>3, <3>4 DEF TypeOK
    <3>6. QED BY <1>2, <3>2, <3>4, <3>5 DEF TypeOK
  <2>5. CASE ReadName
    <3>1. /\ data' = Insert /\ elements' = <<>> /\ filename' = posfile[line + 1].of
          /\ docnocnt' = docnocnt + 1 /\ line' = line + 1 /\ posfile' = posfile
      BY <2>5 DEF ReadName, NextLine
    <3>2. /\ line + 1 \in 1 .. Len(posfile) /\ filename' \in File
          /\ filemap' \in [File -> 0 .. docnocnt + 1]
      BY <2>5, <3>1, NameIsRead
    <3>3. docnocnt + 1 <= Cardinality(File)
      BY <2>5, NumbersSuffice
    <3>4. docnocnt + 1 \in 0 .. Cardinality(File) /\ line + 1 \in 0 .. Len(posfile)
      BY <3>2, <3>3, LoadTypes
    <3>5. <<>> \in Seq(Line)
      OBVIOUS
    <3>6. QED BY <1>2, <2>2, <3>1, <3>2, <3>4, <3>5 DEF TypeOK
  <2>6. CASE Tagging
    <3>1. /\ line' = 0 /\ UNCHANGED <<filename, docnocnt, elements, filemap, data>>
      BY <2>6, NothingRead DEF Tagging
    <3>2. posfile' \in Seq(Line)
      BY <2>6, TaggingMakesLines
    <3>3. 0 \in 0 .. Len(posfile')
      BY <3>2
    <3>4. QED BY <1>2, <3>1, <3>2, <3>3 DEF TypeOK
  <2>7. QED BY <2>1, <2>3, <2>4, <2>5, <2>6, OthersKeepLoad
<1>6. OutputType'
  <2>1. ASSUME outputs' = outputs, errorlog' \subseteq File PROVE OutputType'
    BY <1>2, <2>1 DEF TypeOK
  <2>2. ASSUME NEW w \in Worker, NEW f \in File, f = CurrentFile(w),
               NEW content \in Seq(Line), Write(f, content), errorlog' \subseteq File
        PROVE  OutputType'
    <3>1. Target(f) \in File \cup {BaseName[g] : g \in File}
      BY DEF Target
    <3>2. [to |-> Target(f), file |-> f, elements |-> content]
             \in [to : File \cup {BaseName[g] : g \in File}, file : File, elements : Seq(Line)]
      BY <3>1
    <3>3. QED BY <1>2, <2>2, <3>2 DEF TypeOK, Write
  <2>3. ASSUME NEW w \in Worker, TagFile(w) PROVE OutputType'
    <3>1. PICK f \in File : f = CurrentFile(w)
      BY <2>3, AtWork DEF TagFile, HasFile
    <3>2. /\ program = "output" /\ filemap[f] # 0 /\ Write(f, Tagged(f))
          /\ errorlog' = errorlog
      BY <2>3, <3>1 DEF TagFile
    <3>3. Tagged(f) \in Seq(Line)
      <4>1. CASE Tagged(f) = ElementsOf(f)
        BY <4>1, LinesOfFile
      <4>2. CASE PartOf(Tagged(f), f)
        <5>1. PICK n \in 0 .. NofElements[f] - 1 :
                 Tagged(f) = [i \in 1 .. n |-> ElementLine(f)]
          BY <4>2 DEF PartOf
        <5>2. n \in Nat /\ ElementLine(f) \in Line
          BY LinesOfFile DEF ElementLine, Line
        <5>3. QED BY <5>1, <5>2
      <4>3. QED BY <3>2, <4>1, <4>2, TaggedIsOwn
    <3>4. errorlog' \subseteq File
      BY <1>2, <3>2 DEF TypeOK
    <3>5. QED BY <2>2, <3>1, <3>2, <3>3, <3>4
  <2>4. ASSUME NEW w \in Worker, LogError(w) PROVE OutputType'
    <3>1. PICK f \in File : f = CurrentFile(w)
      BY <2>4, AtWork DEF LogError, HasFile
    <3>2. Write(f, <<>>) /\ errorlog' = errorlog \cup {f}
      BY <2>4, <3>1 DEF LogError
    <3>3. errorlog' \subseteq File /\ <<>> \in Seq(Line)
      BY <1>2, <3>2 DEF TypeOK
    <3>4. QED BY <2>2, <3>1, <3>2, <3>3
  <2>5. ASSUME NEW w \in Worker, OutputThrows(w) PROVE OutputType'
    <3>1. CurrentFile(w) \in File
      BY <2>5, AtWork DEF OutputThrows, HasFile
    <3>2. outputs' = outputs /\ errorlog' \subseteq errorlog \cup {CurrentFile(w)}
      BY <2>5 DEF OutputThrows
    <3>3. errorlog' \subseteq File
      BY <1>2, <3>1, <3>2 DEF TypeOK
    <3>4. QED BY <2>1, <3>2, <3>3
  <2>6. ASSUME NEW w \in Worker, FetchFiles(w) \/ LineStep(w) \/ InputThrows(w)
        PROVE  UNCHANGED outputVars
    BY <2>6 DEF FetchFiles, LineStep, WriteLine, LoseLine, TextFails, LineDone, InputThrows
  <2>7. ASSUME Tagging \/ Load \/ Joined \/ UNCHANGED vars PROVE UNCHANGED outputVars
    BY <2>7 DEF Tagging, Load, ReadName, ReadElement, RejectPosFile, LoadFails,
       StartOutput, Joined, outputVars, vars
  <2>8. ASSUME UNCHANGED outputVars PROVE OutputType'
    BY <1>2, <2>1, <2>8 DEF TypeOK, outputVars
  <2>9. QED BY <2>3, <2>4, <2>5, <2>6, <2>7, <2>8 DEF Next, Run, LineStep, Terminated
<1>7. QED BY <1>1, <1>3, <1>4, <1>5, <1>6, <1>8 DEF TypeOK

LEMMA NextIInv == IInv /\ [Next]_vars => IInv'
<1> SUFFICES ASSUME IInv, [Next]_vars PROVE IInv'
  OBVIOUS
<1>1. CP!IInv' /\ CP!StoppedAtTheEnd'
  BY NextCrawler DEF IInv
<1>2. TypeOK' /\ WorkersInv' /\ WriteInv'
  BY NextTypes, NextWorkers, NextWrite
<1>3. NumbersInv' /\ LoadInv'
  BY NextNumbers, NextLoad
<1>4. AnsweredInv' /\ TaggedByItsOwn'
  BY NextAnswered, NextTagged
<1>5. QED BY <1>1, <1>2, <1>3, <1>4 DEF IInv

-----------------------------------------------------------------------------
(* Every variable keeps its type; there are never more numbers than files. *)
THEOREM TypeCorrect == Spec => []TypeOK
<1>1. IInv => TypeOK
  BY DEF IInv
<1>2. QED BY <1>1, InitIInv, NextIInv, PTL DEF Spec

(* strusPosTagger -i marks up a document with the elements that were made  *)
(* of its own text, all of them, or lists it as an error, in every order   *)
(* in which the workers of the first run wrote the documents and in which  *)
(* their files were put together.  A document the first run lost lines of  *)
(* is marked up with the rest of its own elements, and with no other.      *)
THEOREM OwnElements == Spec => []TaggedByItsOwn
<1>1. IInv => TaggedByItsOwn
  BY DEF IInv
<1>2. QED BY <1>1, InitIInv, NextIInv, PTL DEF Spec

(* loadPosTaggingFile accepts a file only if it names each file once, and  *)
(* then has for each file named the elements below its name.               *)
THEOREM LoadedFaithfully == Spec => []LoadedAsWritten
<1>1. ASSUME IInv PROVE LoadedAsWritten
  <2> SUFFICES ASSUME program \in {"output", "done"}
               PROVE  /\ posfile # <<>> => posfile[1].kind = "name"
                      /\ \A i \in DOMAIN posfile : posfile[i].kind = "name" =>
                            /\ data[filemap[posfile[i].of]] = Section(i)
                            /\ \A j \in DOMAIN posfile : posfile[j] = posfile[i] => j = i
    BY DEF LoadedAsWritten
  <2>1. /\ line = Len(posfile) /\ (posfile # <<>> => posfile[1].kind = "name")
        /\ \A i \in NamesRead : data[NumberOf(i)] = Section(i)
    BY <1>1 DEF IInv, LoadInv
  <2>2. DOMAIN posfile = 1 .. line /\ line \in Nat
    BY <1>1, <2>1, LoadTypes
  <2>3. ASSUME NEW i \in DOMAIN posfile, posfile[i].kind = "name",
               NEW j \in DOMAIN posfile, posfile[j] = posfile[i], j # i
        PROVE  FALSE
    <3>1. i \in NamesRead /\ j \in NamesRead /\ NumberOf(i) = NumberOf(j)
      BY <2>2, <2>3 DEF NamesRead, NumberOf
    <3>2. i < j \/ j < i
      BY <2>2, <2>3
    <3>3. NumberOf(i) \in Nat /\ NumberOf(j) \in Nat
      BY <1>1, <2>1, <2>2, LoadTypes DEF NumberOf
    <3>4. NumberOf(i) < NumberOf(j) \/ NumberOf(j) < NumberOf(i)
      BY <1>1, <3>1, <3>2 DEF IInv, NumbersInv
    <3>5. QED BY <3>1, <3>3, <3>4
  <2>4. \A i \in DOMAIN posfile : posfile[i].kind = "name" => i \in NamesRead
    BY <2>2 DEF NamesRead
  <2>5. QED BY <2>1, <2>3, <2>4 DEF NumberOf
<1>2. QED BY <1>1, InitIInv, NextIInv, PTL DEF Spec

-----------------------------------------------------------------------------
(* If a file waits at the end, no worker is left that found the queue      *)
(* empty.                                                                  *)
LEMMA NobodyLeft ==
    ASSUME IInv, program = "done", NEW i \in DOMAIN chunkque, NEW f, Holds(chunkque[i], f)
    PROVE  Worker \subseteq reported \cup broken \cup Absent
<1>1. ended = Worker /\ ended = stopped \cup Absent \cup reported
  BY DEF IInv, WorkersInv
<1>2. CP!FlattenSeq(chunkque) # <<>>
  BY SameTrees, CP!WaitingFile DEF IInv, Holds
<1>3. CP!NobodyStopsEarly
  BY SameTrees, CP!StopsAtTheEnd DEF IInv
<1>4. stopped \ broken = {}
  BY <1>2, <1>3 DEF CP!NobodyStopsEarly
<1>5. QED BY <1>1, <1>4

(* A run of strusPosTagger -i that ends well has written to the place of   *)
(* every file the crawler found, but for files of one chunk for each       *)
(* worker that printed an exception, and for those nobody was left to      *)
(* fetch.                                                                  *)
THEOREM NoneLeftOut == Spec => []AllAccountedFor
<1>1. ASSUME IInv PROVE AllAccountedFor
  <2> SUFFICES ASSUME program = "done"
               PROVE  \E lost \in [reported -> 0 .. Len(handed)] :
                         \A n \in DOMAIN Crawler!AllFiles : \A f : f = Crawler!AllFiles[n] =>
                            \/ Answered(f)
                            \/ \E w \in reported : lost[w] # 0 /\ Holds(handed[lost[w]], f)
                            \/ /\ \E i \in DOMAIN chunkque : Holds(chunkque[i], f)
                               /\ Worker \subseteq reported \cup broken \cup Absent
    BY DEF AllAccountedFor
  <2>1. PICK at \in [Worker -> 0 .. Len(handed)] : Covers(at)
    BY <1>1 DEF IInv, AnsweredInv
  <2>2. reported \subseteq Worker /\ handed \in Seq(Seq(File))
    BY <1>1 DEF IInv, TypeOK, Crawler!TypeOK
  <2>3. PICK lost \in [reported -> 0 .. Len(handed)] : \A w \in reported : lost[w] = at[w]
    <3>1. [w \in reported |-> at[w]] \in [reported -> 0 .. Len(handed)]
      BY <2>2
    <3>2. QED BY <3>1
  <2>4. \A w \in Worker : batch[w] = <<>>
    BY <1>1 DEF IInv, WorkersInv
  <2>5. ASSUME NEW n \in DOMAIN Crawler!AllFiles, NEW f, f = Crawler!AllFiles[n]
        PROVE  \/ Answered(f)
               \/ \E w \in reported : lost[w] # 0 /\ Holds(handed[lost[w]], f)
               \/ /\ \E i \in DOMAIN chunkque : Holds(chunkque[i], f)
                  /\ Worker \subseteq reported \cup broken \cup Absent
    <3>1. \/ \E i \in DOMAIN handed : Holds(handed[i], f)
          \/ \E i \in DOMAIN chunkque : Holds(chunkque[i], f)
      BY <1>1, <2>5, SameTrees, SameFiles, CP!HandedOutOrWaiting DEF IInv, Holds
    <3>2. CASE \E i \in DOMAIN chunkque : Holds(chunkque[i], f)
      BY <1>1, <3>2, NobodyLeft
    <3>3. ASSUME NEW i \in DOMAIN handed, Holds(handed[i], f)
          PROVE  \/ Answered(f)
                 \/ \E w \in reported : lost[w] # 0 /\ Holds(handed[lost[w]], f)
      <4>1. \A w \in Worker : ~ Holds(batch[w], f)
        BY <2>4 DEF Holds
      <4>2. Answered(f) \/ \E w \in reported : at[w] = i
        BY <2>1, <3>3, <4>1 DEF Covers, Holds
      <4>3. i # 0
        BY <2>2
      <4>4. QED BY <2>3, <3>3, <4>2, <4>3
    <3>4. QED BY <3>1, <3>2, <3>3
  <2>6. QED BY <2>3, <2>5
<1>2. QED BY <1>1, InitIInv, NextIInv, PTL DEF Spec
=============================================================================
