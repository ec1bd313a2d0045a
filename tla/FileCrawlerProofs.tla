------------------------- MODULE FileCrawlerProofs -------------------------
(***************************************************************************)
(* Proofs about FileCrawler, for every tree of directories, every list of  *)
(* paths and every number of threads.                                      *)
(*                                                                         *)
(* The first part is about the constructor, which works by recursion: what *)
(* it collects below a directory and how it cuts it into chunks, proved by *)
(* induction over the depth of the tree and the number of files.  The      *)
(* second part is about the threads that fetch.                            *)
(***************************************************************************)
EXTENDS FileCrawler, FiniteSetTheorems, DataInduction

(* What m_chunkque can be in the constructor.                              *)
Chunked == Seq(Seq(File)) \ {<<>>}

(* What is added at once: a file, or nothing.                              *)
Item == {x \in Seq(File) : Len(x) <= 1}

(* e is the queue que after an item was added: as a new chunk if the last  *)
(* one is full, else to the last one.                                      *)
NewChunk(e, que, x) ==
    /\ Len(que[Len(que)]) >= ChunkSize
    /\ Len(e) = Len(que) + 1
    /\ \A i \in 1 .. Len(que) : e[i] = que[i]
    /\ e[Len(que) + 1] = x
LastChunk(e, que, x) ==
    /\ Len(que[Len(que)]) < ChunkSize
    /\ Len(e) = Len(que)
    /\ \A i \in 1 .. Len(que) - 1 : e[i] = que[i]
    /\ e[Len(que)] = que[Len(que)] \o x

-----------------------------------------------------------------------------
(* AddFile does one of the two and adds the item at the end.               *)
LEMMA AddFileAdds ==
    ASSUME NEW que \in Chunked, NEW f \in Item
    PROVE  /\ AddFile(que, f) \in Chunked
           /\ \/ NewChunk(AddFile(que, f), que, f)
              \/ LastChunk(AddFile(que, f), que, f)
           /\ FlattenSeq(AddFile(que, f)) = FlattenSeq(que) \o f
<1> DEFINE last == que[Len(que)]
<1>1. /\ que \in Seq(Seq(File)) /\ que # <<>>
      /\ Len(que) \in Nat \ {0}
      /\ last \in Seq(File) /\ Len(last) \in Nat /\ ChunkSize \in Nat
  BY TreeAssumption DEF Trees, Chunked
<1>0. f \in Seq(File)
  BY DEF Item
<1>2. CASE Len(last) >= ChunkSize
  <2> DEFINE e == Append(que, f)
  <2>1. AddFile(que, f) = e
    BY <1>2 DEF AddFile, Last
  <2>3. e \in Seq(Seq(File)) /\ e # <<>> /\ NewChunk(e, que, f)
    BY <1>0, <1>1, <1>2, AppendProperties DEF NewChunk
  <2>4. FlattenSeq(e) = FlattenSeq(que) \o f
    BY <1>0, <1>1, FlattenAppend
  <2>5. QED BY <2>1, <2>3, <2>4 DEF Chunked
<1>3. CASE ~(Len(last) >= ChunkSize)
  <2> DEFINE grown == last \o f
             e == [que EXCEPT ![Len(que)] = grown]
  <2>1. AddFile(que, f) = e
    BY <1>3 DEF AddFile, Last
  <2>2. grown \in Seq(File) /\ Len(que) \in 1 .. Len(que)
    BY <1>0, <1>1, ConcatProperties
  <2> HIDE DEF grown
  <2>3. /\ e \in Seq(Seq(File))
        /\ Len(e) = Len(que)
        /\ \A j \in 1 .. Len(que) : e[j] = IF j = Len(que) THEN grown ELSE que[j]
    BY <1>1, <2>2, ExceptSeq
  <2> HIDE DEF e
  <2>4. \A i \in 1 .. Len(que) - 1 : i \in 1 .. Len(que) /\ i # Len(que)
    BY <1>1
  <2>5. (\A i \in 1 .. Len(que) - 1 : e[i] = que[i]) /\ e[Len(que)] = grown
    BY <2>2, <2>3, <2>4
  <2>6. e # <<>> /\ LastChunk(e, que, f)
    BY <1>1, <1>3, <2>3, <2>5 DEF LastChunk, grown
  <2>7. FlattenSeq(e) = FlattenSeq(que) \o f
    BY <1>0, <1>1, <2>3, <2>5, FlattenGrown DEF grown
  <2>8. QED BY <2>1, <2>3, <2>6, <2>7 DEF Chunked
<1>4. QED BY <1>2, <1>3

(* The loops of the constructor add one item after the other.              *)
LEMMA CutsOneByOne ==
    ASSUME NEW items \in Seq(Item)
    PROVE  \E cut \in [0 .. Len(items) -> Chunked] :
              /\ cut[0] = << <<>> >>
              /\ \A n \in 1 .. Len(items) : cut[n] = AddFile(cut[n - 1], items[n])
              /\ ChunkFiles(items) = cut[Len(items)]
<1> DEFINE m == Len(items)
           Def(c) == [n \in 0 .. m |->
                         IF n = 0 THEN << <<>> >> ELSE AddFile(c[n - 1], items[n])]
           cut == CHOOSE c : c = Def(c)
           h == [p \in Chunked \X (1 .. m) |-> AddFile(p[1], items[p[2]])]
<1>1. m \in Nat /\ \A n \in 1 .. m : items[n] \in Item
  OBVIOUS
<1>2. << <<>> >> \in Chunked
  BY DEF Chunked
<1> HIDE DEF m
<1>3. h \in [Chunked \X (1 .. m) -> Chunked]
  BY <1>1, AddFileAdds
<1> HIDE DEF h
<1>4. PICK g \in [0 .. m -> Chunked] : Recursion(g, m, << <<>> >>, h)
  BY <1>1, <1>2, <1>3, RecursionExists
<1>5. g = Def(g)
  <2>1. ASSUME NEW n \in 0 .. m
        PROVE  g[n] = IF n = 0 THEN << <<>> >> ELSE AddFile(g[n - 1], items[n])
    <3>1. CASE n = 0
      BY <1>4, <3>1 DEF Recursion
    <3>2. CASE n # 0
      <4>1. n \in 1 .. m /\ n - 1 \in 0 .. m
        BY <1>1, <3>2
      <4>2. g[n - 1] \in Chunked /\ g[n] = h[<<g[n - 1], n>>]
        BY <1>4, <4>1 DEF Recursion
      <4>3. QED BY <3>2, <4>1, <4>2 DEF h
    <3>3. QED BY <3>1, <3>2
  <2>2. QED BY <2>1
<1>6. cut = Def(cut)
  BY <1>5
<1>7. ChunkFiles(items) = cut[m]
  BY DEF ChunkFiles, m
<1> HIDE DEF cut
<1>8. \A n \in 0 .. m :
          cut[n] = IF n = 0 THEN << <<>> >> ELSE AddFile(cut[n - 1], items[n])
  BY <1>6, Zenon
<1>9. /\ cut[0] = << <<>> >>
      /\ \A n \in 1 .. m : cut[n] = AddFile(cut[n - 1], items[n])
  <2>1. 0 \in 0 .. m /\ \A n \in 1 .. m : n \in 0 .. m /\ n # 0
    BY <1>1
  <2>2. QED BY <1>8, <2>1
<1> DEFINE T == {n \in 0 .. m : cut[n] \in Chunked}
<1>10. 0 \in T
  <2>1. 0 \in 0 .. m
    BY <1>1
  <2>2. cut[0] \in Chunked
    BY <1>2, <1>9
  <2>3. QED BY <2>1, <2>2
<1>11. ASSUME NEW n \in 0 .. m - 1, n \in T PROVE n + 1 \in T
  <2>1. n + 1 \in 1 .. m /\ (n + 1) - 1 = n
    BY <1>1
  <2>2. cut[n + 1] = AddFile(cut[n], items[n + 1])
    BY <1>9, <2>1
  <2>3. cut[n + 1] \in Chunked
    BY <1>1, <1>11, <2>1, <2>2, AddFileAdds
  <2>4. QED BY <1>1, <2>1, <2>3
<1> HIDE DEF T
<1>12. \A n \in 0 .. m : n \in T
  BY <1>1, <1>10, <1>11, InductiveInterval
<1>13. cut = [n \in 0 .. m |-> cut[n]]
  BY <1>6, Zenon
<1>14. cut \in [0 .. m -> Chunked]
  BY <1>12, <1>13 DEF T
<1>15. QED BY <1>7, <1>9, <1>14 DEF m

(* Cutting into chunks loses, repeats and reorders no item.                *)
LEMMA ChunksKeepFiles ==
    ASSUME NEW items \in Seq(Item)
    PROVE  /\ ChunkFiles(items) \in Chunked
           /\ FlattenSeq(ChunkFiles(items)) = FlattenSeq(items)
<1> DEFINE m == Len(items)
<1>1. m \in Nat /\ \A n \in 1 .. m : items[n] \in Item
  OBVIOUS
<1>0. items \in Seq(Seq(File)) /\ \A x \in Item : x \in Seq(File)
  BY DEF Item
<1> HIDE DEF m
<1>2. PICK cut \in [0 .. m -> Chunked] :
          /\ cut[0] = << <<>> >>
          /\ \A n \in 1 .. m : cut[n] = AddFile(cut[n - 1], items[n])
          /\ ChunkFiles(items) = cut[m]
  BY CutsOneByOne DEF m
<1> DEFINE T == {n \in 0 .. m : FlattenSeq(cut[n]) = FlattenSeq(SubSeq(items, 1, n))}
<1>3. 0 \in T
  <2>1. << <<>> >> \in Seq(Seq(File)) /\ \A i \in DOMAIN << <<>> >> : << <<>> >>[i] = <<>>
    OBVIOUS
  <2>2. FlattenSeq(<< <<>> >>) = <<>>
    BY <2>1, FlattenEmpty
  <2>3. SubSeq(items, 1, 0) = <<>>
    BY SubSeqEmpty
  <2>4. FlattenSeq(<<>>) = <<>>
    BY DEF FlattenSeq
  <2>5. 0 \in 0 .. m
    BY <1>1
  <2>6. QED BY <1>2, <2>2, <2>3, <2>4, <2>5
<1>4. ASSUME NEW n \in 0 .. m - 1, n \in T PROVE n + 1 \in T
  <2>1. /\ n \in 0 .. m /\ n + 1 \in 0 .. m /\ n + 1 \in 1 .. m
        /\ (n + 1) - 1 = n
    BY <1>1
  <2>2. cut[n + 1] = AddFile(cut[n], items[n + 1])
    BY <1>2, <2>1
  <2>3. cut[n] \in Chunked /\ items[n + 1] \in Item
    BY <1>1, <1>2, <2>1
  <2>4. FlattenSeq(cut[n + 1]) = FlattenSeq(SubSeq(items, 1, n)) \o items[n + 1]
    BY <1>4, <2>2, <2>3, AddFileAdds
  <2>5. FlattenSeq(SubSeq(items, 1, n + 1))
          = FlattenSeq(SubSeq(items, 1, n)) \o items[n + 1]
    <3>1. SubSeq(items, 1, n + 1) = SubSeq(items, 1, n) \o <<items[n + 1]>>
      <4>1. 1 \in 1 .. Len(items) /\ n + 1 \in 1 .. Len(items)
        BY <1>1, <2>1 DEF m
      <4>2. QED BY <2>1, <4>1, SubSeqRecursiveSecond
    <3>2. SubSeq(items, 1, n) \in Seq(Seq(File)) /\ items[n + 1] \in Seq(File)
      <4>1. \A i \in 1 .. n : items[i] \in Seq(File)
        BY <1>0, <1>1, <2>1
      <4>2. QED BY <1>0, <2>1, <2>3, <4>1, SubSeqProperties
    <3>3. SubSeq(items, 1, n + 1) = Append(SubSeq(items, 1, n), items[n + 1])
      BY <3>1, <3>2, AppendIsConcat
    <3>4. QED BY <3>2, <3>3, FlattenAppend
  <2>6. QED BY <2>1, <2>4, <2>5
<1> HIDE DEF T
<1>5. \A n \in 0 .. m : n \in T
  BY <1>1, <1>3, <1>4, InductiveInterval
<1>6. m \in 0 .. m
  BY <1>1
<1>7. FlattenSeq(cut[m]) = FlattenSeq(SubSeq(items, 1, m))
  BY <1>5, <1>6 DEF T
<1>8. SubSeq(items, 1, m) = items
  BY SubSeqFull DEF m
<1>9. QED BY <1>2, <1>6, <1>7, <1>8

(* All chunks but the last are full, the last is not more than full.       *)
FilledUp(que) ==
    /\ \A i \in 1 .. Len(que) - 1 : Len(que[i]) = ChunkSize
    /\ Len(que[Len(que)]) <= ChunkSize

(* The items cut into chunks one by one fill the chunks so.                *)
LEMMA ChunksAreFilled ==
    ASSUME NEW items \in Seq(Item), ChunkSize > 0
    PROVE  FilledUp(ChunkFiles(items))
<1> DEFINE m == Len(items)
<1>1. m \in Nat /\ \A n \in 1 .. m : items[n] \in Item
  OBVIOUS
<1> HIDE DEF m
<1>2. PICK cut \in [0 .. m -> Chunked] :
          /\ cut[0] = << <<>> >>
          /\ \A n \in 1 .. m : cut[n] = AddFile(cut[n - 1], items[n])
          /\ ChunkFiles(items) = cut[m]
  BY CutsOneByOne DEF m
<1>3. ChunkSize \in Nat \ {0}
  BY TreeAssumption DEF Trees
<1> DEFINE T == {n \in 0 .. m : FilledUp(cut[n])}
<1>4. 0 \in T
  <2>1. 0 \in 0 .. m
    BY <1>1
  <2>2. FilledUp(<< <<>> >>)
    BY <1>3 DEF FilledUp
  <2>3. QED BY <1>2, <2>1, <2>2
<1>5. ASSUME NEW n \in 0 .. m - 1, n \in T PROVE n + 1 \in T
  <2>1. /\ n \in 0 .. m /\ n + 1 \in 0 .. m /\ n + 1 \in 1 .. m
        /\ (n + 1) - 1 = n
    BY <1>1
  <2>2. PICK que \in Chunked : que = cut[n]
    BY <1>2, <2>1
  <2>3. PICK e \in Chunked : e = cut[n + 1]
    BY <1>2, <2>1
  <2>4. PICK x \in Item : x = items[n + 1]
    BY <1>1, <2>1
  <2>5. FilledUp(que)
    BY <1>5, <2>2
  <2>6. NewChunk(e, que, x) \/ LastChunk(e, que, x)
    BY <1>2, <2>1, <2>2, <2>3, <2>4, AddFileAdds
  <2>7. /\ Len(que) \in Nat \ {0} /\ Len(e) \in Nat \ {0}
        /\ \A i \in 1 .. Len(que) : que[i] \in Seq(File) /\ Len(que[i]) \in Nat
        /\ x \in Seq(File) /\ Len(x) \in 0 .. 1
    <3>1. x \in Seq(File) /\ Len(x) <= 1
      BY DEF Item
    <3>2. Len(x) \in Nat
      BY <3>1
    <3>3. Len(x) \in 0 .. 1
      <4>1. PICK k \in Nat : k = Len(x)
        BY <3>2
      <4>2. k \in 0 .. 1
        BY <3>1, <4>1
      <4>3. QED BY <4>1, <4>2
    <3>4. que \in Seq(Seq(File)) /\ que # <<>> /\ e \in Seq(Seq(File)) /\ e # <<>>
      BY DEF Chunked
    <3>5. Len(que) \in Nat \ {0} /\ Len(e) \in Nat \ {0}
      BY <3>4
    <3>6. \A i \in 1 .. Len(que) : que[i] \in Seq(File)
      BY <3>4
    <3>7. QED BY <3>1, <3>3, <3>5, <3>6
  <2>8. CASE NewChunk(e, que, x)
    <3>1. \A i \in 1 .. Len(que) : Len(que[i]) = ChunkSize
      BY <1>3, <2>5, <2>7, <2>8 DEF NewChunk, FilledUp
    <3>2. \A i \in 1 .. Len(e) - 1 : i \in 1 .. Len(que) /\ e[i] = que[i]
      BY <2>7, <2>8 DEF NewChunk
    <3>3. Len(e[Len(e)]) <= ChunkSize
      <4>1. e[Len(e)] = x
        BY <2>7, <2>8 DEF NewChunk
      <4>2. PICK k \in 0 .. 1 : k = Len(x)
        BY <2>7
      <4>3. k <= ChunkSize
        BY <1>3
      <4>4. QED BY <4>1, <4>2, <4>3
    <3>4. QED BY <2>1, <2>3, <3>1, <3>2, <3>3 DEF FilledUp
  <2>9. CASE LastChunk(e, que, x)
    <3> DEFINE last == que[Len(que)]
    <3>1. last \in Seq(File) /\ Len(last) < ChunkSize /\ e[Len(e)] = last \o x
      BY <2>7, <2>9 DEF LastChunk
    <3>2. Len(last \o x) = Len(last) + Len(x)
      BY <2>7, <3>1, ConcatProperties
    <3>3. Len(e[Len(e)]) <= ChunkSize
      BY <1>3, <2>7, <3>1, <3>2
    <3>4. \A i \in 1 .. Len(e) - 1 : i \in 1 .. Len(que) - 1 /\ e[i] = que[i]
      BY <2>9 DEF LastChunk
    <3>5. \A i \in 1 .. Len(e) - 1 : Len(e[i]) = ChunkSize
      BY <2>5, <3>4 DEF FilledUp
    <3>6. QED BY <2>1, <2>3, <3>3, <3>5 DEF FilledUp
  <2>10. QED BY <2>6, <2>8, <2>9
<1> HIDE DEF T
<1>6. \A n \in 0 .. m : n \in T
  BY <1>1, <1>4, <1>5, InductiveInterval
<1>7. m \in 0 .. m
  BY <1>1
<1>8. QED BY <1>2, <1>6, <1>7 DEF T

-----------------------------------------------------------------------------
(* The items of a directory when the ones below its subdirectories are     *)
(* given by g.                                                             *)
OneLevel(g, d) ==
    [i \in 1 .. reading[d].places |->
        IF i <= reading[d].files THEN <<FilesIn[d][i]>> ELSE <<>>]
      \o FlattenSeq([i \in 1 .. reading[d].subdirs |-> g[SubDirs[d][i]]])

(* What is read of a directory is in it.                                   *)
LEMMA ReadingBounds ==
    ASSUME reading \in Readings, NEW d \in Dir
    PROVE  /\ reading[d].files \in Nat
           /\ reading[d].places \in Nat
           /\ reading[d].places <= Len(FilesIn[d])
           /\ reading[d].subdirs \in Nat
           /\ reading[d].subdirs <= Len(SubDirs[d])
           /\ \A i \in 1 .. reading[d].subdirs :
                 i \in DOMAIN SubDirs[d] /\ SubDirs[d][i] \in Dir
<1>1. /\ reading[d].files \in UNION {0 .. Len(FilesIn[e]) : e \in Dir}
      /\ reading[d].places \in UNION {0 .. Len(FilesIn[e]) : e \in Dir}
      /\ reading[d].subdirs \in UNION {0 .. Len(SubDirs[e]) : e \in Dir}
      /\ reading[d].places <= Len(FilesIn[d])
      /\ reading[d].subdirs <= Len(SubDirs[d])
  BY DEF Readings
<1>2. reading[d].files \in Nat /\ reading[d].places \in Nat /\ reading[d].subdirs \in Nat
  BY <1>1
<1>3. SubDirs[d] \in Seq(Dir)
  BY TreeAssumption DEF Trees
<1>4. Len(SubDirs[d]) \in Nat /\ DOMAIN SubDirs[d] = 1 .. Len(SubDirs[d])
  BY <1>3, LenProperties
<1>5. ASSUME NEW i \in 1 .. reading[d].subdirs
      PROVE  i \in DOMAIN SubDirs[d] /\ SubDirs[d][i] \in Dir
  <2>1. i \in 1 .. Len(SubDirs[d])
    BY <1>1, <1>2, <1>4
  <2>2. QED BY <1>3, <1>4, <2>1, ElementOfSeq
<1>6. QED BY <1>1, <1>2, <1>5

(* With sequences of items below its subdirectories, so is the directory. *)
LEMMA OneLevelType ==
    ASSUME reading \in Readings, NEW d \in Dir, NEW g,
           \A i \in 1 .. reading[d].subdirs : g[SubDirs[d][i]] \in Seq(Item)
    PROVE  OneLevel(g, d) \in Seq(Item)
<1> DEFINE item(i) == IF i <= reading[d].files THEN <<FilesIn[d][i]>> ELSE <<>>
           own == [i \in 1 .. reading[d].places |-> item(i)]
           subs == [i \in 1 .. reading[d].subdirs |-> g[SubDirs[d][i]]]
<1>1. own \in Seq(Item)
  <2>1. FilesIn[d] \in Seq(File) /\ Len(FilesIn[d]) \in Nat
    BY TreeAssumption DEF Trees
  <2>2. \A i \in 1 .. reading[d].places : item(i) \in Item
    <3>1. \A i \in 1 .. reading[d].places : i \in 1 .. Len(FilesIn[d])
      BY <2>1, ReadingBounds
    <3>2. \A i \in 1 .. reading[d].places : FilesIn[d][i] \in File
      BY <2>1, <3>1, ElementOfSeq
    <3>3. <<>> \in Item /\ \A f \in File : <<f>> \in Item
      BY DEF Item
    <3>4. QED BY <3>2, <3>3
  <2> DEFINE n == reading[d].places
  <2>3. n \in Nat
    BY ReadingBounds
  <2> HIDE DEF item, n
  <2>4. [i \in 1 .. n |-> item(i)] \in Seq(Item)
    BY <2>2, <2>3 DEF n
  <2>5. QED BY <2>4 DEF n
<1>2. subs \in Seq(Seq(Item))
  <2> DEFINE n == reading[d].subdirs
  <2>1. n \in Nat
    BY ReadingBounds
  <2> HIDE DEF n
  <2>2. \A i \in 1 .. n : g[SubDirs[d][i]] \in Seq(Item)
    BY DEF n
  <2>3. [i \in 1 .. n |-> g[SubDirs[d][i]]] \in Seq(Seq(Item))
    BY <2>1, <2>2
  <2>4. QED BY <2>3 DEF n
<1>3. FlattenSeq(subs) \in Seq(Item)
  <2> HIDE DEF subs
  <2>1. QED BY <1>2, FlattenType
<1> DEFINE below == FlattenSeq(subs)
<1> HIDE DEF own, below
<1>4. own \o below \in Seq(Item)
  BY <1>1, <1>3, ConcatProperties DEF below
<1>5. QED BY <1>4 DEF OneLevel, own, below

(* The recursion of collectFilesToProcess ends at the bottom of the tree.  *)
LEMMA CollectedBelow ==
    ASSUME reading \in Readings
    PROVE  \A d \in Dir : CollectFilesToProcess[d] \in Seq(Item)
<1>1. PICK depth \in [Dir -> 0 .. Cardinality(Dir)] :
          \A d \in Dir : \A i \in DOMAIN SubDirs[d] :
              depth[SubDirs[d][i]] < depth[d]
  BY TreeAssumption DEF Trees
<1> DEFINE m == Cardinality(Dir)
           V == [Dir -> Seq(Item)]
           Def(g) == [d \in Dir |-> OneLevel(g, d)]
           below == CHOOSE g : g = Def(g)
           h == [p \in V \X (1 .. m + 2) |-> Def(p[1])]
<1>2. m \in Nat
  BY TreeAssumption, FS_CardinalityType DEF Trees
<1> HIDE DEF m
<1>3. \A d \in Dir : depth[d] \in 0 .. m
  BY <1>1 DEF m
<1>4. ASSUME NEW g \in V PROVE Def(g) \in V
  <2>1. ASSUME NEW d \in Dir PROVE OneLevel(g, d) \in Seq(Item)
    BY ReadingBounds, OneLevelType
  <2>2. QED BY <2>1
<1>5. [d \in Dir |-> <<>>] \in V
  OBVIOUS
<1> DEFINE b == [d \in Dir |-> <<>>]
<1>6. h \in [V \X (1 .. m + 2) -> V]
  <2> HIDE DEF V, Def
  <2>1. QED BY <1>4
<1>7. PICK f \in [0 .. m + 2 -> V] : Recursion(f, m + 2, b, h)
  <2> HIDE DEF V, h, b
  <2>1. m + 2 \in Nat /\ b \in V
    BY <1>2, <1>5 DEF b
  <2>2. QED BY <1>6, <2>1, RecursionExists
<1>8. \A n \in 0 .. m + 1 : f[n] \in V /\ f[n + 1] = Def(f[n])
  <2> HIDE DEF V, Def
  <2>1. ASSUME NEW n \in 0 .. m + 1 PROVE f[n] \in V /\ f[n + 1] = Def(f[n])
    <3>1. n \in 0 .. m + 2 /\ n + 1 \in 1 .. m + 2 /\ (n + 1) - 1 = n
      BY <1>2
    <3>2. f[n] \in V /\ f[n + 1] = h[<<f[n], n + 1>>]
      BY <1>7, <3>1 DEF Recursion
    <3>3. QED BY <3>1, <3>2
  <2>2. QED BY <2>1
<1> HIDE DEF h, b
<1> DEFINE T == {n \in 0 .. m + 1 :
                    \A d \in Dir : depth[d] < n => f[n][d] = f[n + 1][d]}
<1>9. 0 \in T
  BY <1>2, <1>3
<1>10. ASSUME NEW n \in 0 .. m, n \in T PROVE n + 1 \in T
  <2>1. n \in 0 .. m + 1 /\ n + 1 \in 0 .. m + 1
    BY <1>2
  <2>2. ASSUME NEW d \in Dir, depth[d] < n + 1
        PROVE  f[n + 1][d] = f[n + 1 + 1][d]
    <3>1. f[n + 1][d] = OneLevel(f[n], d) /\ f[n + 1 + 1][d] = OneLevel(f[n + 1], d)
      BY <1>8, <2>1
    <3>2. ASSUME NEW i \in 1 .. reading[d].subdirs
          PROVE  f[n][SubDirs[d][i]] = f[n + 1][SubDirs[d][i]]
      <4>1. i \in DOMAIN SubDirs[d] /\ SubDirs[d][i] \in Dir
        BY ReadingBounds
      <4>2. depth[SubDirs[d][i]] < n
        <5>1. depth[SubDirs[d][i]] < depth[d]
          BY <1>1, <4>1
        <5>2. depth[SubDirs[d][i]] \in Nat /\ depth[d] \in Nat
          BY <1>3, <4>1
        <5>3. QED BY <2>2, <5>1, <5>2
      <4>3. QED BY <1>10, <4>1, <4>2
    <3>3. [i \in 1 .. reading[d].subdirs |-> f[n][SubDirs[d][i]]]
              = [i \in 1 .. reading[d].subdirs |-> f[n + 1][SubDirs[d][i]]]
      BY <3>2
    <3>4. QED BY <3>1, <3>3 DEF OneLevel
  <2>3. QED BY <2>1, <2>2
<1>11. m + 1 \in T
  <2> HIDE DEF T
  <2> DEFINE k == m + 1
  <2>1. k \in Nat /\ \A n \in 0 .. k - 1 : n \in T => n + 1 \in T
    BY <1>2, <1>10
  <2> HIDE DEF k
  <2>2. \A n \in 0 .. k : n \in T
    BY <1>9, <2>1, InductiveInterval
  <2>3. QED BY <2>1, <2>2 DEF k
<1>12. f[m + 1] = Def(f[m + 1])
  <2>1. m + 1 \in 0 .. m + 1
    BY <1>2
  <2>2. \A d \in Dir : f[m + 1][d] = OneLevel(f[m + 1], d)
    <3>1. ASSUME NEW d \in Dir PROVE f[m + 1][d] = OneLevel(f[m + 1], d)
      <4>1. depth[d] < m + 1
        BY <1>2, <1>3
      <4>2. f[m + 1][d] = f[m + 1 + 1][d]
        BY <1>11, <4>1
      <4>3. QED BY <1>8, <2>1, <4>2
    <3>2. QED BY <3>1
  <2>3. f[m + 1] \in V
    BY <1>8, <2>1
  <2>4. QED BY <2>2, <2>3
<1>13. below = Def(below)
  <2> HIDE DEF Def
  <2>1. QED BY <1>12
<1>14. CollectFilesToProcess = below
  BY DEF CollectFilesToProcess, OneLevel
<1> HIDE DEF below
<1>15. \A d \in Dir : below[d] = OneLevel(below, d)
  BY <1>13
<1> HIDE DEF T
<1> DEFINE U == {n \in 0 .. m + 1 : \A d \in Dir : depth[d] < n => below[d] \in Seq(Item)}
<1>16. 0 \in U
  BY <1>2, <1>3
<1>17. ASSUME NEW n \in 0 .. m, n \in U PROVE n + 1 \in U
  <2>1. n + 1 \in 0 .. m + 1
    BY <1>2
  <2>2. ASSUME NEW d \in Dir, depth[d] < n + 1 PROVE below[d] \in Seq(Item)
    <3>1. ASSUME NEW i \in 1 .. reading[d].subdirs
          PROVE  below[SubDirs[d][i]] \in Seq(Item)
      <4>1. i \in DOMAIN SubDirs[d] /\ SubDirs[d][i] \in Dir
        BY ReadingBounds
      <4>2. depth[SubDirs[d][i]] < n
        <5>1. depth[SubDirs[d][i]] < depth[d]
          BY <1>1, <4>1
        <5>2. depth[SubDirs[d][i]] \in Nat /\ depth[d] \in Nat
          BY <1>3, <4>1
        <5>3. QED BY <2>2, <5>1, <5>2
      <4>3. QED BY <1>17, <4>1, <4>2
    <3>2. QED BY <1>15, <3>1, OneLevelType
  <2>3. QED BY <2>1, <2>2
<1>18. m + 1 \in U
  <2> HIDE DEF U
  <2> DEFINE k == m + 1
  <2>1. k \in Nat /\ \A n \in 0 .. k - 1 : n \in U => n + 1 \in U
    BY <1>2, <1>17
  <2> HIDE DEF k
  <2>2. \A n \in 0 .. k : n \in U
    BY <1>16, <2>1, InductiveInterval
  <2>3. QED BY <2>1, <2>2 DEF k
<1>19. \A d \in Dir : depth[d] < m + 1
  BY <1>2, <1>3
<1>20. QED BY <1>14, <1>18, <1>19

-----------------------------------------------------------------------------
(* Each path of the list stands for a sequence of items.                   *)
LEMMA PathsYieldItems ==
    ASSUME reading \in Readings
    PROVE  [i \in DOMAIN Path |-> ItemsOf(Path[i])] \in Seq(Seq(Item))
<1>1. Path \in Seq(File \cup Dir)
  BY TreeAssumption DEF Trees
<1>2. ASSUME NEW i \in 1 .. Len(Path) PROVE ItemsOf(Path[i]) \in Seq(Item)
  <2>1. Path[i] \in File \cup Dir
    BY <1>1
  <2>2. CASE Path[i] \in Dir
    BY <2>2, CollectedBelow DEF ItemsOf
  <2>3. CASE Path[i] \notin Dir
    <3>1. <<Path[i]>> \in Item
      BY <2>1, <2>3 DEF Item
    <3>2. QED BY <2>3, <3>1 DEF ItemsOf
  <2>4. QED BY <2>2, <2>3
<1>3. Len(Path) \in Nat /\ DOMAIN Path = 1 .. Len(Path)
  BY <1>1
<1> DEFINE n == Len(Path)
<1> HIDE DEF n
<1>4. [i \in 1 .. n |-> ItemsOf(Path[i])] \in Seq(Seq(Item))
  <2>1. n \in Nat /\ \A i \in 1 .. n : ItemsOf(Path[i]) \in Seq(Item)
    BY <1>2, <1>3 DEF n
  <2>2. QED BY <2>1
<1>5. QED BY <1>3, <1>4 DEF n

(* And so does the list.                                                   *)
LEMMA AllItemsType ==
    ASSUME reading \in Readings
    PROVE  AllItems \in Seq(Item)
<1> DEFINE parts == [i \in DOMAIN Path |-> ItemsOf(Path[i])]
<1>1. parts \in Seq(Seq(Item))
  BY PathsYieldItems
<1> HIDE DEF parts
<1>2. FlattenSeq(parts) \in Seq(Item)
  BY <1>1, FlattenType
<1>3. QED BY <1>2 DEF AllItems, parts

(* The files found are a sequence of files.                                *)
LEMMA AllFilesType ==
    ASSUME reading \in Readings
    PROVE  AllFiles \in Seq(File)
<1>1. AllItems \in Seq(Seq(File))
  BY AllItemsType DEF Item
<1>2. QED BY <1>1, FlattenType DEF AllFiles

(* One path: nothing is flattened.                                         *)
LEMMA AllItemsOfOnePath ==
    ASSUME reading \in Readings, Len(Path) = 1
    PROVE  AllItems = ItemsOf(Path[1])
<1> DEFINE parts == [i \in DOMAIN Path |-> ItemsOf(Path[i])]
<1>1. parts \in Seq(Seq(Item))
  BY PathsYieldItems
<1>2. DOMAIN Path = 1 .. 1
  BY TreeAssumption DEF Trees
<1>3. Len(parts) = 1 /\ parts[1] = ItemsOf(Path[1])
  <2>1. DOMAIN parts = 1 .. 1
    BY <1>2
  <2>2. DOMAIN parts = 1 .. Len(parts) /\ Len(parts) \in Nat
    BY <1>1
  <2>3. QED BY <1>2, <2>1, <2>2
<1> HIDE DEF parts
<1>4. FlattenSeq(parts) = parts[1]
  BY <1>1, <1>3, FlattenOne
<1>5. QED BY <1>3, <1>4 DEF AllItems, parts

(* What the chunks of the constructor are.  With a chunk size of zero      *)
(* every item becomes a chunk of its own behind an empty first one.        *)
Cut ==
    /\ reading \in Readings
    /\ made \in Chunked
    /\ FlattenSeq(made) = AllFiles
    /\ ChunkSize > 0 => FilledUp(made)

(* Cutting the items found makes such chunks, and so does the constructor. *)
LEMMA CutOf ==
    ASSUME reading \in Readings, AllItems \in Seq(Item),
           made = ChunkFiles(AllItems)
    PROVE  Cut
BY ChunksKeepFiles, ChunksAreFilled DEF Cut, AllFiles

(* The constructor makes such chunks.                                     *)
LEMMA InitCut == Init => Cut
<1> SUFFICES ASSUME Init PROVE Cut
  OBVIOUS
<1>1. reading \in Readings
  BY DEF Init
<1>2. AllItems \in Seq(Item)
  BY <1>1, AllItemsType
<1>3. CASE made = ChunksOfPaths
  BY <1>1, <1>2, <1>3, CutOf DEF ChunksOfPaths
<1>4. CASE Len(Path) = 1 /\ made = ChunksOfOnePath
  <2>1. AllItems = ItemsOf(Path[1])
    BY <1>1, <1>4, AllItemsOfOnePath
  <2>2. CASE Path[1] \in Dir
    BY <1>1, <1>2, <1>4, <2>1, <2>2, CutOf DEF ChunksOfOnePath, ItemsOf
  <2>3. CASE Path[1] \notin Dir
    <3>1. AllItems = << <<Path[1]>> >> /\ made = AllItems
      BY <1>4, <2>1, <2>3 DEF ChunksOfOnePath, ItemsOf
    <3>2. made \in Seq(Seq(File)) /\ made # <<>>
      BY <1>2, <3>1 DEF Item
    <3>3. FlattenSeq(made) = AllFiles
      BY <3>1 DEF AllFiles
    <3>4. Len(made) = 1 /\ Len(made[1]) = 1
      BY <3>1
    <3>5. ChunkSize > 0 => FilledUp(made)
      BY <3>4, TreeAssumption DEF Trees, FilledUp
    <3>6. QED BY <1>1, <3>2, <3>3, <3>5 DEF Cut, Chunked
  <2>4. QED BY <2>2, <2>3
<1>5. QED BY <1>3, <1>4 DEF Init

(* What the constructor made is not changed.                               *)
LEMMA CutIsKept == ASSUME Cut, UNCHANGED history PROVE Cut'
<1>1. reading' = reading /\ made' = made
  BY DEF history
<1>2. CollectFilesToProcess' = CollectFilesToProcess
  BY <1>1 DEF CollectFilesToProcess
<1>3. AllFiles' = AllFiles
  BY <1>2 DEF AllFiles, AllItems, ItemsOf
<1>4. QED BY <1>1, <1>3 DEF Cut, FilledUp

-----------------------------------------------------------------------------
(* The queue is what the constructor made less what was fetched.           *)
IInv ==
    /\ Cut
    /\ TypeOK
    /\ ChunksConserved

(* A thread that stopped without a failed fetch found the queue empty, or  *)
(* emptied it, if no chunk but the last is empty.                          *)
StoppedAtTheEnd ==
    (\A i \in 1 .. Len(made) - 1 : made[i] # <<>>) =>
        (stopped \ broken # {} => chunkque = <<>>)

-----------------------------------------------------------------------------
(* Before the first fetch all chunks are in the queue.                     *)
LEMMA InitIInv == Init => IInv /\ StoppedAtTheEnd
<1> SUFFICES ASSUME Init PROVE IInv /\ StoppedAtTheEnd
  OBVIOUS
<1>1. Cut /\ made \in Seq(Seq(File))
  BY InitCut DEF Cut, Chunked
<1>2. chunkque = made /\ handed = <<>> /\ stopped = {} /\ broken = {}
  BY DEF Init
<1>3. ChunksConserved
  BY <1>1, <1>2 DEF ChunksConserved
<1>4. batch \in [Worker -> Seq(File)]
  BY DEF Init
<1>5. TypeOK
  BY <1>1, <1>2, <1>4 DEF TypeOK, Cut
<1>6. QED BY <1>1, <1>2, <1>3, <1>5 DEF IInv, StoppedAtTheEnd

(* Every step of every thread preserves the invariant.                     *)
LEMMA NextIInv == IInv /\ [Next]_crawlerVars => IInv'
<1> SUFFICES ASSUME IInv, [Next]_crawlerVars PROVE IInv'
  OBVIOUS
<1>1. UNCHANGED history
  BY DEF Next, Step, Fetch, FetchNothing, FetchFails, FileDone, Finished,
         crawlerVars
<1>2. Cut'
  BY <1>1, CutIsKept DEF IInv
<1>3. reading' \in Readings /\ made' \in Seq(Seq(File)) /\ made' = made
  BY <1>1, <1>2 DEF Cut, Chunked, history
<1>4. CASE UNCHANGED crawlerVars
  BY <1>2, <1>3, <1>4 DEF IInv, TypeOK, crawlerVars, ChunksConserved
<1>5. ASSUME NEW w \in Worker, Fetch(w) PROVE IInv'
  <2>1. /\ Head(chunkque) \in Seq(File)
        /\ chunkque' \in Seq(Seq(File))
        /\ handed' \in Seq(Seq(File))
        /\ handed' \o chunkque' = handed \o chunkque
    <3>1. chunkque \in Seq(Seq(File)) /\ handed \in Seq(Seq(File)) /\ chunkque # <<>>
      BY <1>5 DEF Fetch, IInv, TypeOK
    <3>2. chunkque' = Tail(chunkque) /\ handed' = Append(handed, Head(chunkque))
      BY <1>5 DEF Fetch
    <3>3. QED BY <3>1, <3>2, MoveFront
  <2>2. batch' \in [Worker -> Seq(File)] /\ stopped' \in SUBSET Worker
        /\ broken' \in SUBSET stopped'
    BY <1>5, <2>1 DEF Fetch, IInv, TypeOK
  <2>3. TypeOK'
    BY <1>3, <2>1, <2>2 DEF TypeOK
  <2>4. QED BY <1>2, <1>3, <2>1, <2>3 DEF IInv, ChunksConserved
<1>6. ASSUME NEW w \in Worker, FetchNothing(w) \/ FetchFails(w) PROVE IInv'
  BY <1>2, <1>3, <1>6 DEF FetchNothing, FetchFails, IInv, TypeOK, ChunksConserved
<1>7. ASSUME NEW w \in Worker, FileDone(w) PROVE IInv'
  <2>1. batch[w] \in Seq(File) /\ batch[w] # <<>>
    BY <1>7 DEF FileDone, IInv, TypeOK
  <2>2. Tail(batch[w]) \in Seq(File)
    BY <2>1
  <2>3. QED BY <1>2, <1>3, <1>7, <2>2 DEF FileDone, IInv, TypeOK, ChunksConserved
<1>8. CASE Finished
  BY <1>4, <1>8 DEF Finished
<1>9. QED BY <1>4, <1>5, <1>6, <1>7, <1>8 DEF Next, Step

(* A program may drop files a thread has still to process.                 *)
LEMMA DroppedFiles ==
    ASSUME IInv, batch' \in [Worker -> Seq(File)],
           UNCHANGED <<chunkque, stopped, handed, broken, history>>
    PROVE  IInv'
<1>1. Cut'
  BY CutIsKept DEF IInv
<1>2. QED BY <1>1 DEF IInv, TypeOK, ChunksConserved, history

(* The inductive invariant holds in every reachable state of the crawler.  *)
THEOREM InductiveInvariant == Spec => []IInv
BY InitIInv, NextIInv, PTL DEF Spec

(* The state of the crawler has its type: what collectFilesToProcess finds *)
(* in a tree of any depth and what the constructor makes of it are         *)
(* sequences of files.                                                     *)
THEOREM TypeCorrect == Spec => []TypeOK
<1>1. IInv => TypeOK
  BY DEF IInv
<1>2. QED BY <1>1, InductiveInvariant, PTL

(* The chunks fetched followed by those waiting are the chunks made: in    *)
(* fileCrawler.cpp no chunk is fetched twice, skipped or reordered.        *)
THEOREM FetchConservesChunks == Spec => []ChunksConserved
<1>1. IInv => ChunksConserved
  BY DEF IInv
<1>2. QED BY <1>1, InductiveInvariant, PTL

(* For every tree and list of paths the constructor's chunks are the files *)
(* found, in order and each in its place, all chunks but the last full.    *)
(* The last chunk may be empty.                                            *)
(* Only a chunk size of zero is left out, for which there are no full      *)
(* chunks.                                                                 *)
THEOREM NoFileIsLost == ChunkSize > 0 => (Spec => []ChunksPartitionFiles)
<1> SUFFICES ASSUME ChunkSize > 0 PROVE Spec => []ChunksPartitionFiles
  OBVIOUS
<1>1. IInv => ChunksPartitionFiles
  BY DEF IInv, Cut, FilledUp, ChunksPartitionFiles, Last
<1>2. QED BY <1>1, InductiveInvariant, PTL

(* No step makes a thread stop in front of chunks that all have files.     *)
LEMMA NextStopped == IInv /\ StoppedAtTheEnd /\ [Next]_crawlerVars => StoppedAtTheEnd'
<1> SUFFICES ASSUME IInv, StoppedAtTheEnd, [Next]_crawlerVars,
                    \A i \in 1 .. Len(made') - 1 : made'[i] # <<>>,
                    (stopped \ broken)' # {}
             PROVE  chunkque' = <<>>
  BY DEF StoppedAtTheEnd
<1>1. made' = made
  BY DEF Next, Step, Fetch, FetchNothing, FetchFails, FileDone, Finished,
         crawlerVars, history
<1>2. stopped \ broken # {} => chunkque = <<>>
  BY <1>1 DEF StoppedAtTheEnd
<1>3. CASE UNCHANGED crawlerVars
  BY <1>2, <1>3 DEF crawlerVars
<1>4. ASSUME NEW w \in Worker, Fetch(w) PROVE chunkque' = <<>>
  <2>1. chunkque \in Seq(Seq(File)) /\ chunkque # <<>> /\ chunkque' = Tail(chunkque)
    BY <1>4 DEF Fetch, IInv, TypeOK
  <2>2. CASE Head(chunkque) # <<>>
    <3>1. stopped \ broken # {}
      BY <1>4, <2>2 DEF Fetch
    <3>2. QED BY <1>2, <2>1, <3>1
  <2>3. CASE Head(chunkque) = <<>>
    <3>1. /\ handed \in Seq(Seq(File)) /\ handed \o chunkque = made
          /\ Len(handed) \in Nat /\ Len(chunkque) \in Nat \ {0}
      BY <2>1 DEF IInv, TypeOK, ChunksConserved
    <3>2. /\ Len(made) = Len(handed) + Len(chunkque)
          /\ Len(handed) + 1 \in 1 .. Len(made)
          /\ made[Len(handed) + 1] = Head(chunkque)
      BY <2>1, <3>1, ConcatProperties
    <3>3. ~(Len(handed) + 1 \in 1 .. Len(made) - 1)
      BY <1>1, <2>3, <3>2
    <3>4. PICK h \in Nat, q \in Nat \ {0} : h = Len(handed) /\ q = Len(chunkque)
      BY <3>1
    <3>5. ~(h + 1 \in 1 .. (h + q) - 1)
      BY <3>2, <3>3, <3>4
    <3>6. q = 1
      BY <3>4, <3>5
    <3>7. Tail(chunkque) = <<>>
      <4>1. Tail(chunkque) \in Seq(Seq(File)) /\ Len(Tail(chunkque)) = Len(chunkque) - 1
        BY <2>1, HeadTailProperties
      <4>2. Len(Tail(chunkque)) = 0
        BY <3>4, <3>6, <4>1
      <4>3. QED BY <4>1, <4>2, EmptySeq
    <3>8. QED BY <2>1, <3>7
  <2>4. QED BY <2>2, <2>3
<1>5. ASSUME NEW w \in Worker, FetchNothing(w) PROVE chunkque' = <<>>
  BY <1>5 DEF FetchNothing
<1>6. ASSUME NEW w \in Worker, FetchFails(w) PROVE chunkque' = <<>>
  BY <1>2, <1>6 DEF FetchFails
<1>7. ASSUME NEW w \in Worker, FileDone(w) PROVE chunkque' = <<>>
  BY <1>2, <1>7 DEF FileDone
<1>8. CASE Finished
  BY <1>3, <1>8 DEF Finished
<1>9. QED BY <1>3, <1>4, <1>5, <1>6, <1>7, <1>8 DEF Next, Step

(* So a thread stops only when no file waits or its fetch failed.          *)
LEMMA StopsAtTheEnd ==
    ASSUME IInv, StoppedAtTheEnd, ChunkSize > 0
    PROVE  NobodyStopsEarly
<1> SUFFICES ASSUME stopped \ broken # {} PROVE FlattenSeq(chunkque) = <<>>
  BY DEF NobodyStopsEarly
<1>1. ASSUME NEW i \in 1 .. Len(made) - 1 PROVE made[i] # <<>>
  <2>1. Len(made[i]) = ChunkSize
    BY DEF IInv, Cut, FilledUp
  <2>2. QED BY <2>1
<1>2. chunkque = <<>>
  BY <1>1 DEF StoppedAtTheEnd
<1>3. QED BY <1>2 DEF FlattenSeq

(* In a crawler with chunks of at least one file, an empty list ends the   *)
(* loop of a thread only when no file waits, or after a failed fetch.      *)
THEOREM EmptyListIsTheEnd == ChunkSize > 0 => (Spec => []NobodyStopsEarly)
<1> SUFFICES ASSUME ChunkSize > 0 PROVE Spec => []NobodyStopsEarly
  OBVIOUS
<1>1. IInv /\ StoppedAtTheEnd => NobodyStopsEarly
  BY StopsAtTheEnd
<1>2. QED BY <1>1, InitIInv, NextIInv, NextStopped, PTL DEF Spec

(* Every file found is in a chunk handed out or waits in one.              *)
LEMMA HandedOutOrWaiting ==
    ASSUME IInv, NEW n \in DOMAIN AllFiles
    PROVE  \/ \E i \in DOMAIN handed : \E k \in DOMAIN handed[i] :
                 handed[i][k] = AllFiles[n]
           \/ \E i \in DOMAIN chunkque : \E k \in DOMAIN chunkque[i] :
                 chunkque[i][k] = AllFiles[n]
<1>1. PICK f : f = AllFiles[n]
  OBVIOUS
<1>2. /\ chunkque \in Seq(Seq(File)) /\ handed \in Seq(Seq(File))
      /\ made \in Seq(Seq(File))
  BY DEF IInv, TypeOK
<1>3. FlattenSeq(made) = AllFiles /\ made = handed \o chunkque
  BY DEF IInv, Cut, ChunksConserved
<1>4. f \in Elements(made)
  <2>1. f \in ToSet(FlattenSeq(made))
    BY <1>1, <1>3 DEF ToSet
  <2>2. QED BY <1>2, <2>1, FlattenElements
<1>5. PICK i \in DOMAIN made : \E k \in DOMAIN made[i] : made[i][k] = f
  BY <1>4 DEF Elements, ToSet
<1>6. /\ DOMAIN made = 1 .. Len(handed) + Len(chunkque)
      /\ Len(handed) \in Nat /\ Len(chunkque) \in Nat
      /\ DOMAIN handed = 1 .. Len(handed) /\ DOMAIN chunkque = 1 .. Len(chunkque)
      /\ \A j \in DOMAIN made : made[j] = IF j <= Len(handed) THEN handed[j]
                                          ELSE chunkque[j - Len(handed)]
  BY <1>2, <1>3, ConcatProperties
<1>7. CASE i <= Len(handed)
  <2>1. i \in DOMAIN handed /\ made[i] = handed[i]
    BY <1>6, <1>7
  <2>2. QED BY <1>1, <1>5, <2>1
<1>8. CASE ~(i <= Len(handed))
  <2>1. i - Len(handed) \in DOMAIN chunkque /\ made[i] = chunkque[i - Len(handed)]
    BY <1>6, <1>8
  <2>2. QED BY <1>1, <1>5, <2>1
<1>9. QED BY <1>7, <1>8

(* A file that waits keeps the chunks from being empty.                    *)
LEMMA WaitingFile ==
    ASSUME IInv, NEW i \in DOMAIN chunkque, NEW k \in DOMAIN chunkque[i]
    PROVE  FlattenSeq(chunkque) # <<>>
<1>1. chunkque \in Seq(Seq(File))
  BY DEF IInv, TypeOK
<1>2. chunkque[i][k] \in Elements(chunkque)
  BY DEF Elements, ToSet
<1>3. ToSet(<<>>) = {}
  BY DEF ToSet
<1>4. QED BY <1>1, <1>2, <1>3, FlattenElements

-----------------------------------------------------------------------------
(* Without directories the files found are the paths, so the chunks made   *)
(* hold each of them once.                                                 *)
LEMMA PathsInChunks ==
    ASSUME Cut, Dir = {}, IsInjective(Path)
    PROVE  EachOnce(made) /\ Elements(made) = ToSet(Path)
<1> DEFINE singles == [i \in DOMAIN Path |-> <<Path[i]>>]
<1>1. Path \in Seq(File)
  BY TreeAssumption DEF Trees
<1>2. AllFiles = FlattenSeq(singles)
  <2> DEFINE parts == [i \in DOMAIN Path |-> << <<Path[i]>> >>]
  <2>1. [i \in DOMAIN Path |-> ItemsOf(Path[i])] = parts
    BY DEF ItemsOf
  <2>2. singles \in Seq(Seq(File)) /\ DOMAIN singles = DOMAIN Path
    <3>1. DOMAIN Path = 1 .. Len(Path) /\ Len(Path) \in Nat
      BY <1>1
    <3>2. \A i \in 1 .. Len(Path) : <<Path[i]>> \in Seq(File)
      BY <1>1
    <3> DEFINE n == Len(Path)
    <3> HIDE DEF n
    <3>3. [i \in 1 .. n |-> <<Path[i]>>] \in Seq(Seq(File))
      BY <3>1, <3>2 DEF n
    <3>4. QED BY <3>1, <3>3 DEF n
  <2>3. parts = [i \in DOMAIN singles |-> <<singles[i]>>]
    BY <2>2
  <2> HIDE DEF singles, parts
  <2>4. FlattenSeq(parts) = singles
    BY <2>2, <2>3, FlattenSingles
  <2>5. QED BY <2>1, <2>4 DEF AllFiles, AllItems
<1>3. FlattenSeq(singles) = Path
  BY <1>1, FlattenSingles
<1>4. made \in Seq(Seq(File)) /\ FlattenSeq(made) = Path
  BY <1>2, <1>3 DEF Cut, Chunked
<1>5. EachOnce(made)
  BY <1>4, FlattenOnce
<1>6. QED BY <1>4, <1>5, FlattenElements
=============================================================================
