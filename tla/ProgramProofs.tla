---------------------------- MODULE ProgramProofs ----------------------------
(***************************************************************************)
(* Proofs about three programs, each by itself.                            *)
(*                                                                         *)
(* The workers of strusTagMarkup, for every number of workers, every set   *)
(* of files and every start: the state keeps its types, the counters of    *)
(* two workers never give the same number, and within the files of one     *)
(* worker the map gives one number to equal contents only.                 *)
(*                                                                         *)
(* Worker w only gives numbers Start + (w - 1) + k * NofInstances, and in  *)
(* ascending order: what it has given is less than its counter.  Numbers   *)
(* of different workers then differ by their remainder, numbers of one     *)
(* worker by the moment they were given.  A map is injective and its       *)
(* entries never change; what the file at work and the files written have  *)
(* is what the map of their worker says.                                   *)
(*                                                                         *)
(* The loop of strusUpdateStorageCalcStatistics, for every number of       *)
(* storages, every set of documents with terms and every --commit: the     *)
(* state keeps its types, and the documents of a storage are updated in    *)
(* ascending order, none passed by, the last ones at most left out.        *)
(*                                                                         *)
(* While the loop is at a storage, what it has updated comes before        *)
(* everything it has still to meet, and what it has committed before what  *)
(* is in the open transaction, which has no more documents than its count  *)
(* says.  What is missing when it leaves the storage was in that           *)
(* transaction: the last documents, and fewer than make a transaction.     *)
(*                                                                         *)
(* The threads of strusGenerateKeyMap, for every number of threads, every  *)
(* set of files, every number of files in a chunk and every --results: the *)
(* state keeps its types, no occurrence of a term is lost or counted       *)
(* twice, and what is printed are the lists the threads left, merged and   *)
(* ranked.                                                                 *)
(*                                                                         *)
(* An occurrence counted is in a list or in the map of a chunk at hand.    *)
(* An occurrence that a thread has ahead of it, in the rest of its file or *)
(* in the files its chunk still holds, and one in a file still queued, is  *)
(* not counted yet, so that no term is counted more often than the files   *)
(* have it.  The lists are in the order of the names, one entry for a      *)
(* name, with what the maps they were made of had; the loop of the merge   *)
(* keeps this: what is written so far comes before all that is left of     *)
(* both lists, and has what the two have before the places it is at.       *)
(***************************************************************************)
EXTENDS TagMarkup, CalcStatistics, KeyMapGen, FiniteSetTheorems, DataInduction

CP == INSTANCE FileCrawlerProofs WITH
    Dir <- {}, FilesIn <- <<>>, SubDirs <- <<>>

(* v is a number worker w may give.                                        *)
OfWorker(w, v) == \E k \in Nat : v = Start + (w - 1) + k * NofInstances

TypeInv ==
    /\ counter \in [Worker -> Nat]
    /\ values \in [Worker -> Seq(Nat)]
    /\ \A x \in outputs : x.by \in Worker /\ x.value \in Nat

(* The numbers of the file a worker is at.                                 *)
InWork ==
    \A w \in Worker :
        /\ OfWorker(w, counter[w])
        /\ \A i \in 1 .. Len(values[w]) :
              OfWorker(w, values[w][i]) /\ values[w][i] < counter[w]
        /\ \A i, j \in 1 .. Len(values[w]) : values[w][i] = values[w][j] => i = j

(* The numbers written.                                                    *)
Written ==
    \A x \in outputs :
        /\ OfWorker(x.by, x.value)
        /\ x.value < counter[x.by]
        /\ \A i \in 1 .. Len(values[x.by]) : values[x.by][i] # x.value

IInv == markup = "count" => TypeInv /\ InWork /\ Written /\ CountsAreUnique

(* The values given in the worker's file are those its map has for the     *)
(* contents of the tags.                                                   *)
FromTheMap(w) ==
    /\ batch[w] # <<>>
    /\ Len(values[w]) <= Len(Tags[CurrentFile(w)])
    /\ \A i \in 1 .. Len(values[w]) :
          values[w][i] = map[w][Tags[CurrentFile(w)][i]] /\ values[w][i] # -1

(* The map of a worker.                                                    *)
Injective(w) ==
    \A c \in Content : map[w][c] # -1 =>
        /\ map[w][c] < counter[w]
        /\ \A d \in Content : map[w][c] = map[w][d] => c = d

(* The map handlers: entries are never changed, so what was written is     *)
(* still what the map says.                                                *)
MapInv ==
    /\ \A w \in Worker : Injective(w)
    /\ \A w \in Worker \ ended : values[w] # <<>> => FromTheMap(w)
    /\ \A x \in outputs : x.value = map[x.by][x.content] /\ x.value # -1

MInv ==
    /\ CP!IInv
    /\ TypeOK
    /\ markup = "map" => MapInv

-----------------------------------------------------------------------------
(* A multiple of a positive number other than zero is at least that number *)
(* away from zero.                                                         *)
LEMMA MultipleIsFar ==
    ASSUME NEW n \in Nat \ {0}, NEW d \in Int, d >= 1
    PROVE  d * n >= n
BY SMT

(* The start drops out of an equation of two numbers.                      *)
LEMMA CancelStart ==
    ASSUME NEW s \in Int, NEW u \in Int, NEW w \in Int, NEW p \in Int, NEW q \in Int,
           s + (u - 1) + p = s + (w - 1) + q
    PROVE  u + p = w + q
BY SMT

(* Numbers of different workers are different.                             *)
LEMMA WorkersDiffer ==
    ASSUME NEW u \in Worker, NEW w \in Worker, NEW a, NEW b,
           OfWorker(u, a), OfWorker(w, b), u # w
    PROVE  a # b
<1> SUFFICES ASSUME a = b PROVE FALSE
  OBVIOUS
<1>1. /\ NofInstances \in Nat \ {0} /\ Start \in Nat
      /\ u \in 1 .. NofInstances /\ w \in 1 .. NofInstances
  BY ClientAssumption, MarkupAssumption DEF Worker
<1>2. PICK k \in Nat : a = Start + (u - 1) + k * NofInstances
  BY DEF OfWorker
<1>3. PICK l \in Nat : b = Start + (w - 1) + l * NofInstances
  BY DEF OfWorker
<1>4. k * NofInstances \in Int /\ l * NofInstances \in Int
  BY <1>1
<1>5. u + k * NofInstances = w + l * NofInstances
  <2>1. Start + (u - 1) + k * NofInstances = Start + (w - 1) + l * NofInstances
    BY <1>2, <1>3
  <2>2. Start \in Int /\ u \in Int /\ w \in Int
    BY <1>1
  <2>3. QED BY <1>4, <2>1, <2>2, CancelStart
<1>6. CASE k = l
  BY <1>1, <1>4, <1>5, <1>6
<1>7. CASE k > l
  <2>1. (k - l) * NofInstances >= NofInstances
    BY <1>1, <1>7, MultipleIsFar
  <2>2. (k - l) * NofInstances = k * NofInstances - l * NofInstances
    BY <1>1
  <2>3. QED BY <1>1, <1>4, <1>5, <2>1, <2>2
<1>8. CASE l > k
  <2>1. (l - k) * NofInstances >= NofInstances
    BY <1>1, <1>8, MultipleIsFar
  <2>2. (l - k) * NofInstances = l * NofInstances - k * NofInstances
    BY <1>1
  <2>3. QED BY <1>1, <1>4, <1>5, <2>1, <2>2
<1>9. QED BY <1>6, <1>7, <1>8

(* A value appended to a sequence of values.                               *)
LEMMA AppendValue ==
    ASSUME NEW s \in Seq(Nat), NEW v \in Nat
    PROVE  /\ Len(s) \in Nat
           /\ Append(s, v) \in Seq(Nat)
           /\ Len(Append(s, v)) = Len(s) + 1
           /\ \A i \in 1 .. Len(s) : Append(s, v)[i] = s[i]
           /\ Append(s, v)[Len(s) + 1] = v
BY SMT

(* The number after the increment is the worker's again, and greater.      *)
LEMMA NextNumber ==
    ASSUME NEW w \in Worker, NEW v \in Nat, OfWorker(w, v)
    PROVE  /\ v + NofInstances \in Nat
           /\ OfWorker(w, v + NofInstances)
           /\ v < v + NofInstances
<1>1. NofInstances \in Nat \ {0} /\ Start \in Nat /\ w \in 1 .. NofInstances
  BY ClientAssumption, MarkupAssumption DEF Worker
<1>2. PICK k \in Nat : v = Start + (w - 1) + k * NofInstances
  BY DEF OfWorker
<1>3. (k + 1) * NofInstances = k * NofInstances + NofInstances
  BY <1>1
<1>4. k * NofInstances \in Int
  BY <1>1
<1>5. v + NofInstances = Start + (w - 1) + (k + 1) * NofInstances
  BY <1>1, <1>2, <1>3, <1>4
<1>6. k + 1 \in Nat
  OBVIOUS
<1>7. QED BY <1>1, <1>5, <1>6 DEF OfWorker

-----------------------------------------------------------------------------
(* The handlers as main constructs them.                                   *)
LEMMA InitIInv == Init => IInv
<1> SUFFICES ASSUME Init, markup = "count"
             PROVE  TypeInv /\ InWork /\ Written /\ CountsAreUnique
  BY DEF IInv
<1>1. NofInstances \in Nat \ {0} /\ Start \in Nat /\ Worker = 1 .. NofInstances
  BY ClientAssumption, MarkupAssumption DEF Worker
<1>2. counter = [w \in Worker |-> Start + (w - 1)]
  BY DEF Init, InitialCounter
<1>3. \A w \in Worker : counter[w] \in Nat /\ OfWorker(w, counter[w])
  <2> SUFFICES ASSUME NEW w \in Worker
               PROVE  counter[w] \in Nat /\ OfWorker(w, counter[w])
    OBVIOUS
  <2>1. counter[w] = Start + (w - 1) + 0 * NofInstances
    BY <1>1, <1>2
  <2>2. QED BY <1>1, <1>2, <2>1 DEF OfWorker
<1>4. QED
  BY <1>1, <1>2, <1>3 DEF Init, TypeInv, InWork, Written, CountsAreUnique

(* A tag is given the worker's next number.                                *)
LEMMA MarkupTagIInv ==
    ASSUME IInv, NEW w \in Worker, MarkupTag(w), markup = "count"
    PROVE  (TypeInv /\ InWork /\ Written /\ CountsAreUnique)'
<1> DEFINE c == counter[w]
           n == Len(values[w])
<1>1. TypeInv /\ InWork /\ Written /\ CountsAreUnique
  BY DEF IInv
<1>2. /\ values' = [values EXCEPT ![w] = Append(@, c)]
      /\ counter' = [counter EXCEPT ![w] = c + NofInstances]
      /\ markup' = markup /\ outputs' = outputs
  BY <1>1 DEF MarkupTag, Count, Give, Advance, Increment
<1>3. /\ c \in Nat /\ OfWorker(w, c)
      /\ c + NofInstances \in Nat /\ OfWorker(w, c + NofInstances)
      /\ c < c + NofInstances
  BY <1>1, NextNumber DEF TypeInv, InWork
<1>4. \A v \in Worker : counter'[v] = IF v = w THEN c + NofInstances ELSE counter[v]
  BY <1>1, <1>2 DEF TypeInv
<1>5. \A v \in Worker : values'[v] = IF v = w THEN Append(values[w], c) ELSE values[v]
  BY <1>1, <1>2 DEF TypeInv
<1>6. /\ n \in Nat /\ values[w] \in Seq(Nat)
      /\ values'[w] \in Seq(Nat)
      /\ Len(values'[w]) = n + 1
      /\ \A i \in 1 .. n : values'[w][i] = values[w][i]
      /\ values'[w][n + 1] = c
  <2>1. values[w] \in Seq(Nat) /\ values'[w] = Append(values[w], c)
    BY <1>1, <1>5 DEF TypeInv
  <2>2. QED BY <1>3, <2>1, AppendValue
<1>7. TypeInv'
  <2>1. counter' \in [Worker -> Nat] /\ values' \in [Worker -> Seq(Nat)]
    BY <1>1, <1>2, <1>3, <1>6 DEF TypeInv
  <2>2. QED BY <1>1, <1>2, <2>1 DEF TypeInv
<1>8. NofInstances \in Nat
  BY ClientAssumption
<1>9. \A i \in 1 .. n : values[w][i] \in Nat /\ values[w][i] < c
                        /\ OfWorker(w, values[w][i])
  BY <1>1, <1>6 DEF InWork
<1>10. InWork'
  <2>1. ASSUME NEW v \in Worker, v # w
        PROVE  /\ OfWorker(v, counter'[v])
               /\ \A i \in 1 .. Len(values'[v]) :
                     OfWorker(v, values'[v][i]) /\ values'[v][i] < counter'[v]
               /\ \A i, j \in 1 .. Len(values'[v]) :
                     values'[v][i] = values'[v][j] => i = j
    BY <1>1, <1>4, <1>5, <2>1 DEF InWork
  <2>2. OfWorker(w, counter'[w])
    BY <1>3, <1>4
  <2>3. ASSUME NEW i \in 1 .. n + 1
        PROVE  OfWorker(w, values'[w][i]) /\ values'[w][i] < counter'[w]
    <3>1. CASE i \in 1 .. n
      <4>1. values'[w][i] = values[w][i]
        BY <1>6, <3>1
      <4>2. /\ values[w][i] \in Nat /\ values[w][i] < c
            /\ OfWorker(w, values[w][i])
        BY <1>9, <3>1
      <4>3. counter'[w] = c + NofInstances
        BY <1>4
      <4>4. values'[w][i] < counter'[w]
        BY <1>3, <1>8, <4>1, <4>2, <4>3
      <4>5. QED BY <4>1, <4>2, <4>4
    <3>2. CASE i = n + 1
      BY <1>3, <1>4, <1>6, <3>2
    <3>3. QED BY <1>6, <3>1, <3>2
  <2>4. ASSUME NEW i \in 1 .. n + 1, NEW j \in 1 .. n + 1,
               values'[w][i] = values'[w][j]
        PROVE  i = j
    <3>1. CASE i \in 1 .. n /\ j \in 1 .. n
      BY <1>1, <1>6, <2>4, <3>1 DEF InWork
    <3>2. ASSUME NEW k \in 1 .. n PROVE values'[w][k] # c
      <4>1. values'[w][k] = values[w][k]
        BY <1>6
      <4>2. values[w][k] \in Nat /\ values[w][k] < c
        BY <1>9
      <4>3. QED BY <1>3, <4>1, <4>2
    <3>3. CASE i = n + 1 \/ j = n + 1
      <4>1. values'[w][n + 1] = c
        BY <1>6
      <4>2. i = n + 1 \/ i \in 1 .. n
        BY <1>6
      <4>3. j = n + 1 \/ j \in 1 .. n
        BY <1>6
      <4>4. QED BY <2>4, <3>2, <3>3, <4>1, <4>2, <4>3
    <3>4. QED BY <1>6, <3>1, <3>3
  <2>5. QED BY <1>6, <2>1, <2>2, <2>3, <2>4 DEF InWork
<1>11. Written'
  <2> SUFFICES ASSUME NEW x \in outputs
               PROVE  /\ OfWorker(x.by, x.value)
                      /\ x.value < counter'[x.by]
                      /\ \A i \in 1 .. Len(values'[x.by]) :
                            values'[x.by][i] # x.value
    BY <1>2 DEF Written
  <2>1. /\ x.by \in Worker /\ x.value \in Nat
        /\ OfWorker(x.by, x.value) /\ x.value < counter[x.by]
        /\ \A i \in 1 .. Len(values[x.by]) : values[x.by][i] # x.value
    BY <1>1 DEF TypeInv, Written
  <2>2. CASE x.by # w
    BY <1>4, <1>5, <2>1, <2>2
  <2>3. CASE x.by = w
    <3>1. x.value < counter'[x.by]
      BY <1>3, <1>4, <1>8, <2>1, <2>3
    <3>2. ASSUME NEW i \in 1 .. n + 1 PROVE values'[w][i] # x.value
      BY <1>3, <1>6, <2>1, <2>3
    <3>3. QED BY <1>6, <2>1, <2>3, <3>1, <3>2
  <2>4. QED BY <2>2, <2>3
<1>12. CountsAreUnique'
  BY <1>1, <1>2 DEF CountsAreUnique
<1>13. QED BY <1>7, <1>10, <1>11, <1>12

(* A worker done with its file forgets the numbers of its tags.            *)
LEMMA ForgetValues ==
    ASSUME TypeInv, InWork, NEW w \in Worker,
           values' = [values EXCEPT ![w] = <<>>], counter' = counter
    PROVE  /\ values' \in [Worker -> Seq(Nat)]
           /\ InWork'
           /\ \A v \in Worker :
                 values'[v] = IF v = w THEN <<>> ELSE values[v]
<1>1. \A v \in Worker : values'[v] = IF v = w THEN <<>> ELSE values[v]
  BY DEF TypeInv
<1>2. values' \in [Worker -> Seq(Nat)]
  BY DEF TypeInv
<1>3. QED BY <1>1, <1>2 DEF InWork

(* The numbers of a file that is written become those of an output.        *)
LEMMA WriteFileIInv ==
    ASSUME IInv, NEW w \in Worker, WriteFile(w), markup = "count"
    PROVE  (TypeInv /\ InWork /\ Written /\ CountsAreUnique)'
<1> DEFINE New == {[file |-> CurrentFile(w), tag |-> i, by |-> w,
                    content |-> Tags[CurrentFile(w)][i],
                    value |-> values[w][i]] : i \in DOMAIN values[w]}
<1>1. TypeInv /\ InWork /\ Written /\ CountsAreUnique
  BY DEF IInv
<1>2. /\ outputs' = outputs \cup New
      /\ values' = [values EXCEPT ![w] = <<>>]
      /\ counter' = counter /\ markup' = markup
  BY DEF WriteFile, NextFile
<1>3. /\ values' \in [Worker -> Seq(Nat)]
      /\ InWork'
      /\ \A v \in Worker : values'[v] = IF v = w THEN <<>> ELSE values[v]
  BY <1>1, <1>2, ForgetValues
<1>4. values[w] \in Seq(Nat) /\ DOMAIN values[w] = 1 .. Len(values[w])
  BY <1>1 DEF TypeInv
<1>5. ASSUME NEW x \in New
      PROVE  \E i \in 1 .. Len(values[w]) :
                /\ x = [file |-> CurrentFile(w), tag |-> i, by |-> w,
                        content |-> Tags[CurrentFile(w)][i],
                        value |-> values[w][i]]
                /\ x.by = w /\ x.value = values[w][i] /\ x.value \in Nat
                /\ OfWorker(w, x.value) /\ x.value < counter[w]
  BY <1>1, <1>4 DEF InWork
<1>6. TypeInv'
  BY <1>1, <1>2, <1>3, <1>5 DEF TypeInv
<1>7. Written'
  <2>1. ASSUME NEW x \in outputs
        PROVE  /\ OfWorker(x.by, x.value)
               /\ x.value < counter'[x.by]
               /\ \A i \in 1 .. Len(values'[x.by]) : values'[x.by][i] # x.value
    <3>1. x.by \in Worker
      BY <1>1 DEF TypeInv
    <3>2. QED BY <1>1, <1>2, <1>3, <3>1 DEF Written
  <2>2. ASSUME NEW x \in New
        PROVE  /\ OfWorker(x.by, x.value)
               /\ x.value < counter'[x.by]
               /\ \A i \in 1 .. Len(values'[x.by]) : values'[x.by][i] # x.value
    BY <1>2, <1>3, <1>5
  <2>3. QED BY <1>2, <2>1, <2>2 DEF Written
<1>8. CountsAreUnique'
  <2>1. ASSUME NEW x \in outputs, NEW y \in New PROVE x.value # y.value
    <3>1. PICK i \in 1 .. Len(values[w]) :
              y.value = values[w][i] /\ OfWorker(w, y.value)
      BY <1>5
    <3>2. x.by \in Worker /\ OfWorker(x.by, x.value)
      BY <1>1 DEF TypeInv, Written
    <3>3. CASE x.by = w
      BY <1>1, <3>1, <3>3 DEF Written
    <3>4. CASE x.by # w
      BY <3>1, <3>2, <3>4, WorkersDiffer
    <3>5. QED BY <3>3, <3>4
  <2>2. ASSUME NEW x \in New, NEW y \in New, x.value = y.value PROVE x = y
    <3>1. PICK i \in 1 .. Len(values[w]) :
              /\ x = [file |-> CurrentFile(w), tag |-> i, by |-> w,
                      content |-> Tags[CurrentFile(w)][i], value |-> values[w][i]]
              /\ x.value = values[w][i]
      BY <1>5
    <3>2. PICK j \in 1 .. Len(values[w]) :
              /\ y = [file |-> CurrentFile(w), tag |-> j, by |-> w,
                      content |-> Tags[CurrentFile(w)][j], value |-> values[w][j]]
              /\ y.value = values[w][j]
      BY <1>5
    <3>3. i = j
      BY <1>1, <2>2, <3>1, <3>2 DEF InWork
    <3>4. QED BY <3>1, <3>2, <3>3
  <2>3. \A x, y \in outputs : x.value = y.value => x = y
    BY <1>1 DEF CountsAreUnique
  <2>4. QED BY <1>2, <2>1, <2>2, <2>3 DEF CountsAreUnique
<1>9. QED BY <1>3, <1>6, <1>7, <1>8

(* A file whose output is lost leaves a gap in the numbers, no more.       *)
LEMMA FileLostIInv ==
    ASSUME IInv, NEW w \in Worker, FileLost(w), markup = "count"
    PROVE  (TypeInv /\ InWork /\ Written /\ CountsAreUnique)'
<1>1. TypeInv /\ InWork /\ Written /\ CountsAreUnique
  BY DEF IInv
<1>2. /\ outputs' = outputs
      /\ values' = [values EXCEPT ![w] = <<>>]
      /\ counter' = counter /\ markup' = markup
  BY DEF FileLost, NextFile
<1>3. /\ values' \in [Worker -> Seq(Nat)]
      /\ InWork'
      /\ \A v \in Worker : values'[v] = IF v = w THEN <<>> ELSE values[v]
  BY <1>1, <1>2, ForgetValues
<1>4. TypeInv'
  BY <1>1, <1>2, <1>3 DEF TypeInv
<1>5. Written'
  <2>1. \A x \in outputs : x.by \in Worker
    BY <1>1 DEF TypeInv
  <2>2. QED BY <1>1, <1>2, <1>3, <2>1 DEF Written
<1>6. CountsAreUnique'
  BY <1>1, <1>2 DEF CountsAreUnique
<1>7. QED BY <1>3, <1>4, <1>5, <1>6

(* Steps that leave the handlers and the outputs alone.                    *)
LEMMA OtherIInv ==
    ASSUME IInv, UNCHANGED <<markup, handlerVars, outputs>>
    PROVE  IInv'
BY DEF IInv, handlerVars, TypeInv, InWork, Written, CountsAreUnique

(* Every step of every worker preserves the invariant.                     *)
LEMMA NextIInv == IInv /\ [Next]_vars => IInv'
<1> SUFFICES ASSUME IInv, [Next]_vars PROVE IInv'
  OBVIOUS
<1>1. markup' = markup
  BY DEF Next, Run, FetchFiles, MarkupTag, WriteFile, FileLost, FileThrows,
         NextFile, Joined, vars
<1>2. CASE UNCHANGED vars
  BY <1>2, OtherIInv DEF vars
<1>3. ASSUME NEW w \in Worker, FetchFiles(w) \/ FileThrows(w) PROVE IInv'
  BY <1>3, OtherIInv DEF FetchFiles, FileThrows
<1>4. ASSUME NEW w \in Worker, MarkupTag(w) PROVE IInv'
  BY <1>1, <1>4, MarkupTagIInv DEF IInv
<1>5. ASSUME NEW w \in Worker, WriteFile(w) PROVE IInv'
  BY <1>1, <1>5, WriteFileIInv DEF IInv
<1>6. ASSUME NEW w \in Worker, FileLost(w) PROVE IInv'
  BY <1>1, <1>6, FileLostIInv DEF IInv
<1>7. QED
  BY <1>2, <1>3, <1>4, <1>5, <1>6 DEF Next, Run, Joined

(* The attributes --markup count adds are unique over all files, as the    *)
(* program's usage says, for every number of workers and every start.      *)
THEOREM CountsStayUnique == Spec => []CountsAreUnique
<1>1. IInv => CountsAreUnique
  BY DEF IInv, CountsAreUnique
<1>2. QED BY <1>1, InitIInv, NextIInv, PTL DEF Spec

-----------------------------------------------------------------------------
(* The crawler finds no directories: there is no tree to be walked.        *)
LEMMA FilesAssumption == CP!Trees
<1>1. {} \in SUBSET File /\ IsFiniteSet({})
  BY FS_EmptySet
<1>2. <<>> = [d \in {} |-> <<>>]
  OBVIOUS
<1>3. \A S : <<>> \in [{} -> S]
  BY <1>2
<1>4. Path \in Seq(File \cup {}) /\ ChunkSize \in Nat
  <2>1. File \cup {} = File
    OBVIOUS
  <2>2. QED BY <2>1, ClientAssumption
<1>5. \A m : \E depth \in [{} -> 0 .. m] :
          \A d \in {} : \A i \in DOMAIN <<>>[d] : depth[<<>>[d][i]] < depth[d]
  BY <1>3
<1>6. CP!IsFiniteSet({})
  BY <1>1 DEF IsFiniteSet, CP!IsFiniteSet
<1>7. QED BY <1>1, <1>3, <1>4, <1>5, <1>6 DEF CP!Trees

(* The crawler of the program is the one proved about: it starts alike...  *)
LEMMA InitCrawler == Crawler!Init => CP!Init
<1>1. \A q, f : Crawler!AddFile(q, f) = CP!AddFile(q, f)
  BY DEF Crawler!AddFile, CP!AddFile, Crawler!Last, CP!Last
<1>2. \A s : Crawler!FlattenSeq(s) = CP!FlattenSeq(s)
  BY DEF Crawler!FlattenSeq, CP!FlattenSeq
<1>3. \A s : Crawler!ChunkFiles(s) = CP!ChunkFiles(s)
  BY <1>1 DEF Crawler!ChunkFiles, CP!ChunkFiles
<1>4. Crawler!AllItems = CP!AllItems
  BY <1>2 DEF Crawler!AllItems, CP!AllItems, Crawler!ItemsOf, CP!ItemsOf
<1>5. Crawler!Readings = CP!Readings
  BY DEF Crawler!Readings, CP!Readings
<1>6. QED
  BY <1>3, <1>4, <1>5 DEF Crawler!Init, CP!Init, Crawler!ChunksOfPaths,
     CP!ChunksOfPaths, Crawler!ChunksOfOnePath, CP!ChunksOfOnePath

(* ... and has the same types.                                             *)
LEMMA CrawlerTypes == CP!TypeOK <=> Crawler!TypeOK
BY DEF CP!TypeOK, Crawler!TypeOK, CP!Readings, Crawler!Readings

(* Every step keeps the invariant of the crawler; a worker that throws     *)
(* drops the rest of its chunk.                                            *)
LEMMA NextCrawler ==
    ASSUME CP!IInv, [Next]_vars
    PROVE  CP!IInv'
<1> USE DEF Crawler!history, CP!history
<1>1. ASSUME NEW w \in Worker, FetchFiles(w)
      PROVE  CP!Next
  <2>1. CP!Step(w)
    BY <1>1 DEF FetchFiles, CP!Step, Crawler!Fetch, Crawler!FetchNothing,
       Crawler!FetchFails, CP!Fetch, CP!FetchNothing, CP!FetchFails
  <2>2. QED BY <2>1 DEF CP!Next
<1>2. ASSUME NEW w \in Worker, WriteFile(w) \/ FileLost(w)
      PROVE  CP!Next
  <2>1. CP!Step(w)
    BY <1>2 DEF WriteFile, FileLost, NextFile, CP!Step, Crawler!FileDone,
       CP!FileDone
  <2>2. QED BY <2>1 DEF CP!Next
<1>3. ASSUME NEW w \in Worker, MarkupTag(w)
      PROVE  UNCHANGED CP!crawlerVars
  BY <1>3 DEF MarkupTag, crawlerVars, CP!crawlerVars
<1>4. CASE UNCHANGED vars
  <2>1. UNCHANGED CP!crawlerVars
    BY <1>4 DEF vars, crawlerVars, CP!crawlerVars
  <2>2. QED BY <2>1, FilesAssumption, CP!NextIInv
<1>5. ASSUME NEW w \in Worker, FileThrows(w)
      PROVE  CP!IInv'
  <2>1. batch' \in [Worker -> Seq(File)]
    BY <1>5 DEF FileThrows, CP!IInv, CP!TypeOK
  <2>2. UNCHANGED <<chunkque, stopped, handed, broken, reading, made>>
    BY <1>5 DEF FileThrows
  <2>3. QED BY <2>1, <2>2, FilesAssumption, CP!DroppedFiles
<1>6. QED
  BY <1>1, <1>2, <1>3, <1>4, <1>5, FilesAssumption, CP!NextIInv
     DEF Next, Run, Joined

(* What the crawler hands out are files, with their tags.                  *)
LEMMA TagsOfFile ==
    ASSUME TypeOK, NEW w \in Worker, batch[w] # <<>>
    PROVE  /\ CurrentFile(w) \in File
           /\ Tags[CurrentFile(w)] \in Seq(Content)
<1>1. batch[w] \in Seq(File)
  BY DEF TypeOK, Crawler!TypeOK
<1>2. QED BY <1>1, MarkupAssumption DEF CurrentFile

(* The handlers before the first file.                                     *)
LEMMA InitMInv == Init => MInv
<1> SUFFICES ASSUME Init PROVE MInv
  OBVIOUS
<1>1. CP!IInv
  BY InitCrawler, FilesAssumption, CP!InitIInv DEF Init
<1>2. Crawler!TypeOK
  BY <1>1, CrawlerTypes DEF CP!IInv
<1>3. NofInstances \in Nat \ {0} /\ Start \in Nat /\ Worker = 1 .. NofInstances
  BY ClientAssumption, MarkupAssumption DEF Worker
<1>4. \A w \in Worker : InitialCounter(w) \in Nat
  BY <1>3 DEF InitialCounter
<1>5. TypeOK
  BY <1>2, <1>4 DEF Init, TypeOK
<1>6. MapInv
  BY DEF Init, MapInv, Injective
<1>7. QED BY <1>1, <1>5, <1>6 DEF MInv

(* The state keeps its types.                                              *)
LEMMA NextTypes ==
    ASSUME MInv, [Next]_vars, CP!IInv'
    PROVE  TypeOK'
<1> USE DEF MInv
<1>1. CP!TypeOK' => Crawler!TypeOK'
  BY CrawlerTypes, PTL
<1>2. Crawler!TypeOK'
  BY <1>1 DEF CP!IInv
<1>3. CASE UNCHANGED vars
  BY <1>2, <1>3 DEF vars, handlerVars, TypeOK
<1>4. ASSUME NEW w \in Worker, FetchFiles(w) PROVE TypeOK'
  BY <1>2, <1>4 DEF FetchFiles, handlerVars, TypeOK
<1>5. ASSUME NEW w \in Worker, MarkupTag(w) PROVE TypeOK'
  <2>1. /\ counter[w] \in Nat /\ values[w] \in Seq(Nat)
        /\ Increment \in Nat
    BY ClientAssumption, MarkupAssumption DEF TypeOK, Increment
  <2>2. Append(values[w], counter[w]) \in Seq(Nat) /\ counter[w] + Increment \in Nat
    BY <2>1
  <2>3. NextTag(w) \in Content
    <3>1. /\ Tags[CurrentFile(w)] \in Seq(Content)
          /\ Len(values[w]) + 1 \in 1 .. Len(Tags[CurrentFile(w)])
      BY <1>5, <2>1, TagsOfFile DEF MarkupTag
    <3>2. QED BY <3>1 DEF NextTag
  <2>4. map[w] \in [Content -> Nat \cup {-1}]
    BY DEF TypeOK
  <2>5. CASE Count(w)
    BY <1>2, <1>5, <2>2, <2>5 DEF MarkupTag, Count, Give, Advance, TypeOK
  <2>6. CASE LookUp(w)
    <3>1. CASE map[w][NextTag(w)] = -1
      <4>1. map' \in [Worker -> [Content -> Nat \cup {-1}]]
        <5> DEFINE entered == [map[w] EXCEPT ![NextTag(w)] = counter[w]]
        <5>1. map' = [map EXCEPT ![w] = entered]
          BY <2>6, <3>1 DEF LookUp
        <5>2. entered \in [Content -> Nat \cup {-1}]
          BY <2>1, <2>4
        <5>3. map \in [Worker -> [Content -> Nat \cup {-1}]]
          BY DEF TypeOK
        <5> HIDE DEF entered
        <5>4. QED BY <5>1, <5>2, <5>3
      <4>2. QED
        BY <1>2, <1>5, <2>2, <2>6, <3>1, <4>1
           DEF MarkupTag, LookUp, Give, Advance, TypeOK
    <3>2. CASE map[w][NextTag(w)] # -1
      <4>1. map[w][NextTag(w)] \in Nat
        BY <2>3, <2>4, <3>2
      <4>2. Append(values[w], map[w][NextTag(w)]) \in Seq(Nat)
        BY <2>1, <4>1
      <4>3. QED
        BY <1>2, <1>5, <2>6, <3>2, <4>2 DEF MarkupTag, LookUp, Give, TypeOK
    <3>3. QED BY <3>1, <3>2
  <2>7. QED BY <1>5, <2>5, <2>6 DEF MarkupTag
<1>6. ASSUME NEW w \in Worker, WriteFile(w) PROVE TypeOK'
  <2>1. batch[w] # <<>>
    BY <1>6 DEF WriteFile, NextFile, Crawler!FileDone
  <2>2. CurrentFile(w) \in File /\ Tags[CurrentFile(w)] \in Seq(Content)
    BY <2>1, TagsOfFile
  <2>3. values[w] \in Seq(Nat) /\ Len(values[w]) = Len(Tags[CurrentFile(w)])
    BY <1>6 DEF WriteFile, TypeOK
  <2>4. \A i \in DOMAIN values[w] :
            /\ i \in Nat \ {0} /\ values[w][i] \in Nat
            /\ Tags[CurrentFile(w)][i] \in Content
    <3> HIDE DEF MInv
    <3> DEFINE n == Len(values[w])
    <3>1. n \in Nat /\ DOMAIN values[w] = 1 .. n /\ n = Len(Tags[CurrentFile(w)])
      BY <2>3
    <3>2. \A i \in 1 .. n : values[w][i] \in Nat
      BY <2>3
    <3>3. \A i \in 1 .. n : Tags[CurrentFile(w)][i] \in Content
      BY <2>2, <3>1
    <3>4. QED BY <3>1, <3>2, <3>3
  <2>5. outputs' \subseteq [file : File, tag : Nat \ {0}, by : Worker,
                            content : Content, value : Nat]
    BY <1>6, <2>2, <2>4 DEF WriteFile, TypeOK
  <2>6. values' \in [Worker -> Seq(Nat)]
    BY <1>6 DEF WriteFile, NextFile, TypeOK
  <2>7. QED BY <1>2, <1>6, <2>5, <2>6 DEF WriteFile, NextFile, TypeOK
<1>7. ASSUME NEW w \in Worker, FileLost(w) PROVE TypeOK'
  <2>1. values' \in [Worker -> Seq(Nat)]
    BY <1>7 DEF FileLost, NextFile, TypeOK
  <2>2. QED BY <1>2, <1>7, <2>1 DEF FileLost, NextFile, TypeOK
<1>8. ASSUME NEW w \in Worker, FileThrows(w) PROVE TypeOK'
  BY <1>2, <1>8 DEF FileThrows, handlerVars, TypeOK
<1>9. QED
  BY <1>3, <1>4, <1>5, <1>6, <1>7, <1>8 DEF Next, Run, Joined

(* A tag whose content is new is given the next number, which no entry of  *)
(* the map has; another one is given the number of its content.            *)
LEMMA MarkupTagMapInv ==
    ASSUME TypeOK, MapInv, markup = "map", NEW w \in Worker, MarkupTag(w)
    PROVE  MapInv'
<1> DEFINE c == NextTag(w)
           n == Len(values[w])
           f == CurrentFile(w)
<1>1. /\ w \notin ended /\ batch[w] # <<>> /\ n < Len(Tags[f])
      /\ LookUp(w)
      /\ batch' = batch /\ ended' = ended /\ outputs' = outputs
  BY DEF MarkupTag, crawlerVars
<1>2. Tags[f] \in Seq(Content)
  BY <1>1, TagsOfFile
<1>3. values[w] \in Seq(Nat) /\ n \in Nat
  BY DEF TypeOK
<1>4. c = Tags[f][n + 1] /\ c \in Content
  BY <1>1, <1>2, <1>3 DEF NextTag
<1>5. /\ counter \in [Worker -> Nat] /\ counter[w] \in Nat
      /\ map \in [Worker -> [Content -> Nat \cup {-1}]]
      /\ values \in [Worker -> Seq(Nat)]
  BY DEF TypeOK
<1>6. Injective(w)
  BY DEF MapInv
<1>7. PICK value \in Nat :
          /\ values' = [values EXCEPT ![w] = Append(@, value)]
          /\ map'[w][c] = value
          /\ map' \in [Worker -> [Content -> Nat \cup {-1}]]
          /\ \A v \in Worker : v # w => map'[v] = map[v] /\ counter'[v] = counter[v]
          /\ \A d \in Content : map[w][d] # -1 => map'[w][d] = map[w][d]
          /\ Injective(w)'
  <2>1. CASE map[w][c] = -1
    <3> DEFINE entered == [map[w] EXCEPT ![c] = counter[w]]
    <3>1. /\ values' = [values EXCEPT ![w] = Append(@, counter[w])]
          /\ counter' = [counter EXCEPT ![w] = @ + 1]
          /\ map' = [map EXCEPT ![w] = entered]
      BY <1>1, <2>1 DEF LookUp, Give, Advance, Increment
    <3>2. /\ entered \in [Content -> Nat \cup {-1}]
          /\ entered[c] = counter[w]
          /\ \A d \in Content : d # c => entered[d] = map[w][d]
      BY <1>4, <1>5
    <3> HIDE DEF entered
    <3>3. /\ map' \in [Worker -> [Content -> Nat \cup {-1}]]
          /\ map'[w] = entered
          /\ counter'[w] = counter[w] + 1
          /\ \A v \in Worker : v # w => map'[v] = map[v] /\ counter'[v] = counter[v]
      BY <1>5, <3>1, <3>2
    <3>4. Injective(w)'
      <4> SUFFICES ASSUME NEW d \in Content, entered[d] # -1
                   PROVE  /\ entered[d] < counter[w] + 1
                          /\ \A e \in Content : entered[d] = entered[e] => d = e
        BY <3>3 DEF Injective
      <4>1. \A e \in Content : e # c /\ map[w][e] # -1 => map[w][e] < counter[w]
        BY <1>6 DEF Injective
      <4>2. \A e \in Content : map[w][e] \in Nat \cup {-1}
        BY <1>5
      <4>3. CASE d = c
        BY <1>5, <3>2, <4>1, <4>2, <4>3
      <4>4. CASE d # c
        <5>1. entered[d] = map[w][d] /\ map[w][d] < counter[w] /\ map[w][d] \in Nat
          BY <3>2, <4>1, <4>2, <4>4
        <5>2. \A e \in Content : map[w][d] = map[w][e] => d = e
          BY <1>6, <5>1 DEF Injective
        <5>3. QED BY <1>5, <3>2, <5>1, <5>2
      <4>5. QED BY <4>3, <4>4
    <3>5. QED BY <1>5, <2>1, <3>1, <3>2, <3>3, <3>4
  <2>2. CASE map[w][c] # -1
    <3>1. map[w][c] \in Nat
      BY <1>4, <1>5, <2>2
    <3>2. /\ values' = [values EXCEPT ![w] = Append(@, map[w][c])]
          /\ UNCHANGED <<counter, map>>
      BY <1>1, <2>2 DEF LookUp, Give
    <3>3. Injective(w)'
      BY <1>6, <3>2 DEF Injective
    <3>4. QED BY <1>5, <3>1, <3>2, <3>3
  <2>3. QED BY <2>1, <2>2
<1>8. \A v \in Worker : v # w => values'[v] = values[v]
  BY <1>5, <1>7
<1>9. \A v \in Worker : Injective(v)'
  <2>1. ASSUME NEW v \in Worker, v # w PROVE Injective(v)'
    BY <1>7, <2>1 DEF MapInv, Injective
  <2>2. QED BY <1>7, <2>1
<1>10. ASSUME NEW v \in Worker \ ended, values'[v] # <<>>
       PROVE  FromTheMap(v)'
  <2>1. CASE v # w
    <3>1. values'[v] = values[v] /\ map'[v] = map[v]
      BY <1>7, <1>8, <2>1
    <3>2. FromTheMap(v)
      BY <1>10, <3>1 DEF MapInv
    <3>3. QED BY <1>1, <3>1, <3>2 DEF FromTheMap, CurrentFile
  <2>2. CASE v = w
    <3>1. /\ values'[w] \in Seq(Nat) /\ Len(values'[w]) = n + 1
          /\ \A i \in 1 .. n : values'[w][i] = values[w][i]
          /\ values'[w][n + 1] = value
      BY <1>3, <1>5, <1>7, AppendValue
    <3>2. CurrentFile(w)' = f
      BY <1>1 DEF CurrentFile
    <3>3. \A i \in 1 .. n :
              values[w][i] = map[w][Tags[f][i]] /\ values[w][i] # -1
      <4>1. CASE values[w] # <<>>
        BY <1>1, <4>1 DEF MapInv, FromTheMap
      <4>2. CASE values[w] = <<>>
        <5>1. n = 0
          BY <4>2
        <5>2. QED BY <5>1
      <4>3. QED BY <4>1, <4>2
    <3>4. \A i \in 1 .. n : Tags[f][i] \in Content
      BY <1>1, <1>2, <1>3
    <3>5. \A i \in 1 .. n + 1 :
              values'[w][i] = map'[w][Tags[f][i]] /\ values'[w][i] # -1
      <4>1. ASSUME NEW i \in 1 .. n
            PROVE  values'[w][i] = map'[w][Tags[f][i]] /\ values'[w][i] # -1
        BY <1>7, <3>1, <3>3, <3>4
      <4>2. values'[w][n + 1] = map'[w][Tags[f][n + 1]] /\ values'[w][n + 1] # -1
        BY <1>4, <1>7, <3>1
      <4>3. \A i \in 1 .. n + 1 : i \in 1 .. n \/ i = n + 1
        BY <1>3
      <4>4. QED BY <4>1, <4>2, <4>3
    <3>6. Len(Tags[f]) \in Nat /\ n + 1 <= Len(Tags[f])
      BY <1>1, <1>2, <1>3
    <3>7. QED BY <1>1, <2>2, <3>1, <3>2, <3>5, <3>6 DEF FromTheMap
  <2>3. QED BY <2>1, <2>2
<1>11. ASSUME NEW x \in outputs
       PROVE  x.value = map'[x.by][x.content] /\ x.value # -1
  <2>1. /\ x.by \in Worker /\ x.content \in Content
        /\ x.value = map[x.by][x.content] /\ x.value # -1
    BY DEF TypeOK, MapInv
  <2>2. QED BY <1>7, <2>1
<1>12. QED BY <1>1, <1>9, <1>10, <1>11 DEF MapInv

(* A written file's tags have the numbers the map has for their contents.  *)
LEMMA WriteFileMapInv ==
    ASSUME TypeOK, MapInv, NEW w \in Worker, WriteFile(w)
    PROVE  MapInv'
<1> DEFINE n == Len(values[w])
           f == CurrentFile(w)
<1>1. /\ w \notin ended
      /\ values' = [values EXCEPT ![w] = <<>>]
      /\ batch' = [batch EXCEPT ![w] = Tail(@)]
      /\ map' = map /\ counter' = counter /\ ended' = ended
  BY DEF WriteFile, NextFile, Crawler!FileDone
<1>2. values[w] \in Seq(Nat) /\ DOMAIN values[w] = 1 .. n /\ n \in Nat
  BY DEF TypeOK
<1>3. ASSUME NEW i \in 1 .. n
      PROVE  values[w][i] = map[w][Tags[f][i]] /\ values[w][i] # -1
  <2>1. values[w] # <<>>
    BY <1>2
  <2>2. QED BY <1>1, <2>1 DEF MapInv, FromTheMap
<1>4. \A v \in Worker : Injective(v)'
  BY <1>1 DEF MapInv, Injective
<1>5. ASSUME NEW v \in Worker \ ended', values'[v] # <<>>
      PROVE  FromTheMap(v)'
  <2>1. v # w
    BY <1>1, <1>5 DEF TypeOK
  <2>2. values'[v] = values[v] /\ batch'[v] = batch[v]
    BY <1>1, <2>1 DEF TypeOK, Crawler!TypeOK
  <2>3. FromTheMap(v)
    BY <1>1, <1>5, <2>2 DEF MapInv
  <2>4. QED BY <1>1, <2>2, <2>3 DEF FromTheMap, CurrentFile
<1>6. ASSUME NEW x \in outputs'
      PROVE  x.value = map[x.by][x.content] /\ x.value # -1
  <2>1. CASE x \in outputs
    BY <2>1 DEF MapInv
  <2>2. CASE x \notin outputs
    <3>1. PICK i \in 1 .. n :
              x = [file |-> f, tag |-> i, by |-> w,
                   content |-> Tags[f][i], value |-> values[w][i]]
      BY <1>2, <2>2 DEF WriteFile
    <3>2. x.by = w /\ x.content = Tags[f][i] /\ x.value = values[w][i]
      BY <3>1
    <3>3. QED BY <1>3, <3>2
  <2>3. QED BY <2>1, <2>2
<1>7. QED BY <1>1, <1>4, <1>5, <1>6 DEF MapInv

(* Every step keeps the maps and what was written by them.                 *)
LEMMA NextMapInv ==
    ASSUME TypeOK, MapInv, markup = "map", [Next]_vars
    PROVE  MapInv'
<1>1. CASE UNCHANGED vars
  BY <1>1 DEF vars, crawlerVars, handlerVars, MapInv, Injective, FromTheMap,
     CurrentFile
<1>2. ASSUME NEW w \in Worker, FetchFiles(w) PROVE MapInv'
  <2>1. /\ UNCHANGED <<handlerVars, outputs>> /\ ended \subseteq ended'
    BY <1>2 DEF FetchFiles
  <2>2. batch[w] = <<>> /\ w \notin ended
    BY <1>2 DEF FetchFiles, Crawler!Fetch, Crawler!FetchNothing, Crawler!FetchFails
  <2>3. \A v \in Worker : v # w => batch'[v] = batch[v]
    BY <1>2 DEF FetchFiles, Crawler!Fetch, Crawler!FetchNothing,
       Crawler!FetchFails, TypeOK, Crawler!TypeOK
  <2>4. values[w] = <<>>
    BY <2>2 DEF MapInv, FromTheMap
  <2>5. QED
    BY <2>1, <2>3, <2>4 DEF handlerVars, MapInv, Injective, FromTheMap, CurrentFile
<1>3. ASSUME NEW w \in Worker, FileLost(w) PROVE MapInv'
  <2>1. /\ values' = [values EXCEPT ![w] = <<>>]
        /\ batch' = [batch EXCEPT ![w] = Tail(@)]
        /\ UNCHANGED <<map, counter, ended, outputs>>
    BY <1>3 DEF FileLost, NextFile, Crawler!FileDone
  <2>2. \A v \in Worker : v # w => values'[v] = values[v] /\ batch'[v] = batch[v]
    BY <2>1 DEF TypeOK, Crawler!TypeOK
  <2>3. values'[w] = <<>>
    BY <2>1 DEF TypeOK
  <2>4. QED
    BY <2>1, <2>2, <2>3 DEF MapInv, Injective, FromTheMap, CurrentFile
<1>4. ASSUME NEW w \in Worker, FileThrows(w) PROVE MapInv'
  <2>1. /\ batch' = [batch EXCEPT ![w] = <<>>] /\ ended' = ended \cup {w}
        /\ UNCHANGED <<handlerVars, outputs>>
    BY <1>4 DEF FileThrows
  <2>2. \A v \in Worker : v # w => batch'[v] = batch[v]
    BY <2>1 DEF TypeOK, Crawler!TypeOK
  <2>3. QED
    BY <2>1, <2>2 DEF handlerVars, MapInv, Injective, FromTheMap, CurrentFile
<1>5. QED
  BY <1>1, <1>2, <1>3, <1>4, MarkupTagMapInv, WriteFileMapInv DEF Next, Run, Joined

(* Every step preserves the crawler, the types and the maps.               *)
LEMMA NextMInv == MInv /\ [Next]_vars => MInv'
<1> SUFFICES ASSUME MInv, [Next]_vars PROVE MInv'
  OBVIOUS
<1>1. CP!IInv'
  BY NextCrawler DEF MInv
<1>2. TypeOK'
  BY <1>1, NextTypes
<1>3. markup' = markup
  BY DEF Next, Run, FetchFiles, MarkupTag, WriteFile, FileLost, FileThrows,
         NextFile, Joined, vars
<1>4. markup = "map" => MapInv'
  BY NextMapInv DEF MInv
<1>5. QED BY <1>1, <1>2, <1>3, <1>4 DEF MInv

(* The invariant of the workers, their crawler and their maps.             *)
LEMMA MInvHolds == Spec => []MInv
BY InitMInv, NextMInv, PTL DEF Spec

(* The state has its types, whatever is handed out, fails or throws.       *)
THEOREM TypeCorrect == Spec => []TypeOK
<1>1. MInv => TypeOK
  BY DEF MInv
<1>2. QED BY <1>1, MInvHolds, PTL

(* --markup map: within the files of one worker equal contents have the    *)
(* same number and different ones different numbers, for every number of   *)
(* workers and all files, whatever failed between the files.               *)
THEOREM MapsStayConsistent == Spec => []MapsAreConsistent
<1>1. MInv => MapsAreConsistent
  <2> SUFFICES ASSUME MInv, markup = "map", NEW x \in outputs, NEW y \in outputs,
                      x.by = y.by
               PROVE  x.value = y.value <=> x.content = y.content
    BY DEF MapsAreConsistent
  <2>1. /\ x.by \in Worker /\ x.content \in Content /\ y.content \in Content
    BY DEF MInv, TypeOK
  <2>2. /\ x.value = map[x.by][x.content] /\ x.value # -1
        /\ y.value = map[x.by][y.content]
    BY DEF MInv, MapInv
  <2>3. Injective(x.by)
    BY <2>1 DEF MInv, MapInv
  <2>4. QED BY <2>1, <2>2, <2>3 DEF Injective
<1>2. QED BY <1>1, MInvHolds, PTL

-----------------------------------------------------------------------------
(* The loop over the documents of the storage, and its transaction.        *)
LoopInv ==
    LET terms == withTerms[storage]
        updated == written[storage] \cup transaction
    IN  /\ storage \in Storage
        /\ di \in 1 .. nofDocuments[storage] + 1
        /\ updated \subseteq terms
        /\ \A d \in terms : d < di => d \in updated
        /\ \A d \in updated, e \in terms : di <= e => d <= e
        /\ \A d \in written[storage], e \in transaction : d <= e
        /\ IsFiniteSet(transaction)
        /\ Cardinality(transaction) <= transactionCount

(* What UpdatedInOrder says of a storage behind the program.               *)
Finished(s) ==
    /\ Missing(s) # {} => Cardinality(Missing(s)) < transactionSize
    /\ \A d \in Missing(s), e \in written[s] : e < d

CalcInv ==
    /\ CalcTypeOK
    /\ \A s \in Storage : withTerms[s] \subseteq 1 .. nofDocuments[s]
    /\ \A s \in Storage : s > storage \/ phase = "fill"
                          \/ (phase = "open" /\ s = storage) => written[s] = {}
    /\ phase \in {"open", "update", "done"} =>
          \A s \in Storage : s < storage => Finished(s)
    /\ phase = "update" => LoopInv
    /\ phase = "done" => storage \notin Storage

-----------------------------------------------------------------------------
(* The loop at number i with e, the first document from i on.              *)
LEMMA OneMoreUpdated ==
    ASSUME NEW T, T \subseteq Nat, NEW U, U \subseteq T, NEW i \in Nat,
           \A d \in T : d < i => d \in U,
           \A d \in U, f \in T : i <= f => d <= f,
           NEW e \in T, i <= e, \A d \in T : i <= d => e <= d
    PROVE  /\ U \cup {e} \subseteq T
           /\ \A d \in T : d < i + 1 => d \in U \cup {e}
           /\ \A d \in U \cup {e}, f \in T : i + 1 <= f => d <= f
<1>1. ASSUME NEW d \in T, d < i + 1 PROVE d \in U \cup {e}
  <2>1. d < i \/ d = i
    BY <1>1
  <2>2. ASSUME d = i PROVE d = e
    <3>1. e <= d /\ d <= e /\ d \in Nat /\ e \in Nat
      BY <2>2
    <3>2. QED BY <3>1
  <2>3. QED BY <2>1, <2>2
<1>2. ASSUME NEW d \in U \cup {e}, NEW f \in T, i + 1 <= f PROVE d <= f
  <2>1. i <= f
    BY <1>2
  <2>2. QED BY <2>1
<1>3. QED BY <1>1, <1>2

(* The next document of the loop.                                          *)
LEMMA NextFound ==
    ASSUME CalcInv, InLoop
    PROVE  /\ storage \in Storage
           /\ withTerms[storage] \subseteq 1 .. nofDocuments[storage]
           /\ withTerms[storage] \subseteq Nat
           /\ nofDocuments[storage] \in Nat
           /\ di \in 1 .. nofDocuments[storage]
           /\ di + 1 \in 1 .. nofDocuments[storage] + 1
           /\ SkipDoc(di) \in withTerms[storage]
           /\ di <= SkipDoc(di)
           /\ \A e \in withTerms[storage] : di <= e => SkipDoc(di) <= e
<1> DEFINE T == withTerms[storage]
           later == {e \in T : e >= di}
<1>1. /\ storage \in Storage /\ phase = "update" /\ SkipDoc(di) # 0
      /\ nofDocuments[storage] \in Nat /\ di \in 1 .. nofDocuments[storage]
      /\ T \subseteq 1 .. nofDocuments[storage]
  BY CalcAssumption DEF CalcInv, LoopInv, InLoop, CalcTypeOK
<1>2. SkipDoc(di) = IF later = {} THEN 0 ELSE Min(later)
  BY DEF SkipDoc
<1>3. later # {} /\ later \subseteq Nat
  BY <1>1, <1>2
<1>4. SkipDoc(di) \in later /\ \A e \in later : SkipDoc(di) <= e
  <2> HIDE DEF later
  <2>1. SkipDoc(di) = Min(later)
    BY <1>2, <1>3
  <2>2. QED BY <1>3, <2>1, MinOfNumbers
<1>5. QED BY <1>1, <1>4

(* A document is updated, the transaction goes on or is committed.         *)
LEMMA UpdateKeepsLoop ==
    ASSUME CalcInv, UpdateDocument \/ UpdateAndCommit
    PROVE  LoopInv' /\ transactionCount' \in {n \in Nat : n = 0 \/ n < transactionSize}
<1> DEFINE T == withTerms[storage]
           W == written[storage]
           U == W \cup transaction
           e == SkipDoc(di)
<1>1. InLoop /\ phase = "update" /\ UNCHANGED <<inputVars, storage>>
  BY DEF UpdateDocument, UpdateAndCommit, InLoop
<1>2. /\ storage \in Storage /\ T \subseteq Nat /\ di \in 1 .. nofDocuments[storage]
      /\ nofDocuments[storage] \in Nat
      /\ di + 1 \in 1 .. nofDocuments[storage] + 1
      /\ e \in T /\ di <= e /\ \A d \in T : di <= d => e <= d
  BY <1>1, NextFound
<1>3. /\ U \subseteq T
      /\ \A d \in T : d < di => d \in U
      /\ \A d \in U, f \in T : di <= f => d <= f
      /\ \A d \in W, f \in transaction : d <= f
      /\ IsFiniteSet(transaction) /\ Cardinality(transaction) <= transactionCount
  BY <1>1 DEF CalcInv, LoopInv
<1>4. /\ U \cup {e} \subseteq T
      /\ \A d \in T : d < di + 1 => d \in U \cup {e}
      /\ \A d \in U \cup {e}, f \in T : di + 1 <= f => d <= f
  <2>1. di \in Nat
    BY <1>2
  <2> HIDE DEF T, U, e
  <2>2. QED BY <1>2, <1>3, <2>1, OneMoreUpdated
<1>5. /\ transactionSize \in Nat /\ transactionCount \in Nat
      /\ written \in [Storage -> SUBSET Docno]
  BY CalcAssumption DEF CalcInv, CalcTypeOK
<1>6. /\ storage' = storage /\ withTerms' = withTerms /\ di' = di + 1
      /\ nofDocuments' = nofDocuments
  BY <1>1 DEF inputVars, UpdateDocument, UpdateAndCommit
<1>7. CASE UpdateDocument
  <2>1. /\ transactionCount + 1 < transactionSize /\ transaction' = transaction \cup {e}
        /\ transactionCount' = transactionCount + 1 /\ written' = written
    BY <1>7 DEF UpdateDocument
  <2>2. \A d \in W, f \in transaction \cup {e} : d <= f
    BY <1>2, <1>3
  <2>3. /\ IsFiniteSet(transaction \cup {e})
        /\ Cardinality(transaction) \in Nat
        /\ \/ Cardinality(transaction \cup {e}) = Cardinality(transaction)
           \/ Cardinality(transaction \cup {e}) = Cardinality(transaction) + 1
    <3> HIDE DEF e
    <3>1. QED BY <1>3, FS_AddElement, FS_CardinalityType
  <2> HIDE DEF e
  <2>4. Cardinality(transaction \cup {e}) <= transactionCount + 1
    BY <1>3, <1>5, <2>3
  <2>5. U \cup {e} = W \cup (transaction \cup {e})
    OBVIOUS
  <2> DEFINE R == transaction \cup {e}
  <2>6. /\ W \cup R \subseteq T
        /\ \A d \in T : d < di + 1 => d \in W \cup R
        /\ \A d \in W \cup R, f \in T : di + 1 <= f => d <= f
        /\ \A d \in W, f \in R : d <= f
        /\ IsFiniteSet(R) /\ Cardinality(R) <= transactionCount + 1
    BY <1>4, <2>2, <2>3, <2>4, <2>5
  <2>7. transaction' = R /\ written'[storage'] = W /\ withTerms'[storage'] = T
    BY <1>6, <2>1
  <2> HIDE DEF T, W, U, R
  <2>8. LoopInv'
    BY <1>2, <1>6, <2>1, <2>6, <2>7 DEF LoopInv
  <2>9. QED BY <1>5, <2>1, <2>8
<1>8. CASE UpdateAndCommit
  <2>1. /\ transaction' = {} /\ transactionCount' = 0
        /\ written' = [written EXCEPT ![storage] = @ \cup transaction \cup {e}]
    BY <1>8 DEF UpdateAndCommit
  <2>2. written'[storage'] = U \cup {e} /\ withTerms'[storage'] = T
    BY <1>2, <1>5, <1>6, <2>1
  <2>3. IsFiniteSet({}) /\ Cardinality({}) = 0
    BY FS_EmptySet
  <2> DEFINE V == U \cup {e}
  <2>4. /\ V \cup {} \subseteq T
        /\ \A d \in T : d < di + 1 => d \in V \cup {}
        /\ \A d \in V \cup {}, f \in T : di + 1 <= f => d <= f
        /\ IsFiniteSet({}) /\ Cardinality({}) <= 0
    <3>1. V \cup {} = V
      OBVIOUS
    <3> HIDE DEF U, e
    <3>2. QED BY <1>4, <2>3, <3>1
  <2> HIDE DEF T, W, U, V, e
  <2>5. written'[storage'] = V /\ transaction' = {} /\ withTerms'[storage'] = T
    BY <2>1, <2>2 DEF V
  <2>6. LoopInv'
    BY <1>2, <1>6, <2>1, <2>4, <2>5 DEF LoopInv
  <2>7. QED BY <2>1, <2>6
<1>9. QED BY <1>7, <1>8

(* The loop leaves a storage of which no more than the last documents are  *)
(* missing.                                                                *)
LEMMA ClosedIsFinished ==
    ASSUME CalcInv, NoDocumentLeft \/ EndOfDocuments
    PROVE  /\ written' \in [Storage -> SUBSET Docno]
           /\ \A s \in Storage : s # storage => written'[s] = written[s]
           /\ \A s \in Storage : s = storage => Finished(s)'
<1> DEFINE T == withTerms[storage]
           W == written[storage]
           V == written'[storage]
           M == T \ V
<1>1. phase = "update"
  BY DEF NoDocumentLeft, EndOfDocuments
<1>2. /\ storage \in Storage /\ T \subseteq 1 .. nofDocuments[storage]
      /\ nofDocuments[storage] \in Nat /\ T \subseteq Nat
      /\ di \in 1 .. nofDocuments[storage] + 1
      /\ W \cup transaction \subseteq T
      /\ \A d \in T : d < di => d \in W \cup transaction
      /\ \A d \in W, e \in transaction : d <= e
      /\ IsFiniteSet(transaction) /\ Cardinality(transaction) <= transactionCount
      /\ written \in [Storage -> SUBSET Docno] /\ T \subseteq Docno
      /\ transactionSize \in Nat
      /\ transactionCount \in Nat
      /\ transactionCount = 0 \/ transactionCount < transactionSize
  BY <1>1, CalcAssumption DEF CalcInv, LoopInv, CalcTypeOK
<1>3. /\ \/ V = W
         \/ V = W \cup transaction
      /\ written' \in [Storage -> SUBSET Docno]
      /\ \A s \in Storage : s # storage => written'[s] = written[s]
      /\ EndOfDocuments /\ transactionCount > 0 => V = W \cup transaction
  BY <1>2 DEF NoDocumentLeft, EndOfDocuments
<1>4. \A d \in T : d < di
  <2>1. CASE NoDocumentLeft
    <3> DEFINE later == {e \in T : e >= di}
    <3>1. later \subseteq Nat \ {0}
      BY <1>2
    <3>2. SkipDoc(di) = 0 /\ SkipDoc(di) = IF later = {} THEN 0 ELSE Min(later)
      BY <2>1 DEF NoDocumentLeft, SkipDoc
    <3>3. later = {}
      <4> HIDE DEF later
      <4>1. later # {} => Min(later) \in later
        BY <3>1, MinOfNumbers
      <4>2. QED BY <3>1, <3>2, <4>1
    <3>4. QED BY <1>2, <3>3
  <2>2. CASE EndOfDocuments
    <3>1. di > nofDocuments[storage]
      BY <2>2 DEF EndOfDocuments
    <3>2. QED BY <1>2, <3>1
  <2>3. QED BY <2>1, <2>2
<1>5. M \subseteq transaction
  BY <1>2, <1>3, <1>4
<1>6. IsFiniteSet(M) /\ Cardinality(M) <= Cardinality(transaction)
      /\ Cardinality(M) \in Nat /\ Cardinality(transaction) \in Nat
  <2> HIDE DEF M
  <2>1. QED BY <1>2, <1>5, FS_Subset, FS_CardinalityType
<1>7. ASSUME M # {} PROVE Cardinality(M) < transactionSize
  <2>1. Cardinality(M) # 0
    <3> HIDE DEF M
    <3>1. QED BY <1>6, <1>7, FS_EmptySet
  <2> HIDE DEF M
  <2>2. QED BY <1>2, <1>6, <2>1
<1>8. ASSUME NEW d \in M, NEW e \in V PROVE e < d
  <2>1. V = W
    BY <1>2, <1>3, <1>4
  <2>2. d \in transaction /\ d # e /\ d \in Nat /\ e \in Nat /\ e <= d
    BY <1>2, <1>5, <1>8, <2>1
  <2>3. QED BY <2>2
<1>9. transactionSize' = transactionSize /\ withTerms' = withTerms
  BY DEF NoDocumentLeft, EndOfDocuments, Close, inputVars
<1>10. /\ M # {} => Cardinality(M) < transactionSize'
       /\ \A d \in M, e \in V : e < d
  BY <1>7, <1>8, <1>9
<1>11. ASSUME NEW s \in Storage, s = storage PROVE Finished(s)'
  <2>1. M = withTerms'[s] \ written'[s] /\ V = written'[s]
    BY <1>9, <1>11
  <2> HIDE DEF M, V
  <2>2. QED BY <1>10, <2>1 DEF Finished, Missing
<1>12. QED BY <1>2, <1>3, <1>11

(* Every step keeps what is known of the storages.                         *)
LEMMA StepKeepsCalc ==
    ASSUME CalcInv, [CalcNext]_calcVars
    PROVE  CalcInv'
<1>1. /\ CalcTypeOK /\ NofStorages \in Nat /\ MaxDocno \in Nat /\ transactionSize \in Nat
      /\ storage \in 1 .. NofStorages + 1
  BY CalcAssumption DEF CalcInv, CalcTypeOK
<1>2. \A s \in Storage : s \in Int
  BY DEF Storage
<1>3. ASSUME UNCHANGED <<inputVars, written>>
      PROVE  /\ \A s \in Storage : withTerms'[s] \subseteq 1 .. nofDocuments'[s]
             /\ \A s \in Storage : Finished(s)' = Finished(s)
  BY <1>3 DEF CalcInv, inputVars, Finished, Missing
<1>4. CASE FillDfMap
  <2>1. CalcTypeOK'
    BY <1>1, <1>4 DEF FillDfMap, CalcTypeOK, inputVars, loopVars, Storage
  <2>2. UNCHANGED <<inputVars, written, phase>> /\ phase = "fill"
    BY <1>4 DEF FillDfMap
  <2>3. QED BY <1>3, <2>1, <2>2 DEF CalcInv
<1>5. CASE BeginUpdates
  <2>1. CalcTypeOK'
    BY <1>1, <1>5 DEF BeginUpdates, CalcTypeOK, inputVars, loopVars, Storage
  <2>2. /\ UNCHANGED <<inputVars, written>> /\ phase = "fill" /\ phase' = "open"
        /\ storage' = 1
    BY <1>5 DEF BeginUpdates
  <2>3. \A s \in Storage : ~(s < 1)
    BY DEF Storage
  <2>4. QED BY <1>3, <2>1, <2>2, <2>3 DEF CalcInv
<1>6. CASE OpenStorage
  <2>1. CalcTypeOK'
    BY <1>1, <1>6 DEF OpenStorage, CalcTypeOK, inputVars, loopVars, Storage
  <2>2. /\ UNCHANGED <<inputVars, written, storage>> /\ phase = "open" /\ phase' = "update"
        /\ storage \in Storage /\ di' = 1 /\ transaction' = {} /\ transactionCount' = 0
    BY <1>6 DEF OpenStorage
  <2>3. /\ written[storage] = {} /\ withTerms[storage] \subseteq Nat \ {0}
        /\ nofDocuments[storage] \in Nat /\ 1 \in 1 .. nofDocuments[storage] + 1
    BY <1>1, <2>2 DEF CalcInv, CalcTypeOK
  <2>4. written'[storage'] \cup transaction' = {} /\ withTerms'[storage'] \subseteq Nat \ {0}
    BY <2>2, <2>3 DEF inputVars
  <2>5. IsFiniteSet({}) /\ Cardinality({}) <= 0
    BY FS_EmptySet
  <2>6. \A d \in Nat \ {0} : ~(d < 1)
    OBVIOUS
  <2>7. LoopInv'
    BY <2>2, <2>3, <2>4, <2>5, <2>6 DEF LoopInv, inputVars
  <2>8. QED BY <1>2, <1>3, <2>1, <2>2, <2>7 DEF CalcInv
<1>7. CASE UpdateDocument \/ UpdateAndCommit
  <2>1. /\ LoopInv' /\ transactionCount' \in {n \in Nat : n = 0 \/ n < transactionSize}
        /\ storage \in Storage /\ di' \in 0 .. MaxDocno + 1 /\ SkipDoc(di) \in Docno
    <3>1. InLoop /\ di' = di + 1
      BY <1>7 DEF UpdateDocument, UpdateAndCommit
    <3>2. /\ storage \in Storage /\ SkipDoc(di) \in withTerms[storage]
          /\ di \in 1 .. nofDocuments[storage]
      BY <3>1, NextFound
    <3>3. withTerms[storage] \subseteq Docno /\ nofDocuments[storage] \in 0 .. MaxDocno
      BY <1>1, <3>2 DEF CalcTypeOK
    <3>4. di' \in 0 .. MaxDocno + 1
      BY <1>1, <3>1, <3>2, <3>3
    <3>5. QED BY <1>7, <3>2, <3>3, <3>4, UpdateKeepsLoop
  <2>2. /\ UNCHANGED <<inputVars, storage, phase, dfmap>> /\ phase = "update"
        /\ \/ /\ written' = written /\ transaction' = transaction \cup {SkipDoc(di)}
           \/ /\ transaction' = {}
              /\ written' = [written EXCEPT
                      ![storage] = @ \cup transaction \cup {SkipDoc(di)}]
    BY <1>7 DEF UpdateDocument, UpdateAndCommit, InLoop
  <2>3. /\ written' \in [Storage -> SUBSET Docno] /\ transaction' \in SUBSET Docno
        /\ \A s \in Storage : s # storage => written'[s] = written[s]
    BY <1>1, <2>1, <2>2 DEF CalcTypeOK
  <2>4. CalcTypeOK'
    BY <1>1, <2>1, <2>2, <2>3 DEF CalcTypeOK, inputVars
  <2>5. \A s \in Storage : s < storage \/ s > storage => s # storage
    BY <1>1, <1>2
  <2>6. \A s \in Storage : s < storage => Finished(s)'
    BY <2>2, <2>3, <2>5 DEF CalcInv, Finished, Missing, inputVars
  <2>7. \A s \in Storage : s > storage => written'[s] = {}
    BY <2>2, <2>3, <2>5 DEF CalcInv
  <2>8. \A s \in Storage : withTerms'[s] \subseteq 1 .. nofDocuments'[s]
    BY <2>2 DEF CalcInv, inputVars
  <2>9. QED BY <2>1, <2>2, <2>4, <2>6, <2>7, <2>8 DEF CalcInv
<1>8. CASE CommitAndFail
  <2>1. InLoop
    BY <1>8 DEF CommitAndFail
  <2>2. storage \in Storage /\ SkipDoc(di) \in Docno
    BY <1>1, <2>1, NextFound DEF CalcTypeOK
  <2>3. /\ UNCHANGED <<inputVars, storage, dfmap, loopVars>>
        /\ phase = "update" /\ phase' = "failed"
        /\ written' = [written EXCEPT ![storage] = @ \cup transaction \cup {SkipDoc(di)}]
    BY <1>8 DEF CommitAndFail, InLoop
  <2>4. /\ written' \in [Storage -> SUBSET Docno]
        /\ \A s \in Storage : s # storage => written'[s] = written[s]
    BY <1>1, <2>2, <2>3 DEF CalcTypeOK
  <2>5. CalcTypeOK'
    BY <1>1, <2>3, <2>4 DEF CalcTypeOK, inputVars, loopVars
  <2>6. \A s \in Storage : s > storage => s # storage
    BY <1>1, <1>2
  <2>7. \A s \in Storage : s > storage => written'[s] = {}
    BY <2>3, <2>4, <2>6 DEF CalcInv
  <2>8. \A s \in Storage : withTerms'[s] \subseteq 1 .. nofDocuments'[s]
    BY <2>3 DEF CalcInv, inputVars
  <2>9. QED BY <2>3, <2>5, <2>7, <2>8 DEF CalcInv
<1>9. CASE NoDocumentLeft \/ EndOfDocuments
  <2>1. /\ written' \in [Storage -> SUBSET Docno]
        /\ \A s \in Storage : s # storage => written'[s] = written[s]
        /\ \A s \in Storage : s = storage => Finished(s)'
    BY <1>9, ClosedIsFinished
  <2>2. /\ UNCHANGED <<inputVars, dfmap, di>> /\ phase = "update" /\ phase' = "open"
        /\ storage' = storage + 1 /\ transaction' = {} /\ transactionCount' = 0
    BY <1>9 DEF NoDocumentLeft, EndOfDocuments, Close
  <2>3. storage \in Storage
    BY <2>2 DEF CalcInv, LoopInv
  <2>4. CalcTypeOK'
    BY <1>1, <2>1, <2>2, <2>3 DEF CalcTypeOK, inputVars, Storage
  <2>5. \A s \in Storage : /\ s < storage => s # storage
                           /\ s < storage + 1 => s < storage \/ s = storage
                           /\ s > storage + 1 => s > storage /\ s # storage
                           /\ s = storage + 1 => s > storage /\ s # storage
    BY <1>1, <1>2
  <2>6. \A s \in Storage : s < storage => Finished(s)'
    BY <2>1, <2>2, <2>5 DEF CalcInv, Finished, Missing, inputVars
  <2>7. \A s \in Storage : s > storage + 1 \/ s = storage + 1 => written'[s] = {}
    BY <2>1, <2>2, <2>5 DEF CalcInv
  <2>8. \A s \in Storage : withTerms'[s] \subseteq 1 .. nofDocuments'[s]
    BY <2>2 DEF CalcInv, inputVars
  <2>9. \A s \in Storage : s < storage + 1 => Finished(s)'
    BY <2>1, <2>5, <2>6
  <2>10. QED BY <2>2, <2>4, <2>7, <2>8, <2>9 DEF CalcInv
<1>10. CASE Fail
  <2>1. CalcTypeOK'
    BY <1>1, <1>10 DEF Fail, CalcTypeOK, inputVars, loopVars
  <2>2. /\ UNCHANGED <<inputVars, written, storage>>
        /\ phase' = "failed"
    BY <1>10 DEF Fail
  <2>3. \A s \in Storage : s > storage => written'[s] = {}
    BY <2>2 DEF CalcInv
  <2>4. QED BY <1>3, <2>1, <2>2, <2>3 DEF CalcInv
<1>11. CASE Done
  <2>1. CalcTypeOK'
    BY <1>1, <1>11 DEF Done, CalcTypeOK, inputVars, loopVars
  <2>2. /\ UNCHANGED <<inputVars, written, storage>> /\ phase = "open" /\ phase' = "done"
        /\ storage \notin Storage
    BY <1>11 DEF Done
  <2>3. /\ \A s \in Storage : s > storage => written'[s] = {}
        /\ \A s \in Storage : s < storage => Finished(s)
    BY <2>2 DEF CalcInv
  <2>4. QED BY <1>3, <2>1, <2>2, <2>3 DEF CalcInv
<1>12. CASE UNCHANGED calcVars
  BY <1>12 DEF calcVars, inputVars, loopVars, CalcInv, CalcTypeOK, LoopInv, Finished, Missing
<1>13. QED
  BY <1>4, <1>5, <1>6, <1>7, <1>8, <1>9, <1>10, <1>11, <1>12
     DEF CalcNext, Progress, Terminated

(* The invariant of the storages.                                          *)
LEMMA CalcInvHolds == CalcSpec => []CalcInv
<1>1. CalcInit => CalcInv
  <2> SUFFICES ASSUME CalcInit PROVE CalcInv
    OBVIOUS
  <2>1. NofStorages \in Nat /\ MaxDocno \in Nat
    BY CalcAssumption
  <2>2. CalcTypeOK
    BY <2>1 DEF CalcInit, CalcTypeOK
  <2>3. QED BY <2>2 DEF CalcInit, CalcInv
<1>2. QED BY <1>1, StepKeepsCalc, PTL DEF CalcSpec

(* The state has its types, whatever fails and however the numbers of the  *)
(* documents lie.                                                          *)
THEOREM CalcTypeCorrect == CalcSpec => []CalcTypeOK
<1>1. CalcInv => CalcTypeOK
  BY DEF CalcInv
<1>2. QED BY <1>1, CalcInvHolds, PTL

(* For any gaps between the numbers of documents and any size of a         *)
(* transaction, the loop passes no document by, and of each storage a      *)
(* program that returns zero leaves out the last documents at most, fewer  *)
(* than make a transaction: updateStorageWithFormula.                      *)
THEOREM DocumentsUpdatedInOrder == CalcSpec => []UpdatedInOrder
<1>1. CalcInv => UpdatedInOrder
  <2> SUFFICES ASSUME CalcInv PROVE UpdatedInOrder
    OBVIOUS
  <2>1. \A s \in Storage : s > storage => written[s] = {}
    BY DEF CalcInv
  <2>2. phase = "update" =>
            {d \in withTerms[storage] : d < di} \subseteq written[storage] \cup transaction
    BY DEF CalcInv, LoopInv
  <2>3. ASSUME phase = "done", NEW s \in Storage PROVE Finished(s)
    <3>1. NofStorages \in Nat /\ storage \in 1 .. NofStorages + 1 /\ storage \notin Storage
      BY <2>3, CalcAssumption DEF CalcInv, CalcTypeOK
    <3>2. s < storage
      BY <3>1 DEF Storage
    <3>3. QED BY <2>3, <3>2 DEF CalcInv
  <2>4. QED BY <2>1, <2>2, <2>3 DEF UpdatedInOrder, Finished
<1>2. QED BY <1>1, CalcInvHolds, PTL

-----------------------------------------------------------------------------
(* The key map generator.                                                  *)

(* The sum of a sequence of numbers, element by element.                   *)
IsSum(f, s) ==
    /\ f \in [0 .. Len(s) -> Nat]
    /\ f[0] = 0
    /\ \A k \in 1 .. Len(s) : f[k] = f[k - 1] + s[k]

(* Total is the last of the partial sums.                                  *)
LEMMA TotalIsSum ==
    ASSUME NEW s \in Seq(Nat)
    PROVE  \E f : IsSum(f, s) /\ Total(s) = f[Len(s)]
<1> DEFINE m == Len(s)
           Def(c) == [k \in 0 .. m |-> IF k = 0 THEN 0 ELSE c[k - 1] + s[k]]
           sum == CHOOSE c : c = Def(c)
           h == [p \in Nat \X (1 .. m) |-> p[1] + s[p[2]]]
<1>1. m \in Nat /\ \A k \in 1 .. m : s[k] \in Nat
  OBVIOUS
<1> HIDE DEF m
<1>2. h \in [Nat \X (1 .. m) -> Nat]
  BY <1>1
<1>3. \A x \in Nat : \A k \in 1 .. m : h[<<x, k>>] = x + s[k]
  OBVIOUS
<1> HIDE DEF h
<1>4. PICK g \in [0 .. m -> Nat] : Recursion(g, m, 0, h)
  BY <1>1, <1>2, RecursionExists
<1>5. g = Def(g)
  <2>1. ASSUME NEW k \in 0 .. m
        PROVE  g[k] = IF k = 0 THEN 0 ELSE g[k - 1] + s[k]
    <3>1. CASE k = 0
      BY <1>4, <3>1 DEF Recursion
    <3>2. CASE k # 0
      <4>1. k \in 1 .. m /\ k - 1 \in 0 .. m
        BY <1>1, <3>2
      <4>2. g[k - 1] \in Nat /\ g[k] = h[<<g[k - 1], k>>]
        BY <1>4, <4>1 DEF Recursion
      <4>3. QED BY <1>3, <3>2, <4>1, <4>2
    <3>3. QED BY <3>1, <3>2
  <2>2. QED BY <2>1
<1>6. sum = Def(sum)
  BY <1>5
<1>7. Total(s) = sum[m]
  BY DEF Total, m
<1> HIDE DEF sum
<1>8. \A k \in 0 .. m : sum[k] = IF k = 0 THEN 0 ELSE sum[k - 1] + s[k]
  BY <1>6, Zenon
<1>9. sum = [k \in 0 .. m |-> sum[k]]
  BY <1>6, Zenon
<1>10. sum[0] = 0 /\ \A k \in 1 .. m : sum[k] = sum[k - 1] + s[k]
  <2>1. 0 \in 0 .. m /\ \A k \in 1 .. m : k \in 0 .. m /\ k # 0
    BY <1>1
  <2>2. QED BY <1>8, <2>1
<1>11. sum \in [0 .. m -> Nat]
  <2> DEFINE T == {k \in 0 .. m : sum[k] \in Nat}
  <2>1. 0 \in T
    BY <1>1, <1>10
  <2>2. ASSUME NEW k \in 0 .. m - 1, k \in T PROVE k + 1 \in T
    <3>1. k + 1 \in 1 .. m /\ (k + 1) - 1 = k /\ k + 1 \in 0 .. m
      BY <1>1
    <3>2. sum[k + 1] = sum[k] + s[k + 1]
      BY <1>10, <3>1
    <3>3. sum[k] \in Nat /\ s[k + 1] \in Nat
      BY <1>1, <2>2, <3>1
    <3>4. QED BY <3>1, <3>2, <3>3
  <2> HIDE DEF T
  <2>3. \A k \in 0 .. m : k \in T
    BY <1>1, <2>1, <2>2, InductiveInterval
  <2>4. QED BY <1>9, <2>3 DEF T
<1>12. QED BY <1>7, <1>10, <1>11 DEF m, IsSum

(* Any such sum has the total at its end, and it never falls.              *)
LEMMA SumIsTotal ==
    ASSUME NEW s \in Seq(Nat), NEW f, IsSum(f, s)
    PROVE  f[Len(s)] = Total(s) /\ Total(s) \in Nat
<1>1. PICK g : IsSum(g, s) /\ Total(s) = g[Len(s)]
  BY TotalIsSum
<1> DEFINE m == Len(s)
           T == {k \in 0 .. m : f[k] = g[k]}
<1>2. m \in Nat
  OBVIOUS
<1>3. 0 \in T
  BY <1>1, <1>2 DEF IsSum
<1>4. ASSUME NEW k \in 0 .. m - 1, k \in T PROVE k + 1 \in T
  <2>1. k + 1 \in 1 .. m /\ (k + 1) - 1 = k /\ k + 1 \in 0 .. m
    BY <1>2
  <2>2. f[k + 1] = f[k] + s[k + 1] /\ g[k + 1] = g[k] + s[k + 1]
    BY <1>1, <2>1 DEF IsSum
  <2>3. QED BY <1>4, <2>1, <2>2
<1> HIDE DEF T
<1>5. \A k \in 0 .. m : k \in T
  BY <1>2, <1>3, <1>4, InductiveInterval
<1>6. f[m] = g[m] /\ g[m] \in Nat
  <2>1. m \in 0 .. m
    BY <1>2
  <2>2. QED BY <1>1, <1>5, <2>1 DEF T, IsSum
<1>7. QED BY <1>1, <1>6

(* The total of numbers is a number.                                       *)
LEMMA TotalType ==
    ASSUME NEW s \in Seq(Nat)
    PROVE  Total(s) \in Nat
BY TotalIsSum, SumIsTotal

(* The total of no numbers is zero.                                        *)
LEMMA TotalEmpty == Total(<<>>) = 0
<1>1. <<>> \in Seq(Nat) /\ Len(<<>>) = 0
  OBVIOUS
<1>2. PICK f : IsSum(f, <<>>) /\ Total(<<>>) = f[Len(<<>>)]
  BY <1>1, TotalIsSum
<1>3. QED BY <1>1, <1>2 DEF IsSum

(* Sums do not fall.                                                       *)
LEMMA SumsAscend ==
    ASSUME NEW s \in Seq(Nat), NEW f, IsSum(f, s), NEW j \in 0 .. Len(s)
    PROVE  f[j] \in Nat /\ f[j] <= Total(s)
<1> DEFINE m == Len(s)
           T == {d \in 0 .. m : \A i \in 0 .. m : i + d <= m => f[i] <= f[i + d]}
<1>1. m \in Nat /\ \A k \in 1 .. m : s[k] \in Nat
  OBVIOUS
<1>2. \A i \in 0 .. m : f[i] \in Nat
  BY DEF IsSum
<1>3. 0 \in T
  BY <1>1, <1>2
<1>4. ASSUME NEW d \in 0 .. m - 1, d \in T PROVE d + 1 \in T
  <2>1. d + 1 \in 0 .. m
    BY <1>1
  <2>2. ASSUME NEW i \in 0 .. m, i + (d + 1) <= m PROVE f[i] <= f[i + (d + 1)]
    <3>1. i + d \in 0 .. m /\ i + (d + 1) \in 1 .. m /\ (i + (d + 1)) - 1 = i + d
      BY <1>1, <2>2
    <3>2. f[i + (d + 1)] = f[i + d] + s[i + (d + 1)]
      BY <3>1 DEF IsSum
    <3>3. f[i] <= f[i + d]
      BY <1>4, <3>1
    <3>4. f[i] \in Nat /\ f[i + d] \in Nat /\ s[i + (d + 1)] \in Nat
      BY <1>1, <1>2, <3>1
    <3>5. QED BY <3>2, <3>3, <3>4
  <2>3. QED BY <2>1, <2>2
<1> HIDE DEF T
<1>5. \A d \in 0 .. m : d \in T
  BY <1>1, <1>3, <1>4, InductiveInterval
<1>6. m - j \in 0 .. m /\ j \in 0 .. m /\ j + (m - j) = m
  BY <1>1
<1>7. f[j] <= f[m]
  <2>1. \A i \in 0 .. m : i + (m - j) <= m => f[i] <= f[i + (m - j)]
    BY <1>5, <1>6 DEF T
  <2>2. f[j] <= f[j + (m - j)]
    BY <1>1, <1>6, <2>1
  <2>3. QED BY <1>6, <2>2
<1>8. QED BY <1>2, <1>6, <1>7, SumIsTotal

(* A total is at least each of its numbers.                                *)
LEMMA TotalAtLeast ==
    ASSUME NEW s \in Seq(Nat), NEW k \in 1 .. Len(s)
    PROVE  s[k] <= Total(s)
<1>1. PICK f : IsSum(f, s)
  BY TotalIsSum
<1>2. Len(s) \in Nat /\ k \in 0 .. Len(s) /\ k - 1 \in 0 .. Len(s) /\ s[k] \in Nat
  OBVIOUS
<1>3. f[k] = f[k - 1] + s[k]
  BY <1>1 DEF IsSum
<1>4. f[k] <= Total(s) /\ f[k] \in Nat
  BY <1>1, <1>2, SumsAscend
<1>5. f[k - 1] \in Nat
  BY <1>1, <1>2 DEF IsSum
<1>6. Total(s) \in Nat
  BY TotalType
<1>7. QED BY <1>2, <1>3, <1>4, <1>5, <1>6

(* One element more.                                                       *)
LEMMA TotalMore ==
    ASSUME NEW s \in Seq(Nat), NEW t \in Seq(Nat), Len(t) = Len(s) + 1,
           \A i \in 1 .. Len(s) : t[i] = s[i]
    PROVE  Total(t) = Total(s) + t[Len(t)]
<1>1. PICK f : IsSum(f, t) /\ Total(t) = f[Len(t)]
  BY TotalIsSum
<1> DEFINE m == Len(s)
           g == [k \in 0 .. m |-> f[k]]
<1>2. m \in Nat /\ Len(t) = m + 1 /\ (m + 1) - 1 = m /\ m + 1 \in 1 .. m + 1
  OBVIOUS
<1>3. IsSum(g, s)
  <2>1. g \in [0 .. m -> Nat] /\ g[0] = 0
    BY <1>1, <1>2 DEF IsSum
  <2>2. ASSUME NEW k \in 1 .. m PROVE g[k] = g[k - 1] + s[k]
    <3>1. k \in 0 .. m /\ k - 1 \in 0 .. m /\ k \in 1 .. m + 1
      BY <1>2
    <3>2. f[k] = f[k - 1] + t[k]
      BY <1>1, <1>2, <3>1 DEF IsSum
    <3>3. QED BY <3>1, <3>2
  <2>3. QED BY <2>1, <2>2 DEF IsSum
<1>4. f[m] = Total(s)
  <2>1. g[m] = Total(s)
    BY <1>3, SumIsTotal
  <2>2. m \in 0 .. m
    BY <1>2
  <2>3. QED BY <2>1, <2>2
<1>5. f[m + 1] = f[m] + t[m + 1]
  BY <1>1, <1>2 DEF IsSum
<1>6. QED BY <1>1, <1>2, <1>4, <1>5

(* A number more adds to the total.                                        *)
LEMMA TotalAppend ==
    ASSUME NEW s \in Seq(Nat), NEW x \in Nat
    PROVE  Total(Append(s, x)) = Total(s) + x
<1> DEFINE t == Append(s, x)
<1>1. /\ t \in Seq(Nat) /\ Len(t) = Len(s) + 1 /\ Len(s) \in Nat
      /\ (\A i \in 1 .. Len(s) : t[i] = s[i]) /\ t[Len(s) + 1] = x
  OBVIOUS
<1> HIDE DEF t
<1>2. Total(t) = Total(s) + t[Len(t)]
  BY <1>1, TotalMore
<1>3. QED BY <1>1, <1>2 DEF t

(* The sum of a concatenation.                                             *)
LEMMA TotalConcat ==
    ASSUME NEW s \in Seq(Nat), NEW t \in Seq(Nat)
    PROVE  Total(s \o t) = Total(s) + Total(t)
<1>1. PICK f : IsSum(f, s \o t) /\ Total(s \o t) = f[Len(s \o t)]
  <2>1. s \o t \in Seq(Nat)
    BY ConcatProperties
  <2>2. QED BY <2>1, TotalIsSum
<1> DEFINE m == Len(s)
           n == Len(t)
           c == s \o t
           g == [k \in 0 .. m |-> f[k]]
           e == [k \in 0 .. n |-> f[m + k] - f[m]]
<1>2. m \in Nat /\ n \in Nat /\ Len(c) = m + n
  OBVIOUS
<1>3. /\ \A k \in 1 .. m : c[k] = s[k]
      /\ \A k \in 1 .. n : c[m + k] = t[k]
      /\ \A k \in 1 .. n : t[k] \in Nat
  <2>1. /\ \A k \in 1 .. m : c[k] = s[k]
        /\ \A k \in 1 .. n : t[k] \in Nat
    BY ConcatProperties
  <2>2. ASSUME NEW k \in 1 .. n PROVE c[m + k] = t[k]
    <3>1. m + k \in 1 .. m + n /\ m + k > m /\ (m + k) - m = k
      BY <1>2
    <3>2. QED BY <3>1, ConcatProperties
  <2>3. QED BY <2>1, <2>2
<1> HIDE DEF m, n, c
<1>4. /\ f \in [0 .. m + n -> Nat] /\ f[0] = 0
      /\ \A k \in 1 .. m + n : f[k] = f[k - 1] + c[k]
  BY <1>1, <1>2 DEF IsSum, c
<1>5. IsSum(g, s)
  <2>1. g \in [0 .. m -> Nat] /\ g[0] = 0
    BY <1>2, <1>4
  <2>2. ASSUME NEW k \in 1 .. m PROVE g[k] = g[k - 1] + s[k]
    <3>1. k \in 0 .. m /\ k - 1 \in 0 .. m /\ k \in 1 .. m + n
      BY <1>2
    <3>2. f[k] = f[k - 1] + s[k]
      BY <1>3, <1>4, <3>1
    <3>3. QED BY <3>1, <3>2
  <2>3. QED BY <2>1, <2>2 DEF IsSum, m
<1>6. f[m] = Total(s)
  <2> HIDE DEF g
  <2>1. g[m] = Total(s)
    BY <1>5, SumIsTotal DEF m
  <2>2. m \in 0 .. m
    BY <1>2
  <2>3. QED BY <2>1, <2>2 DEF g
<1>7. ASSUME NEW k \in 1 .. n
      PROVE  e[k] = e[k - 1] + t[k] /\ f[m + k] = f[m + (k - 1)] + t[k]
  <2>1. k \in 0 .. n /\ k - 1 \in 0 .. n /\ m + k \in 1 .. m + n
        /\ (m + k) - 1 = m + (k - 1) /\ m + (k - 1) \in 0 .. m + n /\ m \in 0 .. m + n
    BY <1>2
  <2>2. f[m + k] = f[m + (k - 1)] + t[k]
    BY <1>3, <1>4, <2>1
  <2>3. e[k] = f[m + k] - f[m] /\ e[k - 1] = f[m + (k - 1)] - f[m]
    BY <2>1
  <2>4. f[m + (k - 1)] \in Nat /\ f[m] \in Nat /\ t[k] \in Nat
    BY <1>2, <1>3, <1>4, <2>1
  <2>5. QED BY <2>2, <2>3, <2>4
<1>8. e[0] = 0
  <2>1. 0 \in 0 .. n /\ m + 0 = m /\ m \in 0 .. m + n
    BY <1>2
  <2>2. QED BY <1>4, <2>1
<1>9. e \in [0 .. n -> Nat]
  <2> DEFINE T == {k \in 0 .. n : e[k] \in Nat}
  <2>1. 0 \in T
    BY <1>2, <1>8
  <2>2. ASSUME NEW k \in 0 .. n - 1, k \in T PROVE k + 1 \in T
    <3>1. k + 1 \in 1 .. n /\ (k + 1) - 1 = k /\ k + 1 \in 0 .. n
      BY <1>2
    <3>2. e[k + 1] = e[k] + t[k + 1]
      BY <1>7, <3>1
    <3>3. e[k] \in Nat /\ t[k + 1] \in Nat
      BY <1>3, <2>2, <3>1
    <3>4. QED BY <3>1, <3>2, <3>3
  <2> HIDE DEF T
  <2>3. \A k \in 0 .. n : k \in T
    BY <1>2, <2>1, <2>2, InductiveInterval
  <2>4. QED BY <2>3 DEF T
<1> HIDE DEF e
<1>10. IsSum(e, t)
  BY <1>7, <1>8, <1>9 DEF IsSum, n
<1>11. e[n] = Total(t)
  BY <1>10, SumIsTotal DEF n
<1>12. e[n] = f[m + n] - f[m] /\ f[m + n] \in Nat /\ f[m] \in Nat
  <2>1. n \in 0 .. n /\ m + n \in 0 .. m + n /\ m \in 0 .. m + n
    BY <1>2
  <2>2. QED BY <1>4, <2>1 DEF e
<1>13. Total(s \o t) = f[m + n]
  BY <1>1, <1>2 DEF c
<1>14. QED BY <1>6, <1>11, <1>12, <1>13

(* The sum of zeros.                                                       *)
LEMMA TotalZero ==
    ASSUME NEW s \in Seq(Nat), \A i \in 1 .. Len(s) : s[i] = 0
    PROVE  Total(s) = 0
<1>1. PICK f : IsSum(f, s) /\ Total(s) = f[Len(s)]
  BY TotalIsSum
<1> DEFINE m == Len(s)
           T == {k \in 0 .. m : f[k] = 0}
<1>2. m \in Nat
  OBVIOUS
<1>3. 0 \in T
  BY <1>1, <1>2 DEF IsSum
<1>4. ASSUME NEW k \in 0 .. m - 1, k \in T PROVE k + 1 \in T
  <2>1. k + 1 \in 1 .. m /\ (k + 1) - 1 = k /\ k + 1 \in 0 .. m
    BY <1>2
  <2>2. f[k + 1] = f[k] + s[k + 1] /\ s[k + 1] = 0
    BY <1>1, <2>1 DEF IsSum
  <2>3. QED BY <1>4, <2>1, <2>2
<1> HIDE DEF T
<1>5. \A k \in 0 .. m : k \in T
  BY <1>2, <1>3, <1>4, InductiveInterval
<1>6. m \in 0 .. m
  BY <1>2
<1>7. QED BY <1>1, <1>5, <1>6 DEF T

(* Two sequences that differ in one element.                               *)
LEMMA TotalChanged ==
    ASSUME NEW s \in Seq(Nat), NEW t \in Seq(Nat), Len(t) = Len(s),
           NEW k \in 1 .. Len(s), \A i \in 1 .. Len(s) : i # k => t[i] = s[i]
    PROVE  Total(t) + s[k] = Total(s) + t[k]
<1>1. PICK f : IsSum(f, s) /\ Total(s) = f[Len(s)]
  BY TotalIsSum
<1>2. PICK g : IsSum(g, t) /\ Total(t) = g[Len(t)]
  BY TotalIsSum
<1> DEFINE m == Len(s)
           T == {j \in 0 .. m : /\ j < k => g[j] = f[j]
                                /\ j >= k => g[j] + s[k] = f[j] + t[k]}
<1>3. m \in Nat /\ k \in 1 .. m /\ \A i \in 1 .. m : s[i] \in Nat /\ t[i] \in Nat
  OBVIOUS
<1>4. /\ f[0] = 0 /\ g[0] = 0
      /\ \A j \in 0 .. m : f[j] \in Nat /\ g[j] \in Nat
      /\ \A j \in 1 .. m : f[j] = f[j - 1] + s[j] /\ g[j] = g[j - 1] + t[j]
  BY <1>1, <1>2 DEF IsSum
<1> HIDE DEF m
<1>5. 0 \in T
  BY <1>3, <1>4
<1>6. ASSUME NEW j \in 0 .. m - 1, j \in T PROVE j + 1 \in T
  <2>1. j + 1 \in 1 .. m /\ (j + 1) - 1 = j /\ j + 1 \in 0 .. m /\ j \in 0 .. m
    BY <1>3
  <2>2. f[j + 1] = f[j] + s[j + 1] /\ g[j + 1] = g[j] + t[j + 1]
    BY <1>4, <2>1
  <2>3. /\ f[j] \in Nat /\ g[j] \in Nat /\ s[j + 1] \in Nat /\ t[j + 1] \in Nat
        /\ s[k] \in Nat /\ t[k] \in Nat
    BY <1>3, <1>4, <2>1
  <2>4. CASE j + 1 < k
    <3>1. g[j] = f[j] /\ t[j + 1] = s[j + 1]
      BY <1>3, <1>6, <2>1, <2>4 DEF m
    <3>2. g[j + 1] = f[j + 1]
      BY <2>2, <3>1
    <3>3. QED BY <1>3, <2>1, <2>4, <3>2
  <2>5. CASE j + 1 = k
    <3>1. g[j] = f[j]
      BY <1>3, <1>6, <2>1, <2>5
    <3>2. g[j + 1] + s[j + 1] = f[j + 1] + t[j + 1]
      BY <2>2, <2>3, <3>1
    <3>3. QED BY <1>3, <2>1, <2>5, <3>2
  <2>6. CASE j + 1 > k
    <3>1. g[j] + s[k] = f[j] + t[k] /\ t[j + 1] = s[j + 1]
      BY <1>3, <1>6, <2>1, <2>6 DEF m
    <3>2. PICK a \in Nat, b \in Nat, p \in Nat, q \in Nat, x \in Nat :
              a = g[j] /\ b = f[j] /\ p = s[k] /\ q = t[k] /\ x = t[j + 1]
      BY <2>3, Zenon
    <3>3. a + p = b + q
      BY <3>1, <3>2, Zenon
    <3>4. (a + x) + p = (b + x) + q
      BY <3>3
    <3>5. g[j + 1] = a + x /\ f[j + 1] = b + x
      BY <2>2, <3>1, <3>2, Zenon
    <3>6. g[j + 1] + s[k] = f[j + 1] + t[k]
      BY <3>2, <3>4, <3>5, Zenon
    <3>7. QED BY <1>3, <2>1, <2>6, <3>6
  <2>7. QED BY <1>3, <2>1, <2>4, <2>5, <2>6
<1> HIDE DEF T
<1>7. \A j \in 0 .. m : j \in T
  BY <1>3, <1>5, <1>6, InductiveInterval
<1>8. m \in 0 .. m /\ m >= k
  BY <1>3
<1>9. g[m] + s[k] = f[m] + t[k]
  BY <1>7, <1>8 DEF T
<1>10. QED BY <1>1, <1>2, <1>9 DEF m

-----------------------------------------------------------------------------
(* The relation R orders the elements of S.                                *)
Orders(R, S) ==
    /\ \A x \in S : <<x, x>> \notin R
    /\ \A x, y, z \in S : <<x, y>> \in R /\ <<y, z>> \in R => <<x, z>> \in R
    /\ \A x, y \in S : x # y => <<x, y>> \in R \/ <<y, x>> \in R

IsInOrder(s, R, m) == \A i, j \in 1 .. m : i < j => <<s[i], s[j]>> \in R

IsLast(l, f, k, R) == \A i \in 1 .. k : f[i] = f[l] \/ <<f[i], f[l]>> \in R

(* Among finitely many there is a last one.                                *)
LEMMA LastElement ==
    ASSUME NEW S, NEW R, Orders(R, S), NEW k \in Nat \ {0}, NEW f \in [1 .. k -> S]
    PROVE  \E l \in 1 .. k : IsLast(l, f, k, R)
<1> DEFINE m == k - 1
           T == {n \in 0 .. m :
                    \E l \in 1 .. n + 1 : \A i \in 1 .. n + 1 :
                        f[i] = f[l] \/ <<f[i], f[l]>> \in R}
<1>0. m \in Nat /\ k = m + 1
  OBVIOUS
<1> HIDE DEF m
<1>1. 0 \in T
  <2>1. 1 \in 1 .. 0 + 1 /\ (\A i \in 1 .. 0 + 1 : i = 1) /\ 0 \in 0 .. m
    BY <1>0
  <2>2. QED BY <2>1
<1>2. ASSUME NEW n \in 0 .. m - 1, n \in T PROVE n + 1 \in T
  <2>1. PICK l \in 1 .. n + 1 : \A i \in 1 .. n + 1 : f[i] = f[l] \/ <<f[i], f[l]>> \in R
    BY <1>2
  <2> DEFINE o == (n + 1) + 1
  <2>2. /\ n + 1 \in 0 .. m /\ o \in 1 .. k /\ l \in 1 .. o /\ l \in 1 .. k /\ o \in 1 .. o
        /\ \A i \in 1 .. o : i \in 1 .. n + 1 \/ i = o
        /\ \A i \in 1 .. o : i \in 1 .. k
    BY <1>0
  <2> HIDE DEF o
  <2>3. CASE <<f[o], f[l]>> \in R \/ f[o] = f[l]
    <3>1. \A i \in 1 .. o : f[i] = f[l] \/ <<f[i], f[l]>> \in R
      BY <2>1, <2>2, <2>3
    <3>2. \E p \in 1 .. o : \A i \in 1 .. o : f[i] = f[p] \/ <<f[i], f[p]>> \in R
      BY <2>2, <3>1
    <3>3. QED BY <2>2, <3>2 DEF o
  <2>4. CASE ~(<<f[o], f[l]>> \in R \/ f[o] = f[l])
    <3>1. <<f[l], f[o]>> \in R
      BY <2>2, <2>4 DEF Orders
    <3>2. \A i \in 1 .. o : f[i] = f[o] \/ <<f[i], f[o]>> \in R
      <4>1. ASSUME NEW i \in 1 .. o PROVE f[i] = f[o] \/ <<f[i], f[o]>> \in R
        <5>1. CASE i = o
          BY <5>1
        <5>2. CASE i \in 1 .. n + 1 /\ f[i] = f[l]
          BY <3>1, <5>2
        <5>3. CASE i \in 1 .. n + 1 /\ <<f[i], f[l]>> \in R
          <6>1. f[i] \in S /\ f[l] \in S /\ f[o] \in S
            BY <2>2
          <6>2. QED BY <3>1, <5>3, <6>1 DEF Orders
        <5>4. QED BY <2>1, <2>2, <5>1, <5>2, <5>3
      <4>2. QED BY <4>1
    <3>3. \E p \in 1 .. o : \A i \in 1 .. o : f[i] = f[p] \/ <<f[i], f[p]>> \in R
      BY <2>2, <3>2
    <3>4. QED BY <2>2, <3>3 DEF o
  <2>5. QED BY <2>3, <2>4
<1> HIDE DEF T
<1>3. \A n \in 0 .. m : n \in T
  BY <1>0, <1>1, <1>2, InductiveInterval
<1>4. m \in 0 .. m
  BY <1>0
<1>5. QED BY <1>0, <1>3, <1>4 DEF T, IsLast

(* The elements of a finite set can be put in the order.                   *)
LEMMA OrderExists ==
    ASSUME NEW S, IsFiniteSet(S), NEW R, Orders(R, S)
    PROVE  \E s \in [1 .. Cardinality(S) -> S] : IsInOrder(s, R, Cardinality(S))
<1> DEFINE T == {n \in Nat :
                    \A U \in SUBSET S :
                        IsFiniteSet(U) /\ Cardinality(U) = n
                        => \E s \in [1 .. n -> U] : IsInOrder(s, R, n)}
<1>1. 0 \in T
  <2>1. ASSUME NEW U \in SUBSET S, IsFiniteSet(U), Cardinality(U) = 0
        PROVE  \E s \in [1 .. 0 -> U] : IsInOrder(s, R, 0)
    <3>1. [i \in 1 .. 0 |-> i] \in [1 .. 0 -> U]
      OBVIOUS
    <3>2. IsInOrder([i \in 1 .. 0 |-> i], R, 0)
      BY DEF IsInOrder
    <3>3. QED BY <3>1, <3>2
  <2>2. QED BY <2>1
<1>2. ASSUME NEW n \in Nat, n \in T PROVE n + 1 \in T
  <2>1. ASSUME NEW U \in SUBSET S, IsFiniteSet(U), Cardinality(U) = n + 1
        PROVE  \E s \in [1 .. n + 1 -> U] : IsInOrder(s, R, n + 1)
    <3>1. PICK f \in Bijection(1 .. n + 1, U) : TRUE
      BY <2>1, FS_CardinalityType DEF ExistsBijection
    <3>2. /\ \A i \in 1 .. n + 1 : f[i] \in U
          /\ \A u \in U : \E i \in 1 .. n + 1 : f[i] = u
      BY <3>1 DEF Bijection, Surjection, Injection
    <3>3. Orders(R, U)
      BY DEF Orders
    <3>4. PICK l \in 1 .. n + 1 : \A i \in 1 .. n + 1 : f[i] = f[l] \/ <<f[i], f[l]>> \in R
      <4> DEFINE k == n + 1
      <4>1. k \in Nat \ {0}
        OBVIOUS
      <4>2. f \in [1 .. k -> U]
        BY <3>1 DEF Bijection, Injection
      <4> HIDE DEF k, T
      <4>3. PICK l \in 1 .. k : IsLast(l, f, k, R)
        BY <3>3, <4>1, <4>2, LastElement
      <4>4. QED BY <4>3 DEF k, IsLast
    <3> DEFINE x == f[l]
               W == U \ {x}
    <3>5. x \in U /\ \A u \in W : <<u, x>> \in R
      BY <3>2, <3>4
    <3> HIDE DEF x
    <3>6. IsFiniteSet(W) /\ Cardinality(W) = n /\ W \in SUBSET S
      <4>1. IsFiniteSet(W) /\ Cardinality(W) = Cardinality(U) - 1
        BY <2>1, <3>5, FS_RemoveElement, Zenon
      <4>2. W \in SUBSET S
        OBVIOUS
      <4>3. Cardinality(U) = n + 1 /\ (n + 1) - 1 = n
        BY <2>1
      <4>4. QED BY <4>1, <4>2, <4>3
    <3>7. PICK s \in [1 .. n -> W] : IsInOrder(s, R, n)
      <4> HIDE DEF W
      <4>1. QED BY <1>2, <3>6
    <3> DEFINE e == [i \in 1 .. n + 1 |-> IF i = n + 1 THEN x ELSE s[i]]
    <3>8. \A i \in 1 .. n + 1 : e[i] \in U /\ (i # n + 1 => i \in 1 .. n /\ e[i] = s[i] /\ e[i] \in W)
      BY <3>5, <3>7
    <3>9. e[n + 1] = x
      OBVIOUS
    <3>10. e \in [1 .. n + 1 -> U]
      BY <3>8
    <3> HIDE DEF e, W
    <3>11. ASSUME NEW i \in 1 .. n + 1, NEW j \in 1 .. n + 1, i < j
           PROVE  <<e[i], e[j]>> \in R
      <4>1. i # n + 1
        BY <3>11
      <4>2. CASE j = n + 1
        BY <3>5, <3>8, <3>9, <4>1, <4>2
      <4>3. CASE j # n + 1
        BY <3>7, <3>8, <3>11, <4>1, <4>3 DEF IsInOrder
      <4>4. QED BY <4>2, <4>3
    <3>12. QED BY <3>10, <3>11 DEF IsInOrder
  <2>2. QED BY <2>1
<1> HIDE DEF T
<1>3. \A n \in Nat : n \in T
  BY <1>1, <1>2, InductiveSet
<1>4. Cardinality(S) \in Nat /\ S \in SUBSET S
  BY FS_CardinalityType
<1>5. QED BY <1>3, <1>4 DEF T

(* In such an order every element has one place.                           *)
LEMMA OrderHasAll ==
    ASSUME NEW S, IsFiniteSet(S), NEW R, Orders(R, S),
           NEW s \in [1 .. Cardinality(S) -> S], IsInOrder(s, R, Cardinality(S))
    PROVE  /\ \A x \in S : \E i \in 1 .. Cardinality(S) : s[i] = x
           /\ \A i, j \in 1 .. Cardinality(S) : s[i] = s[j] => i = j
<1> DEFINE m == Cardinality(S)
<1>1. m \in Nat
  BY FS_CardinalityType
<1> HIDE DEF m
<1>2. \A i, j \in 1 .. m : s[i] = s[j] => i = j
  <2>1. SUFFICES ASSUME NEW i \in 1 .. m, NEW j \in 1 .. m, s[i] = s[j], i # j
                 PROVE  FALSE
    OBVIOUS
  <2>2. i < j \/ j < i
    BY <1>1, <2>1
  <2>3. <<s[i], s[i]>> \in R
    BY <2>1, <2>2 DEF m, IsInOrder
  <2>4. s[i] \in S
    BY <2>1 DEF m
  <2>5. QED BY <2>3, <2>4 DEF Orders
<1>3. s \in Injection(1 .. m, S)
  <2>1. s \in [1 .. m -> S]
    BY DEF m
  <2>2. QED BY <1>2, <2>1 DEF Injection, IsInjective
<1>4. IsFiniteSet(1 .. m) /\ Cardinality(1 .. m) = m
  BY <1>1, FS_Interval
<1>5. s \in Surjection(1 .. m, S)
  BY <1>3, <1>4, FS_Injection DEF m
<1>6. QED BY <1>2, <1>5 DEF Surjection, m

(* Only one element is not zero.                                           *)
LEMMA TotalOne ==
    ASSUME NEW t \in Seq(Nat), NEW k \in 1 .. Len(t),
           \A i \in 1 .. Len(t) : i # k => t[i] = 0
    PROVE  Total(t) = t[k]
<1> DEFINE m == Len(t)
           z == [i \in 1 .. m |-> 0]
<1>1. m \in Nat /\ k \in 1 .. m /\ t[k] \in Nat
  OBVIOUS
<1> HIDE DEF m
<1>2. z \in Seq(Nat) /\ Len(z) = m /\ \A i \in 1 .. m : z[i] = 0
  BY <1>1
<1> HIDE DEF z
<1>3. Total(z) = 0
  BY <1>2, TotalZero
<1>4. Total(t) + z[k] = Total(z) + t[k]
  BY <1>1, <1>2, TotalChanged DEF m
<1>5. Total(t) \in Nat
  BY TotalType
<1>6. QED BY <1>1, <1>2, <1>3, <1>4, <1>5

-----------------------------------------------------------------------------
(* A list of terms in ascending order of their names.                      *)
OrderedList(list) ==
    /\ list \in Seq(KeyOccurrence)
    /\ \A i, j \in DOMAIN list : i < j => list[i].name < list[j].name

Weights(list, n) ==
    [i \in DOMAIN list |-> IF list[i].name = n THEN list[i].frequency ELSE 0]

(* What a list has of a name is the total of what its entries add.         *)
LEMMA WeightsType ==
    ASSUME NEW list \in Seq(KeyOccurrence), NEW n
    PROVE  /\ Weights(list, n) \in Seq(Nat)
           /\ Len(Weights(list, n)) = Len(list)
           /\ \A i \in 1 .. Len(list) :
                 Weights(list, n)[i] = IF list[i].name = n THEN list[i].frequency ELSE 0
           /\ Listed(list, n) = Total(Weights(list, n))
<1>1. DOMAIN list = 1 .. Len(list) /\ Len(list) \in Nat
  OBVIOUS
<1>2. \A i \in 1 .. Len(list) : list[i] \in KeyOccurrence
  OBVIOUS
<1>3. \A i \in 1 .. Len(list) : list[i].frequency \in Nat
  BY <1>2 DEF KeyOccurrence
<1>4. QED BY <1>1, <1>3 DEF Weights, Listed

(* It is a number.                                                         *)
LEMMA ListedType ==
    ASSUME NEW list \in Seq(KeyOccurrence), NEW n
    PROVE  Listed(list, n) \in Nat
BY WeightsType, TotalType

(* An ordered list has one entry for a term, which has its frequency.      *)
LEMMA ListedOnce ==
    ASSUME NEW list, OrderedList(list), NEW k \in DOMAIN list
    PROVE  Listed(list, list[k].name) = list[k].frequency
<1> DEFINE t == Weights(list, list[k].name)
<1>1. /\ t \in Seq(Nat) /\ Len(t) = Len(list) /\ list \in Seq(KeyOccurrence)
      /\ \A i \in 1 .. Len(list) :
            t[i] = IF list[i].name = list[k].name THEN list[i].frequency ELSE 0
      /\ Listed(list, list[k].name) = Total(t)
  BY WeightsType DEF OrderedList
<1>2. DOMAIN list = 1 .. Len(list) /\ Len(list) \in Nat /\ k \in Nat
  BY <1>1
<1>3. \A i \in 1 .. Len(list) : list[i].name \in Nat
  <2>1. \A i \in 1 .. Len(list) : list[i] \in KeyOccurrence
    BY <1>1
  <2>2. QED BY <2>1, KeyMapAssumption DEF KeyOccurrence
<1> HIDE DEF t
<1>4. ASSUME NEW i \in 1 .. Len(list), i # k PROVE t[i] = 0
  <2>1. list[i].name < list[k].name \/ list[k].name < list[i].name
    <3>1. i \in DOMAIN list /\ k \in DOMAIN list /\ (i < k \/ k < i)
      BY <1>2, <1>4
    <3>2. QED BY <3>1 DEF OrderedList
  <2>2. list[i].name # list[k].name
    BY <1>2, <1>3, <2>1
  <2>3. QED BY <1>1, <2>2
<1>5. Total(t) = t[k]
  BY <1>1, <1>2, <1>4, TotalOne
<1>6. t[k] = list[k].frequency
  BY <1>1, <1>2
<1>7. QED BY <1>1, <1>5, <1>6

(* A list without an entry of a name has nothing of it.                    *)
LEMMA NotListed ==
    ASSUME NEW list \in Seq(KeyOccurrence), NEW n,
           \A i \in DOMAIN list : list[i].name # n
    PROVE  Listed(list, n) = 0
<1>1. \A i \in 1 .. Len(list) : Weights(list, n)[i] = 0
  BY WeightsType
<1>2. QED BY <1>1, WeightsType, TotalZero

Keys(counts) == {n \in Name : counts[n] > 0}

(* A map with finitely many keys has finitely many entries.                *)
LEMMA EntriesFinite ==
    ASSUME NEW counts \in [Name -> Nat], IsFiniteSet(Keys(counts))
    PROVE  IsFiniteSet(Entries(counts))
<1> DEFINE f == [n \in Keys(counts) |-> [name |-> n, frequency |-> counts[n]]]
<1>1. f \in Surjection(Keys(counts), Entries(counts))
  <2>1. f \in [Keys(counts) -> Entries(counts)]
    BY DEF Entries, Keys
  <2>2. \A e \in Entries(counts) : \E n \in Keys(counts) : f[n] = e
    BY DEF Entries, Keys
  <2>3. QED BY <2>1, <2>2 DEF Surjection
<1>2. QED BY <1>1, FS_Surjection

(* The list made of a map has what the map has.                            *)
LEMMA ListOfMap ==
    ASSUME NEW counts \in [Name -> Nat], IsFiniteSet(Keys(counts))
    PROVE  /\ OrderedList(KeyOccurrenceList(counts))
           /\ \A n \in Name : Listed(KeyOccurrenceList(counts), n) = counts[n]
<1> DEFINE S == Entries(counts)
           c == Cardinality(S)
           R == {p \in S \X S : p[1].name < p[2].name}
           list == KeyOccurrenceList(counts)
<1>1. \A e \in S : e \in KeyOccurrence /\ e.name \in Nat /\ e.frequency = counts[e.name]
  BY KeyMapAssumption DEF Entries, KeyOccurrence
<1>2. \A d, e \in S : d.name = e.name => d = e
  BY DEF Entries
<1>3. IsFiniteSet(S) /\ c \in Nat
  BY EntriesFinite, FS_CardinalityType
<1>4. \A n \in Name : counts[n] > 0 => \E e \in S : e.name = n
  <2>1. ASSUME NEW n \in Name, counts[n] > 0 PROVE \E e \in S : e.name = n
    <3>1. [name |-> n, frequency |-> counts[n]] \in S
      BY <2>1 DEF Entries
    <3>2. QED BY <3>1
  <2>2. QED BY <2>1
<1>5. list = CHOOSE s \in [1 .. c -> S] :
                \A i, j \in 1 .. c : i < j => s[i].name < s[j].name
  BY DEF KeyOccurrenceList, InOrder
<1> HIDE DEF S, list
<1>6. \A d, e \in S : <<d, e>> \in R <=> d.name < e.name
  OBVIOUS
<1> HIDE DEF R
<1>7. Orders(R, S)
  <2>1. \A x \in S : <<x, x>> \notin R
    BY <1>1, <1>6
  <2>2. \A x, y, z \in S : <<x, y>> \in R /\ <<y, z>> \in R => <<x, z>> \in R
    BY <1>1, <1>6
  <2>3. \A x, y \in S : x # y => <<x, y>> \in R \/ <<y, x>> \in R
    BY <1>1, <1>2, <1>6
  <2>4. QED BY <2>1, <2>2, <2>3 DEF Orders
<1>8. \E s \in [1 .. c -> S] : IsInOrder(s, R, c)
  BY <1>3, <1>7, OrderExists
<1> HIDE DEF c
<1>9. \E s \in [1 .. c -> S] : \A i, j \in 1 .. c : i < j => s[i].name < s[j].name
  <2>1. PICK s \in [1 .. c -> S] : IsInOrder(s, R, c)
    BY <1>8
  <2>2. \A i, j \in 1 .. c : i < j => s[i].name < s[j].name
    BY <1>6, <2>1 DEF IsInOrder
  <2>3. QED BY <2>2
<1>10. /\ list \in [1 .. c -> S]
       /\ \A i, j \in 1 .. c : i < j => list[i].name < list[j].name
  BY <1>5, <1>9
<1>11. IsInOrder(list, R, c)
  BY <1>6, <1>10 DEF IsInOrder
<1>12. \A e \in S : \E i \in 1 .. c : list[i] = e
  BY <1>3, <1>7, <1>10, <1>11, OrderHasAll DEF c
<1>13. list \in Seq(KeyOccurrence) /\ DOMAIN list = 1 .. c
  BY <1>1, <1>3, <1>10
<1>14. OrderedList(list)
  BY <1>10, <1>13 DEF OrderedList
<1>15. ASSUME NEW n \in Name PROVE Listed(list, n) = counts[n]
  <2>1. CASE \E k \in 1 .. c : list[k].name = n
    <3>1. PICK k \in 1 .. c : list[k].name = n
      BY <2>1
    <3>2. Listed(list, list[k].name) = list[k].frequency
      BY <1>13, <1>14, <3>1, ListedOnce
    <3>3. list[k] \in S
      BY <1>10, <3>1
    <3>4. QED BY <1>1, <3>1, <3>2, <3>3
  <2>2. CASE ~ \E k \in 1 .. c : list[k].name = n
    <3>1. Listed(list, n) = 0
      BY <1>13, <2>2, NotListed
    <3>2. ~(counts[n] > 0)
      BY <1>4, <1>12, <2>2
    <3>3. counts[n] \in Nat
      OBVIOUS
    <3>4. QED BY <3>1, <3>2, <3>3
  <2>3. QED BY <2>1, <2>2
<1>16. QED BY <1>14, <1>15 DEF list

-----------------------------------------------------------------------------
(* The loop of the merge.  Every entry of the result stands before what is *)
(* left of the two lists, and has no more than both have of its term.      *)
MergeState == [ai : Nat \ {0}, bi : Nat \ {0}, result : Seq(KeyOccurrence)]

AtMostBoth(list, a, b) ==
    \A i \in DOMAIN list :
        list[i].frequency <= Listed(a, list[i].name) + Listed(b, list[i].name)

Before(list, i, a) == i <= Len(a) => \A r \in DOMAIN list : list[r].name < a[i].name

MergeInv(a, b, s) ==
    /\ OrderedList(s.result)
    /\ Before(s.result, s.ai, a)
    /\ Before(s.result, s.bi, b)
    /\ AtMostBoth(s.result, a, b)

(* A list with an entry more.                                              *)
LEMMA AppendEntry ==
    ASSUME NEW list \in Seq(KeyOccurrence), NEW x \in KeyOccurrence
    PROVE  /\ Append(list, x) \in Seq(KeyOccurrence)
           /\ DOMAIN Append(list, x) = 1 .. Len(list) + 1
           /\ DOMAIN list = 1 .. Len(list) /\ Len(list) \in Nat
           /\ \A i \in 1 .. Len(list) : Append(list, x)[i] = list[i]
           /\ Append(list, x)[Len(list) + 1] = x
OBVIOUS

(* It is in order when the entry comes after all of the list.              *)
LEMMA AppendOrdered ==
    ASSUME NEW list, OrderedList(list), NEW x \in KeyOccurrence,
           \A r \in DOMAIN list : list[r].name < x.name
    PROVE  OrderedList(Append(list, x))
<1> DEFINE e == Append(list, x)
           m == Len(list)
<1>1. /\ list \in Seq(KeyOccurrence) /\ e \in Seq(KeyOccurrence)
      /\ DOMAIN e = 1 .. m + 1 /\ DOMAIN list = 1 .. m /\ m \in Nat
      /\ \A i \in 1 .. m : e[i] = list[i]
      /\ e[m + 1] = x
  BY AppendEntry DEF OrderedList
<1> HIDE DEF e, m
<1>2. ASSUME NEW i \in 1 .. m + 1, NEW j \in 1 .. m + 1, i < j
      PROVE  e[i].name < e[j].name
  <2>1. i \in 1 .. m
    BY <1>1, <1>2
  <2>2. CASE j = m + 1
    BY <1>1, <2>1, <2>2
  <2>3. CASE j # m + 1
    <3>1. j \in 1 .. m
      BY <1>1, <2>3
    <3>2. list[i].name < list[j].name
      BY <1>1, <1>2, <2>1, <3>1 DEF OrderedList
    <3>3. QED BY <1>1, <2>1, <3>1, <3>2
  <2>4. QED BY <2>2, <2>3
<1>3. OrderedList(e)
  BY <1>1, <1>2 DEF OrderedList
<1>4. QED BY <1>3 DEF e

(* The next entry x of the result.                                         *)
LEMMA EntryMerged ==
    ASSUME NEW a \in Seq(KeyOccurrence), NEW b \in Seq(KeyOccurrence),
           NEW list, OrderedList(list), AtMostBoth(list, a, b),
           NEW x \in KeyOccurrence, \A r \in DOMAIN list : list[r].name < x.name,
           x.frequency <= Listed(a, x.name) + Listed(b, x.name)
    PROVE  /\ OrderedList(Append(list, x))
           /\ AtMostBoth(Append(list, x), a, b)
<1> DEFINE e == Append(list, x)
           m == Len(list)
<1>1. /\ DOMAIN e = 1 .. m + 1 /\ DOMAIN list = 1 .. m /\ m \in Nat
      /\ \A i \in 1 .. m : e[i] = list[i]
      /\ e[m + 1] = x
  BY AppendEntry DEF OrderedList
<1>2. OrderedList(e)
  BY AppendOrdered
<1> HIDE DEF e, m
<1>3. ASSUME NEW i \in 1 .. m + 1
      PROVE  e[i].frequency <= Listed(a, e[i].name) + Listed(b, e[i].name)
  <2>1. CASE i = m + 1
    BY <1>1, <2>1
  <2>2. CASE i # m + 1
    <3>1. i \in 1 .. m
      BY <1>1, <2>2
    <3>2. QED BY <1>1, <3>1 DEF AtMostBoth
  <2>3. QED BY <2>1, <2>2
<1>4. QED BY <1>1, <1>2, <1>3 DEF e, AtMostBoth

(* The new entry stands before what follows its like in a list.            *)
LEMMA EntryBefore ==
    ASSUME NEW a, OrderedList(a), NEW list, OrderedList(list),
           NEW x \in KeyOccurrence, NEW i \in Nat \ {0},
           i <= Len(a), Before(list, i, a), x.name <= a[i].name
    PROVE  /\ x.name < a[i].name => Before(Append(list, x), i, a)
           /\ Before(Append(list, x), i + 1, a)
<1> DEFINE e == Append(list, x)
           m == Len(list)
           l == Len(a)
<1>1. /\ DOMAIN e = 1 .. m + 1 /\ DOMAIN list = 1 .. m /\ m \in Nat
      /\ \A r \in 1 .. m : e[r] = list[r]
      /\ e[m + 1] = x
      /\ \A r \in 1 .. m : list[r] \in KeyOccurrence
  BY AppendEntry DEF OrderedList
<1>2. DOMAIN a = 1 .. l /\ l \in Nat /\ \A k \in 1 .. l : a[k] \in KeyOccurrence
  BY DEF OrderedList
<1>3. i \in 1 .. l
  BY <1>2
<1> HIDE DEF e, m, l
<1>4. /\ x.name \in Nat
      /\ \A k \in 1 .. l : a[k].name \in Nat
      /\ \A r \in 1 .. m : list[r].name \in Nat
  BY <1>1, <1>2, KeyMapAssumption DEF KeyOccurrence
<1>5. \A r \in 1 .. m : list[r].name < a[i].name
  BY <1>1, <1>2, <1>3 DEF Before, l
<1>6. ASSUME x.name < a[i].name, NEW r \in 1 .. m + 1
      PROVE  e[r].name < a[i].name
  <2>1. CASE r = m + 1
    BY <1>1, <1>6, <2>1
  <2>2. CASE r # m + 1
    <3>1. r \in 1 .. m
      BY <1>1, <2>2
    <3>2. QED BY <1>1, <1>5, <3>1
  <2>3. QED BY <2>1, <2>2
<1>7. ASSUME i + 1 <= l, NEW r \in 1 .. m + 1
      PROVE  e[r].name < a[i + 1].name
  <2>1. i + 1 \in 1 .. l /\ i < i + 1
    BY <1>2, <1>3, <1>7
  <2>2. a[i].name < a[i + 1].name
    BY <1>2, <1>3, <2>1 DEF OrderedList
  <2>3. a[i].name \in Nat /\ a[i + 1].name \in Nat
    BY <1>3, <1>4, <2>1
  <2>4. CASE r = m + 1
    BY <1>1, <1>4, <2>2, <2>3, <2>4
  <2>5. CASE r # m + 1
    <3>1. r \in 1 .. m
      BY <1>1, <2>5
    <3>2. e[r].name < a[i].name /\ e[r].name \in Nat
      BY <1>1, <1>4, <1>5, <3>1
    <3>3. QED BY <2>2, <2>3, <3>2
  <2>6. QED BY <2>4, <2>5
<1>8. QED BY <1>1, <1>6, <1>7 DEF Before, e, l

(* A round of the merge loop keeps its invariant.                          *)
LEMMA MergeRoundInv ==
    ASSUME NEW a, OrderedList(a), NEW b, OrderedList(b),
           NEW s \in MergeState, MergeInv(a, b, s)
    PROVE  MergeRound(a, b, s) \in MergeState /\ MergeInv(a, b, MergeRound(a, b, s))
<1> DEFINE x == a[s.ai]
           y == b[s.bi]
           list == s.result
           t == MergeRound(a, b, s)
<1>1. /\ s.ai \in Nat \ {0} /\ s.bi \in Nat \ {0} /\ list \in Seq(KeyOccurrence)
      /\ a \in Seq(KeyOccurrence) /\ b \in Seq(KeyOccurrence)
      /\ Len(a) \in Nat /\ Len(b) \in Nat
      /\ DOMAIN a = 1 .. Len(a) /\ DOMAIN b = 1 .. Len(b)
  BY DEF MergeState, OrderedList
<1>2. CASE s.ai > Len(a) \/ s.bi > Len(b)
  <2>1. ~(s.ai <= Len(a) /\ s.bi <= Len(b))
    BY <1>1, <1>2
  <2>2. t = s
    BY <1>2, <2>1 DEF MergeRound
  <2>3. QED BY <2>2
<1>3. CASE ~(s.ai > Len(a) \/ s.bi > Len(b))
  <2>1. s.ai <= Len(a) /\ s.bi <= Len(b) /\ s.ai \in 1 .. Len(a) /\ s.bi \in 1 .. Len(b)
    BY <1>1, <1>3
  <2>2. x \in KeyOccurrence /\ y \in KeyOccurrence
    BY <1>1, <2>1
  <2>3. /\ x.name \in Nat /\ y.name \in Nat /\ x.name \in Name /\ y.name \in Name
        /\ x.frequency \in Nat \ {0} /\ y.frequency \in Nat \ {0}
    BY <2>2, KeyMapAssumption DEF KeyOccurrence
  <2>4. Listed(a, x.name) = x.frequency /\ Listed(b, y.name) = y.frequency
    BY <1>1, <2>1, ListedOnce
  <2>5. Listed(b, x.name) \in Nat /\ Listed(a, y.name) \in Nat
    BY <1>1, ListedType
  <2>6. /\ OrderedList(list) /\ AtMostBoth(list, a, b)
        /\ Before(list, s.ai, a) /\ Before(list, s.bi, b)
        /\ (\A r \in DOMAIN list : list[r].name < x.name)
        /\ (\A r \in DOMAIN list : list[r].name < y.name)
    BY <2>1 DEF MergeInv, Before
  <2>7. CASE x.name = y.name
    <3> DEFINE z == [x EXCEPT !.frequency = @ + y.frequency]
    <3>1. /\ z \in KeyOccurrence /\ z.name = x.name /\ z.name = y.name
          /\ z.frequency = x.frequency + y.frequency
      <4> HIDE DEF x, y
      <4>1. x = [name |-> x.name, frequency |-> x.frequency]
        BY <2>2 DEF KeyOccurrence
      <4>2. z = [name |-> x.name, frequency |-> x.frequency + y.frequency]
        BY <4>1
      <4>3. x.frequency + y.frequency \in Nat \ {0}
        BY <2>3
      <4> HIDE DEF z
      <4>4. QED BY <2>3, <2>7, <4>2, <4>3 DEF KeyOccurrence
    <3>2. t = [ai |-> s.ai + 1, bi |-> s.bi + 1, result |-> Append(list, z)]
      <4>1. ~(s.ai > Len(a) \/ s.bi > Len(b)) /\ ~(x.name < y.name)
        BY <1>3, <2>3, <2>7
      <4>2. QED BY <2>1, <2>7, <4>1 DEF MergeRound
    <3> HIDE DEF z, t, x, y, list
    <3>3. z.frequency <= Listed(a, z.name) + Listed(b, z.name)
      BY <2>3, <2>4, <3>1
    <3>4. /\ OrderedList(Append(list, z)) /\ AtMostBoth(Append(list, z), a, b)
          /\ Append(list, z) \in Seq(KeyOccurrence)
      <4>1. \A r \in DOMAIN list : list[r].name < z.name
        BY <2>6, <3>1
      <4>2. QED BY <1>1, <2>6, <3>1, <3>3, <4>1, EntryMerged, AppendEntry
    <3>5. Before(Append(list, z), s.ai + 1, a) /\ Before(Append(list, z), s.bi + 1, b)
      <4>1. z.name <= x.name /\ z.name <= y.name
        BY <2>3, <3>1
      <4>2. z.name <= a[s.ai].name /\ z.name <= b[s.bi].name
        BY <4>1 DEF x, y
      <4>3. QED BY <1>1, <2>1, <2>6, <3>1, <4>2, EntryBefore
    <3>6. QED BY <1>1, <3>2, <3>4, <3>5 DEF MergeState, MergeInv, t
  <2>8. CASE x.name < y.name
    <3>1. t = [s EXCEPT !.ai = @ + 1, !.result = Append(@, x)]
      <4>1. ~(x.name = y.name)
        BY <2>3, <2>8
      <4>2. QED BY <1>3, <2>1, <2>8, <4>1 DEF MergeRound
    <3>2. t = [ai |-> s.ai + 1, bi |-> s.bi, result |-> Append(list, x)]
      BY <3>1 DEF MergeState
    <3> HIDE DEF t, x, y, list
    <3>3. x.frequency <= Listed(a, x.name) + Listed(b, x.name)
      BY <2>3, <2>4, <2>5
    <3>4. /\ OrderedList(Append(list, x)) /\ AtMostBoth(Append(list, x), a, b)
          /\ Append(list, x) \in Seq(KeyOccurrence)
      BY <1>1, <2>2, <2>6, <3>3, EntryMerged, AppendEntry
    <3>5. Before(Append(list, x), s.ai + 1, a) /\ Before(Append(list, x), s.bi, b)
      <4>1. x.name <= a[s.ai].name /\ x.name <= b[s.bi].name /\ x.name < b[s.bi].name
        BY <2>3, <2>8 DEF x, y
      <4>2. QED BY <1>1, <2>1, <2>2, <2>6, <4>1, EntryBefore
    <3>6. QED BY <1>1, <3>2, <3>4, <3>5 DEF MergeState, MergeInv, t
  <2>9. CASE y.name < x.name
    <3>1. t = [s EXCEPT !.bi = @ + 1, !.result = Append(@, y)]
      <4>1. ~(x.name = y.name) /\ ~(x.name < y.name)
        BY <2>3, <2>9
      <4>2. QED BY <1>3, <2>1, <4>1 DEF MergeRound
    <3>2. t = [ai |-> s.ai, bi |-> s.bi + 1, result |-> Append(list, y)]
      BY <3>1 DEF MergeState
    <3> HIDE DEF t, x, y, list
    <3>3. y.frequency <= Listed(a, y.name) + Listed(b, y.name)
      BY <2>3, <2>4, <2>5
    <3>4. /\ OrderedList(Append(list, y)) /\ AtMostBoth(Append(list, y), a, b)
          /\ Append(list, y) \in Seq(KeyOccurrence)
      BY <1>1, <2>2, <2>6, <3>3, EntryMerged, AppendEntry
    <3>5. Before(Append(list, y), s.ai, a) /\ Before(Append(list, y), s.bi + 1, b)
      <4>1. y.name <= b[s.bi].name /\ y.name <= a[s.ai].name /\ y.name < a[s.ai].name
        BY <2>3, <2>9 DEF x, y
      <4>2. QED BY <1>1, <2>1, <2>2, <2>6, <4>1, EntryBefore
    <3>6. QED BY <1>1, <3>2, <3>4, <3>5 DEF MergeState, MergeInv, t
  <2>10. QED BY <2>3, <2>7, <2>8, <2>9
<1>4. QED BY <1>2, <1>3

(* The merge of two ordered lists is one, and has no more of a term than   *)
(* both have of it.                                                        *)
LEMMA MergeOfOrdered ==
    ASSUME NEW a, OrderedList(a), NEW b, OrderedList(b)
    PROVE  /\ OrderedList(Merge(a, b))
           /\ \A n \in Name : Listed(Merge(a, b), n) <= Listed(a, n) + Listed(b, n)
<1> DEFINE V == {s \in MergeState : MergeInv(a, b, s)}
           m == Len(a) + Len(b)
           s0 == [ai |-> 1, bi |-> 1, result |-> <<>>]
           h == [p \in V \X (1 .. m) |-> MergeRound(a, b, p[1])]
           Def(c) == [n \in 0 .. m |-> IF n = 0 THEN s0 ELSE MergeRound(a, b, c[n - 1])]
           loop == CHOOSE c : c = Def(c)
<1>1. a \in Seq(KeyOccurrence) /\ b \in Seq(KeyOccurrence) /\ m \in Nat
  BY DEF OrderedList
<1>2. s0 \in V
  <2>1. <<>> \in Seq(KeyOccurrence) /\ DOMAIN <<>> = {}
    OBVIOUS
  <2>2. s0 \in MergeState
    BY DEF MergeState
  <2>3. MergeInv(a, b, s0)
    BY <2>1 DEF MergeInv, OrderedList, Before, AtMostBoth
  <2>4. QED BY <2>2, <2>3
<1>3. \A s \in V : MergeRound(a, b, s) \in V
  BY MergeRoundInv
<1>4. \A s \in V : s.result \in Seq(KeyOccurrence) /\ OrderedList(s.result)
                  /\ AtMostBoth(s.result, a, b)
  BY DEF MergeState, MergeInv
<1>5. Merge(a, b) = loop[m].result
  BY DEF Merge
<1> HIDE DEF V, m, s0
<1>6. h \in [V \X (1 .. m) -> V]
  BY <1>3
<1>7. \A s \in V : \A n \in 1 .. m : h[<<s, n>>] = MergeRound(a, b, s)
  OBVIOUS
<1> HIDE DEF h
<1>8. PICK g \in [0 .. m -> V] : Recursion(g, m, s0, h)
  BY <1>1, <1>2, <1>6, RecursionExists
<1>9. g = Def(g)
  <2>1. ASSUME NEW n \in 0 .. m
        PROVE  g[n] = IF n = 0 THEN s0 ELSE MergeRound(a, b, g[n - 1])
    <3>1. CASE n = 0
      BY <1>8, <3>1 DEF Recursion
    <3>2. CASE n # 0
      <4>1. n \in 1 .. m /\ n - 1 \in 0 .. m
        BY <1>1, <3>2
      <4>2. g[n - 1] \in V /\ g[n] = h[<<g[n - 1], n>>]
        BY <1>8, <4>1 DEF Recursion
      <4>3. QED BY <1>7, <3>2, <4>1, <4>2
    <3>3. QED BY <3>1, <3>2
  <2>2. QED BY <2>1
<1>10. loop = Def(loop)
  BY <1>9
<1> HIDE DEF loop
<1>11. \A n \in 0 .. m : loop[n] = IF n = 0 THEN s0 ELSE MergeRound(a, b, loop[n - 1])
  BY <1>10, Zenon
<1>12. \A n \in 0 .. m : loop[n] \in V
  <2> DEFINE T == {n \in 0 .. m : loop[n] \in V}
  <2>1. 0 \in T
    <3>1. 0 \in 0 .. m
      BY <1>1
    <3>2. loop[0] = s0
      BY <1>11, <3>1
    <3>3. QED BY <1>2, <3>1, <3>2
  <2>2. ASSUME NEW n \in 0 .. m - 1, n \in T PROVE n + 1 \in T
    <3>1. n + 1 \in 0 .. m /\ (n + 1) - 1 = n /\ n + 1 # 0
      BY <1>1
    <3>2. loop[n + 1] = MergeRound(a, b, loop[n])
      BY <1>11, <3>1
    <3>3. QED BY <1>3, <2>2, <3>1, <3>2
  <2> HIDE DEF T
  <2>3. \A n \in 0 .. m : n \in T
    BY <1>1, <2>1, <2>2, InductiveInterval
  <2>4. QED BY <2>3 DEF T
<1> DEFINE list == Merge(a, b)
<1>13. list \in Seq(KeyOccurrence) /\ OrderedList(list) /\ AtMostBoth(list, a, b)
  <2>1. m \in 0 .. m
    BY <1>1
  <2>2. QED BY <1>4, <1>5, <1>12, <2>1
<1> HIDE DEF list
<1>14. ASSUME NEW n \in Name PROVE Listed(list, n) <= Listed(a, n) + Listed(b, n)
  <2>1. Listed(a, n) \in Nat /\ Listed(b, n) \in Nat
    BY <1>1, ListedType
  <2>2. CASE \E k \in DOMAIN list : list[k].name = n
    <3>1. PICK k \in DOMAIN list : list[k].name = n
      BY <2>2
    <3>2. Listed(list, list[k].name) = list[k].frequency
      BY <1>13, ListedOnce
    <3>3. list[k].frequency <= Listed(a, list[k].name) + Listed(b, list[k].name)
      BY <1>13 DEF AtMostBoth
    <3>4. QED BY <3>1, <3>2, <3>3
  <2>3. CASE ~ \E k \in DOMAIN list : list[k].name = n
    <3>1. Listed(list, n) = 0
      BY <1>13, <2>3, NotListed
    <3>2. QED BY <2>1, <3>1
  <2>4. QED BY <2>2, <2>3
<1>15. QED BY <1>13, <1>14 DEF list

(* The lists of the chunks, how often a term is in each of them.           *)
AllOrdered(lists) ==
    /\ lists \in Seq(Seq(KeyOccurrence))
    /\ \A i \in DOMAIN lists : OrderedList(lists[i])

ListedIn(lists, n) == [i \in DOMAIN lists |-> Listed(lists[i], n)]

(* What each list of a buffer has of a name.                               *)
LEMMA ListedInType ==
    ASSUME NEW lists \in Seq(Seq(KeyOccurrence)), NEW n
    PROVE  /\ ListedIn(lists, n) \in Seq(Nat)
           /\ Len(ListedIn(lists, n)) = Len(lists)
           /\ \A i \in 1 .. Len(lists) : ListedIn(lists, n)[i] = Listed(lists[i], n)
<1>1. DOMAIN lists = 1 .. Len(lists) /\ Len(lists) \in Nat
  OBVIOUS
<1>2. \A i \in 1 .. Len(lists) : Listed(lists[i], n) \in Nat
  BY <1>1, ListedType
<1>3. QED BY <1>1, <1>2 DEF ListedIn

(* The merge of any number of ordered lists.                               *)
LEMMA MergedListOrdered ==
    ASSUME NEW lists, AllOrdered(lists), lists # <<>>
    PROVE  /\ OrderedList(MergedList(lists))
           /\ \A n \in Name : Listed(MergedList(lists), n) <= Total(ListedIn(lists, n))
<1> DEFINE V == {l \in Seq(KeyOccurrence) : OrderedList(l)}
           m == Len(lists)
           h == [p \in V \X (1 .. m) |->
                    IF p[2] = 1 THEN lists[1] ELSE Merge(p[1], lists[p[2]])]
           Def(c) == [i \in 1 .. m |-> IF i = 1 THEN lists[1] ELSE Merge(c[i - 1], lists[i])]
           result == CHOOSE c : c = Def(c)
<1>1. m \in Nat \ {0} /\ DOMAIN lists = 1 .. m /\ 1 \in 1 .. m
  BY DEF AllOrdered
<1>2. \A i \in 1 .. m : lists[i] \in V /\ OrderedList(lists[i])
  <2>1. \A i \in 1 .. m : OrderedList(lists[i])
    BY <1>1 DEF AllOrdered
  <2>2. \A i \in 1 .. m : lists[i] \in Seq(KeyOccurrence)
    BY <2>1 DEF OrderedList
  <2>3. QED BY <2>1, <2>2
<1>3. \A l \in V, k \in V : Merge(l, k) \in V
  BY MergeOfOrdered DEF OrderedList
<1>4. <<>> \in V
  BY DEF OrderedList
<1>5. MergedList(lists) = result[m]
  BY DEF MergedList
<1>6. \A l \in V : OrderedList(l) /\ l \in Seq(KeyOccurrence)
  OBVIOUS
<1> HIDE DEF V, m
<1>7. h \in [V \X (1 .. m) -> V]
  BY <1>1, <1>2, <1>3
<1>8. \A l \in V : \A i \in 1 .. m :
          h[<<l, i>>] = IF i = 1 THEN lists[1] ELSE Merge(l, lists[i])
  OBVIOUS
<1> HIDE DEF h
<1>9. PICK g \in [0 .. m -> V] : Recursion(g, m, <<>>, h)
  <2>1. m \in Nat
    BY <1>1
  <2>2. QED BY <1>4, <1>7, <2>1, RecursionExists
<1>10. [i \in 1 .. m |-> g[i]] = Def([i \in 1 .. m |-> g[i]])
  <2>1. ASSUME NEW i \in 1 .. m
        PROVE  g[i] = IF i = 1 THEN lists[1]
                      ELSE Merge([j \in 1 .. m |-> g[j]][i - 1], lists[i])
    <3>1. i - 1 \in 0 .. m /\ (i # 1 => i - 1 \in 1 .. m)
      BY <1>1
    <3>2. g[i - 1] \in V /\ g[i] = h[<<g[i - 1], i>>]
      BY <1>9, <3>1 DEF Recursion
    <3>3. QED BY <1>8, <3>1, <3>2
  <2>2. QED BY <2>1
<1>11. result = Def(result)
  BY <1>10
<1> HIDE DEF result
<1>12. \A i \in 1 .. m : result[i] = IF i = 1 THEN lists[1] ELSE Merge(result[i - 1], lists[i])
  BY <1>11, Zenon
<1>13. \A i \in 1 .. m : result[i] \in V
  <2> DEFINE T == {k \in 0 .. m : k = 0 \/ result[k] \in V}
  <2>1. 0 \in T
    BY <1>1
  <2>2. ASSUME NEW k \in 0 .. m - 1, k \in T PROVE k + 1 \in T
    <3>1. /\ k + 1 \in 1 .. m /\ k + 1 \in 0 .. m /\ (k + 1) - 1 = k
          /\ (k # 0 => k + 1 # 1)
      BY <1>1
    <3>2. CASE k = 0
      BY <1>2, <1>12, <3>1, <3>2
    <3>3. CASE k # 0
      <4>1. result[k + 1] = Merge(result[k], lists[k + 1]) /\ result[k] \in V
        BY <1>12, <2>2, <3>1, <3>3
      <4>2. QED BY <1>2, <1>3, <3>1, <4>1
    <3>4. QED BY <3>2, <3>3
  <2> HIDE DEF T
  <2>3. m \in Nat /\ \A i \in 1 .. m : i \in 0 .. m /\ i # 0
    BY <1>1
  <2>4. \A k \in 0 .. m : k \in T
    BY <2>1, <2>2, <2>3, InductiveInterval
  <2>5. QED BY <2>3, <2>4 DEF T
<1>14. ASSUME NEW n \in Name
       PROVE  Listed(result[m], n) <= Total(ListedIn(lists, n))
  <2> DEFINE t == ListedIn(lists, n)
  <2>1. t \in Seq(Nat) /\ Len(t) = m /\ \A i \in 1 .. m : t[i] = Listed(lists[i], n)
    BY ListedInType DEF m, AllOrdered
  <2> HIDE DEF t
  <2>2. PICK f : IsSum(f, t) /\ Total(t) = f[m]
    BY <2>1, TotalIsSum
  <2>3. /\ f[0] = 0 /\ \A i \in 1 .. m : f[i] = f[i - 1] + t[i]
        /\ \A i \in 0 .. m : f[i] \in Nat
    BY <2>1, <2>2 DEF IsSum
  <2> DEFINE T == {k \in 0 .. m : k # 0 => Listed(result[k], n) <= f[k]}
  <2>4. 0 \in T
    BY <1>1
  <2>5. ASSUME NEW k \in 0 .. m - 1, k \in T PROVE k + 1 \in T
    <3>1. /\ k + 1 \in 1 .. m /\ k + 1 \in 0 .. m /\ (k + 1) - 1 = k /\ k \in 0 .. m
          /\ (k # 0 => k + 1 # 1 /\ k \in 1 .. m)
      BY <1>1
    <3>2. lists[k + 1] \in V /\ Listed(lists[k + 1], n) \in Nat
      BY <1>2, <1>6, <3>1, ListedType
    <3>3. f[k + 1] = f[k] + Listed(lists[k + 1], n) /\ f[k] \in Nat
      BY <2>1, <2>3, <3>1
    <3>4. CASE k = 0
      <4>1. result[k + 1] = lists[k + 1]
        BY <1>12, <3>1, <3>4
      <4>2. f[k + 1] = Listed(lists[k + 1], n)
        BY <2>3, <3>2, <3>3, <3>4
      <4>3. QED BY <3>1, <3>2, <4>1, <4>2
    <3>5. CASE k # 0
      <4>1. result[k] \in V /\ Listed(result[k], n) <= f[k]
        BY <1>13, <2>5, <3>1, <3>5
      <4>2. result[k + 1] = Merge(result[k], lists[k + 1])
        BY <1>12, <3>1, <3>5
      <4>3. result[k + 1] \in V
        BY <1>13, <3>1
      <4>4. Listed(result[k + 1], n) <= Listed(result[k], n) + Listed(lists[k + 1], n)
        BY <1>6, <3>2, <4>1, <4>2, MergeOfOrdered
      <4>5. Listed(result[k], n) \in Nat /\ Listed(result[k + 1], n) \in Nat
        BY <1>6, <4>1, <4>3, ListedType
      <4>6. Listed(result[k + 1], n) <= f[k + 1]
        BY <3>2, <3>3, <4>1, <4>4, <4>5
      <4>7. QED BY <3>1, <4>6
    <3>6. QED BY <3>4, <3>5
  <2> HIDE DEF T
  <2>6. m \in Nat /\ m \in 0 .. m /\ m # 0
    BY <1>1
  <2>7. \A k \in 0 .. m : k \in T
    BY <2>4, <2>5, <2>6, InductiveInterval
  <2>8. QED BY <2>2, <2>6, <2>7 DEF T, t
<1>15. QED BY <1>1, <1>5, <1>6, <1>13, <1>14

-----------------------------------------------------------------------------
(* What is printed for the lists.                                          *)
Ranked(list) == \A i, j \in DOMAIN list :
    i < j => MoreFrequent(list[i], list[j]) /\ list[i].name # list[j].name

(* The entries of an ordered list in the order of their frequencies.       *)
LEMMA RankOfOrdered ==
    ASSUME NEW list, OrderedList(list)
    PROVE  LET ranked == InOrder(ToSet(list), MoreFrequent)
           IN  /\ ranked \in Seq(KeyOccurrence)
               /\ Ranked(ranked)
               /\ \A i \in DOMAIN ranked : \E k \in DOMAIN list : ranked[i] = list[k]
<1> DEFINE S == ToSet(list)
           m == Len(list)
           c == Cardinality(S)
           R == {p \in S \X S : MoreFrequent(p[1], p[2])}
           ranked == InOrder(S, MoreFrequent)
<1>1. list \in Seq(KeyOccurrence) /\ DOMAIN list = 1 .. m /\ m \in Nat
  BY DEF OrderedList
<1>2. /\ \A i \in 1 .. m : list[i] \in S
      /\ \A e \in S : \E k \in 1 .. m : e = list[k]
  BY <1>1 DEF ToSet
<1>3. \A e \in S : e \in KeyOccurrence
  BY <1>1, <1>2
<1>4. \A e \in S : e.name \in Nat /\ e.frequency \in Nat
  BY <1>3, KeyMapAssumption DEF KeyOccurrence
<1>5. \A d, e \in S : d.name = e.name => d = e
  <2>1. SUFFICES ASSUME NEW d \in S, NEW e \in S, d.name = e.name, d # e
                 PROVE  FALSE
    OBVIOUS
  <2>2. PICK i \in 1 .. m, j \in 1 .. m : d = list[i] /\ e = list[j]
    BY <1>2
  <2>3. i < j \/ j < i
    BY <1>1, <2>1, <2>2
  <2>4. d.name < e.name \/ e.name < d.name
    BY <1>1, <2>2, <2>3 DEF OrderedList
  <2>5. d.name \in Nat /\ e.name \in Nat
    BY <1>4
  <2>6. QED BY <2>1, <2>4, <2>5
<1>6. IsFiniteSet(S)
  <2> DEFINE f == [i \in 1 .. m |-> list[i]]
  <2>1. f \in Surjection(1 .. m, S)
    BY <1>2 DEF Surjection
  <2>2. IsFiniteSet(1 .. m)
    BY <1>1, FS_Interval
  <2>3. QED BY <2>1, <2>2, FS_Surjection
<1>7. c \in Nat
  BY <1>6, FS_CardinalityType
<1>8. ranked = CHOOSE s \in [1 .. c -> S] :
                  \A i, j \in 1 .. c : i < j => MoreFrequent(s[i], s[j])
  BY DEF InOrder
<1>9. \A d, e \in S : <<d, e>> \in R <=> MoreFrequent(d, e)
  OBVIOUS
<1> HIDE DEF S, R
<1>10. Orders(R, S)
  <2>1. \A x \in S : <<x, x>> \notin R
    BY <1>4, <1>9 DEF MoreFrequent
  <2>2. ASSUME NEW x \in S, NEW y \in S, NEW z \in S,
               <<x, y>> \in R, <<y, z>> \in R
        PROVE  <<x, z>> \in R
    <3>1. MoreFrequent(x, y) /\ MoreFrequent(y, z)
      BY <1>9, <2>2
    <3>2. /\ x.name \in Nat /\ y.name \in Nat /\ z.name \in Nat
          /\ x.frequency \in Nat /\ y.frequency \in Nat /\ z.frequency \in Nat
      BY <1>4
    <3>3. MoreFrequent(x, z)
      BY <3>1, <3>2 DEF MoreFrequent
    <3>4. QED BY <1>9, <3>3
  <2>3. \A x, y \in S : x # y => <<x, y>> \in R \/ <<y, x>> \in R
    BY <1>4, <1>5, <1>9 DEF MoreFrequent
  <2>4. QED BY <2>1, <2>2, <2>3 DEF Orders
<1>11. \E s \in [1 .. c -> S] : IsInOrder(s, R, c)
  BY <1>6, <1>10, OrderExists
<1> HIDE DEF c, ranked
<1>12. \E s \in [1 .. c -> S] : \A i, j \in 1 .. c : i < j => MoreFrequent(s[i], s[j])
  <2>1. PICK s \in [1 .. c -> S] : IsInOrder(s, R, c)
    BY <1>11
  <2>2. \A i, j \in 1 .. c : i < j => MoreFrequent(s[i], s[j])
    BY <1>9, <2>1 DEF IsInOrder
  <2>3. QED BY <2>2
<1>13. /\ ranked \in [1 .. c -> S]
       /\ \A i, j \in 1 .. c : i < j => MoreFrequent(ranked[i], ranked[j])
  BY <1>8, <1>12
<1>14. ranked \in Seq(KeyOccurrence) /\ DOMAIN ranked = 1 .. c
  BY <1>3, <1>7, <1>13
<1>15. Ranked(ranked)
  <2>1. ASSUME NEW i \in 1 .. c, NEW j \in 1 .. c, i < j
        PROVE  MoreFrequent(ranked[i], ranked[j]) /\ ranked[i].name # ranked[j].name
    <3>1. ranked[i] \in S /\ ranked[j] \in S /\ MoreFrequent(ranked[i], ranked[j])
      BY <1>13, <2>1
    <3>2. ranked[i] # ranked[j]
      BY <1>4, <3>1 DEF MoreFrequent
    <3>3. QED BY <1>5, <3>1, <3>2
  <2>2. QED BY <1>14, <2>1 DEF Ranked
<1>16. \A i \in 1 .. c : \E k \in 1 .. m : ranked[i] = list[k]
  BY <1>2, <1>13
<1>17. QED BY <1>1, <1>14, <1>15, <1>16 DEF ranked, S

(* The terms printed are ranked, and none is printed with more than the    *)
(* lists have of it.                                                       *)
LEMMA PrintedFromLists ==
    ASSUME NEW lists, AllOrdered(lists), lists # <<>>,
           NEW p, p = PrintKeyOccurrenceList(lists)
    PROVE  /\ p \in Seq(KeyOccurrence)
           /\ Ranked(p)
           /\ \A i \in DOMAIN p : p[i].frequency <= Total(ListedIn(lists, p[i].name))
<1> DEFINE list == MergedList(lists)
           ranked == InOrder(ToSet(list), MoreFrequent)
           k == IF NofResults < Len(ranked) THEN NofResults ELSE Len(ranked)
<1>1. /\ OrderedList(list)
      /\ \A n \in Name : Listed(list, n) <= Total(ListedIn(lists, n))
  BY MergedListOrdered
<1>2. p = SubSeq(ranked, 1, k)
  BY DEF PrintKeyOccurrenceList
<1> HIDE DEF list
<1>3. /\ ranked \in Seq(KeyOccurrence)
      /\ Ranked(ranked)
      /\ \A i \in DOMAIN ranked : \E j \in DOMAIN list : ranked[i] = list[j]
  BY <1>1, RankOfOrdered
<1> HIDE DEF ranked
<1>4. k \in Nat /\ k <= Len(ranked) /\ Len(ranked) \in Nat /\ DOMAIN ranked = 1 .. Len(ranked)
  BY <1>3, KeyMapAssumption
<1> HIDE DEF k
<1>5. p = [i \in 1 .. k |-> ranked[i]]
  BY <1>2, <1>3, <1>4
<1>6. /\ p \in Seq(KeyOccurrence) /\ DOMAIN p = 1 .. k
      /\ \A i \in 1 .. k :
            p[i] = ranked[i] /\ i \in DOMAIN ranked /\ p[i] \in KeyOccurrence
  <2>1. \A i \in 1 .. k : i \in DOMAIN ranked /\ ranked[i] \in KeyOccurrence
    BY <1>3, <1>4
  <2>2. QED BY <1>4, <1>5, <2>1
<1>7. Ranked(p)
  BY <1>3, <1>6 DEF Ranked
<1>8. ASSUME NEW i \in 1 .. k
      PROVE  p[i].frequency <= Total(ListedIn(lists, p[i].name))
  <2>1. PICK j \in DOMAIN list : p[i] = list[j]
    BY <1>3, <1>6
  <2>2. Listed(list, p[i].name) = p[i].frequency
    BY <1>1, <2>1, ListedOnce
  <2>3. p[i] \in KeyOccurrence
    BY <1>6
  <2>4. p[i].name \in Name
    BY <2>3 DEF KeyOccurrence
  <2>5. QED BY <1>1, <2>2, <2>4
<1>9. QED BY <1>6, <1>7, <1>8

-----------------------------------------------------------------------------
(* The places of the term n in a file behind the first p terms.            *)
PlacesAfter(f, p, n) == {q \in DOMAIN Terms[f] : q > p /\ Terms[f][q] = n}

(* What can still be counted in files, p terms into the first one.         *)
AheadOf(files, p, n) ==
    IF files = <<>> THEN 0
    ELSE Cardinality(PlacesAfter(Head(files), p, n)) + Contained(Tail(files), n)

(* What each thread can still count, and what it has in its map.           *)
AheadCounts(n) == [w \in Worker |-> AheadOf(batch[w], position[w], n)]
MapCounts(n) == [w \in Worker |-> IF w \in inChunk THEN keyOccurrenceMap[w][n] ELSE 0]

(* What was counted, what is still ahead of the threads and what is in the *)
(* chunks nobody has fetched is together no more than the files contain.   *)
WithinFiles ==
    \A n \in Name :
        counted[n] + Total(AheadCounts(n)) + Contained(FlattenSeq(chunkque), n)
            <= InFiles(n)

CountsKept == \A n \in Name : counted[n] = InLists(n) + InMaps(n)

(* A thread that begins a file has counted nothing of it.  A map has       *)
(* finitely many entries, and the lists are in order.                      *)
MapsAndLists ==
    /\ \A w \in Worker : batch[w] = <<>> => position[w] = 0
    /\ \A w \in Worker : IsFiniteSet(Keys(keyOccurrenceMap[w]))
    /\ AllOrdered(keyOccurrenceListBuf)

(* Nothing is printed before the end, and nothing is counted after it.     *)
PrintedAtTheEnd ==
    /\ outcome # "done" => printed = <<>>
    /\ outcome # "none" => stopped = Worker
    /\ outcome = "done" => /\ keyOccurrenceListBuf # <<>>
                           /\ printed = PrintKeyOccurrenceList(keyOccurrenceListBuf)

Counted ==
    /\ KeyMapTypeOK
    /\ MapsAndLists
    /\ CountsKept
    /\ WithinFiles
    /\ PrintedAtTheEnd

KeyMapInv == CP!IInv /\ Counted

-----------------------------------------------------------------------------
(* A sequence is its first element and the rest.                           *)
LEMMA FirstAndRest ==
    ASSUME NEW S, NEW s \in Seq(S), s # <<>>
    PROVE  /\ Head(s) \in S /\ Tail(s) \in Seq(S) /\ <<Head(s)>> \in Seq(S)
           /\ s = <<Head(s)>> \o Tail(s)
OBVIOUS

(* What is flattened begins with the first of the sequences.               *)
LEMMA FlattenFront ==
    ASSUME NEW S, NEW s \in Seq(Seq(S)), s # <<>>
    PROVE  FlattenSeq(s) = Head(s) \o FlattenSeq(Tail(s))
<1>1. /\ Tail(s) \in Seq(Seq(S)) /\ <<Head(s)>> \in Seq(Seq(S))
      /\ s = <<Head(s)>> \o Tail(s)
  BY FirstAndRest
<1>2. FlattenSeq(<<Head(s)>>) = Head(s)
  <2>1. Len(<<Head(s)>>) = 1 /\ <<Head(s)>>[1] = Head(s)
    OBVIOUS
  <2>2. QED BY <1>1, <2>1, FlattenOne
<1>3. FlattenSeq(<<Head(s)>> \o Tail(s)) = FlattenSeq(<<Head(s)>>) \o FlattenSeq(Tail(s))
  BY <1>1, FlattenConcat
<1>4. QED BY <1>1, <1>2, <1>3

-----------------------------------------------------------------------------
(* How often a term is in files.                                           *)
LEMMA OccurrencesType ==
    ASSUME NEW f \in File, NEW n, NEW p \in Nat
    PROVE  /\ Occurrences(f, n) \in Nat
           /\ IsFiniteSet(PlacesAfter(f, p, n))
           /\ Cardinality(PlacesAfter(f, p, n)) \in Nat
           /\ Cardinality(PlacesAfter(f, p, n)) <= Occurrences(f, n)
           /\ Cardinality(PlacesAfter(f, 0, n)) = Occurrences(f, n)
<1> DEFINE All == {q \in DOMAIN Terms[f] : Terms[f][q] = n}
<1>1. DOMAIN Terms[f] = 1 .. Len(Terms[f]) /\ Len(Terms[f]) \in Nat
  BY KeyMapAssumption
<1>2. IsFiniteSet(1 .. Len(Terms[f]))
  BY <1>1, FS_Interval
<1>3. IsFiniteSet(All)
  BY <1>1, <1>2, FS_Subset
<1>4. PlacesAfter(f, p, n) \in SUBSET All
  BY DEF PlacesAfter
<1>5. IsFiniteSet(PlacesAfter(f, p, n)) /\ Cardinality(PlacesAfter(f, p, n)) <= Cardinality(All)
  BY <1>3, <1>4, FS_Subset
<1>6. PlacesAfter(f, 0, n) = All
  BY <1>1 DEF PlacesAfter
<1>7. Occurrences(f, n) = Cardinality(All)
  BY DEF Occurrences
<1>8. QED BY <1>3, <1>5, <1>6, <1>7, FS_CardinalityType

OccurrencesIn(files, n) == [i \in DOMAIN files |-> Occurrences(files[i], n)]

(* The occurrences of a name in files add up from those in each.           *)
LEMMA OccurrencesInType ==
    ASSUME NEW files \in Seq(File), NEW n
    PROVE  /\ OccurrencesIn(files, n) \in Seq(Nat)
           /\ Len(OccurrencesIn(files, n)) = Len(files)
           /\ \A i \in 1 .. Len(files) : OccurrencesIn(files, n)[i] = Occurrences(files[i], n)
           /\ Contained(files, n) = Total(OccurrencesIn(files, n))
<1>1. DOMAIN files = 1 .. Len(files) /\ Len(files) \in Nat
  OBVIOUS
<1>2. \A i \in 1 .. Len(files) : files[i] \in File
  BY <1>1
<1>3. \A i \in 1 .. Len(files) : Occurrences(files[i], n) \in Nat
  <2>1. 0 \in Nat
    OBVIOUS
  <2>2. QED BY <1>2, <2>1, OccurrencesType
<1>4. QED BY <1>1, <1>3 DEF OccurrencesIn, Contained

(* They are a number, ...                                                  *)
LEMMA ContainedType ==
    ASSUME NEW files \in Seq(File), NEW n
    PROVE  Contained(files, n) \in Nat
BY OccurrencesInType, TotalType

(* ... none in no files, ...                                               *)
LEMMA ContainedEmpty ==
    ASSUME NEW n
    PROVE  Contained(<<>>, n) = 0
<1>1. <<>> \in Seq(File) /\ Len(<<>>) = 0
  OBVIOUS
<1>2. Len(OccurrencesIn(<<>>, n)) = 0
  BY <1>1, OccurrencesInType
<1>3. \A i \in 1 .. Len(OccurrencesIn(<<>>, n)) : OccurrencesIn(<<>>, n)[i] = 0
  BY <1>2
<1>4. QED BY <1>1, <1>3, OccurrencesInType, TotalZero

(* ... those of two sequences together, ...                                *)
LEMMA ContainedConcat ==
    ASSUME NEW s \in Seq(File), NEW t \in Seq(File), NEW n
    PROVE  Contained(s \o t, n) = Contained(s, n) + Contained(t, n)
<1> DEFINE a == OccurrencesIn(s, n)
           b == OccurrencesIn(t, n)
           c == OccurrencesIn(s \o t, n)
<1>1. s \o t \in Seq(File) /\ Len(s \o t) = Len(s) + Len(t)
  BY ConcatProperties
<1>2. /\ a \in Seq(Nat) /\ Len(a) = Len(s) /\ Contained(s, n) = Total(a)
      /\ \A i \in 1 .. Len(s) : a[i] = Occurrences(s[i], n)
  BY OccurrencesInType
<1>3. /\ b \in Seq(Nat) /\ Len(b) = Len(t) /\ Contained(t, n) = Total(b)
      /\ \A i \in 1 .. Len(t) : b[i] = Occurrences(t[i], n)
  BY OccurrencesInType
<1>4. /\ c \in Seq(Nat) /\ Len(c) = Len(s) + Len(t) /\ Contained(s \o t, n) = Total(c)
      /\ \A i \in 1 .. Len(s) + Len(t) : c[i] = Occurrences((s \o t)[i], n)
  BY <1>1, OccurrencesInType
<1> HIDE DEF a, b, c
<1>5. c = a \o b
  <2> DEFINE m == Len(s)
             l == Len(t)
             st == s \o t
             ab == a \o b
  <2>1. m \in Nat /\ l \in Nat
    OBVIOUS
  <2>2. \A i \in 1 .. m + l : st[i] = IF i <= m THEN s[i] ELSE t[i - m]
    BY ConcatProperties
  <2>3. /\ \A i \in 1 .. m + l : ab[i] = IF i <= m THEN a[i] ELSE b[i - m]
        /\ ab \in Seq(Nat) /\ Len(ab) = m + l
    <3>1. Len(a) = m /\ Len(b) = l
      BY <1>2, <1>3
    <3>2. a \in Seq(Nat) /\ b \in Seq(Nat)
      BY <1>2, <1>3
    <3>3. /\ \A i \in 1 .. Len(a) + Len(b) :
                ab[i] = IF i <= Len(a) THEN a[i] ELSE b[i - Len(a)]
          /\ ab \in Seq(Nat) /\ Len(ab) = Len(a) + Len(b)
      BY <3>2, ConcatProperties
    <3> HIDE DEF m, l, ab
    <3>4. QED BY <3>1, <3>3
  <2> HIDE DEF m, l, st, ab
  <2>4. ASSUME NEW i \in 1 .. m + l PROVE c[i] = ab[i]
    <3>1. c[i] = Occurrences(st[i], n)
      BY <1>4, <2>1 DEF m, l, st
    <3>2. CASE i <= m
      <4>1. i \in 1 .. m
        BY <2>1, <3>2
      <4>2. QED BY <1>2, <2>3, <2>2, <3>1, <3>2, <4>1 DEF m
    <3>3. CASE ~(i <= m)
      <4>1. i - m \in 1 .. l
        BY <2>1, <3>3
      <4>2. QED BY <1>3, <2>3, <2>2, <3>1, <3>3, <4>1 DEF l
    <3>4. QED BY <3>2, <3>3
  <2>5. Len(c) = m + l
    BY <1>4 DEF m, l
  <2>6. c = ab
    BY <1>4, <2>3, <2>4, <2>5, SeqEqual
  <2>7. QED BY <2>6 DEF ab
<1>6. QED BY <1>2, <1>3, <1>4, <1>5, TotalConcat

(* ... those of the first file and of the rest together.                   *)
LEMMA ContainedFirst ==
    ASSUME NEW s \in Seq(File), s # <<>>, NEW n
    PROVE  /\ Contained(s, n) = Occurrences(Head(s), n) + Contained(Tail(s), n)
           /\ Head(s) \in File /\ Tail(s) \in Seq(File)
<1>1. /\ Head(s) \in File /\ Tail(s) \in Seq(File) /\ <<Head(s)>> \in Seq(File)
      /\ s = <<Head(s)>> \o Tail(s)
  BY FirstAndRest
<1> DEFINE a == OccurrencesIn(<<Head(s)>>, n)
<1>2. /\ a \in Seq(Nat) /\ Len(a) = 1 /\ a[1] = Occurrences(Head(s), n)
      /\ Contained(<<Head(s)>>, n) = Total(a)
  <2>1. Len(<<Head(s)>>) = 1 /\ <<Head(s)>>[1] = Head(s) /\ 1 \in 1 .. Len(<<Head(s)>>)
    OBVIOUS
  <2>2. QED BY <1>1, <2>1, OccurrencesInType
<1> HIDE DEF a
<1>3. Total(a) = a[1]
  <2>1. 1 \in 1 .. Len(a) /\ \A i \in 1 .. Len(a) : i # 1 => a[i] = 0
    BY <1>2
  <2>2. QED BY <1>2, <2>1, TotalOne
<1>4. Contained(<<Head(s)>> \o Tail(s), n) = Contained(<<Head(s)>>, n) + Contained(Tail(s), n)
  BY <1>1, ContainedConcat
<1>5. QED BY <1>1, <1>2, <1>3, <1>4

-----------------------------------------------------------------------------
(* What a thread has ahead of it is a number.                              *)
LEMMA AheadOfType ==
    ASSUME NEW files \in Seq(File), NEW p \in Nat, NEW n
    PROVE  AheadOf(files, p, n) \in Nat
<1>1. CASE files = <<>>
  BY <1>1 DEF AheadOf
<1>2. CASE files # <<>>
  <2>1. Head(files) \in File /\ Contained(Tail(files), n) \in Nat
    BY <1>2, ContainedFirst, ContainedType
  <2>2. Cardinality(PlacesAfter(Head(files), p, n)) \in Nat
    BY <2>1, OccurrencesType
  <2>3. QED BY <1>2, <2>1, <2>2 DEF AheadOf
<1>3. QED BY <1>1, <1>2

(* Before the first term all of the files is ahead.                        *)
LEMMA AheadAtStart ==
    ASSUME NEW files \in Seq(File), NEW n
    PROVE  AheadOf(files, 0, n) = Contained(files, n)
<1>1. CASE files = <<>>
  BY <1>1, ContainedEmpty DEF AheadOf
<1>2. CASE files # <<>>
  <2>1. /\ Contained(files, n) = Occurrences(Head(files), n) + Contained(Tail(files), n)
        /\ Head(files) \in File
    BY <1>2, ContainedFirst
  <2>2. Cardinality(PlacesAfter(Head(files), 0, n)) = Occurrences(Head(files), n)
    <3>1. 0 \in Nat
      OBVIOUS
    <3>2. QED BY <2>1, <3>1, OccurrencesType
  <2>3. QED BY <1>2, <2>1, <2>2 DEF AheadOf
<1>3. QED BY <1>1, <1>2

(* The next file: what was not counted of the one before is passed over.   *)
LEMMA AheadOfNext ==
    ASSUME NEW files \in Seq(File), files # <<>>, NEW p \in Nat, NEW n
    PROVE  AheadOf(Tail(files), 0, n) <= AheadOf(files, p, n)
<1>1. Head(files) \in File /\ Tail(files) \in Seq(File)
  BY ContainedFirst
<1>2. AheadOf(Tail(files), 0, n) = Contained(Tail(files), n)
  BY <1>1, AheadAtStart
<1>3. Contained(Tail(files), n) \in Nat
  BY <1>1, ContainedType
<1>4. Cardinality(PlacesAfter(Head(files), p, n)) \in Nat
  BY <1>1, OccurrencesType
<1>5. QED BY <1>2, <1>3, <1>4 DEF AheadOf

(* A term counted is no more ahead.                                        *)
LEMMA AheadOfCounted ==
    ASSUME NEW files \in Seq(File), files # <<>>,
           NEW p \in Nat, p < Len(Terms[Head(files)]), NEW n
    PROVE  AheadOf(files, p, n) =
               AheadOf(files, p + 1, n) + (IF n = Terms[Head(files)][p + 1] THEN 1 ELSE 0)
<1> DEFINE f == Head(files)
           A == PlacesAfter(f, p, n)
           B == PlacesAfter(f, p + 1, n)
<1>1. f \in File /\ Tail(files) \in Seq(File) /\ Contained(Tail(files), n) \in Nat
  BY ContainedFirst, ContainedType
<1>2. DOMAIN Terms[f] = 1 .. Len(Terms[f]) /\ Len(Terms[f]) \in Nat
  BY <1>1, KeyMapAssumption
<1>3. IsFiniteSet(A) /\ Cardinality(A) \in Nat /\ Cardinality(B) \in Nat
  <2>1. p + 1 \in Nat
    OBVIOUS
  <2>2. QED BY <1>1, <2>1, OccurrencesType
<1>4. p + 1 \in DOMAIN Terms[f] /\ \A q \in DOMAIN Terms[f] : q > p <=> q > p + 1 \/ q = p + 1
  BY <1>2
<1>5. AheadOf(files, p, n) = Cardinality(A) + Contained(Tail(files), n)
      /\ AheadOf(files, p + 1, n) = Cardinality(B) + Contained(Tail(files), n)
  BY DEF AheadOf
<1>6. CASE n = Terms[f][p + 1]
  <2>1. p + 1 \in A
    BY <1>4, <1>6 DEF PlacesAfter
  <2>2. B = A \ {p + 1}
    <3>1. \A q \in DOMAIN Terms[f] : q > p + 1 => q # p + 1
      BY <1>2
    <3>2. QED BY <1>4, <3>1 DEF PlacesAfter
  <2>3. Cardinality(B) = Cardinality(A) - 1
    BY <1>3, <2>1, <2>2, FS_RemoveElement
  <2> HIDE DEF A, B
  <2>4. QED BY <1>1, <1>3, <1>5, <1>6, <2>3 DEF f
<1>7. CASE n # Terms[f][p + 1]
  <2>1. B = A
    BY <1>4, <1>7 DEF PlacesAfter
  <2> HIDE DEF A, B
  <2>2. QED BY <1>1, <1>3, <1>5, <1>7, <2>1 DEF f
<1>8. QED BY <1>6, <1>7

-----------------------------------------------------------------------------
(* Numbers of the workers.                                                 *)
LEMMA WorkerNumbers ==
    ASSUME NEW f \in [Worker -> Nat]
    PROVE  f \in Seq(Nat) /\ Len(f) = NofInstances /\ Total(f) \in Nat
<1>1. NofInstances \in Nat /\ Worker = 1 .. NofInstances
  BY ClientAssumption DEF Worker
<1>2. f \in Seq(Nat) /\ Len(f) = NofInstances
  BY <1>1
<1>3. QED BY <1>2, TotalType

(* A change of what one worker has changes the sum over the workers.       *)
LEMMA WorkerChanged ==
    ASSUME NEW f \in [Worker -> Nat], NEW g \in [Worker -> Nat], NEW w \in Worker,
           \A v \in Worker : v # w => g[v] = f[v]
    PROVE  /\ Total(g) + f[w] = Total(f) + g[w]
           /\ f[w] <= Total(f)
           /\ Total(f) \in Nat /\ Total(g) \in Nat
<1>1. NofInstances \in Nat /\ Worker = 1 .. NofInstances
  BY ClientAssumption DEF Worker
<1>2. /\ f \in Seq(Nat) /\ Len(f) = NofInstances /\ Total(f) \in Nat
      /\ g \in Seq(Nat) /\ Len(g) = NofInstances /\ Total(g) \in Nat
  BY WorkerNumbers
<1>3. w \in 1 .. Len(f) /\ Len(g) = Len(f)
  BY <1>1, <1>2
<1>4. \A v \in 1 .. Len(f) : v # w => g[v] = f[v]
  BY <1>1, <1>2
<1>5. QED BY <1>2, <1>3, <1>4, TotalChanged, TotalAtLeast

-----------------------------------------------------------------------------
(* All files wait in the chunks of the constructor.                        *)
LEMMA AllFilesWait ==
    ASSUME Crawler!Init
    PROVE  FlattenSeq(chunkque) = Path
<1>1. CP!Init
  BY InitCrawler
<1>2. CP!IInv
  BY <1>1, FilesAssumption, CP!InitIInv
<1>3. CP!FlattenSeq(made) = CP!AllFiles
  BY <1>2 DEF CP!IInv, CP!Cut
<1>4. chunkque = made
  BY <1>1 DEF CP!Init
<1>5. CP!FlattenSeq(made) = FlattenSeq(made)
  BY DEF CP!FlattenSeq, FlattenSeq
<1> DEFINE singles == [i \in DOMAIN Path |-> <<Path[i]>>]
           parts == [i \in DOMAIN Path |-> << <<Path[i]>> >>]
<1>6. CP!AllFiles = FlattenSeq(FlattenSeq(parts))
  <2>1. \A t : CP!FlattenSeq(t) = FlattenSeq(t)
    BY DEF CP!FlattenSeq, FlattenSeq
  <2>2. [i \in DOMAIN Path |-> CP!ItemsOf(Path[i])] = parts
    BY DEF CP!ItemsOf
  <2> HIDE DEF parts
  <2>3. QED BY <2>1, <2>2 DEF CP!AllFiles, CP!AllItems
<1>7. FlattenSeq(singles) = Path
  BY ClientAssumption, FlattenSingles
<1>8. FlattenSeq(parts) = singles
  <2>1. Path \in Seq(File) /\ DOMAIN Path = 1 .. Len(Path) /\ Len(Path) \in Nat
    BY ClientAssumption
  <2>2. \A i \in 1 .. Len(Path) : <<Path[i]>> \in Seq(File)
    BY <2>1
  <2> DEFINE n == Len(Path)
  <2> HIDE DEF n
  <2>3. [i \in 1 .. n |-> <<Path[i]>>] \in Seq(Seq(File))
    BY <2>1, <2>2 DEF n
  <2>4. singles \in Seq(Seq(File)) /\ DOMAIN singles = DOMAIN Path
    BY <2>1, <2>3 DEF n
  <2>5. parts = [i \in DOMAIN singles |-> <<singles[i]>>]
    BY <2>4
  <2> HIDE DEF singles, parts
  <2>6. QED BY <2>4, <2>5, FlattenSingles
<1> HIDE DEF singles, parts
<1>9. QED BY <1>3, <1>4, <1>5, <1>6, <1>7, <1>8

(* At the start nothing is counted, and all files are still queued.        *)
LEMMA InitKeyMapInv == KeyMapInit => KeyMapInv
<1> SUFFICES ASSUME KeyMapInit PROVE KeyMapInv
  OBVIOUS
<1> USE DEF KeyMapInit
<1>1. CP!IInv
  <2>1. CP!Init
    BY InitCrawler
  <2>2. QED BY <2>1, FilesAssumption, CP!InitIInv
<1>2. Crawler!TypeOK
  BY <1>1, CrawlerTypes DEF CP!IInv
<1>3. NoCounts \in [Name -> Nat] /\ \A n \in Name : NoCounts[n] = 0
  BY DEF NoCounts
<1>4. KeyMapTypeOK
  <2>1. <<>> \in Seq(Seq(KeyOccurrence)) /\ <<>> \in Seq(KeyOccurrence)
    OBVIOUS
  <2>2. QED BY <1>2, <1>3, <2>1 DEF KeyMapTypeOK
<1>5. MapsAndLists
  <2>1. Keys(NoCounts) = {}
    BY <1>3 DEF Keys
  <2>2. AllOrdered(<<>>)
    BY DEF AllOrdered
  <2>3. QED BY <2>1, <2>2, FS_EmptySet DEF MapsAndLists
<1>6. ASSUME NEW n \in Name PROVE counted[n] = InLists(n) + InMaps(n)
  <2>1. InLists(n) = 0
    <3> DEFINE t == ListedIn(<<>>, n)
    <3>1. <<>> \in Seq(Seq(KeyOccurrence)) /\ Len(<<>>) = 0
      OBVIOUS
    <3>2. t \in Seq(Nat) /\ Len(t) = 0
      BY <3>1, ListedInType
    <3>3. InLists(n) = Total(t)
      BY DEF InLists, ListedIn
    <3> HIDE DEF t
    <3>4. \A i \in 1 .. Len(t) : t[i] = 0
      BY <3>2
    <3>5. Total(t) = 0
      BY <3>2, <3>4, TotalZero
    <3>6. QED BY <3>3, <3>5
  <2>2. InMaps(n) = 0
    <3> DEFINE f == MapCounts(n)
    <3>1. f \in [Worker -> Nat] /\ \A w \in Worker : f[w] = 0
      BY DEF MapCounts
    <3>2. InMaps(n) = Total(f)
      BY DEF InMaps, MapCounts
    <3> HIDE DEF f
    <3>3. f \in Seq(Nat) /\ Len(f) = NofInstances
      BY <3>1, WorkerNumbers
    <3>4. \A i \in 1 .. Len(f) : f[i] = 0
      BY <3>1, <3>3 DEF Worker
    <3>5. QED BY <3>2, <3>3, <3>4, TotalZero
  <2>3. QED BY <1>3, <2>1, <2>2
<1>7. ASSUME NEW n \in Name
      PROVE  counted[n] + Total(AheadCounts(n)) + Contained(FlattenSeq(chunkque), n)
                 <= InFiles(n)
  <2>1. Total(AheadCounts(n)) = 0
    <3> DEFINE f == AheadCounts(n)
    <3>1. batch = [w \in Worker |-> <<>>]
      BY DEF Crawler!Init
    <3>2. f \in [Worker -> Nat] /\ \A w \in Worker : f[w] = 0
      BY <3>1 DEF AheadCounts, AheadOf
    <3> HIDE DEF f
    <3>3. f \in Seq(Nat) /\ Len(f) = NofInstances
      BY <3>2, WorkerNumbers
    <3>4. \A i \in 1 .. Len(f) : f[i] = 0
      BY <3>2, <3>3 DEF Worker
    <3>5. Total(f) = 0
      BY <3>3, <3>4, TotalZero
    <3>6. QED BY <3>5 DEF f
  <2>2. Contained(FlattenSeq(chunkque), n) = InFiles(n)
    BY AllFilesWait DEF InFiles
  <2>3. InFiles(n) \in Nat
    BY ClientAssumption, ContainedType DEF InFiles
  <2>4. QED BY <1>3, <2>1, <2>2, <2>3
<1>8. PrintedAtTheEnd
  BY DEF PrintedAtTheEnd
<1>9. QED
  BY <1>1, <1>4, <1>5, <1>6, <1>7, <1>8
     DEF KeyMapInv, Counted, CountsKept, WithinFiles

(* The crawler keeps its invariant; a thread may drop the rest of a chunk. *)
LEMMA NextKeyMapCrawler ==
    ASSUME CP!IInv, [KeyMapNext]_keyMapVars
    PROVE  CP!IInv'
<1> USE DEF Crawler!history, CP!history
<1>1. ASSUME NEW w \in Worker, FetchChunk(w) \/ NextDocument(w)
      PROVE  CP!Next
  <2>1. CP!Step(w)
    BY <1>1 DEF FetchChunk, NextDocument, CP!Step, Crawler!Fetch,
       Crawler!FetchNothing, Crawler!FetchFails, Crawler!FileDone, CP!Fetch,
       CP!FetchNothing, CP!FetchFails, CP!FileDone
  <2>2. QED BY <2>1 DEF CP!Next
<1>2. CASE UNCHANGED crawlerVars
  <2>1. UNCHANGED CP!crawlerVars
    BY <1>2 DEF crawlerVars, CP!crawlerVars
  <2>2. QED BY <2>1, FilesAssumption, CP!NextIInv
<1>3. ASSUME NEW w \in Worker, CountTerm(w) \/ Push(w)
      PROVE  CP!IInv'
  <2>1. UNCHANGED crawlerVars
    BY <1>3 DEF CountTerm, Push
  <2>2. QED BY <1>2, <2>1
<1>4. ASSUME NEW w \in Worker, ReadAheadFails(w) \/ ChunkOutOfMemory(w)
      PROVE  CP!IInv'
  <2>1. batch' \in [Worker -> Seq(File)]
    <3>1. batch \in [Worker -> Seq(File)]
      BY DEF CP!IInv, CP!TypeOK
    <3>2. batch' = [batch EXCEPT ![w] = <<>>]
      BY ONLY <1>4 DEF ReadAheadFails, ChunkOutOfMemory
    <3>3. <<>> \in Seq(File)
      OBVIOUS
    <3>4. QED BY ONLY <3>1, <3>2, <3>3
  <2>2. UNCHANGED <<chunkque, stopped, handed, broken, reading, made>>
    BY <1>4 DEF ReadAheadFails, ChunkOutOfMemory
  <2>3. QED BY <2>1, <2>2, FilesAssumption, CP!DroppedFiles
<1>5. CASE FinalMerge
  <2>1. UNCHANGED crawlerVars
    BY <1>5 DEF FinalMerge
  <2>2. QED BY <1>2, <2>1
<1>6. CASE KeyMapTerminated \/ UNCHANGED keyMapVars
  <2>1. UNCHANGED crawlerVars
    BY <1>6 DEF KeyMapTerminated, keyMapVars
  <2>2. QED BY <1>2, <2>1
<1>7. CP!Next => CP!IInv'
  BY FilesAssumption, CP!NextIInv
<1>8. QED
  BY <1>1, <1>3, <1>4, <1>5, <1>6, <1>7 DEF KeyMapNext, RunKeyMap

-----------------------------------------------------------------------------
(* The occurrences in lists and maps.                                      *)
LEMMA CountsTypes ==
    ASSUME KeyMapTypeOK, NEW n \in Name
    PROVE  /\ MapCounts(n) \in [Worker -> Nat]
           /\ AheadCounts(n) \in [Worker -> Nat]
           /\ \A w \in Worker : /\ MapCounts(n)[w] =
                                      IF w \in inChunk THEN keyOccurrenceMap[w][n] ELSE 0
                                /\ AheadCounts(n)[w] = AheadOf(batch[w], position[w], n)
           /\ InMaps(n) = Total(MapCounts(n))
           /\ InLists(n) = Total(ListedIn(keyOccurrenceListBuf, n))
           /\ InMaps(n) \in Nat /\ InLists(n) \in Nat
           /\ Contained(FlattenSeq(chunkque), n) \in Nat
           /\ InFiles(n) \in Nat
<1>1. MapCounts(n) \in [Worker -> Nat]
  BY DEF MapCounts, KeyMapTypeOK
<1>2. AheadCounts(n) \in [Worker -> Nat]
  <2>1. \A w \in Worker : batch[w] \in Seq(File) /\ position[w] \in Nat
    BY DEF KeyMapTypeOK, Crawler!TypeOK
  <2>2. QED BY <2>1, AheadOfType DEF AheadCounts
<1>3. InMaps(n) = Total(MapCounts(n))
  BY DEF InMaps, MapCounts
<1>4. InLists(n) = Total(ListedIn(keyOccurrenceListBuf, n))
  BY DEF InLists, ListedIn
<1>5. InLists(n) \in Nat
  <2>1. keyOccurrenceListBuf \in Seq(Seq(KeyOccurrence))
    BY DEF KeyMapTypeOK
  <2>2. QED BY <1>4, <2>1, ListedInType, TotalType
<1>6. InMaps(n) \in Nat
  BY <1>1, <1>3, WorkerNumbers
<1>7. Contained(FlattenSeq(chunkque), n) \in Nat
  <2>1. FlattenSeq(chunkque) \in Seq(File)
    BY FlattenType DEF KeyMapTypeOK, Crawler!TypeOK
  <2>2. QED BY <2>1, ContainedType
<1>8. InFiles(n) \in Nat
  BY ClientAssumption, ContainedType DEF InFiles
<1>9. QED
  BY <1>1, <1>2, <1>3, <1>4, <1>5, <1>6, <1>7, <1>8 DEF MapCounts, AheadCounts

(* The maps of the other threads stay as they are.                         *)
OthersKeepMaps(w) ==
    \A v \in Worker : v # w =>
        /\ keyOccurrenceMap'[v] = keyOccurrenceMap[v]
        /\ v \in inChunk' <=> v \in inChunk

(* When thread w changes its map, the sum over the maps changes with it.   *)
LEMMA InMapsChanged ==
    ASSUME KeyMapTypeOK, NEW w \in Worker, NEW n \in Name, OthersKeepMaps(w),
           NEW old \in Nat, old = (IF w \in inChunk THEN keyOccurrenceMap[w][n] ELSE 0),
           NEW new \in Nat, new = (IF w \in inChunk' THEN keyOccurrenceMap'[w][n] ELSE 0)
    PROVE  InMaps(n)' + old = InMaps(n) + new /\ old <= InMaps(n) /\ InMaps(n)' \in Nat
<1> DEFINE f == MapCounts(n)
           g == [v \in Worker |-> IF v \in inChunk' THEN keyOccurrenceMap'[v][n] ELSE 0]
<1>1. /\ f \in [Worker -> Nat] /\ InMaps(n) = Total(f)
      /\ \A v \in Worker : f[v] = IF v \in inChunk THEN keyOccurrenceMap[v][n] ELSE 0
  BY CountsTypes
<1>2. InMaps(n)' = Total(g)
  BY DEF InMaps
<1>3. \A v \in Worker : v # w => g[v] = f[v]
  BY <1>1 DEF OthersKeepMaps
<1>4. g[w] = new /\ f[w] = old
  BY <1>1
<1>5. g = [v \in Worker |-> g[v]] /\ \A v \in Worker : g[v] \in Nat
  BY <1>1, <1>3, <1>4
<1> HIDE DEF f, g
<1>6. g \in [Worker -> Nat]
  BY <1>5
<1>7. /\ Total(g) + f[w] = Total(f) + g[w]
      /\ f[w] <= Total(f)
      /\ Total(g) \in Nat
  BY <1>1, <1>3, <1>6, WorkerChanged
<1>8. QED BY <1>1, <1>2, <1>4, <1>7

(* The same for what is ahead of the threads.                              *)
OthersStayAhead(w) ==
    \A v \in Worker : v # w => batch'[v] = batch[v] /\ position'[v] = position[v]

(* When thread w moves on, the sum of what is ahead changes with it.       *)
LEMMA AheadChanged ==
    ASSUME KeyMapTypeOK, NEW w \in Worker, NEW n \in Name, OthersStayAhead(w),
           NEW old \in Nat, old = AheadOf(batch[w], position[w], n),
           NEW new \in Nat, new = AheadOf(batch'[w], position'[w], n)
    PROVE  /\ Total(AheadCounts(n)') + old = Total(AheadCounts(n)) + new
           /\ old <= Total(AheadCounts(n))
           /\ Total(AheadCounts(n)) \in Nat /\ Total(AheadCounts(n)') \in Nat
<1> DEFINE f == AheadCounts(n)
           g == [v \in Worker |-> AheadOf(batch'[v], position'[v], n)]
<1>1. /\ f \in [Worker -> Nat]
      /\ \A v \in Worker : f[v] = AheadOf(batch[v], position[v], n)
  BY CountsTypes
<1>2. AheadCounts(n)' = g
  BY DEF AheadCounts, AheadOf, PlacesAfter, Contained, Occurrences, Total
<1>3. \A v \in Worker : v # w => g[v] = f[v]
  BY <1>1 DEF OthersStayAhead
<1>4. g[w] = new /\ f[w] = old
  BY <1>1
<1>5. g = [v \in Worker |-> g[v]] /\ \A v \in Worker : g[v] \in Nat
  BY <1>1, <1>3, <1>4
<1> HIDE DEF f, g
<1>6. g \in [Worker -> Nat]
  BY <1>5
<1>7. /\ Total(g) + f[w] = Total(f) + g[w]
      /\ f[w] <= Total(f)
      /\ Total(f) \in Nat /\ Total(g) \in Nat
  BY <1>1, <1>3, <1>6, WorkerChanged
<1>8. QED BY <1>2, <1>4, <1>7 DEF f

-----------------------------------------------------------------------------
(* The types, by the invariant of the crawler and the counts.              *)
LEMMA NextKeyMapTypes ==
    ASSUME KeyMapInv, [KeyMapNext]_keyMapVars, CP!IInv'
    PROVE  KeyMapTypeOK'
<1> USE DEF KeyMapInv, Counted
<1>1. CP!TypeOK' => Crawler!TypeOK'
  BY CrawlerTypes, PTL
<1>2. Crawler!TypeOK'
  BY <1>1 DEF CP!IInv
<1>3. CASE UNCHANGED keyMapVars
  BY <1>2, <1>3 DEF keyMapVars, localVars, mainVars, crawlerVars, KeyMapTypeOK
<1>4. ASSUME NEW w \in Worker, FetchChunk(w) PROVE KeyMapTypeOK'
  <2>1. NoCounts \in [Name -> Nat]
    BY DEF NoCounts
  <2>2. stopped' = stopped \/ stopped' = stopped \cup {w}
    BY <1>4 DEF FetchChunk, Crawler!Fetch, Crawler!FetchNothing, Crawler!FetchFails
  <2>3. inChunk' \in SUBSET (Worker \ stopped')
    BY <1>4, <2>2 DEF FetchChunk, KeyMapTypeOK
  <2>4. QED BY <1>2, <1>4, <2>1, <2>3 DEF FetchChunk, mainVars, KeyMapTypeOK
<1>5. ASSUME NEW w \in Worker, CountTerm(w) PROVE KeyMapTypeOK'
  <2> DEFINE n == Terms[Head(batch[w])][position[w] + 1]
  <2>1. n \in Name
    <3>1. batch[w] \in Seq(File) /\ batch[w] # <<>> /\ position[w] \in Nat
      BY <1>5 DEF CountTerm, KeyMapTypeOK, Crawler!TypeOK
    <3>2. Head(batch[w]) \in File
      BY <3>1, FirstAndRest
    <3>3. Terms[Head(batch[w])] \in Seq(Name)
      BY <3>2, KeyMapAssumption
    <3>4. position[w] + 1 \in 1 .. Len(Terms[Head(batch[w])])
      BY <1>5, <3>1, <3>3 DEF CountTerm
    <3>5. QED BY <3>3, <3>4
  <2>2. /\ keyOccurrenceMap' = [keyOccurrenceMap EXCEPT ![w][n] = @ + 1]
        /\ counted' = [counted EXCEPT ![n] = @ + 1]
        /\ position' = [position EXCEPT ![w] = @ + 1]
        /\ UNCHANGED <<inChunk, stopped, keyOccurrenceListBuf, printed, outcome>>
    BY <1>5 DEF CountTerm, crawlerVars, mainVars
  <2> HIDE DEF n
  <2>3. counted' \in [Name -> Nat] /\ position' \in [Worker -> Nat]
    BY <2>1, <2>2 DEF KeyMapTypeOK
  <2>4. keyOccurrenceMap' \in [Worker -> [Name -> Nat]]
    <3> DEFINE m == [keyOccurrenceMap[w] EXCEPT ![n] = @ + 1]
    <3>1. m \in [Name -> Nat]
      BY <2>1 DEF KeyMapTypeOK
    <3>2. keyOccurrenceMap' = [keyOccurrenceMap EXCEPT ![w] = m]
      BY <2>2
    <3> HIDE DEF m
    <3>3. QED BY <3>1, <3>2 DEF KeyMapTypeOK
  <2>5. QED BY <1>2, <2>2, <2>3, <2>4 DEF KeyMapTypeOK
<1>6. ASSUME NEW w \in Worker, NextDocument(w) PROVE KeyMapTypeOK'
  BY <1>2, <1>6 DEF NextDocument, Crawler!FileDone, mainVars, KeyMapTypeOK
<1>7. ASSUME NEW w \in Worker, ReadAheadFails(w) PROVE KeyMapTypeOK'
  BY <1>2, <1>7 DEF ReadAheadFails, mainVars, localVars, KeyMapTypeOK
<1>8. ASSUME NEW w \in Worker, Push(w) PROVE KeyMapTypeOK'
  <2>1. KeyOccurrenceList(keyOccurrenceMap[w]) \in Seq(KeyOccurrence)
    <3>1. keyOccurrenceMap[w] \in [Name -> Nat] /\ IsFiniteSet(Keys(keyOccurrenceMap[w]))
      BY DEF KeyMapTypeOK, MapsAndLists
    <3>2. QED BY <3>1, ListOfMap DEF OrderedList
  <2>2. keyOccurrenceListBuf' \in Seq(Seq(KeyOccurrence))
    <3> DEFINE list == KeyOccurrenceList(keyOccurrenceMap[w])
    <3>1. keyOccurrenceListBuf' = Append(keyOccurrenceListBuf, list)
      BY <1>8 DEF Push
    <3> HIDE DEF list
    <3>2. QED BY <2>1, <3>1, AppendProperties DEF KeyMapTypeOK, list
  <2>3. QED BY <1>2, <1>8, <2>2 DEF Push, crawlerVars, mainVars, KeyMapTypeOK
<1>9. ASSUME NEW w \in Worker, ChunkOutOfMemory(w) PROVE KeyMapTypeOK'
  <2>1. ASSUME NEW n \in Name PROVE counted[n] - keyOccurrenceMap[w][n] \in Nat
    <3> DEFINE f == MapCounts(n)
    <3>1. /\ f \in [Worker -> Nat] /\ InMaps(n) = Total(f) /\ f[w] = keyOccurrenceMap[w][n]
          /\ InLists(n) \in Nat
      BY <1>9, CountsTypes DEF ChunkOutOfMemory
    <3> HIDE DEF f
    <3>2. f[w] <= Total(f) /\ Total(f) \in Nat
      BY <3>1, WorkerChanged
    <3>3. counted[n] = InLists(n) + InMaps(n)
      BY DEF CountsKept
    <3>4. f[w] \in Nat
      BY <3>1
    <3>5. QED BY <3>1, <3>2, <3>3, <3>4
  <2>2. counted' \in [Name -> Nat]
    BY <1>9, <2>1 DEF ChunkOutOfMemory
  <2>3. QED BY <1>2, <1>9, <2>2 DEF ChunkOutOfMemory, crawlerVars, mainVars, KeyMapTypeOK
<1>10. CASE FinalMerge
  <2>1. printed' \in Seq(KeyOccurrence)
    <3>1. CASE keyOccurrenceListBuf = <<>>
      BY <1>10, <3>1 DEF FinalMerge, KeyMapTypeOK
    <3>2. CASE keyOccurrenceListBuf # <<>>
      <4>1. printed' = PrintKeyOccurrenceList(keyOccurrenceListBuf)
        BY <1>10, <3>2 DEF FinalMerge
      <4>2. QED BY <3>2, <4>1, PrintedFromLists DEF MapsAndLists
    <3>3. QED BY <3>1, <3>2
  <2>2. outcome' \in {"done", "undefined"}
    BY <1>10 DEF FinalMerge
  <2>3. QED BY <1>2, <1>10, <2>1, <2>2 DEF FinalMerge, crawlerVars, localVars, KeyMapTypeOK
<1>11. CASE KeyMapTerminated
  BY <1>3, <1>11 DEF KeyMapTerminated
<1>12. QED
  BY <1>3, <1>4, <1>5, <1>6, <1>7, <1>8, <1>9, <1>10, <1>11 DEF KeyMapNext, RunKeyMap

(* What is printed is printed at the end, and nothing changes afterwards.  *)
LEMMA NextPrinted ==
    ASSUME KeyMapTypeOK, PrintedAtTheEnd, [KeyMapNext]_keyMapVars
    PROVE  PrintedAtTheEnd'
<1>1. CASE UNCHANGED keyMapVars
  BY <1>1 DEF keyMapVars, mainVars, crawlerVars, PrintedAtTheEnd
<1>2. ASSUME NEW w \in Worker, RunKeyMap(w) PROVE PrintedAtTheEnd'
  <2>1. UNCHANGED mainVars
    BY <1>2 DEF RunKeyMap, FetchChunk, CountTerm, NextDocument, ReadAheadFails, Push,
       ChunkOutOfMemory
  <2>2. outcome = "none"
    <3>1. w \notin stopped
      <4>1. CASE w \in inChunk
        BY <4>1 DEF KeyMapTypeOK
      <4>2. CASE w \notin inChunk
        BY <1>2, <4>2 DEF RunKeyMap, FetchChunk, CountTerm, NextDocument,
           ReadAheadFails, Push, ChunkOutOfMemory, Crawler!Fetch,
           Crawler!FetchNothing, Crawler!FetchFails
      <4>3. QED BY <4>1, <4>2
    <3>2. QED BY <3>1 DEF PrintedAtTheEnd
  <2>3. QED BY <2>1, <2>2 DEF mainVars, PrintedAtTheEnd
<1>3. CASE FinalMerge
  <2>1. stopped' = stopped /\ stopped = Worker /\ keyOccurrenceListBuf' = keyOccurrenceListBuf
        /\ outcome = "none"
    BY <1>3 DEF FinalMerge, crawlerVars
  <2>2. CASE keyOccurrenceListBuf = <<>>
    BY <1>3, <2>1, <2>2 DEF FinalMerge, PrintedAtTheEnd
  <2>3. CASE keyOccurrenceListBuf # <<>>
    <3>1. outcome' = "done" /\ printed' = PrintKeyOccurrenceList(keyOccurrenceListBuf)
      BY <1>3, <2>3 DEF FinalMerge
    <3>2. QED BY <2>1, <2>3, <3>1 DEF PrintedAtTheEnd
  <2>4. QED BY <2>2, <2>3
<1>4. CASE KeyMapTerminated
  BY <1>1, <1>4 DEF KeyMapTerminated
<1>5. QED BY <1>1, <1>2, <1>3, <1>4 DEF KeyMapNext

-----------------------------------------------------------------------------
(* A term more has an entry: the map stays finite.                         *)
LEMMA NextMapsAndLists ==
    ASSUME KeyMapTypeOK, MapsAndLists, [KeyMapNext]_keyMapVars
    PROVE  MapsAndLists'
<1>1. CASE UNCHANGED <<batch, position, keyOccurrenceMap, keyOccurrenceListBuf>>
  BY <1>1 DEF MapsAndLists
<1>2. ASSUME NEW w \in Worker, FetchChunk(w) PROVE MapsAndLists'
  <2>1. /\ keyOccurrenceMap' = [keyOccurrenceMap EXCEPT ![w] = NoCounts]
        /\ UNCHANGED <<position, keyOccurrenceListBuf>>
    BY <1>2 DEF FetchChunk
  <2>2. /\ batch[w] = <<>>
        /\ \A v \in Worker : v # w => batch'[v] = batch[v]
    BY <1>2 DEF FetchChunk, Crawler!Fetch, Crawler!FetchNothing, Crawler!FetchFails,
       KeyMapTypeOK, Crawler!TypeOK
  <2>3. \A v \in Worker : batch'[v] = <<>> => position'[v] = 0
    BY <2>1, <2>2 DEF MapsAndLists
  <2>4. ASSUME NEW v \in Worker PROVE IsFiniteSet(Keys(keyOccurrenceMap'[v]))
    <3>1. CASE v = w
      <4>1. Keys(NoCounts) = {}
        BY DEF Keys, NoCounts
      <4>2. keyOccurrenceMap'[w] = NoCounts
        BY <2>1 DEF KeyMapTypeOK
      <4>3. QED BY <3>1, <4>1, <4>2, FS_EmptySet
    <3>2. CASE v # w
      BY <2>1, <3>2 DEF KeyMapTypeOK, MapsAndLists
    <3>3. QED BY <3>1, <3>2
  <2>5. QED BY <2>1, <2>3, <2>4 DEF MapsAndLists
<1>3. ASSUME NEW w \in Worker, CountTerm(w) PROVE MapsAndLists'
  <2> DEFINE n == Terms[Head(batch[w])][position[w] + 1]
  <2>1. /\ keyOccurrenceMap' = [keyOccurrenceMap EXCEPT ![w][n] = @ + 1]
        /\ position' = [position EXCEPT ![w] = @ + 1]
        /\ batch' = batch /\ batch[w] # <<>>
        /\ keyOccurrenceListBuf' = keyOccurrenceListBuf
    BY <1>3 DEF CountTerm, crawlerVars
  <2> HIDE DEF n
  <2>2. \A v \in Worker : batch'[v] = <<>> => position'[v] = 0
    BY <2>1 DEF MapsAndLists, KeyMapTypeOK
  <2>3. ASSUME NEW v \in Worker PROVE IsFiniteSet(Keys(keyOccurrenceMap'[v]))
    <3>1. CASE v = w
      <4> DEFINE m == [keyOccurrenceMap[w] EXCEPT ![n] = @ + 1]
      <4>1. keyOccurrenceMap'[w] = m
        BY <2>1 DEF KeyMapTypeOK
      <4>2. keyOccurrenceMap[w] \in [Name -> Nat]
        BY DEF KeyMapTypeOK
      <4>3. \A i \in Name : i # n => m[i] = keyOccurrenceMap[w][i]
        BY <4>2
      <4> HIDE DEF m
      <4>4. Keys(m) \in SUBSET (Keys(keyOccurrenceMap[w]) \cup {n})
        BY <4>3 DEF Keys
      <4>5. IsFiniteSet(Keys(keyOccurrenceMap[w]) \cup {n})
        BY FS_AddElement DEF MapsAndLists
      <4>6. IsFiniteSet(Keys(m))
        BY <4>4, <4>5, FS_Subset
      <4>7. QED BY <3>1, <4>1, <4>6
    <3>2. CASE v # w
      BY <2>1, <3>2 DEF KeyMapTypeOK, MapsAndLists
    <3>3. QED BY <3>1, <3>2
  <2>4. QED BY <2>1, <2>2, <2>3 DEF MapsAndLists
<1>4. ASSUME NEW w \in Worker, NextDocument(w) \/ ReadAheadFails(w) PROVE MapsAndLists'
  <2>1. UNCHANGED <<keyOccurrenceMap, keyOccurrenceListBuf>>
    BY <1>4 DEF NextDocument, ReadAheadFails, localVars
  <2>2. /\ position'[w] = 0
        /\ \A v \in Worker : v # w => batch'[v] = batch[v] /\ position'[v] = position[v]
    BY <1>4 DEF NextDocument, ReadAheadFails, localVars, Crawler!FileDone,
       KeyMapTypeOK, Crawler!TypeOK
  <2>3. QED BY <2>1, <2>2 DEF MapsAndLists
<1>5. ASSUME NEW w \in Worker, Push(w) PROVE MapsAndLists'
  <2> DEFINE list == KeyOccurrenceList(keyOccurrenceMap[w])
  <2>1. /\ keyOccurrenceListBuf' = Append(keyOccurrenceListBuf, list)
        /\ UNCHANGED <<batch, position, keyOccurrenceMap>>
    BY <1>5 DEF Push, crawlerVars
  <2>2. OrderedList(list)
    BY ListOfMap DEF KeyMapTypeOK, MapsAndLists
  <2> HIDE DEF list
  <2>3. AllOrdered(keyOccurrenceListBuf')
    <3> DEFINE lists == keyOccurrenceListBuf
               e == Append(lists, list)
    <3>1. lists \in Seq(Seq(KeyOccurrence)) /\ list \in Seq(KeyOccurrence)
      BY <2>2 DEF KeyMapTypeOK, OrderedList
    <3>2. \A i \in 1 .. Len(lists) : OrderedList(lists[i])
      <4>1. DOMAIN lists = 1 .. Len(lists)
        BY <3>1
      <4>2. QED BY <4>1 DEF MapsAndLists, AllOrdered
    <3> HIDE DEF lists
    <3>3. /\ e \in Seq(Seq(KeyOccurrence)) /\ DOMAIN e = 1 .. Len(lists) + 1
          /\ Len(lists) \in Nat
          /\ \A i \in 1 .. Len(lists) : e[i] = lists[i]
          /\ e[Len(lists) + 1] = list
      BY <3>1
    <3> HIDE DEF e
    <3>4. ASSUME NEW i \in 1 .. Len(lists) + 1 PROVE OrderedList(e[i])
      <4>1. CASE i = Len(lists) + 1
        BY <2>2, <3>3, <4>1
      <4>2. CASE i # Len(lists) + 1
        <5>1. i \in 1 .. Len(lists)
          BY <3>3, <4>2
        <5>2. QED BY <3>2, <3>3, <5>1
      <4>3. QED BY <4>1, <4>2
    <3>5. AllOrdered(e)
      BY <3>3, <3>4 DEF AllOrdered
    <3>6. QED BY <2>1, <3>5 DEF e, lists
  <2>4. QED BY <2>1, <2>3 DEF MapsAndLists
<1>6. ASSUME NEW w \in Worker, ChunkOutOfMemory(w) PROVE MapsAndLists'
  <2>1. /\ UNCHANGED <<keyOccurrenceMap, keyOccurrenceListBuf>>
        /\ position'[w] = 0
        /\ \A v \in Worker : v # w => batch'[v] = batch[v] /\ position'[v] = position[v]
    BY <1>6 DEF ChunkOutOfMemory, KeyMapTypeOK, Crawler!TypeOK
  <2>2. QED BY <1>1, <2>1 DEF MapsAndLists
<1>7. CASE FinalMerge \/ KeyMapTerminated \/ UNCHANGED keyMapVars
  BY <1>1, <1>7 DEF FinalMerge, KeyMapTerminated, keyMapVars, crawlerVars, localVars
<1>8. QED
  BY <1>2, <1>3, <1>4, <1>5, <1>6, <1>7 DEF KeyMapNext, RunKeyMap

(* A count moves with its map into the lists or is thrown away with it.    *)
LEMMA NextCountsKept ==
    ASSUME KeyMapTypeOK, MapsAndLists, CountsKept, [KeyMapNext]_keyMapVars, NEW n \in Name
    PROVE  counted[n]' = InLists(n)' + InMaps(n)'
<1>1. /\ counted[n] = InLists(n) + InMaps(n)
      /\ InLists(n) \in Nat /\ InMaps(n) \in Nat /\ counted[n] \in Nat
  BY CountsTypes DEF CountsKept, KeyMapTypeOK
<1>2. keyOccurrenceListBuf' = keyOccurrenceListBuf => InLists(n)' = InLists(n)
  BY DEF InLists
<1>3. CASE UNCHANGED <<inChunk, keyOccurrenceMap, keyOccurrenceListBuf, counted>>
  <2>1. InMaps(n)' = InMaps(n)
    BY <1>3 DEF InMaps
  <2>2. QED BY <1>1, <1>2, <1>3, <2>1
<1>4. ASSUME NEW w \in Worker, FetchChunk(w)
      PROVE  counted[n]' = InLists(n)' + InMaps(n)'
  <2>1. /\ w \notin inChunk
        /\ inChunk' = inChunk \/ inChunk' = inChunk \cup {w}
        /\ keyOccurrenceMap' = [keyOccurrenceMap EXCEPT ![w] = NoCounts]
        /\ UNCHANGED <<keyOccurrenceListBuf, counted>>
    BY <1>4 DEF FetchChunk
  <2>2. OthersKeepMaps(w)
    BY <2>1 DEF OthersKeepMaps, KeyMapTypeOK
  <2>3. 0 = (IF w \in inChunk THEN keyOccurrenceMap[w][n] ELSE 0) /\ 0 \in Nat
    BY <2>1
  <2>4. 0 = (IF w \in inChunk' THEN keyOccurrenceMap'[w][n] ELSE 0)
    <3>1. keyOccurrenceMap'[w] = NoCounts /\ NoCounts[n] = 0
      BY <2>1 DEF KeyMapTypeOK, NoCounts
    <3>2. QED BY <3>1
  <2>5. InMaps(n)' + 0 = InMaps(n) + 0 /\ InMaps(n)' \in Nat
    BY <2>2, <2>3, <2>4, InMapsChanged
  <2>6. QED BY <1>1, <1>2, <2>1, <2>5
<1>5. ASSUME NEW w \in Worker, CountTerm(w)
      PROVE  counted[n]' = InLists(n)' + InMaps(n)'
  <2> DEFINE t == Terms[Head(batch[w])][position[w] + 1]
             old == keyOccurrenceMap[w][n]
             new == keyOccurrenceMap'[w][n]
  <2>1. /\ w \in inChunk /\ inChunk' = inChunk
        /\ keyOccurrenceMap' = [keyOccurrenceMap EXCEPT ![w][t] = @ + 1]
        /\ counted' = [counted EXCEPT ![t] = @ + 1]
        /\ keyOccurrenceListBuf' = keyOccurrenceListBuf
    BY <1>5 DEF CountTerm
  <2> HIDE DEF t
  <2>2. /\ keyOccurrenceMap \in [Worker -> [Name -> Nat]] /\ counted \in [Name -> Nat]
        /\ old \in Nat
    BY DEF KeyMapTypeOK
  <2>3. /\ new = IF n = t THEN old + 1 ELSE old
        /\ counted'[n] = IF n = t THEN counted[n] + 1 ELSE counted[n]
    BY <2>1, <2>2
  <2>4. OthersKeepMaps(w)
    BY <2>1, <2>2 DEF OthersKeepMaps
  <2>5. /\ old = (IF w \in inChunk THEN keyOccurrenceMap[w][n] ELSE 0)
        /\ new = (IF w \in inChunk' THEN keyOccurrenceMap'[w][n] ELSE 0)
    BY <2>1
  <2> HIDE DEF old, new
  <2>6. new \in Nat
    BY <2>2, <2>3
  <2>7. InMaps(n)' + old = InMaps(n) + new /\ InMaps(n)' \in Nat
    BY <2>2, <2>4, <2>5, <2>6, InMapsChanged
  <2>8. InLists(n)' = InLists(n)
    BY <1>2, <2>1
  <2>9. counted[n]' = counted'[n]
    OBVIOUS
  <2>10. CASE n = t
    BY <1>1, <2>2, <2>3, <2>7, <2>8, <2>9, <2>10
  <2>11. CASE n # t
    BY <1>1, <2>2, <2>3, <2>7, <2>8, <2>9, <2>11
  <2>12. QED BY <2>10, <2>11
<1>6. ASSUME NEW w \in Worker, NextDocument(w) \/ ReadAheadFails(w)
      PROVE  counted[n]' = InLists(n)' + InMaps(n)'
  BY <1>3, <1>6 DEF NextDocument, ReadAheadFails, localVars
<1>7. ASSUME NEW w \in Worker, Push(w) \/ ChunkOutOfMemory(w)
      PROVE  counted[n]' = InLists(n)' + InMaps(n)'
  <2> DEFINE old == keyOccurrenceMap[w][n]
  <2>1. /\ w \in inChunk /\ inChunk' = inChunk \ {w}
        /\ keyOccurrenceMap' = keyOccurrenceMap
    BY <1>7 DEF Push, ChunkOutOfMemory
  <2>2. OthersKeepMaps(w)
    BY <2>1 DEF OthersKeepMaps
  <2>3. old = (IF w \in inChunk THEN keyOccurrenceMap[w][n] ELSE 0) /\ old \in Nat
    BY <2>1 DEF KeyMapTypeOK
  <2>4. 0 = (IF w \in inChunk' THEN keyOccurrenceMap'[w][n] ELSE 0) /\ 0 \in Nat
    BY <2>1
  <2>5. InMaps(n)' + old = InMaps(n) + 0 /\ InMaps(n)' \in Nat
    BY <2>2, <2>3, <2>4, InMapsChanged
  <2>6. CASE ChunkOutOfMemory(w)
    <3>1. counted'[n] = counted[n] - old /\ keyOccurrenceListBuf' = keyOccurrenceListBuf
      BY <2>6 DEF ChunkOutOfMemory
    <3> HIDE DEF old
    <3>2. counted[n]' = counted'[n]
      OBVIOUS
    <3>3. QED BY <1>1, <1>2, <2>3, <2>5, <3>1, <3>2
  <2>7. CASE Push(w)
    <3> DEFINE list == KeyOccurrenceList(keyOccurrenceMap[w])
    <3>1. keyOccurrenceListBuf' = Append(keyOccurrenceListBuf, list) /\ counted' = counted
      BY <2>7 DEF Push
    <3>2. OrderedList(list) /\ Listed(list, n) = old
      BY ListOfMap DEF KeyMapTypeOK, MapsAndLists
    <3> HIDE DEF list, old
    <3>3. InLists(n)' = InLists(n) + old
      <4> DEFINE lists == keyOccurrenceListBuf
                 e == Append(lists, list)
      <4>1. lists \in Seq(Seq(KeyOccurrence)) /\ list \in Seq(KeyOccurrence)
        BY <3>2 DEF KeyMapTypeOK, OrderedList
      <4>2. InLists(n) = Total(ListedIn(lists, n)) /\ InLists(n)' = Total(ListedIn(e, n))
        BY <3>1 DEF InLists, ListedIn
      <4> HIDE DEF lists
      <4>3. /\ e \in Seq(Seq(KeyOccurrence)) /\ Len(e) = Len(lists) + 1 /\ Len(lists) \in Nat
            /\ \A i \in 1 .. Len(lists) : e[i] = lists[i]
            /\ e[Len(lists) + 1] = list
        BY <4>1
      <4> HIDE DEF e
      <4> DEFINE s == ListedIn(lists, n)
                 t == ListedIn(e, n)
      <4>4. /\ s \in Seq(Nat) /\ Len(s) = Len(lists)
            /\ \A i \in 1 .. Len(lists) : s[i] = Listed(lists[i], n)
        BY <4>1, ListedInType
      <4>5. /\ t \in Seq(Nat) /\ Len(t) = Len(lists) + 1
            /\ \A i \in 1 .. Len(lists) + 1 : t[i] = Listed(e[i], n)
        BY <4>3, ListedInType
      <4> HIDE DEF s, t
      <4>6. \A i \in 1 .. Len(s) : t[i] = s[i]
        BY <4>3, <4>4, <4>5
      <4>7. Total(t) = Total(s) + t[Len(t)]
        BY <4>4, <4>5, <4>6, TotalMore
      <4>8. t[Len(t)] = old
        BY <3>2, <4>3, <4>5
      <4>9. QED BY <4>2, <4>7, <4>8 DEF s, t
    <3>4. counted[n]' = counted[n]
      BY <3>1
    <3>5. QED BY <1>1, <2>3, <2>5, <3>3, <3>4
  <2>8. QED BY <1>7, <2>6, <2>7
<1>8. CASE FinalMerge \/ KeyMapTerminated \/ UNCHANGED keyMapVars
  BY <1>3, <1>8 DEF FinalMerge, KeyMapTerminated, keyMapVars, localVars
<1>9. QED
  BY <1>4, <1>5, <1>6, <1>7, <1>8 DEF KeyMapNext, RunKeyMap

(* An occurrence is counted at most once: a thread that fetches a chunk    *)
(* takes it from the queue, and a term counted is behind its position.     *)
LEMMA NextWithinFiles ==
    ASSUME KeyMapTypeOK, MapsAndLists, WithinFiles, [KeyMapNext]_keyMapVars, NEW n \in Name
    PROVE  counted[n]' + Total(AheadCounts(n)') + Contained(FlattenSeq(chunkque'), n)
               <= InFiles(n)
<1> DEFINE ahead == Total(AheadCounts(n))
           queued == Contained(FlattenSeq(chunkque), n)
           files == InFiles(n)
<1>1. /\ counted[n] + ahead + queued <= files
      /\ counted[n] \in Nat /\ ahead \in Nat /\ queued \in Nat /\ files \in Nat
  <2>1. AheadCounts(n) \in [Worker -> Nat] /\ queued \in Nat /\ files \in Nat
    BY CountsTypes
  <2>2. QED BY <2>1, WorkerNumbers DEF WithinFiles, KeyMapTypeOK
<1>2. UNCHANGED <<batch, position>> => AheadCounts(n)' = AheadCounts(n)
  BY DEF AheadCounts
<1> HIDE DEF ahead, files
<1>3. CASE UNCHANGED <<batch, position, chunkque, counted>>
  BY <1>1, <1>2, <1>3 DEF ahead, files
<1>4. \A w \in Worker : batch[w] \in Seq(File) /\ position[w] \in Nat
  BY DEF KeyMapTypeOK, Crawler!TypeOK
<1>5. ASSUME NEW w \in Worker, FetchChunk(w)
      PROVE  counted[n]' + Total(AheadCounts(n)') + Contained(FlattenSeq(chunkque'), n)
                 <= InFiles(n)
  <2>1. UNCHANGED <<position, counted>>
    BY <1>5 DEF FetchChunk
  <2>2. CASE Crawler!Fetch(w)
    <3> DEFINE first == Head(chunkque)
    <3>1. /\ batch[w] = <<>> /\ chunkque # <<>>
          /\ batch' = [batch EXCEPT ![w] = first]
          /\ chunkque' = Tail(chunkque)
      BY <2>2 DEF Crawler!Fetch
    <3>2. chunkque \in Seq(Seq(File))
      BY DEF KeyMapTypeOK, Crawler!TypeOK
    <3>3. first \in Seq(File) /\ Tail(chunkque) \in Seq(Seq(File))
      BY <3>1, <3>2, FirstAndRest
    <3>4. FlattenSeq(Tail(chunkque)) \in Seq(File)
      BY <3>3, FlattenType
    <3>5. FlattenSeq(chunkque) = first \o FlattenSeq(Tail(chunkque))
      BY <3>1, <3>2, FlattenFront
    <3> HIDE DEF first
    <3> DEFINE new == Contained(first, n)
               rest == Contained(FlattenSeq(Tail(chunkque)), n)
    <3>6. queued = new + rest /\ new \in Nat /\ rest \in Nat
      BY <3>3, <3>4, <3>5, ContainedConcat, ContainedType
    <3>7. OthersStayAhead(w)
      BY <2>1, <3>1 DEF OthersStayAhead, KeyMapTypeOK, Crawler!TypeOK
    <3>8. 0 = AheadOf(batch[w], position[w], n) /\ 0 \in Nat
      BY <3>1 DEF AheadOf
    <3>9. new = AheadOf(batch'[w], position'[w], n)
      <4>1. batch'[w] = first /\ position'[w] = 0
        BY <2>1, <3>1 DEF MapsAndLists, KeyMapTypeOK, Crawler!TypeOK
      <4>2. QED BY <3>3, <4>1, AheadAtStart
    <3>10. Contained(FlattenSeq(chunkque'), n) = rest
      BY <3>1
    <3> HIDE DEF new, rest, queued
    <3>11. Total(AheadCounts(n)') + 0 = ahead + new /\ Total(AheadCounts(n)') \in Nat
      BY <3>6, <3>7, <3>8, <3>9, AheadChanged DEF ahead
    <3>12. counted[n]' = counted[n]
      BY <2>1
    <3>13. QED BY <1>1, <3>6, <3>10, <3>11, <3>12 DEF files
  <2>3. CASE Crawler!FetchNothing(w) \/ Crawler!FetchFails(w)
    BY <1>3, <2>1, <2>3 DEF Crawler!FetchNothing, Crawler!FetchFails
  <2>4. QED BY <1>5, <2>2, <2>3 DEF FetchChunk
<1> HIDE DEF queued
<1>6. ASSUME NEW w \in Worker, CountTerm(w)
      PROVE  counted[n]' + Total(AheadCounts(n)') + Contained(FlattenSeq(chunkque'), n)
                 <= InFiles(n)
  <2> DEFINE p == position[w]
             t == Terms[Head(batch[w])][p + 1]
             old == AheadOf(batch[w], p, n)
             new == AheadOf(batch[w], p + 1, n)
             one == IF n = t THEN 1 ELSE 0
  <2>1. /\ batch[w] # <<>> /\ p < Len(Terms[Head(batch[w])])
        /\ counted' = [counted EXCEPT ![t] = @ + 1]
        /\ position' = [position EXCEPT ![w] = @ + 1]
        /\ batch' = batch /\ chunkque' = chunkque
    BY <1>6 DEF CountTerm, crawlerVars
  <2>2. p \in Nat /\ p + 1 \in Nat /\ batch[w] \in Seq(File)
    BY <1>4
  <2>3. old = new + one /\ old \in Nat /\ new \in Nat
    BY <2>1, <2>2, AheadOfCounted, AheadOfType
  <2>4. OthersStayAhead(w)
    BY <2>1 DEF OthersStayAhead, KeyMapTypeOK
  <2>5. position'[w] = p + 1
    BY <2>1 DEF KeyMapTypeOK
  <2>6. new = AheadOf(batch'[w], position'[w], n)
    BY <2>1, <2>5
  <2>7. counted'[n] = counted[n] + one
    BY <2>1 DEF KeyMapTypeOK
  <2>8. old = AheadOf(batch[w], position[w], n)
    OBVIOUS
  <2>9. one \in Nat
    OBVIOUS
  <2> HIDE DEF old, new, one, p, t
  <2>10. Total(AheadCounts(n)') + old = ahead + new /\ Total(AheadCounts(n)') \in Nat
    BY <2>3, <2>4, <2>6, <2>8, AheadChanged DEF ahead
  <2>11. Contained(FlattenSeq(chunkque'), n) = queued
    BY <2>1 DEF queued
  <2>12. counted[n]' = counted'[n]
    OBVIOUS
  <2>13. QED BY <1>1, <2>3, <2>7, <2>9, <2>10, <2>11, <2>12 DEF files
<1>7. ASSUME NEW w \in Worker, NextDocument(w) \/ ReadAheadFails(w)
      PROVE  counted[n]' + Total(AheadCounts(n)') + Contained(FlattenSeq(chunkque'), n)
                 <= InFiles(n)
  <2> DEFINE old == AheadOf(batch[w], position[w], n)
             new == AheadOf(batch'[w], position'[w], n)
  <2>1. /\ batch[w] # <<>> /\ chunkque' = chunkque /\ counted' = counted
        /\ position'[w] = 0 /\ (batch'[w] = Tail(batch[w]) \/ batch'[w] = <<>>)
        /\ OthersStayAhead(w)
    BY <1>7 DEF NextDocument, ReadAheadFails, localVars, Crawler!FileDone,
       OthersStayAhead, KeyMapTypeOK, Crawler!TypeOK
  <2>2. old \in Nat /\ batch[w] \in Seq(File) /\ position[w] \in Nat
    BY <1>4, AheadOfType
  <2>3. new \in Nat /\ new <= old
    <3>1. CASE batch'[w] = <<>>
      <4>1. new = 0
        BY <3>1 DEF AheadOf
      <4> HIDE DEF new, old
      <4>2. QED BY <2>2, <4>1
    <3>2. CASE batch'[w] = Tail(batch[w])
      <4>1. new = AheadOf(Tail(batch[w]), 0, n)
        BY <2>1, <3>2
      <4>2. Tail(batch[w]) \in Seq(File) /\ 0 \in Nat
        BY <2>1, <2>2, FirstAndRest
      <4>3. AheadOf(Tail(batch[w]), 0, n) <= old
        BY <2>1, <2>2, AheadOfNext
      <4> HIDE DEF new, old
      <4>4. QED BY <4>1, <4>2, <4>3, AheadOfType
    <3>3. QED BY <2>1, <3>1, <3>2
  <2>4. old = AheadOf(batch[w], position[w], n) /\ new = AheadOf(batch'[w], position'[w], n)
    OBVIOUS
  <2> HIDE DEF old, new
  <2>5. Total(AheadCounts(n)') + old = ahead + new /\ Total(AheadCounts(n)') \in Nat
    BY <2>1, <2>2, <2>3, <2>4, AheadChanged DEF ahead
  <2>6. Contained(FlattenSeq(chunkque'), n) = queued /\ counted[n]' = counted[n]
    BY <2>1 DEF queued
  <2>7. QED BY <1>1, <2>2, <2>3, <2>5, <2>6 DEF files
<1>8. ASSUME NEW w \in Worker, Push(w)
      PROVE  counted[n]' + Total(AheadCounts(n)') + Contained(FlattenSeq(chunkque'), n)
                 <= InFiles(n)
  BY <1>3, <1>8 DEF Push, crawlerVars
<1>9. ASSUME NEW w \in Worker, ChunkOutOfMemory(w)
      PROVE  counted[n]' + Total(AheadCounts(n)') + Contained(FlattenSeq(chunkque'), n)
                 <= InFiles(n)
  <2> DEFINE lost == keyOccurrenceMap[w][n]
             old == AheadOf(batch[w], position[w], n)
  <2>1. /\ chunkque' = chunkque /\ counted'[n] = counted[n] - lost
        /\ position'[w] = 0 /\ batch'[w] = <<>> /\ OthersStayAhead(w)
    BY <1>9 DEF ChunkOutOfMemory, OthersStayAhead, KeyMapTypeOK, Crawler!TypeOK
  <2>2. lost \in Nat
    BY DEF KeyMapTypeOK
  <2>3. old \in Nat
    BY <1>4, AheadOfType
  <2>4. AheadOf(batch'[w], position'[w], n) = 0
    BY <2>1 DEF AheadOf
  <2>5. old = AheadOf(batch[w], position[w], n)
    OBVIOUS
  <2> HIDE DEF lost, old
  <2>6. Total(AheadCounts(n)') + old = ahead + 0 /\ Total(AheadCounts(n)') \in Nat
    BY <2>1, <2>3, <2>4, <2>5, AheadChanged DEF ahead
  <2>7. Contained(FlattenSeq(chunkque'), n) = queued
    BY <2>1 DEF queued
  <2>8. counted[n]' = counted'[n]
    OBVIOUS
  <2>9. QED BY <1>1, <2>1, <2>2, <2>3, <2>6, <2>7, <2>8 DEF files
<1>10. CASE FinalMerge \/ KeyMapTerminated \/ UNCHANGED keyMapVars
  BY <1>3, <1>10 DEF FinalMerge, KeyMapTerminated, keyMapVars, localVars, crawlerVars
<1>11. QED
  BY <1>5, <1>6, <1>7, <1>8, <1>9, <1>10 DEF KeyMapNext, RunKeyMap

(* Every step of the program keeps the invariant...                        *)
LEMMA NextKeyMapInv == KeyMapInv /\ [KeyMapNext]_keyMapVars => KeyMapInv'
<1> SUFFICES ASSUME KeyMapInv, [KeyMapNext]_keyMapVars PROVE KeyMapInv'
  OBVIOUS
<1> USE DEF KeyMapInv, Counted
<1>1. CP!IInv'
  BY NextKeyMapCrawler
<1>2. KeyMapTypeOK'
  BY <1>1, NextKeyMapTypes
<1>3. MapsAndLists'
  BY NextMapsAndLists
<1>4. CountsKept'
  BY NextCountsKept DEF CountsKept
<1>5. WithinFiles'
  <2>1. \A n \in Name :
            counted[n]' + Total(AheadCounts(n)') + Contained(FlattenSeq(chunkque'), n)
                <= InFiles(n)
    BY NextWithinFiles
  <2>2. QED BY <2>1 DEF WithinFiles
<1>6. PrintedAtTheEnd'
  BY NextPrinted
<1>7. QED BY <1>1, <1>2, <1>3, <1>4, <1>5, <1>6

(* ... so it holds always.                                                 *)
LEMMA KeyMapInvHolds == KeyMapSpec => []KeyMapInv
BY InitKeyMapInv, NextKeyMapInv, PTL DEF KeyMapSpec

(* The state of the key map generator has its types: what is subtracted    *)
(* when a chunk is thrown away was counted, and the lists merged, ranked   *)
(* and printed are lists of terms with a positive frequency.               *)
THEOREM KeyMapTypeCorrect == KeyMapSpec => []KeyMapTypeOK
<1>1. KeyMapInv => KeyMapTypeOK
  BY DEF KeyMapInv, Counted
<1>2. QED BY <1>1, KeyMapInvHolds, PTL

(* For every number of threads, all files and every chunk size: what was   *)
(* counted is in a list or in the map of a chunk at hand, each occurrence  *)
(* once, and never more than the files contain; the merge of any number of *)
(* lists invents no occurrence, and what is printed is in descending order *)
(* with no term twice.                                                     *)
THEOREM OccurrencesStayConserved == KeyMapSpec => []OccurrencesConserved
<1>1. KeyMapInv => OccurrencesConserved
  <2> SUFFICES ASSUME KeyMapInv PROVE OccurrencesConserved
    OBVIOUS
  <2> USE DEF KeyMapInv, Counted
  <2>1. ASSUME NEW n \in Name
        PROVE  counted[n] = InLists(n) + InMaps(n) /\ counted[n] <= InFiles(n)
    <3>1. counted[n] = InLists(n) + InMaps(n)
      BY DEF CountsKept
    <3>2. counted[n] + Total(AheadCounts(n)) + Contained(FlattenSeq(chunkque), n)
              <= InFiles(n)
      BY DEF WithinFiles
    <3>3. /\ AheadCounts(n) \in [Worker -> Nat]
          /\ Contained(FlattenSeq(chunkque), n) \in Nat /\ InFiles(n) \in Nat
      BY CountsTypes
    <3>4. Total(AheadCounts(n)) \in Nat
      BY <3>3, WorkerNumbers
    <3>5. counted[n] \in Nat
      BY DEF KeyMapTypeOK
    <3>6. QED BY <3>1, <3>2, <3>3, <3>4, <3>5
  <2>2. /\ \A i \in DOMAIN printed : printed[i].frequency <= InLists(printed[i].name)
        /\ Ranked(printed)
    <3>1. CASE outcome = "done"
      <4>1. /\ keyOccurrenceListBuf # <<>>
            /\ printed = PrintKeyOccurrenceList(keyOccurrenceListBuf)
            /\ AllOrdered(keyOccurrenceListBuf)
        BY <3>1 DEF PrintedAtTheEnd, MapsAndLists
      <4>2. /\ Ranked(printed)
            /\ \A i \in DOMAIN printed : printed[i].frequency
                   <= Total(ListedIn(keyOccurrenceListBuf, printed[i].name))
        BY <4>1, PrintedFromLists
      <4>3. \A n : InLists(n) = Total(ListedIn(keyOccurrenceListBuf, n))
        BY DEF InLists, ListedIn
      <4>4. QED BY <4>2, <4>3
    <3>2. CASE outcome # "done"
      <4>1. printed = <<>>
        BY <3>2 DEF PrintedAtTheEnd
      <4>2. DOMAIN printed = {}
        BY <4>1
      <4>3. QED BY <4>2 DEF Ranked
    <3>3. QED BY <3>1, <3>2
  <2>3. QED BY <2>1, <2>2 DEF OccurrencesConserved, Ranked
<1>2. QED BY <1>1, KeyMapInvHolds, PTL
=============================================================================
