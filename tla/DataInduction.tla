--------------------------- MODULE DataInduction ---------------------------
(***************************************************************************)
(* Lemmas about data that the proofs of the components share.              *)
(*                                                                         *)
(* Induction and recursion over numbers are stated with sets and functions *)
(* in place of operators.  What follows from them: the flattening of       *)
(* sequences of sequences (FlattenSeq of SequencesExt), by which the       *)
(* chunks of the crawler are its files again and the text of a document    *)
(* is what its parts have, one behind the other.  The last part is about   *)
(* sequences in which nothing is twice: queues of transactions, chunks     *)
(* and batches of files.                                                   *)
(***************************************************************************)
EXTENDS Integers, Sequences, SequencesExt, SequenceTheorems,
        WellFoundedInduction, TLAPS

(* A set that has zero and with every number its successor has all numbers.*)
LEMMA InductiveSet ==
    ASSUME NEW T, 0 \in T, \A n \in Nat : n \in T => n + 1 \in T
    PROVE  \A n \in Nat : n \in T
<1> DEFINE C == Nat \ T
           R == OpToRel(<, Nat)
<1>1. \A i, j \in Nat : i < j => <<i, j>> \in R
  BY DEF OpToRel
<1>2. SUFFICES ASSUME C # {} PROVE FALSE
  OBVIOUS
<1>3. IsWellFoundedOn(R, Nat)
  BY NatLessThanWellFounded, Zenon
<1> HIDE DEF R
<1>4. PICK n \in C : \A m \in C : ~ (<<m, n>> \in R)
  BY <1>2, <1>3, WFMin
<1>5. n # 0
  OBVIOUS
<1>6. n - 1 \in Nat /\ n - 1 < n /\ n = (n - 1) + 1
  BY <1>5
<1>7. n - 1 \in T
  BY <1>1, <1>4, <1>6
<1>8. QED BY <1>6, <1>7

(* A set of numbers that is not empty has a least one.                     *)
LEMMA LeastNumber ==
    ASSUME NEW S, S \subseteq Nat, S # {}
    PROVE  \E m \in S : \A n \in S : m <= n
<1> DEFINE R == OpToRel(<, Nat)
<1>1. \A i, j \in Nat : i < j => <<i, j>> \in R
  BY DEF OpToRel
<1>2. IsWellFoundedOn(R, Nat)
  BY NatLessThanWellFounded, Zenon
<1> HIDE DEF R
<1>3. PICK m \in S : \A n \in S : ~ (<<n, m>> \in R)
  BY <1>2, WFMin
<1>4. ASSUME NEW n \in S PROVE m <= n
  <2>1. m \in Nat /\ n \in Nat /\ ~(n < m)
    BY <1>1, <1>3
  <2>2. QED BY <2>1
<1>5. QED BY <1>4

(* Min gives the least of some numbers.                                    *)
LEMMA MinOfNumbers ==
    ASSUME NEW S, S \subseteq Nat, S # {}
    PROVE  Min(S) \in S /\ \A n \in S : Min(S) <= n
<1>1. \E m \in S : \A n \in S : m <= n
  BY LeastNumber
<1>2. QED BY <1>1 DEF Min

(* Induction up to the number m.                                           *)
LEMMA InductiveInterval ==
    ASSUME NEW m \in Nat, NEW T, 0 \in T,
           \A n \in 0 .. m - 1 : n \in T => n + 1 \in T
    PROVE  \A n \in 0 .. m : n \in T
<1> DEFINE U == {n \in Nat : n <= m => n \in T}
<1>1. 0 \in U
  OBVIOUS
<1>2. \A n \in Nat : n \in U => n + 1 \in U
  OBVIOUS
<1> HIDE DEF U
<1>3. \A n \in Nat : n \in U
  BY <1>1, <1>2, InductiveSet
<1>4. QED BY <1>3 DEF U

(* f is given by primitive recursion on the numbers up to m.               *)
Recursion(f, m, b, h) ==
    f[0] = b /\ \A n \in 1 .. m : f[n] = h[<<f[n - 1], n>>]

(* A function defined by primitive recursion up to m exists.               *)
LEMMA RecursionExists ==
    ASSUME NEW m \in Nat, NEW V, NEW b \in V,
           NEW h \in [V \X (1 .. m) -> V]
    PROVE  \E f \in [0 .. m -> V] : Recursion(f, m, b, h)
<1> DEFINE G(k) == {g \in [0 .. k -> V] :
                       /\ g[0] = b
                       /\ \A n \in 1 .. k : g[n] = h[<<g[n - 1], n>>]}
           T == {k \in Nat : G(k) # {}}
<1>1. 0 \in T
  <2>1. [n \in 0 .. 0 |-> b] \in G(0)
    OBVIOUS
  <2>2. QED BY <2>1
<1>2. ASSUME NEW k \in 0 .. m - 1, k \in T PROVE k + 1 \in T
  <2>1. PICK g \in G(k) : TRUE
    BY <1>2
  <2> DEFINE e == [n \in 0 .. k + 1 |-> IF n = k + 1 THEN h[<<g[k], k + 1>>] ELSE g[n]]
  <2>2. g[k] \in V /\ k + 1 \in 1 .. m
    BY <2>1
  <2>3. h[<<g[k], k + 1>>] \in V
    BY <2>2
  <2>4. e \in [0 .. k + 1 -> V]
    BY <2>1, <2>3
  <2>5. e[0] = b
    BY <2>1
  <2>6. ASSUME NEW n \in 1 .. k + 1 PROVE e[n] = h[<<e[n - 1], n>>]
    <3>1. CASE n = k + 1
      <4>1. k \in 0 .. k + 1 /\ k + 1 \in 0 .. k + 1 /\ k # k + 1 /\ n - 1 = k
        BY <3>1
      <4>2. e[k + 1] = h[<<g[k], k + 1>>] /\ e[k] = g[k]
        BY <4>1
      <4>3. QED BY <3>1, <4>1, <4>2
    <3>2. CASE n # k + 1
      <4>1. n \in 1 .. k /\ n - 1 \in 0 .. k + 1 /\ n - 1 # k + 1
        BY <3>2
      <4>2. e[n] = g[n] /\ e[n - 1] = g[n - 1]
        BY <4>1
      <4>3. QED BY <2>1, <4>1, <4>2
    <3>3. QED BY <3>1, <3>2
  <2> HIDE DEF e
  <2>7. e \in G(k + 1)
    BY <2>4, <2>5, <2>6
  <2>8. QED BY <2>7
<1> HIDE DEF T
<1>3. m \in T
  BY <1>1, <1>2, InductiveInterval
<1>4. QED BY <1>3 DEF T, Recursion

-----------------------------------------------------------------------------
(* FlattenSeq is a fold of concatenation.                                  *)
LEMMA FlattenIsFold ==
    ASSUME NEW S, NEW s \in Seq(Seq(S)), s # <<>>
    PROVE  \E f \in [1 .. Len(s) -> Seq(S)] :
              /\ f[1] = s[1]
              /\ \A i \in 2 .. Len(s) : f[i] = f[i - 1] \o s[i]
              /\ FlattenSeq(s) = f[Len(s)]
<1> DEFINE m == Len(s)
           V == Seq(S)
           h == [p \in V \X (1 .. m) |-> p[1] \o s[p[2]]]
           Def(f) == [i \in 1 .. m |-> IF i = 1 THEN s[i] ELSE f[i - 1] \o s[i]]
           fl == CHOOSE f : f = Def(f)
<1>1. m \in Nat \ {0} /\ \A i \in 1 .. m : s[i] \in Seq(S)
  OBVIOUS
<1>2. h \in [V \X (1 .. m) -> V]
  <2>1. ASSUME NEW p \in V \X (1 .. m) PROVE p[1] \o s[p[2]] \in V
    <3>1. p[1] \in Seq(S) /\ s[p[2]] \in Seq(S)
      BY <1>1
    <3>2. QED BY <3>1, ConcatProperties
  <2>2. QED BY <2>1
<1>3. <<>> \in V
  OBVIOUS
<1>4. m \in Nat
  BY <1>1
<1>5. PICK g \in [0 .. m -> V] : Recursion(g, m, <<>>, h)
  <2> HIDE DEF m, h, V
  <2>1. QED BY <1>2, <1>3, <1>4, RecursionExists
<1> USE DEF Recursion
<1>6. [i \in 1 .. m |-> g[i]] = Def([i \in 1 .. m |-> g[i]])
  <2>1. ASSUME NEW i \in 1 .. m
        PROVE  g[i] = IF i = 1 THEN s[i] ELSE [j \in 1 .. m |-> g[j]][i - 1] \o s[i]
    <3>1. g[i - 1] \in Seq(S) /\ g[i] = g[i - 1] \o s[i]
      <4>1. i - 1 \in 0 .. m
        BY <1>4
      <4>2. g[i - 1] \in V /\ g[i] = h[<<g[i - 1], i>>]
        BY <1>5, <4>1
      <4>3. <<g[i - 1], i>> \in V \X (1 .. m)
        BY <4>2
      <4>4. QED BY <4>2, <4>3
    <3>2. CASE i = 1
      <4>1. g[i - 1] = <<>>
        BY <1>5, <3>2
      <4>2. <<>> \o s[i] = s[i]
        BY <1>1
      <4>3. QED BY <3>1, <3>2, <4>1, <4>2
    <3>3. CASE i # 1
      <4>1. i - 1 \in 1 .. m
        BY <1>4, <3>3
      <4>2. QED BY <3>1, <3>3, <4>1
    <3>4. QED BY <3>2, <3>3
  <2>2. QED BY <2>1
<1>7. fl = Def(fl)
  BY <1>6
<1>8. FlattenSeq(s) = fl[m]
  BY <1>1 DEF FlattenSeq
<1> HIDE DEF fl
<1>9. /\ fl[1] = s[1]
      /\ \A i \in 2 .. m : fl[i] = fl[i - 1] \o s[i]
      /\ fl = [i \in 1 .. m |-> fl[i]]
  <2> HIDE DEF m
  <2>1. fl = [i \in 1 .. m |-> IF i = 1 THEN s[i] ELSE fl[i - 1] \o s[i]]
    BY <1>7
  <2>2. \A i \in 1 .. m : fl[i] = IF i = 1 THEN s[i] ELSE fl[i - 1] \o s[i]
    BY <2>1, Zenon
  <2>3. 1 \in 1 .. m /\ \A i \in 2 .. m : i \in 1 .. m /\ i # 1
    BY <1>1
  <2>4. fl = [i \in 1 .. m |-> fl[i]]
    BY <2>1, Zenon
  <2>5. QED BY <2>2, <2>3, <2>4
<1>10. \A i \in 1 .. m : fl[i] \in Seq(S)
  <2> DEFINE T == {n \in Nat : n = 0 \/ fl[n] \in Seq(S)}
  <2>1. 0 \in T
    OBVIOUS
  <2>2. ASSUME NEW n \in 0 .. m - 1, n \in T PROVE n + 1 \in T
    <3>1. CASE n = 0
      BY <1>1, <1>9, <3>1
    <3>2. CASE n # 0
      <4>1. n + 1 \in 2 .. m /\ n + 1 \in Nat /\ (n + 1) - 1 = n
        BY <1>1, <3>2
      <4>2. fl[n] \in Seq(S)
        BY <2>2, <3>2
      <4>3. s[n + 1] \in Seq(S)
        BY <1>1, <4>1
      <4>4. fl[n + 1] = fl[n] \o s[n + 1]
        <5> HIDE DEF m
        <5>1. QED BY <1>9, <4>1
      <4>5. fl[n + 1] \in Seq(S)
        BY <4>2, <4>3, <4>4, ConcatProperties
      <4>6. QED BY <4>1, <4>5
    <3>3. QED BY <3>1, <3>2
  <2> HIDE DEF T
  <2>3. \A n \in 0 .. m : n \in T
    BY <1>4, <2>1, <2>2, InductiveInterval
  <2>4. QED BY <2>3 DEF T
<1>11. fl \in [1 .. m -> Seq(S)]
  BY <1>9, <1>10
<1>12. QED BY <1>8, <1>9, <1>11

(* The flattening of a sequence of sequences is a sequence.                *)
LEMMA FlattenType ==
    ASSUME NEW S, NEW s \in Seq(Seq(S))
    PROVE  FlattenSeq(s) \in Seq(S)
<1>1. CASE s = <<>>
  <2>1. FlattenSeq(s) = s
    BY <1>1 DEF FlattenSeq
  <2>2. <<>> \in Seq(S)
    OBVIOUS
  <2>3. QED BY <1>1, <2>1, <2>2
<1>2. CASE s # <<>>
  <2>1. Len(s) \in 1 .. Len(s)
    BY <1>2
  <2>2. PICK f \in [1 .. Len(s) -> Seq(S)] : FlattenSeq(s) = f[Len(s)]
    BY <1>2, FlattenIsFold
  <2>3. QED BY <2>1, <2>2
<1>3. QED BY <1>1, <1>2

(* One sequence flattens to itself.                                        *)
LEMMA FlattenOne ==
    ASSUME NEW S, NEW s \in Seq(Seq(S)), Len(s) = 1
    PROVE  FlattenSeq(s) = s[1]
<1>1. s # <<>>
  OBVIOUS
<1>2. QED BY <1>1, FlattenIsFold

(* s is t with one more element at its end.                                *)
OneMore(s, t) ==
    /\ t # <<>>
    /\ Len(s) = Len(t) + 1
    /\ \A i \in 1 .. Len(t) : s[i] = t[i]

(* With one more sequence at its end, s flattens to what t does, followed  *)
(* by that sequence.                                                       *)
LEMMA FlattenMore ==
    ASSUME NEW S, NEW s \in Seq(Seq(S)), NEW t \in Seq(Seq(S)),
           OneMore(s, t)
    PROVE  FlattenSeq(s) = FlattenSeq(t) \o s[Len(s)]
<1> USE DEF OneMore
<1>1. /\ Len(t) \in Nat \ {0} /\ Len(s) \in Nat \ {0}
      /\ s # <<>>
  OBVIOUS
<1>2. PICK f \in [1 .. Len(s) -> Seq(S)] :
          /\ f[1] = s[1]
          /\ \A i \in 2 .. Len(s) : f[i] = f[i - 1] \o s[i]
          /\ FlattenSeq(s) = f[Len(s)]
  BY <1>1, FlattenIsFold
<1>3. PICK g \in [1 .. Len(t) -> Seq(S)] :
          /\ g[1] = t[1]
          /\ \A i \in 2 .. Len(t) : g[i] = g[i - 1] \o t[i]
          /\ FlattenSeq(t) = g[Len(t)]
  BY FlattenIsFold
<1> DEFINE T == {n \in Nat : n = 0 \/ f[n] = g[n]}
<1>4. 0 \in T
  OBVIOUS
<1>5. ASSUME NEW n \in 0 .. Len(t) - 1, n \in T PROVE n + 1 \in T
  <2>1. CASE n = 0
    BY <1>1, <1>2, <1>3, <2>1
  <2>2. CASE n # 0
    <3>1. /\ n + 1 \in 2 .. Len(t) /\ n + 1 \in 2 .. Len(s)
          /\ n + 1 \in Nat /\ (n + 1) - 1 = n
      BY <1>1, <2>2
    <3>2. f[n + 1] = f[n] \o s[n + 1] /\ g[n + 1] = g[n] \o t[n + 1]
      BY <1>2, <1>3, <3>1
    <3>3. f[n] = g[n] /\ s[n + 1] = t[n + 1]
      BY <1>5, <2>2, <3>1
    <3>4. QED BY <3>1, <3>2, <3>3
  <2>3. QED BY <2>1, <2>2
<1> DEFINE m == Len(t)
<1>6. m \in Nat /\ \A n \in 0 .. m - 1 : n \in T => n + 1 \in T
  BY <1>1, <1>5
<1> HIDE DEF T, m
<1>7. \A n \in 0 .. m : n \in T
  BY <1>6, <1>4, InductiveInterval
<1>8. Len(t) \in T
  BY <1>1, <1>7 DEF m
<1>9. f[Len(t)] = g[Len(t)]
  BY <1>1, <1>8 DEF T
<1>10. Len(s) \in 2 .. Len(s) /\ Len(s) - 1 = Len(t)
  BY <1>1
<1>11. QED BY <1>2, <1>3, <1>9, <1>10

(* A sequence less its last element.                                       *)
LEMMA FrontOf ==
    ASSUME NEW S, NEW s \in Seq(S), Len(s) > 1
    PROVE  \E t \in Seq(S) : OneMore(s, t)
<1> DEFINE n == Len(s) - 1
           t == [i \in 1 .. n |-> s[i]]
<1>1. n \in Nat \ {0} /\ \A i \in 1 .. n : s[i] \in S
  OBVIOUS
<1> HIDE DEF n
<1>2. t \in Seq(S) /\ Len(t) = n /\ \A i \in 1 .. n : t[i] = s[i]
  BY <1>1
<1> HIDE DEF t
<1>3. t # <<>>
  BY <1>1, <1>2
<1>4. Len(s) = n + 1
  BY DEF n
<1>5. QED BY <1>2, <1>3, <1>4 DEF OneMore

(* Appending to the second of two sequences.                               *)
LEMMA AppendToConcat ==
    ASSUME NEW S, NEW s \in Seq(S), NEW t \in Seq(S), NEW x \in S
    PROVE  s \o Append(t, x) = Append(s \o t, x)
<1>1. t \o <<x>> = Append(t, x) /\ (s \o t) \o <<x>> = Append(s \o t, x)
  BY AppendIsConcat, ConcatProperties
<1>2. <<x>> \in Seq(S)
  OBVIOUS
<1>3. \A u \in Seq(S) : (s \o t) \o u = s \o (t \o u)
  BY ConcatAssociative
<1>4. QED BY <1>1, <1>2, <1>3

(* What is appended to the end of the second of two sequences is appended  *)
(* to both.                                                                *)
LEMMA ConcatGrown ==
    ASSUME NEW S
    PROVE  \A u, v, w \in Seq(S) : u \o (v \o w) = (u \o v) \o w
BY ConcatAssociative

(* s with the sequence x at the end of its last sequence.                  *)
LEMMA FlattenGrown ==
    ASSUME NEW S, NEW s \in Seq(Seq(S)), s # <<>>, NEW x \in Seq(S),
           NEW e \in Seq(Seq(S)), Len(e) = Len(s),
           \A i \in 1 .. Len(s) - 1 : e[i] = s[i],
           e[Len(s)] = s[Len(s)] \o x
    PROVE  FlattenSeq(e) = FlattenSeq(s) \o x
<1> DEFINE last == s[Len(s)]
<1>1. Len(s) \in Nat \ {0} /\ last \in Seq(S)
  OBVIOUS
<1>2. CASE Len(s) = 1
  <2>1. FlattenSeq(s) = last /\ FlattenSeq(e) = last \o x
    BY <1>2, FlattenOne
  <2>2. QED BY <2>1
<1>3. CASE Len(s) # 1
  <2>1. Len(s) > 1
    BY <1>1, <1>3
  <2>2. PICK t \in Seq(Seq(S)) : OneMore(s, t)
    BY <2>1, FrontOf
  <2>3. FlattenSeq(s) = FlattenSeq(t) \o last
    BY <2>2, FlattenMore
  <2>4. FlattenSeq(e) = FlattenSeq(t) \o (last \o x)
    <3>1. OneMore(e, t)
      BY <2>2 DEF OneMore
    <3>2. e[Len(e)] = last \o x
      OBVIOUS
    <3> HIDE DEF last
    <3>3. QED BY <3>1, <3>2, FlattenMore
  <2>5. FlattenSeq(t) \in Seq(S)
    BY FlattenType
  <2>6. last \in Seq(S)
    BY <1>1
  <2> HIDE DEF last
  <2>7. PICK u : u = FlattenSeq(t)
    OBVIOUS
  <2>8. u \o (last \o x) = (u \o last) \o x
    <3>1. u \in Seq(S)
      BY <2>5, <2>7
    <3>2. \A a, b, c \in Seq(S) : a \o (b \o c) = (a \o b) \o c
      BY ONLY ConcatGrown
    <3>3. QED BY ONLY <2>6, <3>1, <3>2, x \in Seq(S)
  <2>9. QED BY <2>3, <2>4, <2>7, <2>8, Zenon
<1>4. QED BY <1>2, <1>3

(* Empty sequences flatten to the empty sequence.                          *)
LEMMA FlattenEmpty ==
    ASSUME NEW S, NEW s \in Seq(Seq(S)), \A i \in DOMAIN s : s[i] = <<>>
    PROVE  FlattenSeq(s) = <<>>
<1>1. CASE s = <<>>
  BY <1>1 DEF FlattenSeq
<1>2. CASE s # <<>>
  <2>1. Len(s) \in Nat \ {0} /\ DOMAIN s = 1 .. Len(s)
    BY <1>2
  <2>2. PICK f \in [1 .. Len(s) -> Seq(S)] :
            /\ f[1] = s[1]
            /\ \A i \in 2 .. Len(s) : f[i] = f[i - 1] \o s[i]
            /\ FlattenSeq(s) = f[Len(s)]
    BY <1>2, FlattenIsFold
  <2> DEFINE T == {n \in Nat : n = 0 \/ f[n] = <<>>}
  <2>3. 0 \in T
    OBVIOUS
  <2>4. ASSUME NEW n \in 0 .. Len(s) - 1, n \in T PROVE n + 1 \in T
    <3>1. n + 1 \in 1 .. Len(s) /\ s[n + 1] = <<>>
      BY <2>1
    <3>2. CASE n = 0
      BY <2>2, <3>1, <3>2
    <3>3. CASE n # 0
      <4>1. n + 1 \in 2 .. Len(s) /\ (n + 1) - 1 = n
        BY <2>1, <3>3
      <4>2. f[n + 1] = <<>> \o <<>>
        BY <2>2, <2>4, <3>1, <3>3, <4>1
      <4>3. <<>> \o <<>> = <<>>
        OBVIOUS
      <4>4. QED BY <4>2, <4>3
    <3>4. QED BY <3>2, <3>3
  <2> DEFINE m == Len(s)
  <2>5. m \in Nat /\ \A n \in 0 .. m - 1 : n \in T => n + 1 \in T
    BY <2>1, <2>4
  <2> HIDE DEF T, m
  <2>6. \A n \in 0 .. m : n \in T
    BY <2>5, <2>3, InductiveInterval
  <2>7. Len(s) \in T
    BY <2>1, <2>6 DEF m
  <2>8. QED BY <2>1, <2>2, <2>7 DEF T
<1>3. QED BY <1>1, <1>2

(* What a concatenation contains, and when it contains nothing twice.      *)
LEMMA ElementsOfConcat ==
    ASSUME NEW S, NEW u \in Seq(S), NEW v \in Seq(S)
    PROVE  ToSet(u \o v) = ToSet(u) \cup ToSet(v)
<1>1. /\ Len(u) \in Nat /\ Len(v) \in Nat
      /\ DOMAIN u = 1 .. Len(u) /\ DOMAIN v = 1 .. Len(v)
      /\ u \o v \in Seq(S) /\ Len(u \o v) = Len(u) + Len(v)
      /\ DOMAIN (u \o v) = 1 .. Len(u) + Len(v)
  BY ConcatProperties
<1>2. \A i \in 1 .. Len(u) : i \in 1 .. Len(u) + Len(v) /\ (u \o v)[i] = u[i]
  BY <1>1, ConcatProperties
<1>3. \A j \in 1 .. Len(v) :
          Len(u) + j \in 1 .. Len(u) + Len(v) /\ (u \o v)[Len(u) + j] = v[j]
  <2>1. ASSUME NEW j \in 1 .. Len(v)
        PROVE  Len(u) + j \in 1 .. Len(u) + Len(v) /\ (u \o v)[Len(u) + j] = v[j]
    <3>1. /\ Len(u) + j \in 1 .. Len(u) + Len(v)
          /\ ~(Len(u) + j <= Len(u)) /\ (Len(u) + j) - Len(u) = j
      BY <1>1
    <3>2. QED BY <3>1, ConcatProperties
  <2>2. QED BY <2>1
<1>4. ASSUME NEW i \in 1 .. Len(u) + Len(v)
      PROVE  (u \o v)[i] \in ToSet(u) \cup ToSet(v)
  <2>1. CASE i <= Len(u)
    <3>1. i \in 1 .. Len(u)
      BY <1>1, <2>1
    <3>2. QED BY <1>1, <1>2, <3>1 DEF ToSet
  <2>2. CASE ~(i <= Len(u))
    <3>1. i - Len(u) \in 1 .. Len(v) /\ Len(u) + (i - Len(u)) = i
      BY <1>1, <2>2
    <3>2. (u \o v)[i] = v[i - Len(u)]
      BY <1>3, <3>1
    <3>3. QED BY <1>1, <3>1, <3>2 DEF ToSet
  <2>3. QED BY <2>1, <2>2
<1>5. ToSet(u \o v) = {(u \o v)[i] : i \in 1 .. Len(u) + Len(v)}
  BY <1>1 DEF ToSet
<1>6. ToSet(u) = {u[i] : i \in 1 .. Len(u)} /\ ToSet(v) = {v[i] : i \in 1 .. Len(v)}
  BY <1>1 DEF ToSet
<1>7. ToSet(u) \subseteq ToSet(u \o v) /\ ToSet(v) \subseteq ToSet(u \o v)
  <2> DEFINE w == u \o v
  <2> HIDE DEF w
  <2>1. QED BY <1>2, <1>3, <1>5, <1>6 DEF w
<1>8. QED BY <1>4, <1>5, <1>7

(* Nothing is twice in a concatenation: not in a part and not in both.     *)
LEMMA PartsOfInjective ==
    ASSUME NEW S, NEW u \in Seq(S), NEW v \in Seq(S), IsInjective(u \o v)
    PROVE  IsInjective(u) /\ IsInjective(v) /\ ToSet(u) \cap ToSet(v) = {}
<1> DEFINE w == u \o v
<1>1. /\ Len(u) \in Nat /\ Len(v) \in Nat
      /\ DOMAIN u = 1 .. Len(u) /\ DOMAIN v = 1 .. Len(v)
      /\ DOMAIN w = 1 .. Len(u) + Len(v)
      /\ \A i \in 1 .. Len(u) + Len(v) :
            w[i] = IF i <= Len(u) THEN u[i] ELSE v[i - Len(u)]
  BY ConcatProperties
<1>2. \A i, j \in DOMAIN w : w[i] = w[j] => i = j
  BY DEF IsInjective
<1> HIDE DEF w
<1>3. \A i \in 1 .. Len(u) : i \in DOMAIN w /\ w[i] = u[i]
  BY <1>1
<1>4. ASSUME NEW j \in 1 .. Len(v)
      PROVE  Len(u) + j \in DOMAIN w /\ w[Len(u) + j] = v[j]
  <2>1. /\ Len(u) + j \in 1 .. Len(u) + Len(v)
        /\ ~(Len(u) + j <= Len(u)) /\ (Len(u) + j) - Len(u) = j
    BY <1>1
  <2>2. QED BY <1>1, <2>1
<1>5. IsInjective(u)
  BY <1>1, <1>2, <1>3 DEF IsInjective
<1>6. IsInjective(v)
  <2>1. ASSUME NEW i \in 1 .. Len(v), NEW j \in 1 .. Len(v), v[i] = v[j]
        PROVE  i = j
    <3>1. Len(u) + i = Len(u) + j
      BY <1>2, <1>4, <2>1
    <3>2. QED BY <1>1, <3>1
  <2>2. QED BY <1>1, <2>1 DEF IsInjective
<1>7. ASSUME NEW i \in 1 .. Len(u), NEW j \in 1 .. Len(v) PROVE u[i] # v[j]
  <2>1. i # Len(u) + j
    BY <1>1
  <2>2. QED BY <1>2, <1>3, <1>4, <2>1
<1>8. QED BY <1>1, <1>5, <1>6, <1>7 DEF ToSet

(* What is in the sequences of s.                                          *)
Elements(s) == UNION {ToSet(s[i]) : i \in DOMAIN s}

(* The elements of the flattening are those of the sequences.              *)
LEMMA FlattenElements ==
    ASSUME NEW S
    PROVE  \A s \in Seq(Seq(S)) : ToSet(FlattenSeq(s)) = Elements(s)
<1> DEFINE Good(s) == ToSet(FlattenSeq(s)) = Elements(s)
           T == {n \in Nat : \A s \in Seq(Seq(S)) : Len(s) = n => Good(s)}
<1>1. 0 \in T
  <2>1. ASSUME NEW s \in Seq(Seq(S)), Len(s) = 0 PROVE Good(s)
    <3>1. FlattenSeq(s) = <<>> /\ DOMAIN s = {}
      BY <2>1 DEF FlattenSeq
    <3>2. QED BY <3>1 DEF ToSet, Elements
  <2>2. QED BY <2>1
<1>2. ASSUME NEW n \in Nat, n \in T PROVE n + 1 \in T
  <2>1. ASSUME NEW s \in Seq(Seq(S)), Len(s) = n + 1 PROVE Good(s)
    <3>1. DOMAIN s = 1 .. n + 1 /\ s[n + 1] \in Seq(S)
      BY <2>1
    <3>2. CASE n = 0
      <4>1. FlattenSeq(s) = s[1]
        BY <2>1, <3>2, FlattenOne
      <4>2. DOMAIN s = {1}
        BY <3>1, <3>2
      <4>3. QED BY <4>1, <4>2 DEF Elements
    <3>3. CASE n # 0
      <4>1. Len(s) > 1
        BY <2>1, <3>3
      <4>2. PICK t \in Seq(Seq(S)) : OneMore(s, t)
        BY <4>1, FrontOf
      <4>3. Len(t) = n /\ DOMAIN t = 1 .. n /\ \A i \in 1 .. n : s[i] = t[i]
        BY <2>1, <4>2 DEF OneMore
      <4>4. Good(t)
        BY <1>2, <4>3
      <4>5. FlattenSeq(s) = FlattenSeq(t) \o s[n + 1]
        BY <2>1, <4>2, FlattenMore
      <4>6. Elements(s) = Elements(t) \cup ToSet(s[n + 1])
        <5>1. 1 .. n + 1 = (1 .. n) \cup {n + 1}
          OBVIOUS
        <5>2. \A i \in DOMAIN s : (i \in DOMAIN t /\ s[i] = t[i]) \/ i = n + 1
          BY <3>1, <4>3, <5>1
        <5>3. n + 1 \in DOMAIN s /\ \A i \in DOMAIN t : i \in DOMAIN s /\ s[i] = t[i]
          BY <3>1, <4>3, <5>1
        <5>4. Elements(s) \subseteq Elements(t) \cup ToSet(s[n + 1])
          BY <5>2 DEF Elements
        <5>5. Elements(t) \cup ToSet(s[n + 1]) \subseteq Elements(s)
          BY <5>3 DEF Elements
        <5>6. QED BY <5>4, <5>5
      <4>7. ToSet(FlattenSeq(t) \o s[n + 1]) = ToSet(FlattenSeq(t)) \cup ToSet(s[n + 1])
        <5> DEFINE u == FlattenSeq(t)
                   v == s[n + 1]
        <5>1. u \in Seq(S) /\ v \in Seq(S)
          BY <3>1, FlattenType
        <5> HIDE DEF u, v
        <5>2. ToSet(u \o v) = ToSet(u) \cup ToSet(v)
          BY <5>1, ElementsOfConcat
        <5>3. QED BY <5>2 DEF u, v
      <4>8. QED BY <4>4, <4>5, <4>6, <4>7
    <3>4. QED BY <3>2, <3>3
  <2>2. QED BY <2>1
<1> HIDE DEF T
<1>3. \A n \in Nat : n \in T
  BY <1>1, <1>2, InductiveSet
<1>4. \A s \in Seq(Seq(S)) : Len(s) \in Nat
  OBVIOUS
<1>5. QED BY <1>3, <1>4 DEF T

(* No element is in two places of the sequences of s.                      *)
EachOnce(s) ==
    \A i, j \in DOMAIN s : \A k \in DOMAIN s[i], l \in DOMAIN s[j] :
        s[i][k] = s[j][l] => i = j /\ k = l

(* If no element is repeated in the flattening, none is in the sequences.  *)
LEMMA FlattenOnce ==
    ASSUME NEW S
    PROVE  \A s \in Seq(Seq(S)) : IsInjective(FlattenSeq(s)) => EachOnce(s)
<1> DEFINE Good(s) == IsInjective(FlattenSeq(s)) => EachOnce(s)
           T == {n \in Nat : \A s \in Seq(Seq(S)) : Len(s) = n => Good(s)}
<1>1. 0 \in T
  <2>1. ASSUME NEW s \in Seq(Seq(S)), Len(s) = 0 PROVE EachOnce(s)
    BY <2>1 DEF EachOnce
  <2>2. QED BY <2>1
<1>2. ASSUME NEW n \in Nat, n \in T PROVE n + 1 \in T
  <2>1. ASSUME NEW s \in Seq(Seq(S)), Len(s) = n + 1, IsInjective(FlattenSeq(s))
        PROVE  EachOnce(s)
    <3>1. DOMAIN s = 1 .. n + 1 /\ s[n + 1] \in Seq(S)
      BY <2>1
    <3>2. CASE n = 0
      <4>1. FlattenSeq(s) = s[1]
        BY <2>1, <3>2, FlattenOne
      <4>2. DOMAIN s = {1}
        BY <3>1, <3>2
      <4>3. QED BY <2>1, <4>1, <4>2 DEF IsInjective, EachOnce
    <3>3. CASE n # 0
      <4>1. Len(s) > 1
        BY <2>1, <3>3
      <4>2. PICK t \in Seq(Seq(S)) : OneMore(s, t)
        BY <4>1, FrontOf
      <4>3. Len(t) = n /\ DOMAIN t = 1 .. n /\ \A i \in 1 .. n : s[i] = t[i]
        BY <2>1, <4>2 DEF OneMore
      <4> DEFINE u == FlattenSeq(t)
                 v == s[n + 1]
      <4>4. FlattenSeq(s) = u \o v
        BY <2>1, <4>2, FlattenMore
      <4>5. u \in Seq(S) /\ v \in Seq(S)
        BY <3>1, FlattenType
      <4>6. ToSet(u) = UNION {ToSet(t[i]) : i \in DOMAIN t}
        BY FlattenElements DEF Elements
      <4>7. IsInjective(u \o v)
        BY <2>1, <4>4
      <4>8. IsInjective(u) /\ IsInjective(v) /\ ToSet(u) \cap ToSet(v) = {}
        <5> HIDE DEF u, v
        <5>1. QED BY <4>5, <4>7, PartsOfInjective
      <4>9. EachOnce(t)
        BY <1>2, <4>3, <4>8
      <4>10. ASSUME NEW i \in 1 .. n, NEW k \in DOMAIN s[i], NEW l \in DOMAIN v
             PROVE  s[i][k] # v[l]
        <5>1. s[i][k] \in ToSet(t[i]) /\ v[l] \in ToSet(v)
          BY <4>3 DEF ToSet
        <5>2. s[i][k] \in ToSet(u)
          BY <4>3, <4>6, <5>1
        <5>3. QED BY <4>8, <5>1, <5>2
      <4>11. ASSUME NEW i \in 1 .. n + 1, NEW j \in 1 .. n + 1,
                    NEW k \in DOMAIN s[i], NEW l \in DOMAIN s[j], s[i][k] = s[j][l]
             PROVE  i = j /\ k = l
        <5>1. CASE i \in 1 .. n /\ j \in 1 .. n
          <6>1. i \in DOMAIN t /\ j \in DOMAIN t /\ s[i] = t[i] /\ s[j] = t[j]
            BY <4>3, <5>1
          <6>2. k \in DOMAIN t[i] /\ l \in DOMAIN t[j] /\ t[i][k] = t[j][l]
            BY <4>11, <6>1
          <6>3. QED BY <4>9, <6>1, <6>2 DEF EachOnce
        <5>2. CASE i = n + 1 /\ j = n + 1
          BY <4>8, <4>11, <5>2 DEF IsInjective
        <5>3. CASE i \in 1 .. n /\ j = n + 1
          BY <4>10, <4>11, <5>3
        <5>4. CASE i = n + 1 /\ j \in 1 .. n
          BY <4>10, <4>11, <5>4
        <5>5. QED BY <5>1, <5>2, <5>3, <5>4
      <4>12. QED BY <3>1, <4>11 DEF EachOnce
    <3>4. QED BY <3>2, <3>3
  <2>2. QED BY <2>1
<1> HIDE DEF T
<1>3. \A n \in Nat : n \in T
  BY <1>1, <1>2, InductiveSet
<1>4. \A s \in Seq(Seq(S)) : Len(s) \in Nat
  OBVIOUS
<1>5. QED BY <1>3, <1>4 DEF T

(* Sequences of one element flatten to the sequence of these.              *)
LEMMA FlattenSingles ==
    ASSUME NEW S, NEW s \in Seq(S)
    PROVE  FlattenSeq([i \in DOMAIN s |-> <<s[i]>>]) = s
<1> DEFINE m == Len(s)
           e == [i \in 1 .. m |-> <<s[i]>>]
<1>1. m \in Nat /\ DOMAIN s = 1 .. m /\ \A i \in 1 .. m : s[i] \in S
  OBVIOUS
<1> HIDE DEF m
<1>2. e \in Seq(Seq(S)) /\ Len(e) = m /\ \A i \in 1 .. m : e[i] = <<s[i]>>
  BY <1>1
<1>3. CASE m = 0
  <2>1. FlattenSeq(e) = <<>> /\ s = <<>>
    <3>1. s = <<>>
      BY <1>3 DEF m
    <3>2. DOMAIN e = {} /\ e \in Seq(Seq(S))
      BY <1>2, <1>3
    <3> HIDE DEF e
    <3>3. FlattenSeq(e) = <<>>
      BY <3>2, FlattenEmpty
    <3>4. QED BY <3>1, <3>3
  <2>2. QED BY <1>1, <2>1
<1>4. CASE m # 0
  <2> HIDE DEF e
  <2>1. e # <<>>
    BY <1>1, <1>2, <1>4
  <2>2. PICK f \in [1 .. Len(e) -> Seq(S)] :
            /\ f[1] = e[1]
            /\ \A i \in 2 .. Len(e) : f[i] = f[i - 1] \o e[i]
            /\ FlattenSeq(e) = f[Len(e)]
    BY <1>2, <2>1, FlattenIsFold
  <2> DEFINE T == {n \in 0 .. m : n = 0 \/ f[n] = SubSeq(s, 1, n)}
  <2>3. 0 \in T
    BY <1>1
  <2>4. ASSUME NEW n \in 0 .. m - 1, n \in T PROVE n + 1 \in T
    <3>1. n + 1 \in 0 .. m /\ n + 1 \in 1 .. m /\ 1 \in 1 .. m
      BY <1>1
    <3>2. SubSeq(s, 1, n + 1) = SubSeq(s, 1, n) \o <<s[n + 1]>>
      <4>1. 1 \in 1 .. Len(s) /\ n + 1 \in 1 .. Len(s) /\ (n + 1) - 1 = n
        BY <1>1, <3>1 DEF m
      <4>2. QED BY <4>1, SubSeqRecursiveSecond
    <3>3. CASE n = 0
      <4>1. SubSeq(s, 1, n) = <<>>
        BY <3>3, SubSeqEmpty
      <4>2. f[n + 1] = <<s[n + 1]>>
        BY <1>2, <2>2, <3>1, <3>3
      <4>3. <<>> \o <<s[n + 1]>> = <<s[n + 1]>>
        OBVIOUS
      <4>4. QED BY <3>1, <3>2, <4>1, <4>2, <4>3
    <3>4. CASE n # 0
      <4>1. n + 1 \in 2 .. m /\ (n + 1) - 1 = n
        BY <1>1, <3>4
      <4>2. f[n + 1] = f[n] \o <<s[n + 1]>>
        <5>1. n + 1 \in 2 .. Len(e) /\ e[n + 1] = <<s[n + 1]>>
          BY <1>2, <3>1, <4>1
        <5>2. f[n + 1] = f[(n + 1) - 1] \o e[n + 1]
          BY <2>2, <5>1
        <5>3. QED BY <4>1, <5>1, <5>2
      <4>3. f[n] = SubSeq(s, 1, n)
        BY <2>4, <3>4
      <4>4. QED BY <3>1, <3>2, <4>2, <4>3
    <3>5. QED BY <3>3, <3>4
  <2> HIDE DEF T
  <2>5. \A n \in 0 .. m : n \in T
    BY <1>1, <2>3, <2>4, InductiveInterval
  <2>6. m \in 0 .. m
    BY <1>1
  <2>7. f[m] = SubSeq(s, 1, m)
    BY <1>4, <2>5, <2>6 DEF T
  <2>8. SubSeq(s, 1, m) = s
    BY SubSeqFull DEF m
  <2>9. FlattenSeq(e) = s
    BY <1>2, <2>2, <2>7, <2>8
  <2>10. QED BY <1>1, <2>9 DEF e
<1>5. QED BY <1>3, <1>4

(* One sequence more at the end, also of none.                             *)
LEMMA FlattenAppend ==
    ASSUME NEW S, NEW s \in Seq(Seq(S)), NEW x \in Seq(S)
    PROVE  FlattenSeq(Append(s, x)) = FlattenSeq(s) \o x
<1> DEFINE e == Append(s, x)
<1>1. /\ e \in Seq(Seq(S)) /\ Len(e) = Len(s) + 1 /\ Len(s) \in Nat
      /\ (\A i \in 1 .. Len(s) : e[i] = s[i]) /\ e[Len(s) + 1] = x
  OBVIOUS
<1> HIDE DEF e
<1>2. CASE s = <<>>
  <2>1. FlattenSeq(e) = x
    <3>1. Len(e) = 1 /\ e[1] = x
      BY <1>1, <1>2
    <3>2. QED BY <1>1, <3>1, FlattenOne
  <2>2. FlattenSeq(s) = <<>>
    <3>1. \A i \in DOMAIN s : s[i] = <<>>
      BY <1>2
    <3>2. QED BY <3>1, FlattenEmpty
  <2>3. <<>> \o x = x
    BY ConcatEmptySeq
  <2>4. QED BY <2>1, <2>2, <2>3 DEF e
<1>3. CASE s # <<>>
  <2>1. OneMore(e, s)
    BY <1>1, <1>3 DEF OneMore
  <2>2. FlattenSeq(e) = FlattenSeq(s) \o e[Len(e)]
    BY <1>1, <2>1, FlattenMore
  <2>3. QED BY <1>1, <2>2 DEF e
<1>4. QED BY <1>2, <1>3

(* The flattening of a concatenation.                                      *)
LEMMA FlattenConcat ==
    ASSUME NEW S, NEW s \in Seq(Seq(S)), NEW t \in Seq(Seq(S))
    PROVE  FlattenSeq(s \o t) = FlattenSeq(s) \o FlattenSeq(t)
<1>0. \A u, v, w \in Seq(S) : (u \o v) \o w = u \o (v \o w)
  BY ConcatAssociative
<1> DEFINE m == Len(t)
           p(n) == SubSeq(t, 1, n)
           T == {n \in 0 .. m : FlattenSeq(s \o p(n)) = FlattenSeq(s) \o FlattenSeq(p(n))}
<1>1. m \in Nat /\ \A n \in 1 .. m : t[n] \in Seq(S)
  OBVIOUS
<1>2. ASSUME NEW n \in 0 .. m PROVE p(n) \in Seq(Seq(S))
  BY SubSeqProperties
<1>3. 0 \in T
  <2>1. p(0) = <<>> /\ s \o <<>> = s
    BY SubSeqEmpty, ConcatEmptySeq
  <2>2. FlattenSeq(<<>>) = <<>> /\ FlattenSeq(s) \in Seq(S)
    <3>1. <<>> \in Seq(Seq(S)) /\ \A i \in DOMAIN <<>> : <<>>[i] = <<>>
      OBVIOUS
    <3>2. QED BY <3>1, FlattenEmpty, FlattenType
  <2>3. FlattenSeq(s) \o <<>> = FlattenSeq(s)
    BY <2>2, ConcatEmptySeq
  <2>4. 0 \in 0 .. m
    BY <1>1
  <2> HIDE DEF m, p
  <2>5. FlattenSeq(s \o p(0)) = FlattenSeq(s) \o FlattenSeq(p(0))
    BY <2>1, <2>2, <2>3
  <2>6. QED BY <2>4, <2>5
<1>4. ASSUME NEW n \in 0 .. m - 1, n \in T PROVE n + 1 \in T
  <2>1. n + 1 \in 0 .. m /\ n + 1 \in 1 .. m /\ n \in 0 .. m
    BY <1>1
  <2>2. PICK x \in Seq(S) : x = t[n + 1]
    BY <1>1, <2>1
  <2>3. p(n + 1) = Append(p(n), x)
    <3>1. 1 \in 1 .. Len(t) /\ n + 1 \in 1 .. Len(t) /\ (n + 1) - 1 = n
      BY <1>1, <2>1
    <3>2. SubSeq(t, 1, n + 1) = SubSeq(t, 1, (n + 1) - 1) \o <<t[n + 1]>>
      BY <3>1, SubSeqRecursiveSecond
    <3>3. p(n) \in Seq(Seq(S))
      BY <1>2, <2>1
    <3>4. p(n + 1) = p(n) \o <<x>>
      BY <2>2, <3>1, <3>2
    <3> HIDE DEF p
    <3>5. QED BY <2>2, <3>3, <3>4, AppendIsConcat
  <2>4. PICK q \in Seq(Seq(S)), r \in Seq(Seq(S)) : q = p(n) /\ r = p(n + 1)
    BY <1>2, <2>1
  <2>5. FlattenSeq(s \o q) = FlattenSeq(s) \o FlattenSeq(q)
    BY <1>4, <2>4
  <2> HIDE DEF p, T
  <2>6. s \o r = Append(s \o q, x)
    <3>1. r = Append(q, x)
      BY <2>3, <2>4
    <3>2. s \o Append(q, x) = Append(s \o q, x)
      BY AppendToConcat
    <3>3. QED BY <3>1, <3>2
  <2>7. s \o q \in Seq(Seq(S))
    BY ConcatProperties
  <2>8. FlattenSeq(s \o r) = FlattenSeq(s \o q) \o x
    BY <2>2, <2>6, <2>7, FlattenAppend
  <2>9. FlattenSeq(r) = FlattenSeq(q) \o x
    <3>1. r = Append(q, x)
      BY <2>3, <2>4
    <3>2. QED BY <2>2, <3>1, FlattenAppend
  <2>10. FlattenSeq(s) \in Seq(S) /\ FlattenSeq(q) \in Seq(S)
    BY FlattenType
  <2>11. (FlattenSeq(s) \o FlattenSeq(q)) \o x = FlattenSeq(s) \o (FlattenSeq(q) \o x)
    BY <1>0, <2>10
  <2>12. FlattenSeq(s \o r) = FlattenSeq(s) \o FlattenSeq(r)
    BY <2>5, <2>8, <2>9, <2>11
  <2>13. QED BY <2>1, <2>12, <2>4 DEF T
<1> HIDE DEF T, p, m
<1>5. \A n \in 0 .. m : n \in T
  BY <1>1, <1>3, <1>4, InductiveInterval
<1>6. m \in 0 .. m /\ p(m) = t
  BY <1>1, SubSeqFull DEF m, p
<1>7. QED BY <1>5, <1>6 DEF T

-----------------------------------------------------------------------------
(* What g makes of the elements of s, one behind the other.                *)
Each(g, s) == [i \in DOMAIN s |-> g[s[i]]]
Spread(g, s) == FlattenSeq(Each(g, s))

(* A sequence of sequences, as long as s, and its flattening.              *)
LEMMA EachType ==
    ASSUME NEW S, NEW V, NEW g \in [S -> Seq(V)], NEW s \in Seq(S)
    PROVE  Each(g, s) \in Seq(Seq(V)) /\ Len(Each(g, s)) = Len(s)
<1> DEFINE m == Len(s)
           e == [i \in 1 .. m |-> g[s[i]]]
<1>1. m \in Nat /\ DOMAIN s = 1 .. m /\ \A i \in 1 .. m : g[s[i]] \in Seq(V)
  OBVIOUS
<1> HIDE DEF m
<1>2. e \in Seq(Seq(V)) /\ Len(e) = m
  BY <1>1
<1>3. e = Each(g, s)
  BY <1>1 DEF Each
<1>4. QED BY <1>2, <1>3 DEF m

(* The type of what g makes of a sequence, for one element, for two        *)
(* sequences and, if it is as long for every element, its length.          *)
LEMMA SpreadType ==
    ASSUME NEW S, NEW V, NEW g \in [S -> Seq(V)], NEW s \in Seq(S)
    PROVE  Spread(g, s) \in Seq(V)
<1>1. Each(g, s) \in Seq(Seq(V))
  BY EachType
<1>2. QED BY <1>1, FlattenType DEF Spread

(* Of no element, of one, and of two sequences.                            *)
LEMMA SpreadEmpty ==
    ASSUME NEW g
    PROVE  Spread(g, <<>>) = <<>>
<1> DEFINE e == Each(g, <<>>)
<1>1. DOMAIN e = {} /\ e \in Seq(Seq({}))
  BY DEF Each
<1> HIDE DEF e
<1>2. FlattenSeq(e) = <<>>
  BY <1>1, FlattenEmpty
<1>3. QED BY <1>2 DEF Spread, e

LEMMA SpreadOne ==
    ASSUME NEW S, NEW V, NEW g \in [S -> Seq(V)], NEW x \in S
    PROVE  Spread(g, <<x>>) = g[x]
<1> DEFINE e == Each(g, <<x>>)
<1>1. <<x>> \in Seq(S) /\ Len(<<x>>) = 1
  OBVIOUS
<1>2. e \in Seq(Seq(V)) /\ Len(e) = 1
  <2>1. \A u \in Seq(S) : Each(g, u) \in Seq(Seq(V)) /\ Len(Each(g, u)) = Len(u)
    BY EachType
  <2>2. QED BY <1>1, <2>1
<1>3. e[1] = g[x]
  BY DEF Each
<1> HIDE DEF e
<1>4. FlattenSeq(e) = g[x]
  BY <1>2, <1>3, FlattenOne
<1>5. QED BY <1>4 DEF Spread, e

LEMMA SpreadConcat ==
    ASSUME NEW S, NEW V, NEW g \in [S -> Seq(V)]
    PROVE  \A s, t \in Seq(S) : Spread(g, s \o t) = Spread(g, s) \o Spread(g, t)
<1>2. \A u \in Seq(S) : Each(g, u) \in Seq(Seq(V)) /\ Len(Each(g, u)) = Len(u)
  BY EachType
<1> SUFFICES ASSUME NEW s \in Seq(S), NEW t \in Seq(S)
             PROVE  Spread(g, s \o t) = Spread(g, s) \o Spread(g, t)
  OBVIOUS
<1>1. s \o t \in Seq(S)
  BY ConcatProperties
<1>3. /\ Len(s) \in Nat /\ Len(t) \in Nat /\ Len(s \o t) = Len(s) + Len(t)
      /\ DOMAIN s = 1 .. Len(s) /\ DOMAIN t = 1 .. Len(t)
      /\ DOMAIN (s \o t) = 1 .. Len(s) + Len(t)
      /\ \A i \in 1 .. Len(s) + Len(t) :
            (s \o t)[i] = IF i <= Len(s) THEN s[i] ELSE t[i - Len(s)]
  BY <1>1, ConcatProperties
<1>4. ASSUME NEW i \in 1 .. Len(s) + Len(t)
      PROVE  Each(g, s \o t)[i] = (Each(g, s) \o Each(g, t))[i]
  <2>1. Each(g, s \o t)[i] = g[(s \o t)[i]]
    BY <1>3 DEF Each
  <2>2. /\ Each(g, s) \in Seq(Seq(V)) /\ Each(g, t) \in Seq(Seq(V))
        /\ Len(Each(g, s)) = Len(s) /\ Len(Each(g, t)) = Len(t)
    BY <1>2
  <2>3. CASE i <= Len(s)
    <3>1. i \in DOMAIN s /\ (s \o t)[i] = s[i]
      BY <1>3, <2>3
    <3>2. Each(g, s)[i] = g[s[i]]
      BY <3>1 DEF Each
    <3>3. (Each(g, s) \o Each(g, t))[i] = Each(g, s)[i]
      BY <1>3, <2>2, <2>3, ConcatProperties
    <3>4. QED BY <2>1, <3>1, <3>2, <3>3
  <2>4. CASE ~(i <= Len(s))
    <3>1. i - Len(s) \in DOMAIN t /\ (s \o t)[i] = t[i - Len(s)]
      BY <1>3, <2>4
    <3>2. Each(g, t)[i - Len(s)] = g[t[i - Len(s)]]
      BY <3>1 DEF Each
    <3>3. (Each(g, s) \o Each(g, t))[i] = Each(g, t)[i - Len(s)]
      BY <1>3, <2>2, <2>4, ConcatProperties
    <3>4. QED BY <2>1, <3>1, <3>2, <3>3
  <2>5. QED BY <2>3, <2>4
<1>5. Each(g, s \o t) \in Seq(Seq(V)) /\ Each(g, s) \in Seq(Seq(V)) /\ Each(g, t) \in Seq(Seq(V))
      /\ Len(Each(g, s)) = Len(s) /\ Len(Each(g, t)) = Len(t) /\ Len(Each(g, s \o t)) = Len(s \o t)
  BY <1>1, <1>2
<1>6. Each(g, s \o t) = Each(g, s) \o Each(g, t)
  <2>1. PICK a \in Seq(Seq(V)), b \in Seq(Seq(V)), c \in Seq(Seq(V)) :
           a = Each(g, s) /\ b = Each(g, t) /\ c = Each(g, s \o t)
    BY <1>5
  <2>2. a \o b \in Seq(Seq(V)) /\ Len(a \o b) = Len(a) + Len(b)
    BY ConcatProperties
  <2>3. Len(c) = Len(a \o b) /\ \A i \in 1 .. Len(c) : c[i] = (a \o b)[i]
    BY <1>3, <1>4, <1>5, <2>1, <2>2
  <2>4. c = a \o b
    BY <2>2, <2>3, SeqEqual
  <2>5. QED BY <2>1, <2>4
<1>7. FlattenSeq(Each(g, s \o t)) = FlattenSeq(Each(g, s)) \o FlattenSeq(Each(g, t))
  BY <1>5, <1>6, FlattenConcat
<1>8. QED BY <1>7 DEF Spread

(* Two functions that make equally long sequences of every element do so   *)
(* of every sequence of elements.                                          *)
SameLengths(g, h, S, V, W) ==
    /\ g \in [S -> Seq(V)] /\ h \in [S -> Seq(W)]
    /\ \A x \in S : Len(g[x]) = Len(h[x])

LEMMA SpreadLengths ==
    ASSUME NEW g, NEW h, NEW S, NEW V, NEW W, SameLengths(g, h, S, V, W)
    PROVE  \A s \in Seq(S) : Len(Spread(g, s)) = Len(Spread(h, s))
<1>1. \A k \in [S -> Seq(V)] : \A a, b \in Seq(S) :
         Spread(k, a \o b) = Spread(k, a) \o Spread(k, b)
  BY SpreadConcat
<1>2. \A k \in [S -> Seq(W)] : \A a, b \in Seq(S) :
         Spread(k, a \o b) = Spread(k, a) \o Spread(k, b)
  BY SpreadConcat
<1> USE DEF SameLengths
<1>3. /\ \A a, b \in Seq(S) : Spread(g, a \o b) = Spread(g, a) \o Spread(g, b)
      /\ \A a, b \in Seq(S) : Spread(h, a \o b) = Spread(h, a) \o Spread(h, b)
  BY <1>1, <1>2
<1> DEFINE T == {n \in Nat : \A s \in Seq(S) :
                    Len(s) = n => Len(Spread(g, s)) = Len(Spread(h, s))}
<1>4. 0 \in T
  <2>1. \A s \in Seq(S) : Len(s) = 0 => s = <<>>
    OBVIOUS
  <2>2. Spread(g, <<>>) = Spread(h, <<>>)
    BY SpreadEmpty
  <2>3. QED BY <2>1, <2>2
<1>5. ASSUME NEW n \in Nat, n \in T PROVE n + 1 \in T
  <2> SUFFICES ASSUME NEW s \in Seq(S), Len(s) = n + 1
               PROVE  Len(Spread(g, s)) = Len(Spread(h, s))
    OBVIOUS
  <2>1. s # <<>>
    OBVIOUS
  <2>2. PICK t \in Seq(S), x \in S : s = Append(t, x)
    BY <2>1, SequenceEmptyOrAppend
  <2>3. s = t \o <<x>> /\ <<x>> \in Seq(S) /\ Len(t) = n
    BY <2>2
  <2>4. /\ Spread(g, s) = Spread(g, t) \o g[x]
        /\ Spread(h, s) = Spread(h, t) \o h[x]
    <3>1. Spread(g, s) = Spread(g, t) \o Spread(g, <<x>>)
      BY <1>3, <2>3
    <3>2. Spread(h, s) = Spread(h, t) \o Spread(h, <<x>>)
      BY <1>3, <2>3
    <3>3. Spread(g, <<x>>) = g[x] /\ Spread(h, <<x>>) = h[x]
      BY SpreadOne
    <3>4. QED BY <3>1, <3>2, <3>3
  <2>5. Spread(g, t) \in Seq(V) /\ Spread(h, t) \in Seq(W)
    BY SpreadType
  <2>6. Len(Spread(g, t)) = Len(Spread(h, t))
    BY <1>5, <2>3
  <2>7. Len(Spread(g, s)) = Len(Spread(g, t)) + Len(g[x])
    BY <2>4, <2>5, ConcatProperties
  <2>8. Len(Spread(h, s)) = Len(Spread(h, t)) + Len(h[x])
    BY <2>4, <2>5, ConcatProperties
  <2>9. QED BY <2>6, <2>7, <2>8
<1> HIDE DEF T
<1>6. \A n \in Nat : n \in T
  BY <1>4, <1>5, InductiveSet
<1>7. \A s \in Seq(S) : Len(s) \in Nat
  OBVIOUS
<1>8. QED BY <1>6, <1>7 DEF T

-----------------------------------------------------------------------------
(* Appending a new element to a sequence without repetitions.              *)
LEMMA AppendNew ==
    ASSUME NEW S, NEW s \in Seq(S), NEW t \in S,
           IsInjective(s), t \notin ToSet(s)
    PROVE  /\ Append(s, t) \in Seq(S)
           /\ Len(Append(s, t)) = Len(s) + 1
           /\ Append(s, t) # <<>>
           /\ ToSet(Append(s, t)) = ToSet(s) \cup {t}
           /\ IsInjective(Append(s, t))
<1> DEFINE a == Append(s, t)
<1>1. /\ Len(s) \in Nat
      /\ a \in Seq(S)
      /\ Len(a) = Len(s) + 1
      /\ \A i \in 1 .. Len(s) : a[i] = s[i]
      /\ a[Len(s) + 1] = t
  OBVIOUS
<1>2. DOMAIN s = 1 .. Len(s) /\ DOMAIN a = 1 .. Len(s) + 1
  BY <1>1
<1>3. \A i \in 1 .. Len(s) : s[i] # t
  BY <1>2 DEF ToSet
<1>4. IsInjective(a)
  BY <1>1, <1>2, <1>3 DEF IsInjective
<1>5. ToSet(a) = ToSet(s) \cup {t}
  <2>1. ASSUME NEW x \in ToSet(a) PROVE x \in ToSet(s) \cup {t}
    BY <1>1, <1>2 DEF ToSet
  <2>2. ASSUME NEW x \in ToSet(s) PROVE x \in ToSet(a)
    <3>1. PICK i \in 1 .. Len(s) : x = s[i]
      BY <1>2 DEF ToSet
    <3>2. i \in 1 .. Len(s) + 1 /\ a[i] = x
      BY <1>1, <3>1
    <3>3. QED BY <1>2, <3>2 DEF ToSet
  <2>3. t \in ToSet(a)
    <3>1. Len(s) + 1 \in 1 .. Len(s) + 1
      BY <1>1
    <3>2. QED BY <1>1, <1>2, <3>1 DEF ToSet
  <2>4. QED BY <2>1, <2>2, <2>3
<1>6. a # <<>>
  BY <1>1
<1>7. QED BY <1>1, <1>4, <1>5, <1>6

(* Taking the front of a sequence without repetitions.                     *)
LEMMA TakeFront ==
    ASSUME NEW S, NEW s \in Seq(S), s # <<>>, IsInjective(s)
    PROVE  /\ Head(s) \in S
           /\ Tail(s) \in Seq(S)
           /\ Len(Tail(s)) = Len(s) - 1
           /\ Head(s) \in ToSet(s)
           /\ ToSet(Tail(s)) = ToSet(s) \ {Head(s)}
           /\ IsInjective(Tail(s))
<1>1. /\ Len(s) \in Nat \ {0}
      /\ Head(s) = s[1]
      /\ Tail(s) \in Seq(S)
      /\ Len(Tail(s)) = Len(s) - 1
      /\ \A i \in 1 .. Len(s) - 1 : Tail(s)[i] = s[i + 1]
  OBVIOUS
<1>2. DOMAIN s = 1 .. Len(s) /\ DOMAIN Tail(s) = 1 .. Len(s) - 1
  BY <1>1
<1>3. IsInjective(Tail(s))
  BY <1>1, <1>2 DEF IsInjective
<1>4. ASSUME NEW x \in ToSet(s), x # Head(s) PROVE x \in ToSet(Tail(s))
  <2>1. PICK i \in 1 .. Len(s) : x = s[i]
    BY <1>2 DEF ToSet
  <2>2. i - 1 \in 1 .. Len(s) - 1 /\ Tail(s)[i - 1] = s[i]
    BY <1>1, <1>4, <2>1
  <2>3. QED BY <1>2, <2>1, <2>2 DEF ToSet
<1>5. ASSUME NEW x \in ToSet(Tail(s)) PROVE x \in ToSet(s) /\ x # Head(s)
  <2>1. PICK i \in 1 .. Len(s) - 1 : x = s[i + 1]
    BY <1>1, <1>2 DEF ToSet
  <2>2. i + 1 \in 1 .. Len(s) /\ i + 1 # 1
    BY <1>1
  <2>3. QED BY <1>1, <1>2, <2>1, <2>2 DEF ToSet, IsInjective
<1>6. Head(s) \in S /\ Head(s) \in ToSet(s)
  BY <1>1, <1>2 DEF ToSet
<1>7. QED BY <1>1, <1>3, <1>4, <1>5, <1>6

(* Moving the front of one sequence to the end of another keeps their      *)
(* concatenation.                                                          *)
LEMMA MoveFront ==
    ASSUME NEW S, NEW s \in Seq(S), NEW t \in Seq(S), t # <<>>
    PROVE  /\ Head(t) \in S
           /\ Tail(t) \in Seq(S)
           /\ Append(s, Head(t)) \in Seq(S)
           /\ Append(s, Head(t)) \o Tail(t) = s \o t
<1> DEFINE a == Append(s, Head(t))
<1>1. /\ Len(t) \in Nat \ {0} /\ Len(s) \in Nat
      /\ Head(t) = t[1] /\ Head(t) \in S
      /\ Tail(t) \in Seq(S) /\ Len(Tail(t)) = Len(t) - 1
      /\ \A i \in 1 .. Len(t) - 1 : Tail(t)[i] = t[i + 1]
      /\ a \in Seq(S) /\ Len(a) = Len(s) + 1
      /\ \A i \in 1 .. Len(s) : a[i] = s[i]
      /\ a[Len(s) + 1] = t[1]
  OBVIOUS
<1> DEFINE l == a \o Tail(t)
           r == s \o t
<1>2. /\ l \in Seq(S) /\ Len(l) = Len(a) + Len(Tail(t))
      /\ \A i \in 1 .. Len(l) :
            l[i] = IF i <= Len(a) THEN a[i] ELSE Tail(t)[i - Len(a)]
  BY <1>1, ConcatProperties
<1>3. /\ r \in Seq(S) /\ Len(r) = Len(s) + Len(t)
      /\ \A i \in 1 .. Len(r) :
            r[i] = IF i <= Len(s) THEN s[i] ELSE t[i - Len(s)]
  BY ConcatProperties
<1>4. Len(l) = Len(r)
  BY <1>1, <1>2, <1>3
<1>5. ASSUME NEW i \in 1 .. Len(l) PROVE l[i] = r[i]
  <2>1. CASE i <= Len(s)
    BY <1>1, <1>2, <1>3, <1>4, <2>1
  <2>2. CASE i = Len(s) + 1
    BY <1>1, <1>2, <1>3, <1>4, <2>2
  <2>3. CASE i > Len(s) + 1
    <3>1. /\ i - Len(a) \in 1 .. Len(t) - 1
          /\ (i - Len(a)) + 1 = i - Len(s)
      BY <1>1, <1>2, <2>3
    <3>2. QED BY <1>1, <1>2, <1>3, <1>4, <2>3, <3>1
  <2>4. QED BY <1>1, <1>2, <2>1, <2>2, <2>3
<1>6. l = r
  BY <1>2, <1>3, <1>4, <1>5, SeqEqual
<1>7. QED BY <1>1, <1>6

(* The first of several sequences in which nothing is twice, and the rest. *)
LEMMA FrontApart ==
    ASSUME NEW S, NEW s \in Seq(Seq(S)), s # <<>>, EachOnce(s)
    PROVE  /\ Head(s) \in Seq(S)
           /\ IsInjective(Head(s))
           /\ EachOnce(Tail(s))
           /\ \A x \in ToSet(Head(s)) :
                 x \in Elements(s) /\ x \notin Elements(Tail(s))
           /\ Elements(Tail(s)) \subseteq Elements(s)
           /\ Elements(s) \subseteq ToSet(Head(s)) \cup Elements(Tail(s))
<1>1. /\ Len(s) \in Nat \ {0} /\ Head(s) = s[1] /\ Head(s) \in Seq(S)
      /\ DOMAIN s = 1 .. Len(s) /\ DOMAIN Tail(s) = 1 .. Len(s) - 1
      /\ \A i \in 1 .. Len(s) - 1 : Tail(s)[i] = s[i + 1]
  OBVIOUS
<1>2. 1 \in DOMAIN s /\ \A i \in DOMAIN Tail(s) : i + 1 \in DOMAIN s /\ i + 1 # 1
  BY <1>1
<1>3. IsInjective(Head(s))
  BY <1>1, <1>2 DEF EachOnce, IsInjective
<1>4. EachOnce(Tail(s))
  <2> SUFFICES ASSUME NEW i \in DOMAIN Tail(s), NEW j \in DOMAIN Tail(s),
                      NEW k \in DOMAIN Tail(s)[i], NEW l \in DOMAIN Tail(s)[j],
                      Tail(s)[i][k] = Tail(s)[j][l]
               PROVE  i = j /\ k = l
    BY DEF EachOnce
  <2>1. /\ i + 1 \in DOMAIN s /\ j + 1 \in DOMAIN s
        /\ Tail(s)[i] = s[i + 1] /\ Tail(s)[j] = s[j + 1]
    BY <1>1, <1>2
  <2>2. i + 1 = j + 1 /\ k = l
    BY <2>1 DEF EachOnce
  <2>3. QED BY <1>1, <2>2
<1>5. ASSUME NEW x \in ToSet(Head(s))
      PROVE  x \in Elements(s) /\ x \notin Elements(Tail(s))
  <2>1. x \in Elements(s)
    BY <1>1, <1>2 DEF Elements
  <2>2. ASSUME NEW i \in DOMAIN Tail(s), x \in ToSet(Tail(s)[i]) PROVE FALSE
    <3>1. PICK k \in DOMAIN s[1] : x = s[1][k]
      BY <1>1 DEF ToSet
    <3>2. i + 1 \in DOMAIN s /\ i + 1 # 1 /\ Tail(s)[i] = s[i + 1]
      BY <1>1, <1>2
    <3>3. PICK l \in DOMAIN s[i + 1] : x = s[i + 1][l]
      BY <2>2, <3>2 DEF ToSet
    <3>4. QED BY <1>2, <3>1, <3>2, <3>3 DEF EachOnce
  <2>3. QED BY <2>1, <2>2 DEF Elements
<1>6. Elements(Tail(s)) \subseteq Elements(s)
  BY <1>1, <1>2 DEF Elements
<1>7. ASSUME NEW x \in Elements(s), x \notin ToSet(Head(s))
      PROVE  x \in Elements(Tail(s))
  <2>1. PICK i \in DOMAIN s : x \in ToSet(s[i])
    BY DEF Elements
  <2>2. i # 1
    BY <1>1, <1>7, <2>1
  <2>3. i - 1 \in DOMAIN Tail(s) /\ Tail(s)[i - 1] = s[i]
    BY <1>1, <2>2
  <2>4. QED BY <2>1, <2>3 DEF Elements
<1>8. QED BY <1>1, <1>3, <1>4, <1>5, <1>6, <1>7

(* Of two sequences in which together nothing is twice, the elements.      *)
LEMMA PartsApart ==
    ASSUME NEW S, NEW s \in Seq(Seq(S)), NEW t \in Seq(Seq(S)),
           EachOnce(s \o t)
    PROVE  Elements(s) \cap Elements(t) = {}
<1> SUFFICES ASSUME NEW x \in Elements(s), x \in Elements(t) PROVE FALSE
  OBVIOUS
<1>1. PICK i \in DOMAIN s : \E k \in DOMAIN s[i] : x = s[i][k]
  BY DEF Elements, ToSet
<1>2. PICK j \in DOMAIN t : \E l \in DOMAIN t[j] : x = t[j][l]
  BY DEF Elements, ToSet
<1>3. /\ i \in 1 .. Len(s) /\ j \in 1 .. Len(t) /\ Len(s) \in Nat /\ Len(t) \in Nat
      /\ DOMAIN (s \o t) = 1 .. Len(s) + Len(t)
  BY ConcatProperties
<1>4. /\ i \in DOMAIN (s \o t) /\ (s \o t)[i] = s[i]
      /\ Len(s) + j \in DOMAIN (s \o t) /\ (s \o t)[Len(s) + j] = t[j]
      /\ i # Len(s) + j
  BY <1>3, ConcatProperties
<1> DEFINE c == s \o t
           m == Len(s) + j
<1>5. /\ i \in DOMAIN c /\ m \in DOMAIN c /\ i # m /\ EachOnce(c)
      /\ \E k \in DOMAIN c[i] : x = c[i][k]
      /\ \E l \in DOMAIN c[m] : x = c[m][l]
  BY <1>1, <1>2, <1>4
<1> HIDE DEF c, m
<1>6. PICK k \in DOMAIN c[i] : x = c[i][k]
  BY <1>5
<1>7. PICK l \in DOMAIN c[m] : x = c[m][l]
  BY <1>5
<1>8. c[i][k] = c[m][l] => i = m
  BY <1>5 DEF EachOnce
<1>9. QED BY <1>5, <1>6, <1>7, <1>8
=============================================================================
