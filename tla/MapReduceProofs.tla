-------------------------- MODULE MapReduceProofs ---------------------------
(***************************************************************************)
(* The map phase and the generated test cases, for every number of map and *)
(* reduce tasks, workers, URLs and hash functions.  What the recursive     *)
(* functions of the model compute is established first, by way of their    *)
(* runs: no theorem of induction is instantiated, a least counterexample   *)
(* is refuted.                                                             *)
(***************************************************************************)
EXTENDS MapReduce, FiniteSetTheorems, TLAPS

\* A set of natural numbers has a least one.
LEMMA NatLeast ==
  ASSUME NEW S, S \subseteq Nat, S # {} PROVE \E m \in S : \A n \in S : m <= n
<1>1. PICK m \in S : \A n \in S : ~(<<n, m>> \in OpToRel(<, Nat))
  BY NatLessThanWellFounded, WFMin
<1>2. \A n \in S : ~(n < m)
  BY ZenonT(40), <1>1 DEF OpToRel
<1> QED
  BY <1>2

\* The first number that is not in a set of them, in which every number is that
\* comes after one.
LEMMA Counting ==
  ASSUME NEW n \in Nat, NEW G, 0 \in G, \A i \in 1 .. n : i - 1 \in G => i \in G
  PROVE  \A i \in 0 .. n : i \in G
<1> DEFINE Bad == {i \in 0 .. n : i \notin G}
<1>1. ASSUME Bad # {} PROVE FALSE
  <2>1. PICK m \in Bad : \A i \in Bad : m <= i
    <3>1. Bad \subseteq Nat
      OBVIOUS
    <3> HIDE DEF Bad
    <3> QED BY Zenon, <1>1, <3>1, NatLeast
  <2>2. m # 0 /\ m \in 1 .. n /\ m - 1 \in 0 .. n /\ m - 1 \notin Bad
    BY <2>1
  <2> QED BY <2>1, <2>2
<1> QED BY <1>1

\* The values a loop of n turns goes through, from a on, with F as its body.
Runs(t, A, a, F, n) ==
  /\ t \in [0 .. n -> A] /\ t[0] = a
  /\ \A i \in 1 .. n : t[i] = F[i][t[i - 1]]

\* Every list of functions has a run from every start.
LEMMA RunExists ==
  ASSUME NEW n \in Nat, NEW A, NEW a \in A, NEW F \in [1 .. n -> [A -> A]]
  PROVE  \E t : Runs(t, A, a, F, n)
<1> DEFINE G == {m \in 0 .. n : \E t : Runs(t, A, a, F, m)}
<1>1. 0 \in G
  <2>1. Runs([i \in 0 .. 0 |-> a], A, a, F, 0)
    BY DEF Runs
  <2> QED BY <2>1
<1>2. ASSUME NEW m \in 1 .. n, m - 1 \in G PROVE m \in G
  <2>1. PICK s : Runs(s, A, a, F, m - 1)
    BY <1>2
  <2> DEFINE t == [i \in 0 .. m |-> IF i = m THEN F[m][s[m - 1]] ELSE s[i]]
  <2>2. s \in [0 .. m - 1 -> A] /\ s[0] = a /\ s[m - 1] \in A /\ F[m][s[m - 1]] \in A
    BY <2>1 DEF Runs
  <2>3. t \in [0 .. m -> A] /\ t[0] = a
    BY <2>2
  <2>4. ASSUME NEW i \in 1 .. m PROVE t[i] = F[i][t[i - 1]]
    <3>1. CASE i = m
      BY <3>1
    <3>2. CASE i # m
      <4>1. i \in 1 .. m - 1 /\ t[i] = s[i] /\ t[i - 1] = s[i - 1]
        BY <3>2
      <4> QED BY <2>1, <4>1 DEF Runs
    <3> QED BY <3>1, <3>2
  <2>5. Runs(t, A, a, F, m)
    BY Zenon, <2>3, <2>4 DEF Runs
  <2> QED BY <2>5
<1>3. n \in G
  <2> HIDE DEF G
  <2>1. \A i \in 0 .. n : i \in G
    BY ZenonT(40), <1>1, <1>2, Counting
  <2> QED BY <2>1
<1> QED BY <1>3

-----------------------------------------------------------------------------
(* Bucket.                                                                 *)

\* b holds the buckets of the beginnings of s.
IsBucket(b, s, r) ==
  /\ b \in [0 .. Len(s) -> Seq(Urls)] /\ b[0] = << >>
  /\ \A n \in 1 .. Len(s) :
       b[n] = IF ihash[s[n]] % NReduce = r THEN Append(b[n - 1], s[n]) ELSE b[n - 1]

\* Bucket is the last of them.
LEMMA BucketIs ==
  ASSUME NEW s \in Seq(Urls), NEW r
  PROVE  \E b : IsBucket(b, s, r) /\ Bucket(s, r) = b[Len(s)]
<1> DEFINE N == Len(s)
           F == [i \in 1 .. N |-> [x \in Seq(Urls) |->
                   IF ihash[s[i]] % NReduce = r THEN Append(x, s[i]) ELSE x]]
           b[n \in 0 .. N] ==
             IF n = 0 THEN << >>
             ELSE IF ihash[s[n]] % NReduce = r THEN Append(b[n - 1], s[n]) ELSE b[n - 1]
<1>1. N \in Nat /\ << >> \in Seq(Urls) /\ \A i \in 1 .. N : s[i] \in Urls
  OBVIOUS
<1>2. F \in [1 .. N -> [Seq(Urls) -> Seq(Urls)]]
  BY <1>1
<1>3. PICK t : Runs(t, Seq(Urls), << >>, F, N)
  <2> HIDE DEF F, N
  <2> QED BY ZenonT(40), <1>1, <1>2, RunExists
<1>4. \A x \in Seq(Urls), i \in 1 .. N :
        F[i][x] = IF ihash[s[i]] % NReduce = r THEN Append(x, s[i]) ELSE x
  OBVIOUS
<1>5. t \in [0 .. N -> Seq(Urls)] /\ \A i \in 0 .. N : t[i] =
        IF i = 0 THEN << >>
        ELSE IF ihash[s[i]] % NReduce = r THEN Append(t[i - 1], s[i]) ELSE t[i - 1]
  <2> HIDE DEF F, N
  <2>1. t \in [0 .. N -> Seq(Urls)] /\ t[0] = << >> /\ \A i \in 1 .. N : t[i] = F[i][t[i - 1]]
    BY <1>3 DEF Runs
  <2>2. ASSUME NEW i \in 1 .. N
        PROVE  t[i] = IF ihash[s[i]] % NReduce = r THEN Append(t[i - 1], s[i]) ELSE t[i - 1]
    <3>1. i - 1 \in 0 .. N
      BY <1>1
    <3>2. t[i - 1] \in Seq(Urls)
      BY <2>1, <3>1
    <3> QED BY Zenon, <1>4, <2>1, <3>2
  <2>3. \A i \in 0 .. N : i = 0 \/ i \in 1 .. N
    BY <1>1
  <2>4. \A i \in 1 .. N : i # 0
    BY <1>1
  <2> QED BY Zenon, <2>1, <2>2, <2>3, <2>4
<1>6. t = [n \in 0 .. N |->
             IF n = 0 THEN << >>
             ELSE IF ihash[s[n]] % NReduce = r THEN Append(t[n - 1], s[n]) ELSE t[n - 1]]
  <2> HIDE DEF N
  <2> QED BY ZenonT(40), <1>5
<1>7. b = [n \in 0 .. N |->
             IF n = 0 THEN << >>
             ELSE IF ihash[s[n]] % NReduce = r THEN Append(b[n - 1], s[n]) ELSE b[n - 1]]
  BY ZenonT(40), <1>6
<1>8. Bucket(s, r) = b[N]
  BY DEF Bucket
<1> HIDE DEF b
<1> DEFINE G == {i \in 0 .. N : b[i] = t[i]}
<1>9. \A i \in 0 .. N : b[i] =
        IF i = 0 THEN << >>
        ELSE IF ihash[s[i]] % NReduce = r THEN Append(b[i - 1], s[i]) ELSE b[i - 1]
  <2> HIDE DEF N
  <2> QED BY Zenon, <1>7
<1>10. \A i \in 0 .. N : i \in G
  <2>1. 0 \in G
    BY <1>1, <1>5, <1>9
  <2>2. ASSUME NEW i \in 1 .. N, i - 1 \in G PROVE i \in G
    <3>1. i \in 0 .. N /\ i # 0 /\ b[i - 1] = t[i - 1]
      BY <1>1, <2>2
    <3> QED BY Zenon, <1>5, <1>9, <3>1
  <2> HIDE DEF G, N
  <2> QED BY ZenonT(40), <1>1, <2>1, <2>2, Counting
<1>11. IsBucket(t, s, r) /\ Bucket(s, r) = t[Len(s)]
  <2>1. N \in G
    BY <1>1, <1>10
  <2>2. \A i \in 1 .. N : i \in 0 .. N /\ i # 0
    BY <1>1
  <2>3. 0 \in 0 .. N
    BY <1>1
  <2> QED BY Zenon, <1>5, <1>8, <2>1, <2>2, <2>3 DEF IsBucket
<1> QED BY <1>11

-----------------------------------------------------------------------------
(* Counting.                                                               *)

\* How often u is among the first n of s.
Upto(s, n, u) == Cardinality({i \in 1 .. n : s[i] = u})

\* One more URL.
LEMMA UptoNext ==
  ASSUME NEW s, NEW u, NEW n \in Nat
  PROVE  /\ Upto(s, n, u) \in Nat
         /\ Upto(s, 0, u) = 0
         /\ Upto(s, n + 1, u) = Upto(s, n, u) + (IF s[n + 1] = u THEN 1 ELSE 0)
<1> DEFINE U == {i \in 1 .. n : s[i] = u}
           V == {i \in 1 .. n + 1 : s[i] = u}
<1>1. IsFiniteSet(U)
  <2>1. IsFiniteSet(1 .. n)
    BY FS_Interval
  <2> QED BY <2>1, FS_Subset
<1>2. Upto(s, n, u) \in Nat
  BY <1>1, FS_CardinalityType DEF Upto
<1>3. Upto(s, 0, u) = 0
  <2>1. {i \in 1 .. 0 : s[i] = u} = {}
    OBVIOUS
  <2> QED BY <2>1, FS_EmptySet DEF Upto
<1>4. V = IF s[n + 1] = u THEN U \cup {n + 1} ELSE U
  <2>1. 1 .. n + 1 = (1 .. n) \cup {n + 1}
    OBVIOUS
  <2> QED BY Zenon, <2>1
<1>5. n + 1 \notin U
  OBVIOUS
<1>6. Cardinality(U \cup {n + 1}) = Cardinality(U) + 1
  <2> HIDE DEF U
  <2> QED BY <1>1, <1>5, FS_AddElement
<1>7. Upto(s, n + 1, u) = Cardinality(V) /\ Upto(s, n, u) = Cardinality(U)
  BY DEF Upto
<1> HIDE DEF U, V
<1> QED BY <1>2, <1>3, <1>4, <1>6, <1>7

\* Lists that agree so far.
LEMMA UptoSame ==
  ASSUME NEW s, NEW t, NEW u, NEW n, \A i \in 1 .. n : s[i] = t[i]
  PROVE  Upto(s, n, u) = Upto(t, n, u)
<1>1. {i \in 1 .. n : s[i] = u} = {i \in 1 .. n : t[i] = u}
  OBVIOUS
<1> QED BY Zenon, <1>1 DEF Upto

\* CountIn counts through the whole list.
LEMMA CountIs ==
  ASSUME NEW s \in Seq(Urls), NEW u
  PROVE  CountIn(s, u) = Upto(s, Len(s), u) /\ CountIn(s, u) \in Nat
<1>1. DOMAIN s = 1 .. Len(s) /\ Len(s) \in Nat
  OBVIOUS
<1>2. CountIn(s, u) = Upto(s, Len(s), u)
  BY Zenon, <1>1 DEF CountIn, Upto
<1>3. Upto(s, Len(s), u) \in Nat
  BY <1>1, UptoNext
<1> QED BY Zenon, <1>2, <1>3

\* Nothing is in an empty list.
LEMMA CountNone == ASSUME NEW u PROVE CountIn(<< >>, u) = 0
<1>1. << >> \in Seq(Urls) /\ Len(<< >>) = 0
  OBVIOUS
<1>2. CountIn(<< >>, u) = Upto(<< >>, Len(<< >>), u)
  BY ZenonT(40), <1>1, CountIs
<1>3. Upto(<< >>, 0, u) = 0
  BY UptoNext
<1> QED BY <1>1, <1>2, <1>3

\* Two lists have together what each has.
LEMMA CountConcat ==
  ASSUME NEW s \in Seq(Urls), NEW t \in Seq(Urls), NEW u
  PROVE  CountIn(s \o t, u) = CountIn(s, u) + CountIn(t, u)
<1> DEFINE c == s \o t
           k == Len(s)
           n == Len(t)
<1>1. /\ c \in Seq(Urls) /\ Len(c) = k + n /\ k \in Nat /\ n \in Nat
      /\ \A i \in 1 .. k : c[i] = s[i]
      /\ \A i \in 1 .. n : c[k + i] = t[i]
  OBVIOUS
<1> HIDE DEF c, k, n
<1> DEFINE G == {i \in 0 .. n : Upto(c, k + i, u) = Upto(s, k, u) + Upto(t, i, u)}
<1>2. 0 \in G
  <2>1. Upto(c, k, u) = Upto(s, k, u)
    BY <1>1, UptoSame
  <2>2. Upto(t, 0, u) = 0 /\ Upto(s, k, u) \in Nat
    BY <1>1, UptoNext
  <2> QED BY <1>1, <2>1, <2>2
<1>3. ASSUME NEW i \in 1 .. n, i - 1 \in G PROVE i \in G
  <2> DEFINE j == i - 1
  <2>1. j \in Nat /\ i = j + 1 /\ k + j \in Nat /\ k + i = (k + j) + 1 /\ i \in 0 .. n
    BY <1>1
  <2> HIDE DEF j
  <2>2. Upto(t, j + 1, u) = Upto(t, j, u) + (IF t[j + 1] = u THEN 1 ELSE 0)
    BY ZenonT(40), <2>1, UptoNext
  <2>3. Upto(c, k + j + 1, u) = Upto(c, k + j, u) + (IF c[k + j + 1] = u THEN 1 ELSE 0)
    BY ZenonT(40), <2>1, UptoNext
  <2>4. c[k + j + 1] = t[j + 1]
    BY <1>1, <2>1
  <2>5. Upto(c, k + j, u) = Upto(s, k, u) + Upto(t, j, u)
    BY <1>3 DEF j
  <2>6. Upto(s, k, u) \in Nat /\ Upto(t, j, u) \in Nat
    BY <1>1, <2>1, UptoNext
  <2>7. Upto(c, k + j + 1, u) = Upto(s, k, u) + Upto(t, j + 1, u)
    BY <2>2, <2>3, <2>4, <2>5, <2>6
  <2> QED BY <2>1, <2>7
<1>4. n \in G
  <2> HIDE DEF G
  <2>1. \A i \in 0 .. n : i \in G
    BY ZenonT(40), <1>1, <1>2, <1>3, Counting
  <2> QED BY <1>1, <2>1
<1>5. CountIn(c, u) = Upto(c, k + n, u) /\ CountIn(s, u) = Upto(s, k, u)
      /\ CountIn(t, u) = Upto(t, n, u)
  BY ZenonT(40), <1>1, CountIs DEF k, n
<1> QED BY <1>4, <1>5 DEF c

\* One URL more.
LEMMA CountAppend ==
  ASSUME NEW s \in Seq(Urls), NEW x \in Urls, NEW u
  PROVE  CountIn(Append(s, x), u) = CountIn(s, u) + (IF x = u THEN 1 ELSE 0)
<1> DEFINE c == Append(s, x)
           k == Len(s)
<1>1. /\ c \in Seq(Urls) /\ Len(c) = k + 1 /\ k \in Nat /\ c[k + 1] = x
      /\ \A i \in 1 .. k : c[i] = s[i]
  OBVIOUS
<1>2. CountIn(c, u) = Upto(c, k + 1, u) /\ CountIn(s, u) = Upto(s, k, u)
  <2> HIDE DEF c
  <2> QED BY <1>1, CountIs
<1> HIDE DEF c, k
<1>3. Upto(c, k + 1, u) = Upto(c, k, u) + (IF x = u THEN 1 ELSE 0)
  BY ZenonT(40), <1>1, UptoNext
<1>4. Upto(c, k, u) = Upto(s, k, u)
  BY <1>1, UptoSame
<1> QED BY <1>2, <1>3, <1>4 DEF c

\* A bucket has the URLs that belong there, as often as they came, and no other.
LEMMA BucketCount ==
  ASSUME NEW s \in Seq(Urls), NEW r, NEW u
  PROVE  /\ Bucket(s, r) \in Seq(Urls)
         /\ CountIn(Bucket(s, r), u) = IF ihash[u] % NReduce = r THEN CountIn(s, u) ELSE 0
<1>1. PICK b : IsBucket(b, s, r) /\ Bucket(s, r) = b[Len(s)]
  BY BucketIs
<1> DEFINE N == Len(s)
           H(x) == ihash[x] % NReduce = r
           G == {i \in 0 .. N : CountIn(b[i], u) = IF H(u) THEN Upto(s, i, u) ELSE 0}
<1>2. /\ N \in Nat /\ b \in [0 .. N -> Seq(Urls)] /\ b[0] = << >>
      /\ \A i \in 1 .. N : s[i] \in Urls
  BY <1>1 DEF IsBucket
<1>3. \A i \in 1 .. N : b[i] = IF H(s[i]) THEN Append(b[i - 1], s[i]) ELSE b[i - 1]
  BY Zenon, <1>1 DEF IsBucket
<1>4. 0 \in G
  <2>1. Upto(s, 0, u) = 0
    BY UptoNext
  <2> HIDE DEF H, N
  <2> QED BY <1>2, <2>1, CountNone
<1> HIDE DEF N, H
<1>5. ASSUME NEW i \in 1 .. N, i - 1 \in G PROVE i \in G
  <2> DEFINE j == i - 1
  <2>1. j \in Nat /\ i = j + 1 /\ i \in 0 .. N /\ j \in 0 .. N
    BY <1>2
  <2>2. CountIn(b[j], u) = IF H(u) THEN Upto(s, j, u) ELSE 0
    BY <1>5
  <2>3. b[i] = IF H(s[i]) THEN Append(b[j], s[i]) ELSE b[j]
    BY <1>3
  <2> HIDE DEF j
  <2>4. Upto(s, j, u) \in Nat /\ Upto(s, i, u) = Upto(s, j, u) + (IF s[i] = u THEN 1 ELSE 0)
    BY <2>1, UptoNext
  <2>5. b[j] \in Seq(Urls) /\ s[i] \in Urls
    BY <1>2, <2>1
  <2>6. CountIn(Append(b[j], s[i]), u) = CountIn(b[j], u) + (IF s[i] = u THEN 1 ELSE 0)
    BY <2>5, CountAppend
  <2>7. s[i] = u => (H(s[i]) <=> H(u))
    BY Zenon DEF H
  <2>8. CountIn(b[i], u) = IF H(u) THEN Upto(s, i, u) ELSE 0
    BY <2>2, <2>3, <2>4, <2>6, <2>7
  <2> QED BY <2>1, <2>8
<1>6. N \in G
  <2> HIDE DEF G
  <2>1. \A i \in 0 .. N : i \in G
    BY ZenonT(40), <1>2, <1>4, <1>5, Counting
  <2> QED BY <1>2, <2>1
<1>7. CountIn(s, u) = Upto(s, N, u) /\ b[N] \in Seq(Urls)
  BY <1>2, CountIs DEF N
<1> QED BY Zenon, <1>1, <1>6, <1>7 DEF N, H

-----------------------------------------------------------------------------
(* The inputs together, and what a reduce task finds.                      *)

\* c holds the inputs put together, file by file.
IsAll(c) ==
  /\ c \in [0 .. NMap -> Seq(Urls)] /\ c[0] = << >>
  /\ \A m \in Maps : c[m] = c[m - 1] \o input[m]

\* AllInput is the last of them.
LEMMA AllIs ==
  ASSUME \A m \in Maps : input[m] \in Seq(Urls)
  PROVE  \E c : IsAll(c) /\ AllInput = c[NMap]
<1> DEFINE F == [i \in 1 .. NMap |-> [x \in Seq(Urls) |-> x \o input[i]]]
           cat[m \in 0 .. NMap] == IF m = 0 THEN << >> ELSE cat[m - 1] \o input[m]
<1>1. NMap \in Nat /\ << >> \in Seq(Urls) /\ Maps = 1 .. NMap
  BY SizesType DEF Maps
<1>2. F \in [1 .. NMap -> [Seq(Urls) -> Seq(Urls)]]
  BY <1>1
<1>3. PICK t : Runs(t, Seq(Urls), << >>, F, NMap)
  <2> HIDE DEF F
  <2> QED BY ZenonT(40), <1>1, <1>2, RunExists
<1>4. \A x \in Seq(Urls), i \in 1 .. NMap : F[i][x] = x \o input[i]
  OBVIOUS
<1>5. t \in [0 .. NMap -> Seq(Urls)] /\ t[0] = << >>
      /\ \A i \in 1 .. NMap : t[i] = F[i][t[i - 1]]
  BY ZenonT(40), <1>3 DEF Runs
<1> HIDE DEF F
<1>6. \A i \in 1 .. NMap : i \in 0 .. NMap /\ i - 1 \in 0 .. NMap /\ i # 0
  BY <1>1
<1>7. \A i \in 1 .. NMap : t[i] = t[i - 1] \o input[i]
  BY Zenon, <1>4, <1>5, <1>6
<1>8. \A i \in 0 .. NMap : i = 0 \/ i \in 1 .. NMap
  BY <1>1
<1>9. t = [m \in 0 .. NMap |-> IF m = 0 THEN << >> ELSE t[m - 1] \o input[m]]
  <2>1. \A i \in 0 .. NMap : t[i] = IF i = 0 THEN << >> ELSE t[i - 1] \o input[i]
    BY Zenon, <1>5, <1>7, <1>8
  <2> QED BY ZenonT(40), <1>5, <2>1
<1>10. cat = [m \in 0 .. NMap |-> IF m = 0 THEN << >> ELSE cat[m - 1] \o input[m]]
  BY ZenonT(40), <1>9
<1>11. AllInput = cat[NMap]
  BY DEF AllInput
<1> HIDE DEF cat
<1>12. \A i \in 0 .. NMap : cat[i] = IF i = 0 THEN << >> ELSE cat[i - 1] \o input[i]
  BY ZenonT(40), <1>10
<1> DEFINE G == {i \in 0 .. NMap : cat[i] = t[i]}
<1>13. 0 \in G
  BY <1>1, <1>5, <1>12
<1>14. ASSUME NEW i \in 1 .. NMap, i - 1 \in G PROVE i \in G
  <2>1. cat[i - 1] = t[i - 1]
    BY <1>14
  <2> QED BY Zenon, <1>6, <1>7, <1>12, <2>1
<1>15. \A i \in 0 .. NMap : i \in G
  <2> HIDE DEF G
  <2> QED BY ZenonT(40), <1>1, <1>13, <1>14, Counting
<1>16. AllInput = t[NMap]
  BY <1>1, <1>11, <1>15
<1> QED BY Zenon, <1>1, <1>5, <1>7, <1>16 DEF IsAll

\* n counts what a reduce task finds, file by file.
IsFound(n, r, u) ==
  /\ n \in [0 .. NMap -> Nat] /\ n[0] = 0
  /\ \A m \in Maps : n[m] = n[m - 1] + CountIn(mid[<<m, r>>], u)

\* FoundBy is the last of these counts.
LEMMA FoundIs ==
  ASSUME NEW r, NEW u, \A m \in Maps : CountIn(mid[<<m, r>>], u) \in Nat
  PROVE  \E n : IsFound(n, r, u) /\ FoundBy(r, u) = n[NMap]
<1> DEFINE C(i) == CountIn(mid[<<i, r>>], u)
           F == [i \in 1 .. NMap |-> [x \in Nat |-> x + C(i)]]
           n[m \in 0 .. NMap] == IF m = 0 THEN 0 ELSE n[m - 1] + CountIn(mid[<<m, r>>], u)
<1>1. NMap \in Nat /\ 0 \in Nat /\ Maps = 1 .. NMap /\ \A i \in 1 .. NMap : C(i) \in Nat
  BY SizesType DEF Maps
<1>20. FoundBy(r, u) = n[NMap]
  BY DEF FoundBy
<1>21. n = CHOOSE f : f = [m \in 0 .. NMap |-> IF m = 0 THEN 0 ELSE f[m - 1] + C(m)]
  OBVIOUS
<1> HIDE DEF C, n
<1>2. F \in [1 .. NMap -> [Nat -> Nat]]
  BY <1>1
<1>3. PICK t : Runs(t, Nat, 0, F, NMap)
  <2> HIDE DEF F
  <2> QED BY ZenonT(40), <1>1, <1>2, RunExists
<1>4. \A x \in Nat, i \in 1 .. NMap : F[i][x] = x + C(i)
  OBVIOUS
<1>5. t \in [0 .. NMap -> Nat] /\ t[0] = 0
      /\ \A i \in 1 .. NMap : t[i] = F[i][t[i - 1]]
  BY <1>3 DEF Runs
<1> HIDE DEF F
<1>6. \A i \in 1 .. NMap : i \in 0 .. NMap /\ i - 1 \in 0 .. NMap /\ i # 0
  BY <1>1
<1>7. \A i \in 1 .. NMap : t[i] = t[i - 1] + C(i)
  BY Zenon, <1>4, <1>5, <1>6
<1>8. \A i \in 0 .. NMap : i = 0 \/ i \in 1 .. NMap
  BY <1>1
<1>9. t = [m \in 0 .. NMap |-> IF m = 0 THEN 0 ELSE t[m - 1] + C(m)]
  <2>1. \A i \in 0 .. NMap : t[i] = IF i = 0 THEN 0 ELSE t[i - 1] + C(i)
    BY Zenon, <1>5, <1>7, <1>8
  <2> QED BY <1>5, <2>1
<1>10. n = [m \in 0 .. NMap |-> IF m = 0 THEN 0 ELSE n[m - 1] + C(m)]
  BY ZenonT(40), <1>9, <1>21
<1>12. \A i \in 0 .. NMap : n[i] = IF i = 0 THEN 0 ELSE n[i - 1] + C(i)
  BY Zenon, <1>10
<1> DEFINE G == {i \in 0 .. NMap : n[i] = t[i]}
<1>13. 0 \in G
  BY <1>1, <1>5, <1>12
<1>14. ASSUME NEW i \in 1 .. NMap, i - 1 \in G PROVE i \in G
  <2>1. n[i - 1] = t[i - 1]
    BY <1>14
  <2> QED BY Zenon, <1>6, <1>7, <1>12, <2>1
<1>15. \A i \in 0 .. NMap : i \in G
  <2> HIDE DEF G
  <2> QED BY ZenonT(40), <1>1, <1>13, <1>14, Counting
<1>16. FoundBy(r, u) = t[NMap]
  BY <1>1, <1>20, <1>15
<1> QED BY Zenon, <1>1, <1>5, <1>7, <1>16 DEF IsFound, C

\* Each reduce task finds the URLs that hash to it, as often as they are in the
\* inputs, and no other.
LEMMA FoundExact ==
  ASSUME NEW r, NEW u, \A m \in Maps : input[m] \in Seq(Urls),
         \A m \in Maps : mid[<<m, r>>] = Bucket(input[m], r)
  PROVE  FoundBy(r, u) = IF ihash[u] % NReduce = r THEN CountIn(AllInput, u) ELSE 0
<1> DEFINE H == ihash[u] % NReduce = r
<1>1. PICK c : IsAll(c) /\ AllInput = c[NMap]
  BY AllIs
<1>2. \A m \in Maps : /\ CountIn(input[m], u) \in Nat
                      /\ CountIn(mid[<<m, r>>], u) = IF H THEN CountIn(input[m], u) ELSE 0
  <2> SUFFICES ASSUME NEW m \in Maps
               PROVE  /\ CountIn(input[m], u) \in Nat
                      /\ CountIn(mid[<<m, r>>], u) = IF H THEN CountIn(input[m], u) ELSE 0
    OBVIOUS
  <2>1. input[m] \in Seq(Urls)
    OBVIOUS
  <2>2. CountIn(Bucket(input[m], r), u) = IF H THEN CountIn(input[m], u) ELSE 0
    BY ZenonT(40), <2>1, BucketCount
  <2> QED BY Zenon, <2>1, <2>2, CountIs
<1> HIDE DEF H
<1>3. PICK n : IsFound(n, r, u) /\ FoundBy(r, u) = n[NMap]
  <2>1. \A m \in Maps : CountIn(mid[<<m, r>>], u) \in Nat
    BY <1>2
  <2> QED BY Zenon, <2>1, FoundIs
<1>4. NMap \in Nat /\ Maps = 1 .. NMap
  BY SizesType DEF Maps
<1> DEFINE G == {i \in 0 .. NMap : n[i] = IF H THEN CountIn(c[i], u) ELSE 0}
<1>5. 0 \in G
  <2>1. c[0] = << >> /\ n[0] = 0
    BY ZenonT(40), <1>1, <1>3 DEF IsAll, IsFound
  <2> QED BY <1>4, <2>1, CountNone
<1>6. ASSUME NEW i \in 1 .. NMap, i - 1 \in G PROVE i \in G
  <2>1. /\ c[i - 1] \in Seq(Urls) /\ c[i] = c[i - 1] \o input[i] /\ n[i - 1] \in Nat
        /\ n[i] = n[i - 1] + CountIn(mid[<<i, r>>], u) /\ input[i] \in Seq(Urls)
        /\ i \in 0 .. NMap
    <3>1. i - 1 \in 0 .. NMap /\ i \in Maps /\ i \in 0 .. NMap
      BY <1>4
    <3> QED BY ZenonT(40), <1>1, <1>3, <3>1 DEF IsAll, IsFound
  <2>6. CountIn(c[i - 1] \o input[i], u) = CountIn(c[i - 1], u) + CountIn(input[i], u)
    <3>1. c[i - 1] \in Seq(Urls) /\ input[i] \in Seq(Urls)
      BY ZenonT(40), <2>1
    <3> QED BY ZenonT(40), <3>1, CountConcat
  <2>2. CountIn(c[i], u) = CountIn(c[i - 1], u) + CountIn(input[i], u)
    BY ZenonT(40), <2>1, <2>6
  <2>3. n[i - 1] = IF H THEN CountIn(c[i - 1], u) ELSE 0
    BY <1>6
  <2>4. CountIn(mid[<<i, r>>], u) = IF H THEN CountIn(input[i], u) ELSE 0
    BY Zenon, <1>2, <1>4
  <2>5. n[i] = IF H THEN CountIn(c[i], u) ELSE 0
    BY <2>1, <2>2, <2>3, <2>4
  <2> QED BY ZenonT(40), <2>1, <2>5
<1>7. NMap \in G
  <2> HIDE DEF G
  <2>1. \A i \in 0 .. NMap : i \in G
    BY ZenonT(40), <1>4, <1>5, <1>6, Counting
  <2> QED BY <1>4, <2>1
<1> QED BY Zenon, <1>1, <1>3, <1>7 DEF H

\* What can be found under a name.
Files == Seq(Urls) \cup {Missing}

\* Where the program that runs the case is.
States == {"start", "next", "fill", "result", "submit", "mapping", "mapped", "dead"}

\* Types of what the proofs speak about.
MRTypes ==
  /\ dir \in BOOLEAN /\ interrupted \in BOOLEAN
  /\ input \in [Maps -> Files]
  /\ mid \in [Maps \X Reduces -> Files]
  /\ prog \in [st : States, i : 1 .. NMap + 1, run : Nat]
  /\ task \in [Maps -> {"none", "sending", "taken", "done"}]
  /\ worker \in [Workers -> [st : {"idle", "read", "create", "write", "exited"},
                             t : 0 .. NMap, data : Seq(Urls)]]
  /\ ihash \in [Urls -> 0 .. NReduce]

\* w has a task.
Busy(w) == worker[w].st \in {"read", "create", "write"}

\* A task that was taken is the work of one worker, and nobody works before the
\* inputs are there.
Assigned ==
  /\ prog.st \in {"start", "next", "fill", "result", "submit"} => \A m \in Maps : task[m] = "none"
  /\ prog.st = "fill" => prog.i \in Maps
  /\ prog.st = "mapped" => Mapped
  /\ \A w \in Workers : Busy(w) => worker[w].t \in Maps /\ task[worker[w].t] = "taken"
  /\ \A v, w \in Workers : Busy(v) /\ Busy(w) /\ worker[v].t = worker[w].t => v = w

\* What a worker has read, what it has created, and what it leaves behind.
Outputs ==
  /\ \A w \in Workers : worker[w].st \in {"create", "write"} =>
       input[worker[w].t] \in Seq(Urls) /\ worker[w].data = input[worker[w].t]
  /\ \A w \in Workers, r \in Reduces : worker[w].st = "write" => mid[<<worker[w].t, r>>] = << >>
  /\ \A m \in Maps : task[m] = "done" =>
       /\ input[m] \in Seq(Urls)
       /\ \A r \in Reduces : mid[<<m, r>>] = Bucket(input[m], r)


\* The inductive invariant of the map phase.
MRIInv == MRTypes /\ Assigned /\ Outputs

\* It holds before anything ran.
LEMMA MRInit == Init => MRIInv
<1> SUFFICES ASSUME Init PROVE MRIInv
  OBVIOUS
<1>1. MRTypes
  <2>1. Missing \in Files /\ << >> \in Seq(Urls) /\ 1 \in 1 .. NMap + 1 /\ 0 \in 0 .. NMap
    BY SizesType DEF Files
  <2>2. prog \in [st : States, i : 1 .. NMap + 1, run : Nat]
    BY <2>1 DEF Init, States
  <2>3. worker \in [Workers -> [st : {"idle", "read", "create", "write", "exited"},
                                t : 0 .. NMap, data : Seq(Urls)]]
    BY <2>1 DEF Init, Idle
  <2>4. input \in [Maps -> Files] /\ mid \in [Maps \X Reduces -> Files]
    BY Zenon, <2>1 DEF Init
  <2>5. dir \in BOOLEAN /\ interrupted \in BOOLEAN /\ ihash \in [Urls -> 0 .. NReduce]
        /\ task \in [Maps -> {"none", "sending", "taken", "done"}]
    BY ZenonT(40) DEF Init
  <2> QED BY Zenon, <2>2, <2>3, <2>4, <2>5 DEF MRTypes
<1>2. \A w \in Workers : worker[w].st = "idle"
  BY DEF Init, Idle
<1>3. \A m \in Maps : task[m] = "none"
  BY DEF Init
<1>4. prog.st = "start"
  BY DEF Init
<1> QED BY <1>1, <1>2, <1>3, <1>4 DEF MRIInv, Assigned, Outputs, Busy, Mapped

\* The generators: nobody is at work.
Generate == CaseExists \/ GenMkdir \/ GenCreate \/ GenFill \/ GenResultCreate \/ GenResult

\* A generator writes inputs while no worker has a task.
LEMMA MRGenerate == ASSUME MRIInv, Generate PROVE MRIInv'
<1>0. MRTypes /\ Assigned /\ Outputs
  BY DEF MRIInv
<1>1. /\ mid' = mid /\ task' = task /\ worker' = worker /\ ihash' = ihash
      /\ interrupted' = interrupted /\ prog.st \in {"start", "next", "fill", "result"}
  BY Zenon DEF Generate, CaseExists, GenMkdir, GenCreate, GenFill, GenResultCreate, GenResult,
     files, cluster
<1>2. /\ prog' \in [st : States, i : 1 .. NMap + 1, run : Nat]
      /\ prog'.st \in {"next", "fill", "result", "submit"} /\ dir' \in BOOLEAN
      /\ prog'.st = "fill" => prog'.i \in Maps
  <2>1. prog \in [st : States, i : 1 .. NMap + 1, run : Nat] /\ dir \in BOOLEAN
    BY <1>0 DEF MRTypes
  <2>2. CASE CaseExists
    BY <2>1, <2>2 DEF CaseExists, files, States
  <2>3. CASE GenMkdir
    BY <2>1, <2>3 DEF GenMkdir, States
  <2>4. CASE GenCreate
    BY <2>1, <2>4, SizesType DEF GenCreate, States, Maps
  <2>5. CASE GenFill
    <3>1. prog.i \in Maps
      BY <1>0, <2>5 DEF GenFill, Assigned
    <3>2. prog' = [prog EXCEPT !.st = "next", !.i = prog.i + 1] /\ dir' = dir
      BY <2>5 DEF GenFill
    <3>3. prog' = [st |-> "next", i |-> prog.i + 1, run |-> prog.run]
      BY ZenonT(40), <2>1, <3>2
    <3>4. prog.i + 1 \in 1 .. NMap + 1
      BY <3>1, SizesType DEF Maps
    <3> QED BY <2>1, <3>2, <3>3, <3>4 DEF States
  <2>6. CASE GenResultCreate
    BY <2>1, <2>6 DEF GenResultCreate, States
  <2>7. CASE GenResult
    BY <2>1, <2>7 DEF GenResult, States
  <2> QED BY Zenon, <2>2, <2>3, <2>4, <2>5, <2>6, <2>7 DEF Generate
<1>3. input' \in [Maps -> Files]
  <2>1. input \in [Maps -> Files] /\ << >> \in Files /\ Contents \subseteq Files
    BY <1>0, SizesType DEF MRTypes, Files, Contents
  <2> HIDE DEF Files
  <2> QED BY <2>1 DEF Generate, CaseExists, GenMkdir, GenCreate, GenFill, GenResultCreate, GenResult, files
<1>4. MRTypes'
  BY Zenon, <1>0, <1>1, <1>2, <1>3 DEF MRTypes
<1>5. \A m \in Maps : task[m] = "none"
  BY <1>0, <1>1 DEF Assigned
<1>6. \A w \in Workers : ~Busy(w)
  BY <1>0, <1>5 DEF Assigned
<1>7. Assigned'
  BY ZenonT(40), <1>1, <1>2, <1>5, <1>6 DEF Assigned, Busy
<1>8. Outputs'
  BY <1>1, <1>5, <1>6 DEF Outputs, Busy
<1> QED BY <1>4, <1>7, <1>8 DEF MRIInv

\* The program goes on or ends; files, tasks and workers stay.
LEMMA MRProgram ==
  ASSUME MRIInv, MapPhaseOver \/ Shutdown \/ Killed \/ UNCHANGED vars PROVE MRIInv'
<1>0. MRTypes /\ Assigned /\ Outputs
  BY DEF MRIInv
<1>1. /\ dir' = dir /\ input' = input /\ mid' = mid /\ task' = task /\ worker' = worker /\ ihash' = ihash
  BY Zenon DEF MapPhaseOver, Shutdown, Killed, files, cluster, vars
<1>2. /\ prog' \in [st : States, i : 1 .. NMap + 1, run : Nat] /\ interrupted' \in BOOLEAN
      /\ \/ prog' = prog
         \/ prog'.st = "dead"
         \/ prog'.st = "mapped" /\ Mapped
  <2>1. prog \in [st : States, i : 1 .. NMap + 1, run : Nat] /\ interrupted \in BOOLEAN
    BY <1>0 DEF MRTypes
  <2>2. CASE MapPhaseOver
    BY <2>1, <2>2 DEF MapPhaseOver, States
  <2>3. CASE Shutdown
    BY <2>1, <2>3 DEF Shutdown
  <2>4. CASE Killed
    <3>1. interrupted' \in BOOLEAN
      BY Zenon, <2>1, <2>4 DEF Killed
    <3> QED BY <2>1, <2>4, <3>1 DEF Killed, States
  <2>5. CASE UNCHANGED vars
    BY ZenonT(40), <2>1, <2>5 DEF vars
  <2> QED BY Zenon, <2>2, <2>3, <2>4, <2>5
<1>3. MRTypes'
  BY ZenonT(40), <1>0, <1>1, <1>2 DEF MRTypes
<1>4. Assigned'
  BY <1>0, <1>1, <1>2 DEF Assigned, Busy, Mapped
<1>5. Outputs'
  <2>1. \A s, r : Bucket(s, r)' = Bucket(s, r)
    BY ZenonT(40), <1>1 DEF Bucket
  <2> QED BY ZenonT(40), <1>0, <1>1, <2>1 DEF Outputs
<1> QED BY <1>3, <1>4, <1>5 DEF MRIInv

\* A rerun starts with the files it finds and idle workers.
LEMMA MRRerun == ASSUME MRIInv, Rerun PROVE MRIInv'
<1>0. MRTypes /\ Assigned /\ Outputs
  BY ZenonT(40) DEF MRIInv
<1>1. /\ dir' = dir /\ input' = input /\ mid' = mid /\ ihash' = ihash
      /\ interrupted' = interrupted /\ task' = [m \in Maps |-> "none"]
      /\ worker' = [w \in Workers |-> Idle]
      /\ prog' = [st |-> "start", i |-> 1, run |-> prog.run + 1]
  BY DEF Rerun, files
<1>2. prog' \in [st : States, i : 1 .. NMap + 1, run : Nat]
  BY <1>0, <1>1, SizesType DEF MRTypes, States
<1>3. /\ task' \in [Maps -> {"none", "sending", "taken", "done"}]
      /\ worker' \in [Workers -> [st : {"idle", "read", "create", "write", "exited"},
                                  t : 0 .. NMap, data : Seq(Urls)]]
  BY <1>1, SizesType DEF Idle
<1>4. MRTypes'
  BY ZenonT(40), <1>0, <1>1, <1>2, <1>3 DEF MRTypes
<1>5. \A w \in Workers : worker'[w].st = "idle"
  BY <1>1 DEF Idle
<1> QED BY <1>1, <1>4, <1>5 DEF MRIInv, Assigned, Outputs, Busy, Mapped

\* Tasks are handed out once.
LEMMA MRSubmit == ASSUME MRIInv, Submit PROVE MRIInv'
<1>0. MRTypes /\ Assigned /\ Outputs
  BY DEF MRIInv
<1>1. /\ dir' = dir /\ input' = input /\ mid' = mid /\ ihash' = ihash /\ worker' = worker
      /\ interrupted' = interrupted /\ task' = [m \in Maps |-> "sending"]
      /\ prog' = [prog EXCEPT !.st = "mapping"] /\ prog.st = "submit"
  BY DEF Submit, files
<1>2. prog' \in [st : States, i : 1 .. NMap + 1, run : Nat] /\ prog'.st = "mapping"
  BY ZenonT(40), <1>0, <1>1 DEF MRTypes, States
<1>3. task' \in [Maps -> {"none", "sending", "taken", "done"}]
  BY <1>1
<1>4. MRTypes'
  BY Zenon, <1>0, <1>1, <1>2, <1>3 DEF MRTypes
<1>5. \A w \in Workers : ~Busy(w)
  BY <1>0, <1>1 DEF Assigned
<1> QED BY <1>1, <1>2, <1>4, <1>5 DEF MRIInv, Assigned, Outputs, Busy, Mapped

-----------------------------------------------------------------------------
(* The workers.                                                            *)

\* A worker takes a task nobody else has.
LEMMA MRTake ==
  ASSUME MRIInv, NEW w \in Workers, NEW m \in Maps, TakeTask(w, m), Alive PROVE MRIInv'
<1> DEFINE new == [Idle EXCEPT !.st = "read", !.t = m]
<1>0. MRTypes /\ Assigned /\ Outputs
  BY DEF MRIInv
<1>1. /\ dir' = dir /\ input' = input /\ mid' = mid /\ ihash' = ihash /\ prog' = prog
      /\ interrupted' = interrupted /\ task' = [task EXCEPT ![m] = "taken"]
      /\ worker' = [worker EXCEPT ![w] = new] /\ task[m] = "sending" /\ worker[w].st = "idle"
  BY Zenon DEF TakeTask, files
<1>10. /\ new \in [st : {"idle", "read", "create", "write", "exited"}, t : 0 .. NMap, data : Seq(Urls)]
       /\ new.st = "read" /\ new.t = m
  <2>1. m \in 0 .. NMap /\ 0 \in 0 .. NMap
    BY SizesType DEF Maps
  <2>2. Idle \in [st : {"idle", "read", "create", "write", "exited"}, t : 0 .. NMap, data : Seq(Urls)]
    BY <2>1 DEF Idle
  <2> HIDE DEF Idle
  <2> QED BY ZenonT(40), <2>1, <2>2
<1> HIDE DEF new
<1>2. worker' \in [Workers -> [st : {"idle", "read", "create", "write", "exited"},
                                  t : 0 .. NMap, data : Seq(Urls)]]
  BY Zenon, <1>0, <1>1, <1>10 DEF MRTypes
<1>3. task' \in [Maps -> {"none", "sending", "taken", "done"}]
  BY <1>0, <1>1 DEF MRTypes
<1>4. MRTypes'
  BY Zenon, <1>0, <1>1, <1>2, <1>3 DEF MRTypes
<1>5. /\ worker'[w] = new /\ \A v \in Workers : v # w => worker'[v] = worker[v]
      /\ task'[m] = "taken" /\ \A n \in Maps : n # m => task'[n] = task[n]
  BY Zenon, <1>0, <1>1 DEF MRTypes
<1>6. \A v \in Workers : Busy(v) => worker[v].t # m
  BY ZenonT(40), <1>0, <1>1 DEF Assigned
<1>7. prog.st # "mapped"
  BY DEF Alive
<1>8. Assigned'
  BY <1>0, <1>1, <1>5, <1>6, <1>7, <1>10 DEF Assigned, Busy
<1>9. Outputs'
  <2>1. \A s, r : Bucket(s, r)' = Bucket(s, r)
    BY <1>1 DEF Bucket
  <2> QED BY <1>0, <1>1, <1>5, <1>10, <2>1 DEF Outputs
<1> QED BY <1>4, <1>8, <1>9 DEF MRIInv

\* A worker reads its input, or dies when it is missing.
LEMMA MRRead == ASSUME MRIInv, NEW w \in Workers, ReadInput(w) PROVE MRIInv'
<1> DEFINE m == worker[w].t
<1>0. MRTypes /\ Assigned /\ Outputs
  BY DEF MRIInv
<1>1. /\ dir' = dir /\ input' = input /\ mid' = mid /\ ihash' = ihash /\ task' = task
      /\ interrupted' = interrupted /\ worker[w].st = "read"
  BY DEF ReadInput, files
<1>2. m \in Maps /\ task[m] = "taken" /\ Busy(w) /\ input[m] \in Files
  BY ZenonT(40), <1>0, <1>1 DEF Assigned, Busy, MRTypes
<1>3. CASE input[m] = Missing
  <2>1. prog' = [prog EXCEPT !.st = "dead"] /\ worker' = worker
    BY <1>3 DEF ReadInput
  <2>2. prog' \in [st : States, i : 1 .. NMap + 1, run : Nat] /\ prog'.st = "dead"
    BY ZenonT(40), <1>0, <2>1 DEF MRTypes, States
  <2>3. MRTypes'
    BY ZenonT(40), <1>0, <1>1, <2>1, <2>2 DEF MRTypes
  <2>4. Assigned'
    BY <1>0, <1>1, <2>1, <2>2 DEF Assigned, Busy, Mapped
  <2>5. \A s, r : Bucket(s, r)' = Bucket(s, r)
    BY ZenonT(40), <1>1 DEF Bucket
  <2>6. Outputs'
    BY ZenonT(40), <1>0, <1>1, <2>1, <2>5 DEF Outputs
  <2> QED BY <2>3, <2>4, <2>6 DEF MRIInv
<1>4. CASE input[m] # Missing
  <2> DEFINE new == [worker[w] EXCEPT !.st = "create", !.data = input[m]]
  <2>1. input[m] \in Seq(Urls)
    BY <1>2, <1>4 DEF Files
  <2>2. prog' = prog /\ worker' = [worker EXCEPT ![w] = new]
    <3>1. worker \in [Workers -> [st : {"idle", "read", "create", "write", "exited"},
                                  t : 0 .. NMap, data : Seq(Urls)]]
      BY <1>0 DEF MRTypes
    <3> QED BY Zenon, <1>4, <3>1 DEF ReadInput
  <2>3. worker[w] \in [st : {"idle", "read", "create", "write", "exited"}, t : 0 .. NMap, data : Seq(Urls)]
    BY <1>0 DEF MRTypes
  <2>5. /\ new \in [st : {"idle", "read", "create", "write", "exited"}, t : 0 .. NMap, data : Seq(Urls)]
        /\ new.st = "create" /\ new.t = m /\ new.data = input[m]
    BY ZenonT(40), <2>1, <2>3
  <2>6. /\ worker'[w].st = "create" /\ worker'[w].t = m /\ worker'[w].data = input[m]
        /\ \A v \in Workers : v # w => worker'[v] = worker[v]
        /\ worker' \in [Workers -> [st : {"idle", "read", "create", "write", "exited"},
                                    t : 0 .. NMap, data : Seq(Urls)]]
    <3> HIDE DEF new, m
    <3> QED BY Zenon, <1>0, <2>2, <2>5 DEF MRTypes
  <2> HIDE DEF m
  <2>7. MRTypes'
    BY Zenon, <1>0, <1>1, <2>2, <2>6 DEF MRTypes
  <2>8. Assigned'
    <3>1. \A v \in Workers : worker'[v].t = worker[v].t /\ (Busy(v)' => Busy(v))
      BY <1>1, <2>6 DEF Busy, m
    <3>2. \A v \in Workers : Busy(v)' => worker'[v].t \in Maps /\ task'[worker'[v].t] = "taken"
      BY ZenonT(40), <1>0, <1>1, <3>1 DEF Assigned
    <3> QED BY ZenonT(40), <1>0, <1>1, <2>2, <3>1, <3>2 DEF Assigned, Mapped
  <2>9. \A s, r : Bucket(s, r)' = Bucket(s, r)
    BY <1>1 DEF Bucket
  <2>10. Outputs'
    BY ZenonT(40), <1>0, <1>1, <2>1, <2>6, <2>9 DEF Outputs
  <2> QED BY <2>7, <2>8, <2>10 DEF MRIInv
<1> QED BY <1>3, <1>4

\* A worker creates its outputs empty; nobody else has its task.
LEMMA MRCreate == ASSUME MRIInv, NEW w \in Workers, CreateOutputs(w) PROVE MRIInv'
<1> DEFINE m == worker[w].t
<1>0. MRTypes /\ Assigned /\ Outputs
  BY DEF MRIInv
<1>1. /\ dir' = dir /\ input' = input /\ prog' = prog /\ ihash' = ihash /\ task' = task
      /\ interrupted' = interrupted /\ worker[w].st = "create"
      /\ mid' = [p \in DOMAIN mid |-> IF p[1] = m THEN << >> ELSE mid[p]]
      /\ worker' = [worker EXCEPT ![w].st = "write"]
  BY DEF CreateOutputs
<1>2. m \in Maps /\ task[m] = "taken" /\ Busy(w)
  BY ZenonT(40), <1>0, <1>1 DEF Assigned, Busy
<1>3. worker[w] \in [st : {"idle", "read", "create", "write", "exited"}, t : 0 .. NMap, data : Seq(Urls)]
  BY <1>0 DEF MRTypes
<1>4. /\ worker'[w].st = "write" /\ worker'[w].t = m /\ worker'[w].data = worker[w].data
      /\ \A v \in Workers : v # w => worker'[v] = worker[v]
      /\ worker' \in [Workers -> [st : {"idle", "read", "create", "write", "exited"},
                                  t : 0 .. NMap, data : Seq(Urls)]]
  BY ZenonT(40), <1>0, <1>1, <1>3 DEF MRTypes
<1>5. /\ mid' \in [Maps \X Reduces -> Files]
      /\ \A r \in Reduces : mid'[<<m, r>>] = << >>
      /\ \A n \in Maps, r \in Reduces : n # m => mid'[<<n, r>>] = mid[<<n, r>>]
  <2>1. mid \in [Maps \X Reduces -> Files] /\ << >> \in Files
    BY <1>0 DEF MRTypes, Files
  <2> HIDE DEF Files, m
  <2>2. mid' = [p \in Maps \X Reduces |-> IF p[1] = m THEN << >> ELSE mid[p]]
    BY Zenon, <1>1, <2>1
  <2> QED BY <1>2, <2>1, <2>2
<1> HIDE DEF m
<1>7. MRTypes'
  BY Zenon, <1>0, <1>1, <1>4, <1>5 DEF MRTypes
<1>8. Assigned'
  <2>1. \A v \in Workers : worker'[v].t = worker[v].t /\ (Busy(v)' => Busy(v))
    BY <1>1, <1>2, <1>4 DEF Busy, m
  <2>2. \A v \in Workers : Busy(v)' => worker'[v].t \in Maps /\ task'[worker'[v].t] = "taken"
    BY <1>0, <1>1, <2>1 DEF Assigned
  <2> QED BY <1>0, <1>1, <2>1, <2>2 DEF Assigned, Mapped
<1>9. \A s, r : Bucket(s, r)' = Bucket(s, r)
  BY <1>1 DEF Bucket
<1>10. \A v \in Workers : Busy(v) /\ v # w => worker[v].t \in Maps /\ worker[v].t # m
  BY <1>0, <1>2 DEF Assigned, m
<1>11. \A v \in Workers : worker'[v].st \in {"create", "write"} =>
         input'[worker'[v].t] \in Seq(Urls) /\ worker'[v].data = input'[worker'[v].t]
  BY <1>0, <1>1, <1>4 DEF Outputs, m
<1>12. \A v \in Workers, r \in Reduces : worker'[v].st = "write" => mid'[<<worker'[v].t, r>>] = << >>
  <2> SUFFICES ASSUME NEW v \in Workers, NEW r \in Reduces, worker'[v].st = "write"
               PROVE  mid'[<<worker'[v].t, r>>] = << >>
    OBVIOUS
  <2>1. CASE v = w
    BY ZenonT(40), <1>4, <1>5, <2>1
  <2>2. CASE v # w
    <3>1. worker'[v] = worker[v] /\ Busy(v)
      BY ZenonT(40), <1>4, <2>2 DEF Busy
    <3>2. mid'[<<worker[v].t, r>>] = mid[<<worker[v].t, r>>]
      BY Zenon, <1>5, <1>10, <2>2, <3>1
    <3>3. mid[<<worker[v].t, r>>] = << >>
      BY ZenonT(40), <1>0, <3>1 DEF Outputs
    <3> QED BY Zenon, <3>1, <3>2, <3>3
  <2> QED BY <2>1, <2>2
<1>13. \A n \in Maps : task'[n] = "done" =>
       /\ input'[n] \in Seq(Urls)
       /\ \A r \in Reduces : mid'[<<n, r>>] = Bucket(input[n], r)
  BY <1>0, <1>1, <1>2, <1>5 DEF Outputs
<1>14. Outputs'
  BY ZenonT(40), <1>1, <1>9, <1>11, <1>12, <1>13 DEF Outputs
<1> QED BY <1>7, <1>8, <1>14 DEF MRIInv

\* A worker writes each URL to the bucket it hashes to.
LEMMA MRWrite == ASSUME MRIInv, NEW w \in Workers, WriteOutputs(w), Alive PROVE MRIInv'
<1> DEFINE m == worker[w].t
<1>0. MRTypes /\ Assigned /\ Outputs
  BY ZenonT(40) DEF MRIInv
<1>1. /\ dir' = dir /\ input' = input /\ prog' = prog /\ ihash' = ihash
      /\ interrupted' = interrupted /\ worker[w].st = "write"
      /\ mid' = [p \in DOMAIN mid |->
                   IF p[1] = m THEN mid[p] \o Bucket(worker[w].data, p[2]) ELSE mid[p]]
      /\ task' = [task EXCEPT ![m] = "done"]
      /\ worker' = [worker EXCEPT ![w] = Idle]
  BY ZenonT(40) DEF WriteOutputs
<1>2. /\ m \in Maps /\ task[m] = "taken" /\ Busy(w)
      /\ input[m] \in Seq(Urls) /\ worker[w].data = input[m]
      /\ \A r \in Reduces : mid[<<m, r>>] = << >>
  BY ZenonT(40), <1>0, <1>1 DEF Assigned, Busy, Outputs
<1>3. /\ worker'[w] = Idle
      /\ \A v \in Workers : v # w => worker'[v] = worker[v]
      /\ worker' \in [Workers -> [st : {"idle", "read", "create", "write", "exited"},
                                  t : 0 .. NMap, data : Seq(Urls)]]
  <2>1. Idle \in [st : {"idle", "read", "create", "write", "exited"}, t : 0 .. NMap, data : Seq(Urls)]
    BY SizesType DEF Idle
  <2> QED BY Zenon, <1>0, <1>1, <2>1 DEF MRTypes
<1>4. /\ task' \in [Maps -> {"none", "sending", "taken", "done"}]
      /\ task'[m] = "done" /\ \A n \in Maps : n # m => task'[n] = task[n]
  BY <1>0, <1>1, <1>2 DEF MRTypes
<1>5. \A r : Bucket(input[m], r) \in Seq(Urls) /\ << >> \o Bucket(input[m], r) = Bucket(input[m], r)
  <2>1. \A r : Bucket(input[m], r) \in Seq(Urls)
    BY Zenon, <1>2, BucketCount
  <2> QED BY <2>1
<1>6. /\ mid' \in [Maps \X Reduces -> Files]
      /\ \A r \in Reduces : mid'[<<m, r>>] = Bucket(input[m], r)
      /\ \A n \in Maps, r \in Reduces : n # m => mid'[<<n, r>>] = mid[<<n, r>>]
  <2>1. mid \in [Maps \X Reduces -> Files] /\ Seq(Urls) \subseteq Files
    BY ZenonT(40), <1>0 DEF MRTypes, Files
  <2> HIDE DEF Files, m
  <2>2. mid' = [p \in Maps \X Reduces |->
                  IF p[1] = m THEN mid[p] \o Bucket(input[m], p[2]) ELSE mid[p]]
    BY ZenonT(40), <1>1, <1>2, <2>1
  <2>3. \A n \in Maps, r \in Reduces :
          mid'[<<n, r>>] = IF n = m THEN mid[<<n, r>>] \o Bucket(input[m], r) ELSE mid[<<n, r>>]
    BY <2>2
  <2>4. \A n \in Maps, r \in Reduces :
          mid'[<<n, r>>] = IF n = m THEN Bucket(input[m], r) ELSE mid[<<n, r>>]
    BY Zenon, <1>2, <1>5, <2>3
  <2>5. \A n \in Maps, r \in Reduces : mid'[<<n, r>>] \in Files
    BY ZenonT(40), <1>5, <2>1, <2>4
  <2>6. mid' \in [Maps \X Reduces -> Files]
    <3>1. \A p \in Maps \X Reduces : p[1] \in Maps /\ p[2] \in Reduces /\ p = <<p[1], p[2]>>
      OBVIOUS
    <3>2. \A p \in Maps \X Reduces : mid'[p] \in Files
      BY ZenonT(40), <2>5, <3>1
    <3> QED BY Zenon, <2>2, <3>2
  <2> QED BY Zenon, <1>2, <2>4, <2>6
<1> HIDE DEF m
<1>7. MRTypes'
  BY ZenonT(40), <1>0, <1>1, <1>3, <1>4, <1>6 DEF MRTypes
<1>8. ~Busy(w)' /\ \A v \in Workers : v # w => worker'[v].t = worker[v].t /\ (Busy(v)' <=> Busy(v))
  BY <1>3 DEF Busy, Idle
<1>9. \A v \in Workers : Busy(v) /\ v # w => worker[v].t \in Maps /\ worker[v].t # m
                                                /\ task[worker[v].t] = "taken"
  BY ZenonT(40), <1>0, <1>2 DEF Assigned, m
<1>10. Assigned'
  <2>1. \A v \in Workers : Busy(v)' => worker'[v].t \in Maps /\ task'[worker'[v].t] = "taken"
    BY ZenonT(40), <1>4, <1>8, <1>9
  <2>2. prog.st # "mapped" /\ prog.st \notin {"start", "next", "fill", "result", "submit"}
    BY ZenonT(40), <1>0, <1>2 DEF Alive, Assigned
  <2> QED BY ZenonT(40), <1>0, <1>1, <1>8, <2>1, <2>2 DEF Assigned
<1>11. \A s, r : Bucket(s, r)' = Bucket(s, r)
  BY ZenonT(40), <1>1 DEF Bucket
<1>12. \A v \in Workers : worker'[v].st \in {"create", "write"} =>
         input'[worker'[v].t] \in Seq(Urls) /\ worker'[v].data = input'[worker'[v].t]
  BY ZenonT(40), <1>0, <1>1, <1>3 DEF Outputs, Idle
<1>13. \A v \in Workers, r \in Reduces : worker'[v].st = "write" => mid'[<<worker'[v].t, r>>] = << >>
  <2> SUFFICES ASSUME NEW v \in Workers, NEW r \in Reduces, worker'[v].st = "write"
               PROVE  mid'[<<worker'[v].t, r>>] = << >>
    OBVIOUS
  <2>1. v # w /\ worker'[v] = worker[v] /\ Busy(v)
    BY <1>3 DEF Busy, Idle
  <2>2. mid'[<<worker[v].t, r>>] = mid[<<worker[v].t, r>>]
    BY Zenon, <1>6, <1>9, <2>1
  <2>3. mid[<<worker[v].t, r>>] = << >>
    BY ZenonT(40), <1>0, <2>1 DEF Outputs
  <2> QED BY Zenon, <2>1, <2>2, <2>3
<1>14. \A n \in Maps : task'[n] = "done" =>
       /\ input'[n] \in Seq(Urls)
       /\ \A r \in Reduces : mid'[<<n, r>>] = Bucket(input[n], r)
  BY ZenonT(40), <1>0, <1>1, <1>2, <1>4, <1>6 DEF Outputs
<1>15. Outputs'
  <2>1. \A n, r : Bucket(input[n], r)' = Bucket(input[n], r)
    BY ZenonT(40), <1>1 DEF Bucket
  <2> QED BY ZenonT(40), <1>12, <1>13, <1>14, <2>1 DEF Outputs
<1> QED BY <1>7, <1>10, <1>15 DEF MRIInv

\* An idle worker leaves.
LEMMA MRExits == ASSUME MRIInv, NEW w \in Workers, WorkerExits(w) PROVE MRIInv'
<1>0. MRTypes /\ Assigned /\ Outputs
  BY DEF MRIInv
<1>1. /\ dir' = dir /\ input' = input /\ mid' = mid /\ prog' = prog /\ ihash' = ihash /\ task' = task
      /\ interrupted' = interrupted /\ worker[w].st = "idle"
      /\ worker' = [worker EXCEPT ![w].st = "exited"]
  BY DEF WorkerExits, files
<1>2. worker[w] \in [st : {"idle", "read", "create", "write", "exited"}, t : 0 .. NMap, data : Seq(Urls)]
  BY <1>0 DEF MRTypes
<1>3. /\ worker'[w].st = "exited"
      /\ \A v \in Workers : v # w => worker'[v] = worker[v]
      /\ worker' \in [Workers -> [st : {"idle", "read", "create", "write", "exited"},
                                  t : 0 .. NMap, data : Seq(Urls)]]
  BY ZenonT(40), <1>0, <1>1, <1>2 DEF MRTypes
<1>4. MRTypes'
  BY Zenon, <1>0, <1>1, <1>3 DEF MRTypes
<1>5. Assigned'
  BY <1>0, <1>1, <1>3 DEF Assigned, Busy, Mapped
<1>6. \A s, r : Bucket(s, r)' = Bucket(s, r)
  BY <1>1 DEF Bucket
<1>7. Outputs'
  BY <1>0, <1>1, <1>3, <1>6 DEF Outputs
<1> QED BY <1>4, <1>5, <1>7 DEF MRIInv

\* Every step keeps the invariant.
LEMMA MRStep == MRIInv /\ [Next]_vars => MRIInv'
BY Zenon, MRGenerate, MRProgram, MRRerun, MRSubmit, MRTake, MRRead, MRCreate, MRWrite, MRExits
   DEF Next, Generate, WorkerStep

\* For every number of map and reduce tasks, of workers and of URLs, every
\* hash function and every interruption and rerun: once all map tasks are
\* done, each reduce task finds exactly the URLs that hash to it, as often as
\* they are in the inputs.
THEOREM MapOutputStaysExact == Spec => []MapOutputExact
<1>1. Spec => []MRIInv
  BY MRInit, MRStep, PTL DEF Spec
<1>2. MRIInv => MapOutputExact
  <2> SUFFICES ASSUME MRIInv, prog.st = "mapped"
               PROVE  /\ \A p \in Maps \X Reduces : mid[p] = Bucket(input[p[1]], p[2])
                      /\ \A u \in Seen(AllInput) : \E r \in Reduces :
                           /\ FoundBy(r, u) = CountIn(AllInput, u)
                           /\ \A q \in Reduces \ {r} : FoundBy(q, u) = 0
    BY DEF MapOutputExact
  <2>1. /\ \A m \in Maps : input[m] \in Seq(Urls)
        /\ \A m \in Maps, r \in Reduces : mid[<<m, r>>] = Bucket(input[m], r)
    BY Zenon DEF MRIInv, Assigned, Mapped, Outputs
  <2>2. \A p \in Maps \X Reduces : mid[p] = Bucket(input[p[1]], p[2])
    BY <2>1
  <2>3. ASSUME NEW u \in Seen(AllInput)
        PROVE  \E r \in Reduces : /\ FoundBy(r, u) = CountIn(AllInput, u)
                                  /\ \A q \in Reduces \ {r} : FoundBy(q, u) = 0
    <3> DEFINE h == ihash[u] % NReduce
    <3>1. AllInput \in Seq(Urls)
      <4>1. PICK c : IsAll(c) /\ AllInput = c[NMap]
        BY Zenon, <2>1, AllIs
      <4>2. NMap \in 0 .. NMap
        BY SizesType
      <4> QED BY <4>1, <4>2 DEF IsAll
    <3>2. u \in Urls
      BY <3>1 DEF Seen
    <3>3. h \in Reduces
      BY <3>2, SizesType DEF MRIInv, MRTypes, Reduces
    <3>4. \A q \in Reduces : FoundBy(q, u) = IF h = q THEN CountIn(AllInput, u) ELSE 0
      BY Zenon, <2>1, FoundExact
    <3> HIDE DEF h
    <3> QED BY <3>3, <3>4
  <2> QED BY Zenon, <2>2, <2>3
<1> QED BY <1>1, <1>2, PTL

-----------------------------------------------------------------------------
(* The order of the result.                                                *)

\* Finitely many URLs are in a list.
LEMMA SeenFinite ==
  ASSUME NEW s \in Seq(Urls)
  PROVE  /\ Seen(s) \subseteq Urls /\ Seen(s) \subseteq Nat
         /\ IsFiniteSet(Seen(s)) /\ Cardinality(Seen(s)) \in Nat
<1>1. DOMAIN s = 1 .. Len(s) /\ Len(s) \in Nat /\ \A n \in 1 .. Len(s) : s[n] \in Urls
  OBVIOUS
<1>2. Seen(s) \subseteq Urls /\ Seen(s) \subseteq Nat
  BY <1>1, UrlsAreOrdered DEF Seen
<1>3. s \in Surjection(1 .. Len(s), Seen(s))
  BY <1>1 DEF Surjection, Seen
<1>4. IsFiniteSet(1 .. Len(s))
  BY <1>1, FS_Interval
<1>5. IsFiniteSet(Seen(s))
  BY ZenonT(40), <1>3, <1>4, FS_Surjection
<1> QED BY <1>2, <1>5, FS_CardinalityType

\* Better is a strict total order.
LEMMA BetterOrder ==
  ASSUME NEW s \in Seq(Urls)
  PROVE  /\ \A u \in Urls : ~Better(s, u, u)
         /\ \A u, v \in Urls : u # v => Better(s, u, v) \/ Better(s, v, u)
         /\ \A u, v, w \in Urls : Better(s, u, v) /\ Better(s, v, w) => Better(s, u, w)
<1>1. \A u \in Urls : u \in Nat /\ CountIn(s, u) \in Nat
  BY ZenonT(40), UrlsAreOrdered, CountIs
<1> QED BY <1>1 DEF Better

\* How many are better.
Rank(s, u) == Cardinality({v \in Seen(s) : Better(s, v, u)})

\* Ranks are places in the list of URLs seen.
LEMMA RankType ==
  ASSUME NEW s \in Seq(Urls), NEW u \in Seen(s)
  PROVE  /\ IsFiniteSet({v \in Seen(s) : Better(s, v, u)})
         /\ Rank(s, u) \in 0 .. Cardinality(Seen(s)) - 1
<1> DEFINE B == {v \in Seen(s) : Better(s, v, u)}
           N == Cardinality(Seen(s))
<1>1. u \in Urls /\ IsFiniteSet(Seen(s)) /\ N \in Nat
  BY SeenFinite
<1>2. B \in SUBSET Seen(s) /\ B # Seen(s)
  BY ZenonT(40), <1>1, BetterOrder
<1>3. Rank(s, u) = Cardinality(B)
  BY DEF Rank
<1> HIDE DEF B
<1>4. IsFiniteSet(B) /\ Cardinality(B) <= N /\ (N = Cardinality(B) => Seen(s) = B)
  BY <1>1, <1>2, FS_Subset
<1>5. Cardinality(B) \in Nat
  BY ZenonT(40), <1>4, FS_CardinalityType
<1>6. Cardinality(B) \in 0 .. N - 1
  BY <1>1, <1>2, <1>4, <1>5
<1> QED BY <1>3, <1>4, <1>6 DEF B

\* A better URL has a lower rank.
LEMMA RankBelow ==
  ASSUME NEW s \in Seq(Urls), NEW u \in Seen(s), NEW v \in Seen(s), Better(s, u, v)
  PROVE  Rank(s, u) < Rank(s, v)
<1> DEFINE B == {x \in Seen(s) : Better(s, x, u)}
           C == {x \in Seen(s) : Better(s, x, v)}
<1>1. Seen(s) \subseteq Urls
  BY ZenonT(40), SeenFinite
<1>2. B \in SUBSET C /\ u \in C /\ u \notin B
  BY <1>1, BetterOrder
<1>3. IsFiniteSet(B) /\ IsFiniteSet(C)
  BY ZenonT(40), RankType
<1>4. Rank(s, u) = Cardinality(B) /\ Rank(s, v) = Cardinality(C)
  BY DEF Rank
<1> HIDE DEF B, C
<1>5. Cardinality(B) <= Cardinality(C) /\ Cardinality(B) # Cardinality(C)
  BY <1>2, <1>3, FS_Subset
<1>6. Cardinality(B) \in Nat /\ Cardinality(C) \in Nat
  BY <1>3, FS_CardinalityType
<1> QED BY <1>4, <1>5, <1>6

\* Ranks tell URLs apart and keep their order.
LEMMA RankOrder ==
  ASSUME NEW s \in Seq(Urls), NEW u \in Seen(s), NEW v \in Seen(s)
  PROVE  /\ Rank(s, u) < Rank(s, v) => Better(s, u, v)
         /\ Rank(s, u) = Rank(s, v) => u = v
<1>1. Rank(s, u) \in Nat /\ Rank(s, v) \in Nat
  <2>1. Cardinality(Seen(s)) \in Nat
    BY SeenFinite
  <2>2. /\ Rank(s, u) \in 0 .. Cardinality(Seen(s)) - 1
        /\ Rank(s, v) \in 0 .. Cardinality(Seen(s)) - 1
    BY ZenonT(40), RankType
  <2> QED BY <2>1, <2>2
<1>2. u \in Urls /\ v \in Urls
  BY SeenFinite
<1>3. u = v \/ Better(s, u, v) \/ Better(s, v, u)
  BY <1>2, BetterOrder
<1>4. Better(s, v, u) => Rank(s, v) < Rank(s, u)
  BY RankBelow
<1>5. Better(s, u, v) => Rank(s, u) < Rank(s, v)
  BY RankBelow
<1> QED BY <1>1, <1>3, <1>4, <1>5

\* Every place is taken.
LEMMA RankOnto ==
  ASSUME NEW s \in Seq(Urls), NEW n \in 1 .. Cardinality(Seen(s))
  PROVE  \E u \in Seen(s) : Rank(s, u) = n - 1
<1> DEFINE N == Cardinality(Seen(s))
           T == 0 .. N - 1
           f == [u \in Seen(s) |-> Rank(s, u)]
<1>1. IsFiniteSet(Seen(s)) /\ N \in Nat
  BY SeenFinite
<1>2. IsFiniteSet(T) /\ Cardinality(T) = N
  <2> HIDE DEF N
  <2>1. 0 \in Int /\ N - 1 \in Int
    BY <1>1
  <2>2. IsFiniteSet(0 .. N - 1) /\ Cardinality(0 .. N - 1) = IF 0 > N - 1 THEN 0 ELSE (N - 1) - 0 + 1
    BY ZenonT(40), <2>1, FS_Interval
  <2> QED BY <1>1, <2>2
<1>3. f \in [Seen(s) -> T]
  BY ZenonT(40), RankType
<1>4. \A u, v \in Seen(s) : f[u] = f[v] => u = v
  BY RankOrder
<1>5. f \in Injection(Seen(s), T)
  <2> HIDE DEF f, T
  <2> QED BY ZenonT(40), <1>3, <1>4 DEF Injection, IsInjective
<1>6. f \in Surjection(Seen(s), T)
  <2> HIDE DEF f, T
  <2> QED BY <1>1, <1>2, <1>5, FS_Injection
<1>7. n - 1 \in T
  BY <1>1
<1>8. \E u \in Seen(s) : f[u] = n - 1
  <2> HIDE DEF f, T
  <2> QED BY <1>6, <1>7 DEF Surjection
<1> QED BY <1>8

\* The domain and the length of a listing.
LEMMA SeqLen ==
  ASSUME NEW S, NEW n \in Nat, NEW f \in [1 .. n -> S]
  PROVE  f \in Seq(S) /\ Len(f) = n /\ DOMAIN f = 1 .. n
OBVIOUS

\* Sorted lists every URL seen at its rank.
LEMMA SortedIs ==
  ASSUME NEW s \in Seq(Urls)
  PROVE  /\ Len(Sorted(s)) = Cardinality(Seen(s))
         /\ \A n \in 1 .. Cardinality(Seen(s)) :
              Sorted(s)[n] \in Seen(s) /\ Rank(s, Sorted(s)[n]) = n - 1
<1> DEFINE N == Cardinality(Seen(s))
<1>1. N \in Nat
  BY SeenFinite
<1>2. Sorted(s) = [n \in 1 .. N |-> CHOOSE u \in Seen(s) : Rank(s, u) = n - 1]
  BY Zenon DEF Sorted, Rank
<1>3. ASSUME NEW n \in 1 .. N
      PROVE  Sorted(s)[n] \in Seen(s) /\ Rank(s, Sorted(s)[n]) = n - 1
  <2>1. Sorted(s)[n] = CHOOSE u \in Seen(s) : Rank(s, u) = n - 1
    BY ZenonT(40), <1>2
  <2>2. \E u \in Seen(s) : Rank(s, u) = n - 1
    BY RankOnto
  <2> QED BY Zenon, <2>1, <2>2
<1> HIDE DEF N
<1>4. Sorted(s) \in [1 .. N -> Seen(s)]
  BY Zenon, <1>2, <1>3
<1>5. Len(Sorted(s)) = N
  BY ZenonT(40), <1>1, <1>4, SeqLen
<1> QED BY Zenon, <1>3, <1>5 DEF N

\* The list the generators write is the one the case asks for.
LEMMA TopIsRight ==
  ASSUME AllInput \in Seq(Urls), result = TopN(AllInput, Top)
  PROVE  result # Missing /\ ResultRight
<1> DEFINE s == AllInput
           N == Cardinality(Seen(s))
           k == IF N < Top THEN N ELSE Top
           U(i) == Sorted(s)[i]
           listed == {result[i][1] : i \in DOMAIN result}
<1>1. N \in Nat /\ Top \in Nat /\ k \in Nat /\ k <= N /\ k <= Top /\ (k = Top \/ k = N)
  BY SeenFinite, SizesType
<1>2. \A i \in 1 .. N : U(i) \in Seen(s) /\ Rank(s, U(i)) = i - 1
  BY ZenonT(40), SortedIs
<1>3. Len(Sorted(s)) = N
  BY SortedIs
<1>4. result = [i \in 1 .. k |-> <<U(i), CountIn(s, U(i))>>]
  BY Zenon, <1>3 DEF TopN
<1>5. \A u \in Seen(s) : u \in Urls /\ CountIn(s, u) \in Nat /\ Rank(s, u) \in 0 .. N - 1
  BY ZenonT(40), SeenFinite, CountIs, RankType
<1> HIDE DEF N, k, U, s
<1>6. \A i \in 1 .. k : i \in 1 .. N
  BY <1>1
<1>7. result \in [1 .. k -> Urls \X Nat]
  BY <1>2, <1>4, <1>5, <1>6
<1>8. result \in Seq(Urls \X Nat) /\ Len(result) = k /\ DOMAIN result = 1 .. k
  BY <1>1, <1>7, SeqLen
<1>9. \A i \in DOMAIN result : result[i][1] = U(i) /\ result[i][2] = CountIn(s, U(i))
  BY <1>4
<1>10. \A i \in DOMAIN result : result[i][2] = CountIn(s, result[i][1])
  BY Zenon, <1>9
<1>11. \A i, j \in DOMAIN result : i < j => Better(s, result[i][1], result[j][1])
  <2> SUFFICES ASSUME NEW i \in DOMAIN result, NEW j \in DOMAIN result, i < j
               PROVE  Better(s, result[i][1], result[j][1])
    OBVIOUS
  <2>3. i \in 1 .. k /\ j \in 1 .. k /\ result[i][1] = U(i) /\ result[j][1] = U(j)
    BY Zenon, <1>8, <1>9
  <2>1. U(i) \in Seen(s) /\ U(j) \in Seen(s) /\ Rank(s, U(i)) = i - 1 /\ Rank(s, U(j)) = j - 1
    BY ZenonT(40), <1>2, <1>6, <2>3
  <2>2. Rank(s, U(i)) < Rank(s, U(j))
    BY <2>1, <2>3
  <2>4. Better(s, U(i), U(j))
    BY ZenonT(40), <2>1, <2>2, RankOrder DEF s
  <2> QED BY ZenonT(40), <2>3, <2>4
<1>12. listed = {U(i) : i \in 1 .. k}
  BY ZenonT(40), <1>8, <1>9
<1> HIDE DEF listed
<1>13. ASSUME NEW u \in Seen(s) PROVE u \in listed <=> Rank(s, u) < k
  <2>1. Rank(s, u) + 1 \in 1 .. N /\ Rank(s, u) \in Nat
    BY <1>1, <1>5
  <2>2. U(Rank(s, u) + 1) = u
    <3>1. /\ U(Rank(s, u) + 1) \in Seen(s)
          /\ Rank(s, U(Rank(s, u) + 1)) = Rank(s, u)
      BY <1>2, <2>1
    <3> QED BY <3>1, RankOrder DEF s
  <2>3. ASSUME Rank(s, u) < k PROVE u \in listed
    <3>1. Rank(s, u) + 1 \in 1 .. k
      BY <1>1, <2>1, <2>3
    <3> QED BY ZenonT(40), <1>12, <2>2, <3>1
  <2>4. ASSUME u \in listed PROVE Rank(s, u) < k
    <3>1. PICK i \in 1 .. k : u = U(i)
      BY ZenonT(40), <1>12, <2>4
    <3>2. Rank(s, u) = i - 1
      BY <1>2, <1>6, <3>1
    <3> QED BY <1>1, <3>2
  <2> QED BY <2>3, <2>4
<1>14. listed \subseteq Seen(s)
  BY ZenonT(40), <1>2, <1>6, <1>12
<1>15. Len(result) = Top \/ listed = Seen(s)
  <2>1. ASSUME k = N PROVE listed = Seen(s)
    <3>1. \A u \in Seen(s) : Rank(s, u) < k
      BY <1>1, <1>5, <2>1
    <3>2. \A u \in Seen(s) : u \in listed
      BY ZenonT(40), <1>13, <3>1
    <3> QED BY Zenon, <1>14, <3>2
  <2> QED BY ZenonT(40), <1>1, <1>8, <2>1
<1>16. \A u \in Seen(s) \ listed, v \in listed : Better(s, v, u)
  <2> SUFFICES ASSUME NEW u \in Seen(s) \ listed, NEW v \in listed PROVE Better(s, v, u)
    OBVIOUS
  <2>1. v \in Seen(s) /\ Rank(s, v) < k /\ ~(Rank(s, u) < k)
    BY ZenonT(40), <1>13, <1>14
  <2>2. Rank(s, v) < Rank(s, u)
    BY <1>1, <1>5, <2>1
  <2> QED BY <2>1, <2>2, RankOrder DEF s
<1>17. result # Missing
  BY ZenonT(40), <1>8, MissingIsNoFile
<1>18. Len(result) <= Top
  BY ZenonT(40), <1>1, <1>8
<1> QED BY ZenonT(40), <1>10, <1>11, <1>15, <1>16, <1>17, <1>18 DEF ResultRight, s, listed

-----------------------------------------------------------------------------
(* The generators.                                                         *)
Filled(n) == \A m \in Maps : m < n => input[m] \in Contents

\* How far a generator has come, and what it leaves behind.
Generated ==
  /\ prog.st = "start" => prog.i = 1
  /\ prog.st \in {"next", "fill"} => dir /\ Filled(prog.i)
  /\ prog.st = "result" => dir /\ Filled(NMap + 1)
  /\ prog.st \in {"submit", "mapping", "mapped"} => dir
  /\ prog.st \notin {"next", "fill", "result"} /\ dir =>
       interrupted \/ (Filled(NMap + 1) /\ result = TopN(AllInput, Top))

\* Complete inputs make a list of URLs.
LEMMA FilledIsAll ==
  ASSUME Filled(NMap + 1)
  PROVE  /\ \A m \in Maps : input[m] \in Contents
         /\ AllInput \in Seq(Urls)
<1>1. \A m \in Maps : input[m] \in Contents
  BY SizesType DEF Filled, Maps
<1>2. Contents \subseteq Seq(Urls)
  BY SizesType DEF Contents
<1>3. \A m \in Maps : input[m] \in Seq(Urls)
  BY Zenon, <1>1, <1>2
<1>4. PICK c : IsAll(c) /\ AllInput = c[NMap]
  BY ZenonT(40), <1>3, AllIs
<1>5. NMap \in 0 .. NMap
  BY SizesType
<1> QED BY <1>1, <1>4, <1>5 DEF IsAll

\* Steps that leave the case alone.
LEMMA CaseKept ==
  ASSUME Generated, UNCHANGED <<dir, input, result>>, interrupted => interrupted',
         \/ prog' = prog
         \/ prog'.st = "dead" /\ (prog.st \in {"next", "fill", "result"} => interrupted')
         \/ prog'.st = "start" /\ prog'.i = 1 /\ prog.st \in {"mapped", "dead"}
         \/ prog'.st = "submit" /\ prog.st = "start" /\ dir
         \/ prog'.st \in {"mapping", "mapped"} /\ prog.st \in {"submit", "mapping"}
  PROVE  Generated'
<1>1. AllInput' = AllInput
  BY ZenonT(40) DEF AllInput
<1>2. TopN(AllInput, Top)' = TopN(AllInput, Top)
  BY <1>1
<1>3. \A n : Filled(n)' = Filled(n)
  BY DEF Filled
<1> QED BY <1>2, <1>3 DEF Generated, Filled

\* Nothing is generated at first.
LEMMA GeneratedInit == Init => Generated
BY DEF Init, Generated

\* Every step keeps Generated.
LEMMA GeneratedStep == ASSUME MRTypes, Assigned, Generated, [Next]_vars PROVE Generated'
<1>0. prog \in [st : States, i : 1 .. NMap + 1, run : Nat] /\ input \in [Maps -> Files]
  BY DEF MRTypes
<1>1. CASE GenMkdir
  <2>1. prog'.st = "next" /\ prog'.i = 1 /\ dir'
    BY ZenonT(40), <1>0, <1>1 DEF GenMkdir, Generated
  <2>2. Filled(prog.i)'
    BY <2>1 DEF Filled, Maps
  <2> QED BY ZenonT(40), <2>1, <2>2 DEF Generated
<1>2. CASE GenCreate
  <2>1. /\ prog'.st = "fill" /\ prog'.i = prog.i /\ dir' = dir /\ prog.st = "next"
        /\ input' = [input EXCEPT ![prog.i] = << >>]
    BY ZenonT(40), <1>0, <1>2 DEF GenCreate
  <2>2. dir' /\ Filled(prog.i)'
    BY <1>0, <2>1 DEF Generated, Filled, Maps
  <2> QED BY ZenonT(40), <2>1, <2>2 DEF Generated
<1>3. CASE GenFill
  <2>1. PICK c \in Contents : input' = [input EXCEPT ![prog.i] = c]
    BY ZenonT(40), <1>3 DEF GenFill
  <2>2. /\ prog'.st = "next" /\ prog'.i = prog.i + 1 /\ dir' = dir /\ prog.st = "fill"
        /\ prog.i \in Nat
    BY <1>0, <1>3 DEF GenFill
  <2>3. dir' /\ Filled(prog.i)'
    BY <1>0, <2>1, <2>2 DEF Generated, Filled, Maps
  <2> QED BY ZenonT(40), <2>2, <2>3 DEF Generated
<1>4. CASE GenResultCreate
  <2>1. /\ prog'.st = "result" /\ dir' = dir /\ prog.st = "next"
        /\ input' = input /\ prog.i = NMap + 1
    BY <1>0, <1>4, SizesType DEF GenResultCreate
  <2>2. dir' /\ Filled(NMap + 1)'
    BY ZenonT(40), <2>1 DEF Generated, Filled
  <2> QED BY <2>1, <2>2 DEF Generated
<1>5. CASE GenResult
  <2>1. /\ prog'.st = "submit" /\ dir' = dir /\ prog.st = "result"
        /\ input' = input /\ result' = TopN(AllInput, Top)
    BY <1>0, <1>5 DEF GenResult
  <2>2. dir' /\ Filled(NMap + 1)'
    BY <2>1 DEF Generated, Filled
  <2>3. AllInput' = AllInput
    BY ZenonT(40), <2>1 DEF AllInput
  <2>4. TopN(AllInput, Top)' = TopN(AllInput, Top)
    BY <2>3 DEF TopN, Sorted, Seen, Better, CountIn
  <2> QED BY <2>1, <2>2, <2>4 DEF Generated
<1>6. CASE CaseExists
  <2>1. UNCHANGED <<dir, input, result, interrupted>> /\ prog'.st = "submit" /\ prog.st = "start" /\ dir
    BY <1>0, <1>6 DEF CaseExists, files
  <2> QED BY ZenonT(40), <2>1, CaseKept
<1>7. CASE Submit \/ MapPhaseOver
  <2>1. /\ UNCHANGED <<dir, input, result, interrupted>> /\ prog'.st \in {"mapping", "mapped"}
        /\ prog.st \in {"submit", "mapping"}
    BY ZenonT(40), <1>0, <1>7 DEF Submit, MapPhaseOver, files
  <2> QED BY Zenon, <2>1, CaseKept
<1>8. CASE Shutdown \/ UNCHANGED vars
  <2>1. UNCHANGED <<dir, input, result, interrupted, prog>>
    BY Zenon, <1>8 DEF Shutdown, vars, files
  <2> QED BY Zenon, <2>1, CaseKept
<1>9. CASE Killed
  <2>1. /\ UNCHANGED <<dir, input, result>> /\ prog'.st = "dead"
        /\ (interrupted => interrupted') /\ (prog.st \in {"next", "fill", "result"} => interrupted')
    BY ZenonT(40), <1>0, <1>9 DEF Killed, files
  <2> QED BY ZenonT(40), <2>1, CaseKept
<1>10. CASE Rerun
  <2>1. /\ UNCHANGED <<dir, input, result, interrupted>> /\ prog'.st = "start" /\ prog'.i = 1
        /\ prog.st \in {"mapped", "dead"}
    BY <1>10 DEF Rerun, files, Alive
  <2> QED BY Zenon, <2>1, CaseKept
<1>11. ASSUME NEW w \in Workers, WorkerStep(w), Alive PROVE Generated'
  <2>1. UNCHANGED <<dir, input, result, interrupted>>
    BY ZenonT(40), <1>11 DEF WorkerStep, ReadInput, CreateOutputs, WriteOutputs, WorkerExits, TakeTask, files
  <2>2. prog' = prog \/ (prog'.st = "dead" /\ worker[w].st = "read")
    BY ZenonT(40), <1>0, <1>11 DEF WorkerStep, ReadInput, CreateOutputs, WriteOutputs, WorkerExits, TakeTask
  <2>3. worker[w].st = "read" => prog.st \notin {"next", "fill", "result"}
    BY DEF Assigned, Busy
  <2> QED BY Zenon, <2>1, <2>2, <2>3, CaseKept
<1> QED BY ZenonT(40), <1>1, <1>2, <1>3, <1>4, <1>5, <1>6, <1>7, <1>8, <1>9, <1>10, <1>11 DEF Next

\* For every number of files and URLs: a case directory that exists, and whose
\* generator was not interrupted, has all its inputs and the right result: the
\* Top most frequent URLs, most frequent first and equally frequent ones in
\* order of the URL.
THEOREM CaseStaysComplete == Spec => []CaseComplete
<1>1. Init => MRIInv /\ Generated
  BY MRInit, GeneratedInit
<1>2. MRIInv /\ Generated /\ [Next]_vars => (MRIInv /\ Generated)'
  BY MRStep, GeneratedStep DEF MRIInv
<1>3. Generated => CaseComplete
  <2> SUFFICES ASSUME Generated, prog.st \in {"mapping", "mapped"}, ~interrupted
               PROVE  (\A m \in Maps : input[m] \in Contents) /\ result # Missing /\ ResultRight
    BY DEF CaseComplete
  <2>1. Filled(NMap + 1) /\ result = TopN(AllInput, Top)
    BY DEF Generated
  <2> QED BY <2>1, FilledIsAll, TopIsRight
<1> QED BY <1>1, <1>2, <1>3, PTL DEF Spec
=============================================================================
