-------------------------- MODULE KvLogBytesProofs --------------------------
(***************************************************************************)
(* The counter that decides about a compaction is exact when no I/O call   *)
(* fails, for every set of keys and values, every length of a command and  *)
(* every bound.                                                            *)
(***************************************************************************)
EXTENDS KvLogProofs, FiniteSetTheorems

\* Every set of naturals that is not empty has a least element.
LEMMA NatLeast ==
  ASSUME NEW S, S \subseteq Nat, S # {} PROVE \E m \in S : \A n \in S : m <= n
<1>1. PICK m \in S : \A n \in S : ~(<<n, m>> \in OpToRel(<, Nat))
  BY NatLessThanWellFounded, WFMin
<1>2. \A n \in S : ~(n < m)
  BY ZenonT(40), <1>1 DEF OpToRel
<1> QED
  BY <1>2

-----------------------------------------------------------------------------
(* Sums.                                                                   *)

\* s is the sequence of partial sums of f.
IsSum(s, f, n) == s \in [0 .. n -> Int] /\ s[0] = 0 /\ \A i \in 1 .. n : s[i] = s[i - 1] + f[i]

\* Every finite list of numbers has partial sums.
LEMMA SumExists ==
  ASSUME NEW n \in Nat, NEW f \in [1 .. n -> Int]
  PROVE  \E s : IsSum(s, f, n)
<1> DEFINE None == {m \in 0 .. n : ~\E s : IsSum(s, f, m)}
<1>1. ASSUME None # {}
      PROVE  FALSE
    <2>1. PICK m \in None : \A i \in None : m <= i
        <3>1. None \subseteq Nat
            OBVIOUS
        <3> HIDE DEF None
        <3> QED BY Zenon, <1>1, <3>1, NatLeast
    <2>2. CASE m = 0
        <3>1. IsSum([i \in 0 .. 0 |-> 0], f, 0)
            BY DEF IsSum
        <3> QED BY ZenonT(40), <2>1, <2>2, <3>1
    <2>3. CASE m # 0
        <3>1. m - 1 \in 0 .. n /\ m - 1 \notin None /\ m \in 1 .. n
            BY <2>1, <2>3
        <3>2. PICK s : IsSum(s, f, m - 1)
            BY <3>1
        <3> DEFINE t == [i \in 0 .. m |-> IF i = m THEN s[m - 1] + f[m] ELSE s[i]]
        <3>3. IsSum(t, f, m)
            <4>1. s \in [0 .. m - 1 -> Int] /\ f[m] \in Int
                BY ZenonT(40), <3>1, <3>2 DEF IsSum
            <4>2. t \in [0 .. m -> Int] /\ t[0] = 0
                BY <3>1, <3>2, <4>1 DEF IsSum
            <4>3. ASSUME NEW i \in 1 .. m
                  PROVE  t[i] = t[i - 1] + f[i]
                <5>1. CASE i = m
                    BY <3>1, <5>1
                <5>2. CASE i # m
                    <6>1. i \in 1 .. m - 1 /\ i - 1 \in 0 .. m - 1
                        BY <3>1, <5>2
                    <6>2. t[i] = s[i] /\ t[i - 1] = s[i - 1]
                        BY <3>1, <6>1
                    <6> QED BY ZenonT(40), <3>2, <6>1, <6>2 DEF IsSum
                <5> QED BY ZenonT(40), <5>1, <5>2
            <4> QED BY ZenonT(40), <4>2, <4>3 DEF IsSum
        <3> QED BY ZenonT(40), <2>1, <3>3
    <2> QED BY ZenonT(40), <2>2, <2>3
<1>2. n \notin None
    BY ZenonT(40), <1>1
<1> QED BY <1>2

\* SumTo is the last of the partial sums.
LEMMA SumIs ==
  ASSUME NEW n \in Nat, NEW f, NEW t, IsSum(t, f, n)
  PROVE  SumTo(f, n) = t[n]
<1> DEFINE s[i \in 0 .. n] == IF i = 0 THEN 0 ELSE s[i - 1] + f[i]
<1>1. t = [i \in 0 .. n |-> IF i = 0 THEN 0 ELSE t[i - 1] + f[i]]
    <2>1. t \in [0 .. n -> Int] /\ \A i \in 0 .. n : t[i] = IF i = 0 THEN 0 ELSE t[i - 1] + f[i]
        BY DEF IsSum
    <2> QED BY <2>1
<1>2. s = [i \in 0 .. n |-> IF i = 0 THEN 0 ELSE s[i - 1] + f[i]]
    BY ZenonT(40), <1>1
<1>3. SumTo(f, n) = s[n]
    BY DEF SumTo
<1> HIDE DEF s
<1> DEFINE Differ == {i \in 0 .. n : s[i] # t[i]}
<1>4. ASSUME Differ # {}
      PROVE  FALSE
    <2>1. PICK m \in Differ : \A i \in Differ : m <= i
        <3>1. Differ \subseteq Nat
            OBVIOUS
        <3> HIDE DEF Differ
        <3> QED BY ZenonT(40), <1>4, <3>1, NatLeast
    <2>2. s[m] = IF m = 0 THEN 0 ELSE s[m - 1] + f[m]
        BY <1>2
    <2>3. m # 0 => s[m - 1] = t[m - 1]
        BY <2>1
    <2> QED BY <1>1, <2>1, <2>2, <2>3 DEF IsSum
<1> QED BY <1>3, <1>4

\* A sum of integers is one.
LEMMA SumTypes ==
  ASSUME NEW n \in Nat, NEW f \in [1 .. n -> Int]
  PROVE  SumTo(f, n) \in Int
<1>1. PICK t : IsSum(t, f, n)
    BY ZenonT(40), SumExists
<1>2. SumTo(f, n) = t[n]
    BY ZenonT(40), <1>1, SumIs
<1>3. n \in 0 .. n
    OBVIOUS
<1> QED BY ZenonT(40), <1>1, <1>2, <1>3 DEF IsSum

\* One more number.
LEMMA SumNext ==
  ASSUME NEW n \in Nat, NEW f \in [1 .. n -> Int], NEW g \in [1 .. n + 1 -> Int],
         \A i \in 1 .. n : g[i] = f[i]
  PROVE  SumTo(g, n + 1) = SumTo(f, n) + g[n + 1]
<1>1. PICK t : IsSum(t, g, n + 1)
    BY SumExists
<1>2. IsSum([i \in 0 .. n |-> t[i]], f, n)
    BY <1>1 DEF IsSum
<1>3. SumTo(f, n) = [i \in 0 .. n |-> t[i]][n] /\ SumTo(g, n + 1) = t[n + 1]
    BY <1>1, <1>2, SumIs
<1> QED BY <1>1, <1>3 DEF IsSum

\* A number that changes.
LEMMA SumPoint ==
  ASSUME NEW n \in Nat, NEW f \in [1 .. n -> Int], NEW g \in [1 .. n -> Int],
         NEW k \in 1 .. n, NEW d \in Int, \A i \in 1 .. n : g[i] = IF i = k THEN f[i] + d ELSE f[i]
  PROVE  SumTo(g, n) = SumTo(f, n) + d
<1>1. PICK t : IsSum(t, f, n)
    BY ZenonT(40), SumExists
<1> DEFINE u == [i \in 0 .. n |-> IF i < k THEN t[i] ELSE t[i] + d]
<1>2. IsSum(u, g, n)
    <2>1. u \in [0 .. n -> Int] /\ u[0] = 0
        BY <1>1 DEF IsSum
    <2>2. ASSUME NEW i \in 1 .. n
          PROVE  u[i] = u[i - 1] + g[i]
        <3>1. t[i] = t[i - 1] + f[i] /\ t[i] \in Int /\ t[i - 1] \in Int /\ f[i] \in Int
            BY <1>1 DEF IsSum
        <3>2. /\ u[i] = IF i < k THEN t[i] ELSE t[i] + d
              /\ u[i - 1] = IF i - 1 < k THEN t[i - 1] ELSE t[i - 1] + d
            OBVIOUS
        <3> HIDE DEF u
        <3> QED BY <3>1, <3>2
    <2> QED BY ZenonT(40), <2>1, <2>2 DEF IsSum
<1>3. SumTo(g, n) = u[n] /\ SumTo(f, n) = t[n] /\ u[n] = t[n] + d
    BY <1>1, <1>2, SumIs
<1> QED BY <1>3

\* Nothing to add up.
LEMMA SumZero ==
  ASSUME NEW n \in Nat, NEW f, \A i \in 1 .. n : f[i] = 0
  PROVE  SumTo(f, n) = 0
<1>1. IsSum([i \in 0 .. n |-> 0], f, n)
    BY DEF IsSum
<1> QED BY <1>1, SumIs

-----------------------------------------------------------------------------
(* The counter of stale bytes.                                             *)


\* Bytes are counted in integers.
LEMMA BytesType ==
  ASSUME NEW s, NEW n \in Nat PROVE BytesOf(s, n) \in Int
<1>1. [i \in 1..n |-> CmdLen(s[i])] \in [1..n -> Int]
  BY ConstantsAssumption DEF CmdLen
<1> QED BY <1>1, SumTypes DEF BytesOf

\* No command has no bytes.
LEMMA BytesNone == ASSUME NEW s PROVE BytesOf(s, 0) = 0
BY SumZero DEF BytesOf

\* One more command.
LEMMA BytesNext ==
  ASSUME NEW s, NEW t, NEW n \in Nat, \A i \in 1..n : t[i] = s[i]
  PROVE  BytesOf(t, n + 1) = BytesOf(s, n) + CmdLen(t[n + 1])
<1> DEFINE f == [i \in 1..n |-> CmdLen(s[i])]
           g == [i \in 1..(n + 1) |-> CmdLen(t[i])]
<1>1. f \in [1..n -> Int] /\ g \in [1..(n + 1) -> Int]
  BY ConstantsAssumption DEF CmdLen
<1>2. /\ \A i \in 1..n : g[i] = f[i]
      /\ g[n + 1] = CmdLen(t[n + 1])
  OBVIOUS
<1>3. BytesOf(s, n) = SumTo(f, n) /\ BytesOf(t, n + 1) = SumTo(g, n + 1)
  BY ZenonT(40) DEF BytesOf
<1> HIDE DEF f, g
<1> QED BY ZenonT(40), <1>1, <1>2, <1>3, SumNext

\* So are the bytes of a file.
LEMMA FileType ==
  ASSUME TypeInv, NEW g \in Gens
  PROVE  Len(log[g]) \in Nat /\ FileBytes(g) \in Int
<1>1. Len(log[g]) \in Nat
  BY DEF TypeInv, TypeOK
<1> QED BY ZenonT(40), <1>1, BytesType DEF FileBytes

\* A file grows by what is appended to it; the others keep their bytes.
LEMMA FileGrows ==
  ASSUME TypeInv, NEW g \in Gens, NEW c \in Record,
         log' = [log EXCEPT ![g] = Append(@, c)]
  PROVE  /\ FileBytes(g)' = FileBytes(g) + CmdLen(c)
         /\ \A h \in Gens : h # g => FileBytes(h)' = FileBytes(h)
<1>1. /\ Len(log'[g]) = Len(log[g]) + 1
      /\ log'[g][Len(log[g]) + 1] = c
      /\ \A h \in Gens : h # g => log'[h] = log[h]
      /\ \A i \in 1..Len(log[g]) : log'[g][i] = log[g][i]
  BY ZenonT(40), AppendKeeps
<1>2. Len(log[g]) \in Nat
  BY FileType
<1>3. BytesOf(log'[g], Len(log[g]) + 1)
        = BytesOf(log[g], Len(log[g])) + CmdLen(log'[g][Len(log[g]) + 1])
  <2> DEFINE s == log[g]
             t == log'[g]
             n == Len(log[g])
  <2>1. n \in Nat /\ \A i \in 1..n : t[i] = s[i]
    BY <1>1, <1>2
  <2> HIDE DEF s, t, n
  <2>2. BytesOf(t, n + 1) = BytesOf(s, n) + CmdLen(t[n + 1])
    BY <2>1, BytesNext
  <2> QED BY ZenonT(40), <2>2 DEF s, t, n
<1> QED BY ZenonT(40), <1>1, <1>3 DEF FileBytes

\* The directory grows by what is appended to one of its files.
LEMMA DiskGrows ==
  ASSUME TypeInv, NEW g \in gens, NEW c \in Record,
         log' = [log EXCEPT ![g] = Append(@, c)], gens' = gens
  PROVE  DiskBytes' = DiskBytes + CmdLen(c)
<1> DEFINE F == [h \in Gens |-> IF h \in gens THEN FileBytes(h) ELSE 0]
           G == [h \in Gens |-> IF h \in gens THEN FileBytes(h)' ELSE 0]
<1>0. g \in Gens /\ gens \subseteq Gens /\ MaxGen \in Nat /\ CmdLen(c) \in Int
  BY ConstantsAssumption DEF TypeInv, TypeOK, CmdLen
<1>1. F \in [Gens -> Int]
  BY FileType
<1>2. \A h \in Gens : FileBytes(h)' = IF h = g THEN FileBytes(h) + CmdLen(c) ELSE FileBytes(h)
  BY ZenonT(40), <1>0, FileGrows
<1>3. \A h \in Gens : G[h] = IF h = g THEN F[h] + CmdLen(c) ELSE F[h]
  BY <1>2
<1>4. G \in [Gens -> Int]
  BY <1>0, <1>2, FileType
<1>5. DiskBytes = SumTo(F, MaxGen) /\ DiskBytes' = SumTo(G, MaxGen)
  BY DEF DiskBytes
<1> HIDE DEF F, G
<1> QED BY ZenonT(40), <1>0, <1>1, <1>3, <1>4, <1>5, SumPoint DEF Gens

\* A product with one factor more.
LEMMA Times ==
  ASSUME NEW a \in Nat, NEW n \in Nat
  PROVE  a * n \in Nat /\ a * (n + 1) = a * n + a /\ a * 0 = 0
OBVIOUS

\* The bytes in use are a natural number.
LEMMA LiveType ==
  ASSUME IsFiniteSet(LiveKeys) PROVE LiveBytes \in Nat
BY FS_CardinalityType, ConstantsAssumption, Times DEF LiveBytes

\* An entry that comes or goes counts for one command.
LEMMA LiveMoves ==
  ASSUME TypeInv, IsFiniteSet(LiveKeys), NEW c \in Command, NEW p \in CommandPos, p # NoPos,
         index' = [index EXCEPT ![c.key] = IF c.op = "set" THEN p ELSE NoPos],
         uncompacted' = uncompacted + OldLen(c.key) + OwnLen(c)
  PROVE  /\ IsFiniteSet(LiveKeys)'
         /\ uncompacted' + LiveBytes' = uncompacted + LiveBytes + CmdLen(c)
<1> DEFINE k == c.key
<1>0. /\ k \in Keys /\ c.op \in {"set", "remove"} /\ index \in [Keys -> CommandPos]
      /\ uncompacted \in Nat /\ SetLen \in Nat /\ RemoveLen \in Nat
  BY ConstantsAssumption DEF Command, TypeInv, TypeOK
<1>1. LiveKeys' = IF c.op = "set" THEN LiveKeys \cup {k} ELSE LiveKeys \ {k}
  BY ZenonT(40), <1>0 DEF LiveKeys
<1>2. k \in LiveKeys <=> index[k] # NoPos
  BY <1>0 DEF LiveKeys
<1>3. Cardinality(LiveKeys) \in Nat
  BY ZenonT(40), FS_CardinalityType
<1>4. /\ IsFiniteSet(LiveKeys \cup {k})
      /\ Cardinality(LiveKeys \cup {k}) =
           IF k \in LiveKeys THEN Cardinality(LiveKeys) ELSE Cardinality(LiveKeys) + 1
  BY ZenonT(40), FS_AddElement
<1>5. /\ IsFiniteSet(LiveKeys \ {k})
      /\ Cardinality(LiveKeys \ {k}) =
           IF k \in LiveKeys THEN Cardinality(LiveKeys) - 1 ELSE Cardinality(LiveKeys)
  BY FS_RemoveElement
<1>6. Cardinality(LiveKeys \ {k}) \in Nat
  BY ZenonT(40), <1>5, FS_CardinalityType
<1>7. CASE c.op = "set"
  <2>1. LiveBytes' = SetLen * Cardinality(LiveKeys \cup {k})
    BY ZenonT(40), <1>1, <1>7 DEF LiveBytes
  <2>2. LiveBytes' = LiveBytes + SetLen - OldLen(k)
    BY <1>0, <1>2, <1>3, <1>4, <2>1, Times DEF LiveBytes, OldLen
  <2> QED
    BY <1>0, <1>1, <1>4, <1>7, <2>2, LiveType DEF OwnLen, CmdLen, OldLen
<1>8. CASE c.op = "remove"
  <2>1. LiveBytes' = SetLen * Cardinality(LiveKeys \ {k})
    BY ZenonT(40), <1>1, <1>8 DEF LiveBytes
  <2>2. LiveBytes' = LiveBytes - OldLen(k)
    BY <1>0, <1>2, <1>3, <1>5, <1>6, <2>1, Times DEF LiveBytes, OldLen
  <2> QED
    BY <1>0, <1>1, <1>5, <1>8, <2>2, LiveType DEF OwnLen, CmdLen, OldLen
<1> QED BY ZenonT(40), <1>0, <1>7, <1>8

-----------------------------------------------------------------------------
(* Loading.                                                                *)

\* What load has counted so far is a natural number.
LEMMA LoadedType ==
  ASSUME TypeInv, CursorInv, mode = "load", NEW g \in Gens
  PROVE  LoadedBytes(g) \in Int
<1>1. g = cursor.gen => cursor.pos - 1 \in Nat
  BY DEF TypeInv, TypeOK, CommandPos, CursorInv, Gens
<1> QED BY <1>1, FileType, BytesType DEF LoadedBytes

\* open starts to count with nothing.
LEMMA BalancedOpenStart ==
  ASSUME BufferIInv, BufferIInv', Balanced, OpenStart PROVE Balanced'
<1>1. /\ mode = "down" /\ mode' = "load" /\ pc' = "idle" /\ index' = index
      /\ uncompacted' = 0 /\ cursor' = NoPos
  BY ZenonT(40) DEF OpenStart, memVars, callVars, Balanced, BufferIInv, IndexIInv, TypeInv, GenBounds
<1>2. LiveKeys = {} /\ LiveKeys' = {}
  BY ZenonT(40), <1>1 DEF BufferIInv, IndexIInv, ClosedInv, LiveKeys
<1>3. LiveBytes' = 0
  BY ZenonT(40), <1>2, FS_EmptySet, ConstantsAssumption, Times DEF LiveBytes
<1>4. \A g \in Gens : LoadedBytes(g)' = 0
  BY <1>1 DEF LoadedBytes, NoPos, Gens
<1>5. SumTo([g \in Gens |-> LoadedBytes(g)'], MaxGen) = 0
  BY ZenonT(40), <1>4, SumZero, ConstantsAssumption DEF Gens
<1> QED BY <1>1, <1>2, <1>3, <1>5, FS_EmptySet DEF Balanced

\* load goes on to the next file.
LEMMA BalancedNextFile ==
  ASSUME BufferIInv, BufferIInv', Balanced, NEW f \in gens, LoadNextFile(f) PROVE Balanced'
<1>0. TypeInv /\ CursorInv /\ TypeInv'
  BY ZenonT(40) DEF BufferIInv, IndexIInv
<1>1. /\ mode = "load" /\ mode' = "load" /\ pc' = "idle" /\ index' = index /\ log' = log
      /\ uncompacted' = uncompacted /\ cursor' = [gen |-> f, pos |-> 1] /\ gens' = gens
      /\ f \in Gens /\ gens \subseteq Gens /\ cursor.gen \in Nat /\ cursor.pos \in Nat
  BY <1>0 DEF LoadNextFile, memVars, callVars, diskVars, TypeInv, TypeOK, GenBounds, CommandPos
<1>2. LiveKeys' = LiveKeys /\ LiveBytes' = LiveBytes
  BY <1>1 DEF LiveKeys, LiveBytes
<1>3. ASSUME NEW g \in Gens PROVE LoadedBytes(g)' = LoadedBytes(g)
  <2>1. FileBytes(g)' = FileBytes(g)
    BY ZenonT(40), <1>1 DEF FileBytes
  <2>2. g \in gens /\ g < f => g <= cursor.gen
    BY <1>1 DEF LoadNextFile, Following, Gens
  <2>3. f > cursor.gen
    BY ZenonT(40) DEF LoadNextFile, Following
  <2>4. g = cursor.gen => cursor.pos - 1 = Len(log[g])
    BY <1>0, <1>1, FileType DEF LoadNextFile, AtEndOfFile, CursorInv, Gens
  <2>5. g = cursor.gen /\ g \in gens => LoadedBytes(g) = FileBytes(g)
    BY <1>1, <2>4 DEF LoadedBytes, FileBytes
  <2>6. g \in gens /\ g = f => LoadedBytes(g)' = 0
    BY <1>1, BytesNone DEF LoadedBytes
  <2>7. LoadedBytes(g)' = IF g \notin gens \/ g >= f THEN 0 ELSE FileBytes(g)
    BY <1>1, <2>1, <2>6 DEF LoadedBytes, Gens
  <2>8. LoadedBytes(g) = IF g \notin gens \/ g > cursor.gen THEN 0 ELSE FileBytes(g)
    BY ZenonT(40), <1>1, <2>5 DEF LoadedBytes, Gens
  <2> QED BY <1>1, <2>2, <2>3, <2>7, <2>8 DEF Gens
<1>4. SumTo([g \in Gens |-> LoadedBytes(g)'], MaxGen) = SumTo([g \in Gens |-> LoadedBytes(g)], MaxGen)
  <2>1. [g \in Gens |-> LoadedBytes(g)'] = [g \in Gens |-> LoadedBytes(g)]
    BY ZenonT(40), <1>3
  <2> QED BY Zenon, <2>1
<1> QED BY <1>1, <1>2, <1>4 DEF Balanced

\* load counts what each command makes stale.
LEMMA BalancedLoad ==
  ASSUME BufferIInv, BufferIInv', Balanced, LoadCommand PROVE Balanced'
<1> DEFINE c == At(cursor)
           n == cursor.pos
           m == cursor.gen
<1>0. TypeInv /\ CursorInv /\ TypeInv' /\ CursorInv'
  BY DEF BufferIInv, IndexIInv
<1>1. /\ mode = "load" /\ mode' = "load" /\ pc' = "idle" /\ log' = log
      /\ cursor' = [gen |-> m, pos |-> n + 1] /\ gens' = gens
      /\ cursor \in CommandPos /\ m \in Nat /\ n \in Nat
  BY <1>0 DEF LoadCommand, callVars, diskVars, TypeInv, TypeOK, GenBounds, CommandPos
<1>2. m \in gens /\ m \in Gens /\ n \in 1..Len(log[m]) /\ c \in Command
  <2>1. m # 0 /\ ~(n > Len(log[m]))
    BY DEF LoadCommand, AtEndOfFile
  <2>2. m \in gens /\ m \in Gens
    BY ZenonT(40), <1>0, <1>1, <2>1 DEF TypeInv, TypeOK, GenBounds
  <2>3. n \in 1..Len(log[m])
    BY <1>0, <1>1, <2>1, <2>2, FileType DEF CursorInv
  <2>4. log[m] \in Seq(Record)
    BY ZenonT(40), <1>0, <2>2 DEF TypeInv, TypeOK
  <2>5. c \in Record
    BY <2>3, <2>4 DEF At
  <2>6. c.op # "torn"
    BY DEF LoadCommand
  <2> QED BY <2>2, <2>3, <2>5, <2>6 DEF Record, Torn
<1>3. cursor # NoPos
  BY <1>2 DEF NoPos, Gens
<1>4. /\ IsFiniteSet(LiveKeys)'
      /\ uncompacted' + LiveBytes' = uncompacted + LiveBytes + CmdLen(c)
  BY ZenonT(40), <1>0, <1>1, <1>2, <1>3, LiveMoves DEF LoadCommand, Balanced
<1> DEFINE F == [g \in Gens |-> LoadedBytes(g)]
           G == [g \in Gens |-> LoadedBytes(g)']
<1>6. BytesOf(log[m], n) = BytesOf(log[m], n - 1) + CmdLen(c)
  <2>1. n - 1 \in Nat /\ (n - 1) + 1 = n
    BY <1>1, <1>2
  <2> QED BY ZenonT(40), <2>1, BytesNext DEF At
<1>7. \A g \in Gens : LoadedBytes(g)' = IF g = m THEN LoadedBytes(g) + CmdLen(c) ELSE LoadedBytes(g)
  BY <1>1, <1>2, <1>6 DEF LoadedBytes, FileBytes
<1>8. CmdLen(c) \in Int
  BY ConstantsAssumption DEF CmdLen
<1>5. /\ F \in [Gens -> Int] /\ G \in [Gens -> Int]
      /\ \A g \in Gens : G[g] = IF g = m THEN F[g] + CmdLen(c) ELSE F[g]
  BY <1>0, <1>1, <1>7, <1>8, LoadedType
<1>9. SumTo(G, MaxGen) = SumTo(F, MaxGen) + CmdLen(c)
  <2> HIDE DEF F, G
  <2> QED BY ZenonT(40), <1>2, <1>5, <1>8, SumPoint, ConstantsAssumption DEF Gens
<1> QED BY ZenonT(40), <1>1, <1>4, <1>9 DEF Balanced

\* open ends in a new and empty file.
LEMMA BalancedOpenDone ==
  ASSUME BufferIInv, BufferIInv', Balanced, OpenDone PROVE Balanced'
<1> DEFINE new == cursor.gen + 1
<1>0. TypeInv /\ CursorInv /\ TypeInv' /\ ClosedInv
  BY ZenonT(40) DEF BufferIInv, IndexIInv
<1>1. /\ mode = "load" /\ mode' = "up" /\ pc' = "idle" /\ log' = log /\ index' = index
      /\ uncompacted' = uncompacted /\ gens' = gens \cup {new}
      /\ gens \subseteq Gens /\ cursor.gen \in Nat /\ cursor.pos \in Nat
  BY <1>0 DEF OpenDone, callVars, memVars, TypeInv, TypeOK, GenBounds, CommandPos
<1>2. LiveKeys' = LiveKeys /\ LiveBytes' = LiveBytes
  BY ZenonT(40), <1>1 DEF LiveKeys, LiveBytes
<1>3. ASSUME NEW g \in Gens
      PROVE  LoadedBytes(g) = IF g \in gens' THEN FileBytes(g)' ELSE 0
  <2>1. FileBytes(g)' = FileBytes(g)
    BY ZenonT(40), <1>1 DEF FileBytes
  <2>2. g = new => g \notin gens /\ FileBytes(g) = 0
    BY <1>0, <1>1, BytesNone DEF OpenDone, AllLoaded, ClosedInv, FileBytes, Gens
  <2>3. g \in gens => g <= cursor.gen
    BY DEF OpenDone, AllLoaded
  <2>4. g = cursor.gen => cursor.pos - 1 = Len(log[g])
    <3>1. cursor.gen # 0 => cursor.pos > Len(log[cursor.gen])
      BY ZenonT(40) DEF OpenDone, AllLoaded, AtEndOfFile
    <3> QED BY <1>0, <1>1, <3>1, FileType DEF CursorInv, Gens
  <2>5. g \in gens => LoadedBytes(g) = FileBytes(g)
    BY <1>1, <2>3, <2>4 DEF LoadedBytes, FileBytes, Gens
  <2>6. g \notin gens => LoadedBytes(g) = 0
    BY ZenonT(40) DEF LoadedBytes
  <2> QED BY ZenonT(40), <1>1, <2>1, <2>2, <2>5, <2>6
<1>4. SumTo([g \in Gens |-> LoadedBytes(g)], MaxGen) = DiskBytes'
  <2>1. [g \in Gens |-> LoadedBytes(g)] = [g \in Gens |-> IF g \in gens' THEN FileBytes(g)' ELSE 0]
    BY Zenon, <1>3
  <2> QED BY ZenonT(40), <2>1 DEF DiskBytes
<1> QED BY ZenonT(40), <1>1, <1>2, <1>4 DEF Balanced

-----------------------------------------------------------------------------
(* Writing.                                                                *)

\* set and remove add their command to the log.
LEMMA BalancedRequest ==
  ASSUME Faults = {}, BufferIInv, BufferIInv', Balanced, Request PROVE Balanced'
<1>0. TypeInv /\ TypeInv'
  BY ZenonT(40) DEF BufferIInv, IndexIInv
<1>1. ASSUME NEW c \in Command, Ready, WriteCommand(c) PROVE Balanced'
  <2>1. /\ log' = [log EXCEPT ![wgen] = Append(@, c)] /\ wgen' = wgen /\ gens' = gens
        /\ mode = "up" /\ mode' = "up" /\ pc = "idle" /\ pc' = "flush"
        /\ index' = index /\ uncompacted' = uncompacted
    BY ZenonT(40), <1>1 DEF WriteCommand, Ready, memVars, genVars
  <2>2. wgen \in gens /\ wgen \in Gens /\ c \in Record
    BY ZenonT(40), <1>0, <2>1 DEF TypeInv, TypeOK, GenBounds, Record
  <2>3. DiskBytes' = DiskBytes + CmdLen(c)
    BY Zenon, <1>0, <2>1, <2>2, DiskGrows
  <2>4. Cmd' = c
    <3>1. Len(log'[wgen]) = Len(log[wgen]) + 1 /\ log'[wgen][Len(log[wgen]) + 1] = c
      BY ZenonT(40), <1>0, <2>1, <2>2, AppendKeeps
    <3> QED BY ZenonT(40), <2>1, <3>1 DEF Cmd
  <2>5. LiveKeys' = LiveKeys /\ LiveBytes' = LiveBytes
    BY <2>1 DEF LiveKeys, LiveBytes
  <2>6. IsFiniteSet(LiveKeys) /\ uncompacted + LiveBytes = DiskBytes
    BY ZenonT(40), <2>1 DEF Balanced
  <2> QED BY <2>1, <2>3, <2>4, <2>5, <2>6 DEF Balanced
<1>2. ASSUME NEW k \in Keys, RemoveMissing(k) PROVE Balanced'
  <2>1. /\ log' = log /\ gens' = gens /\ mode = "up" /\ mode' = "up" /\ pc = "idle" /\ pc' = "idle"
        /\ index' = index /\ uncompacted' = uncompacted
    BY <1>2 DEF RemoveMissing, memVars, diskVars
  <2> QED BY ZenonT(40), <2>1 DEF Balanced, LiveKeys, LiveBytes, DiskBytes, FileBytes
<1>3. ASSUME NEW k \in Keys, NEW v \in Vals, Set(k, v) PROVE Balanced'
  <2>1. [op |-> "set", key |-> k, val |-> v] \in Command
    BY ZenonT(40) DEF Command
  <2> QED BY Zenon, <1>1, <1>3, <2>1 DEF Set, WriteCommandFails
<1>4. ASSUME NEW k \in Keys, Remove(k) PROVE Balanced'
  <2>1. [op |-> "remove", key |-> k, val |-> NoVal] \in Command
    BY ZenonT(40) DEF Command
  <2> QED BY ZenonT(40), <1>1, <1>4, <2>1 DEF Remove, WriteCommandFails
<1> QED BY ZenonT(40), <1>2, <1>3, <1>4 DEF Request

\* Steps that leave the commands, the index and the counter alone.
LEMMA BalancedSame ==
  ASSUME Balanced, UNCHANGED <<mode, gens, log, index, uncompacted, currentGen, wgen, todo, cursor>>,
         pc' = pc \/ (pc = "flush" /\ pc' = "index") \/ (pc = "safepoint" /\ pc' = "unlink")
  PROVE  Balanced'
<1>1. LiveKeys' = LiveKeys /\ LiveBytes' = LiveBytes
  BY DEF LiveKeys, LiveBytes
<1>2. \A g : FileBytes(g)' = FileBytes(g)
  BY ZenonT(40) DEF FileBytes
<1>3. DiskBytes' = DiskBytes /\ Cmd' = Cmd /\ CompactionGen' = CompactionGen
  BY ZenonT(40) DEF DiskBytes, FileBytes, Cmd, CompactionGen
<1>4. \A g : LoadedBytes(g)' = LoadedBytes(g)
  BY <1>2 DEF LoadedBytes
<1> QED BY ZenonT(40), <1>1, <1>2, <1>3, <1>4 DEF Balanced

\* set and remove count the command they replace, and remove its own.
LEMMA BalancedIndex ==
  ASSUME BufferIInv, BufferIInv', Balanced, IndexCommand PROVE Balanced'
<1>0. TypeInv /\ TypeInv' /\ WrittenInv
  BY ZenonT(40) DEF BufferIInv, IndexIInv
<1> DEFINE p == [gen |-> currentGen, pos |-> Len(log[wgen])]
<1>1. /\ log' = log /\ gens' = gens /\ mode = "up" /\ mode' = "up" /\ pc = "index"
      /\ pc' \in {"idle", "newlog"} /\ Cmd \in Command
      /\ currentGen \in Gens /\ wgen \in Gens
  BY ZenonT(40), <1>0 DEF IndexCommand, diskVars, Return, WrittenInv, TypeInv, TypeOK, GenBounds
<1>2. p \in CommandPos /\ p # NoPos
  BY <1>0, <1>1, FileType DEF CommandPos, NoPos, Gens
<1>3. /\ IsFiniteSet(LiveKeys)'
      /\ uncompacted' + LiveBytes' = uncompacted + LiveBytes + CmdLen(Cmd)
  BY ZenonT(40), <1>0, <1>1, <1>2, LiveMoves DEF IndexCommand, Balanced
<1>4. DiskBytes' = DiskBytes
  BY ZenonT(40), <1>1 DEF DiskBytes, FileBytes
<1>5. uncompacted + LiveBytes + CmdLen(Cmd) = DiskBytes
  BY <1>1 DEF Balanced
<1> QED BY ZenonT(40), <1>1, <1>3, <1>4, <1>5 DEF Balanced

-----------------------------------------------------------------------------
(* Compacting.                                                             *)

\* compact creates its two files, which are empty.
LEMMA BalancedNewFile ==
  ASSUME BufferIInv, BufferIInv', Balanced, CompactNewFile PROVE Balanced'
<1>1. /\ mode = "up" /\ mode' = "up" /\ pc = "newcomp" /\ pc' = "copy" /\ log' = log
      /\ index' = index /\ CompactionGen' = CompactionGen /\ todo' = LiveKeys
  BY ZenonT(40) DEF CompactNewFile, BufferIInv, IndexIInv, TypeInv, GenBounds, TypeOK, memVars, genVars,
     CompactionGen, LiveKeys
<1>2. LiveKeys' = LiveKeys /\ LiveKeys' \ todo' = {}
  BY ZenonT(40), <1>1 DEF LiveKeys
<1>3. FileBytes(CompactionGen)' = 0
  BY <1>1, BytesNone DEF BufferIInv, IndexIInv, OpenInv, FileBytes
<1>4. SetLen * Cardinality(LiveKeys' \ todo') = 0
  BY ZenonT(40), <1>2, FS_EmptySet, ConstantsAssumption, Times
<1> QED BY ZenonT(40), <1>1, <1>2, <1>3, <1>4 DEF Balanced

\* compact copies a command and moves its entry to the copy.
LEMMA BalancedEntry ==
  ASSUME BufferIInv, BufferIInv', Balanced, NEW k \in Keys, CompactEntry(k) PROVE Balanced'
<1> DEFINE c == At(index[k])
<1>0. TypeInv /\ IndexInLog /\ CopyInv /\ OpenInv
  BY ZenonT(40) DEF BufferIInv, IndexIInv
<1>1. /\ mode = "up" /\ mode' = "up" /\ pc = "copy" /\ pc' = "copy" /\ k \in todo
      /\ log' = [log EXCEPT ![CompactionGen] = Append(@, c)]
      /\ index' = [index EXCEPT ![k] = [gen |-> CompactionGen, pos |-> NewPos]]
      /\ todo' = todo \ {k} /\ CompactionGen' = CompactionGen
  BY ZenonT(40), <1>0 DEF CompactEntry, TypeInv, GenBounds, TypeOK, callVars, genVars, CompactionGen
<1>2. /\ CompactionGen \in gens /\ CompactionGen \in Gens /\ index[k] # NoPos
      /\ index[k].gen \in Gens /\ index[k].pos \in 1..Len(log[index[k].gen]) /\ c.op = "set"
  BY ZenonT(40), <1>0, <1>1 DEF OpenInv, CopyInv, IndexInLog, TypeInv, TypeOK
<1>3. c \in Record
  <2>1. log[index[k].gen] \in Seq(Record)
    BY <1>0, <1>2 DEF TypeInv, TypeOK
  <2> QED BY <1>2, <2>1 DEF At
<1>4. FileBytes(CompactionGen)' = FileBytes(CompactionGen) + SetLen
  BY ZenonT(40), <1>0, <1>1, <1>2, <1>3, FileGrows DEF CmdLen
<1>5. LiveKeys' = LiveKeys /\ k \in LiveKeys
  <2>1. index \in [Keys -> CommandPos] /\ [gen |-> CompactionGen, pos |-> NewPos] # NoPos
    BY <1>0, <1>2 DEF TypeInv, TypeOK, NoPos, Gens
  <2> QED BY <1>1, <1>2, <2>1 DEF LiveKeys
<1>6. LiveKeys' \ todo' = (LiveKeys \ todo) \cup {k} /\ k \notin LiveKeys \ todo
  BY ZenonT(40), <1>1, <1>5
<1>7. IsFiniteSet(LiveKeys) /\ IsFiniteSet(LiveKeys \ todo)
  BY ZenonT(40), FS_Difference DEF Balanced
<1>8. /\ Cardinality(LiveKeys \ todo) \in Nat
      /\ Cardinality(LiveKeys' \ todo') = Cardinality(LiveKeys \ todo) + 1
  BY ZenonT(40), <1>6, <1>7, FS_AddElement, FS_CardinalityType
<1>9. SetLen * Cardinality(LiveKeys' \ todo') = SetLen * Cardinality(LiveKeys \ todo) + SetLen
  BY <1>8, ConstantsAssumption, Times
<1>10. FileBytes(CompactionGen) = SetLen * Cardinality(LiveKeys \ todo)
  BY <1>1 DEF Balanced
<1> QED BY <1>1, <1>4, <1>5, <1>7, <1>9, <1>10 DEF Balanced

\* Every entry compact() has still to copy can be read.
LEMMA EntriesReadable ==
  ASSUME BufferIInv, NEW k \in Keys, pc = "copy", k \in todo PROVE Readable(index[k])
<1>1. mode = "up"
  BY ZenonT(40) DEF BufferIInv, IndexIInv, TypeInv, GenBounds, TypeOK
<1>2. index[k] # NoPos /\ index[k].gen < CompactionGen
  BY ZenonT(40) DEF BufferIInv, CopyInv
<1>3. index[k].gen \in gens /\ index[k].pos \in 1..Len(log[index[k].gen]) /\ index[k] \in CommandPos
  BY ZenonT(40), <1>1, <1>2 DEF BufferIInv, IndexIInv, IndexInLog, TypeInv, TypeOK
<1>4. index[k].gen # CompactionGen
  BY <1>2, <1>3 DEF BufferIInv, IndexIInv, TypeInv, TypeOK, CompactionGen, CommandPos
<1>5. index[k].pos <= vis[index[k].gen]
  BY ZenonT(40), <1>1, <1>2, <1>4 DEF BufferIInv, VisibleInv
<1>6. index[k].pos \in Nat /\ vis[index[k].gen] \in Nat
  BY ZenonT(40), <1>3 DEF BufferIInv, IndexIInv, TypeInv, TypeOK, CommandPos
<1> QED BY <1>3, <1>5, <1>6 DEF Readable

\* compact flushes the copies.
LEMMA BalancedFlush ==
  ASSUME BufferIInv, BufferIInv', Balanced, CompactFlush PROVE Balanced'
<1>1. /\ mode = "up" /\ mode' = "up" /\ pc = "copy" /\ pc' = "safepoint" /\ log' = log
      /\ index' = index /\ CompactionGen' = CompactionGen /\ todo = {}
  BY ZenonT(40) DEF CompactFlush, CopyDone, BufferIInv, IndexIInv, TypeInv, GenBounds, TypeOK, memVars,
     genVars, CompactionGen
<1>2. LiveKeys' = LiveKeys /\ LiveKeys \ todo = LiveKeys /\ LiveBytes' = LiveBytes
  BY ZenonT(40), <1>1 DEF LiveKeys, LiveBytes
<1>3. FileBytes(CompactionGen)' = FileBytes(CompactionGen)
  BY <1>1 DEF FileBytes
<1>4. FileBytes(CompactionGen) = LiveBytes
  BY ZenonT(40), <1>1, <1>2 DEF Balanced, LiveBytes
<1> QED BY ZenonT(40), <1>1, <1>2, <1>3, <1>4 DEF Balanced

\* compact removes a file; its bytes leave the directory.
LEMMA BalancedUnlink ==
  ASSUME BufferIInv, BufferIInv', Balanced, NEW g \in Gens, CompactUnlink(g) PROVE Balanced'
<1>1. /\ mode = "up" /\ mode' = "up" /\ pc = "unlink" /\ pc' = "unlink" /\ log' = log
      /\ index' = index /\ CompactionGen' = CompactionGen
  BY ZenonT(40) DEF CompactUnlink, BufferIInv, IndexIInv, TypeInv, GenBounds, TypeOK, memVars,
     genVars, callVars, CompactionGen
<1>2. LiveKeys' = LiveKeys /\ LiveBytes' = LiveBytes
  BY ZenonT(40), <1>1 DEF LiveKeys, LiveBytes
<1>3. FileBytes(CompactionGen)' = FileBytes(CompactionGen)
  BY ZenonT(40), <1>1 DEF FileBytes
<1> QED BY ZenonT(40), <1>1, <1>2, <1>3 DEF Balanced

\* compact ends: every file is new, and only what is in use was copied.
LEMMA BalancedDone ==
  ASSUME BufferIInv, BufferIInv', StaleInv, Balanced, CompactDone PROVE Balanced'
<1>0. TypeInv /\ OpenInv
  BY ZenonT(40) DEF BufferIInv, IndexIInv
<1>1. /\ mode = "up" /\ mode' = "up" /\ pc = "unlink" /\ pc' = "idle" /\ log' = log /\ gens' = gens
      /\ index' = index /\ uncompacted' = 0 /\ stale = {} /\ currentGen \in Gens /\ gens \subseteq Gens
  BY <1>0 DEF CompactDone, TypeInv, GenBounds, TypeOK, diskVars, Return
<1>2. /\ \A g \in gens : g <= currentGen
      /\ log[currentGen] = <<>> /\ CompactionGen \in gens
  BY ZenonT(40), <1>0, <1>1 DEF OpenInv, Compacting
<1>3. \A g \in gens : g = CompactionGen \/ g = currentGen
  BY <1>1, <1>2 DEF StaleInv, CompactionGen, Gens
<1>4. CompactionGen \in Gens /\ CompactionGen # currentGen /\ FileBytes(currentGen) = 0
  BY <1>1, <1>2, BytesNone DEF CompactionGen, Gens, FileBytes
<1> DEFINE F == [g \in Gens |-> 0]
           G == [g \in Gens |-> IF g \in gens THEN FileBytes(g) ELSE 0]
<1>5. FileBytes(CompactionGen) \in Int
  BY ZenonT(40), <1>0, <1>4, FileType
<1>6. /\ F \in [Gens -> Int] /\ G \in [Gens -> Int]
      /\ \A g \in Gens : G[g] = IF g = CompactionGen THEN F[g] + FileBytes(CompactionGen) ELSE F[g]
  BY <1>2, <1>3, <1>4, <1>5
<1>7. SumTo(F, MaxGen) = 0
  BY ConstantsAssumption, SumZero DEF Gens
<1>8. SumTo(G, MaxGen) = SumTo(F, MaxGen) + FileBytes(CompactionGen)
  <2> DEFINE m == CompactionGen
             d == FileBytes(CompactionGen)
  <2>1. m \in 1..MaxGen /\ d \in Int /\ MaxGen \in Nat /\ F \in [1..MaxGen -> Int]
        /\ G \in [1..MaxGen -> Int] /\ \A g \in 1..MaxGen : G[g] = IF g = m THEN F[g] + d ELSE F[g]
    BY ZenonT(40), <1>4, <1>5, <1>6, ConstantsAssumption DEF Gens
  <2> HIDE DEF F, G, m, d
  <2>2. SumTo(G, MaxGen) = SumTo(F, MaxGen) + d
    BY ZenonT(40), <2>1, SumPoint
  <2> QED BY ZenonT(40), <2>2 DEF d
<1>9. DiskBytes = FileBytes(CompactionGen)
  <2>1. DiskBytes = SumTo(G, MaxGen)
    BY DEF DiskBytes
  <2> QED BY <1>5, <1>7, <1>8, <2>1
<1>10. DiskBytes' = DiskBytes /\ LiveBytes' = LiveBytes /\ LiveKeys' = LiveKeys
  BY <1>1 DEF DiskBytes, FileBytes, LiveBytes, LiveKeys
<1>11. FileBytes(CompactionGen) = LiveBytes /\ IsFiniteSet(LiveKeys)
  BY ZenonT(40), <1>1 DEF Balanced
<1> QED BY <1>1, <1>5, <1>9, <1>10, <1>11 DEF Balanced

\* Every step keeps the balance.
LEMMA BalancedStep ==
  ASSUME Faults = {}, BufferIInv, BufferIInv', StaleInv, Balanced, [Next]_vars PROVE Balanced'
<1>1. CASE OpenFails \/ Crash
  <2>1. /\ mode' = "down" /\ uncompacted' = 0 /\ pc' = "idle" /\ index' = [k \in Keys |-> NoPos]
    BY ZenonT(40), <1>1 DEF OpenFails, Crash, ResetVolatile
  <2>2. LiveKeys' = {}
    BY ZenonT(40), <2>1 DEF LiveKeys
  <2> QED BY <2>1, <2>2, FS_EmptySet DEF Balanced
<1>2. CASE Open
  BY ZenonT(40), <1>1, <1>2, BalancedOpenStart, BalancedNextFile, BalancedLoad, BalancedOpenDone DEF Open
<1>3. CASE UNCHANGED vars
  BY ZenonT(40), <1>3, BalancedSame DEF vars, diskVars, memVars, genVars, loopVars, callVars
<1>4. ASSUME NEW g \in Gens, Spill(g) PROVE Balanced'
  BY ZenonT(40), <1>4, BalancedSame DEF Spill, memVars, genVars, loopVars, callVars
<1>5. CASE Flush \/ FlushFails \/ IndexCommand
  BY ZenonT(40), <1>5, BalancedSame, BalancedIndex DEF Flush, FlushFails, memVars, genVars, loopVars
<1>6. CASE CompactNewLog
  <2>1. /\ pc' = "newcomp" /\ mode' = "up" /\ index' = index
    BY <1>6 DEF CompactNewLog, BufferIInv, IndexIInv, TypeInv, GenBounds, TypeOK, memVars
  <2> QED BY ZenonT(40), <2>1 DEF Balanced, LiveKeys
<1>7. CASE CompactNewLogFails \/ CompactCallFails
  BY ZenonT(40), <1>7 DEF CompactNewLogFails, CompactCallFails
<1>8. CASE CompactSafePoint
  BY ZenonT(40), <1>8, BalancedSame DEF CompactSafePoint, diskVars, memVars
<1>9. ASSUME NEW k \in Keys, CompactEntryFails(k) PROVE Balanced'
  BY ZenonT(40), <1>9, EntriesReadable DEF CompactEntryFails
<1>10. CASE Compact
  BY ZenonT(40), <1>6, <1>7, <1>8, <1>9, <1>10, BalancedNewFile, BalancedEntry, BalancedFlush,
     BalancedUnlink, BalancedDone DEF Compact
<1> QED BY Zenon, <1>1, <1>2, <1>3, <1>4, <1>5, <1>10, BalancedRequest DEF Next, WriterStep

\* When no I/O call fails, the counter that decides about a compaction is,
\* between two commands, exactly the number of bytes in the files that the
\* index does not use: for every set of keys and values, every length of a
\* command and every bound.
THEOREM UncompactedIsExact == ASSUME Faults = {} PROVE Spec => []UncompactedExact
<1>1. Init => BufferIInv /\ StaleInv /\ Balanced
  <2> SUFFICES ASSUME Init PROVE BufferIInv /\ StaleInv /\ Balanced
    OBVIOUS
  <2>1. LiveKeys = {}
    BY DEF Init, LiveKeys
  <2>2. mode = "down" /\ uncompacted = 0 /\ pc = "idle"
    BY ZenonT(40) DEF Init
  <2> QED BY ZenonT(40), <2>1, <2>2, BufferInit, FS_EmptySet DEF StaleInv, Balanced
<1>2. BufferIInv /\ StaleInv /\ Balanced /\ [Next]_vars => (BufferIInv /\ StaleInv /\ Balanced)'
  BY ZenonT(40), BufferStep, StaleStep, BalancedStep
<1>3. BufferIInv /\ Balanced => UncompactedExact
  <2> SUFFICES ASSUME BufferIInv, Balanced, mode = "up", pc = "idle"
               PROVE  uncompacted = DiskBytes - LiveBytes
    BY ZenonT(40) DEF UncompactedExact
  <2>1. uncompacted \in Nat /\ LiveBytes \in Nat /\ uncompacted + LiveBytes = DiskBytes
    BY LiveType DEF Balanced, BufferIInv, IndexIInv, TypeInv, TypeOK
  <2> QED BY <2>1
<1> QED BY <1>1, <1>2, <1>3, PTL DEF Spec
=============================================================================
