-------------------------- MODULE LogViewerProofs ---------------------------
(***************************************************************************)
(* LogViewer for every length of a line, every limit and every file size   *)
(* at which the log rotates: what the console shows is the log, THEOREM    *)
(* ConsoleIsTheLog.  Beneath the viewer's invariant lie three facts about  *)
(* what the server reads, one per kind of answer: a delta begins where the *)
(* cursor stood, a page of older lines ends where before stood, and a      *)
(* snapshot is one stretch of the log with warnings before it.  Each       *)
(* offset that two answers share lies between lines, or in a long one.     *)
(***************************************************************************)
EXTENDS LogViewer, FiniteSetTheorems, WellFoundedInduction, TLAPS

-----------------------------------------------------------------------------
(* Least and greatest values.                                              *)

\* A minimal subset without a least value would have one.
LEMMA FiniteHasLeast ==
  ASSUME NEW S, IsFiniteSet(S), S # {}, NEW f \in [S -> Int]
  PROVE  \E m \in S : \A n \in S : f[m] <= f[n]
<1> DEFINE Least(U) == \E m \in U : \A n \in U : f[m] <= f[n]
           Bad == {U \in SUBSET S : U # {} /\ ~Least(U)}
<1> SUFFICES ASSUME Bad # {} PROVE FALSE
  OBVIOUS
<1>1. Bad \subseteq FiniteSubsetsOf(S)
  BY FS_Subset DEF FiniteSubsetsOf
<1>2. PICK U \in Bad : \A V \in Bad : <<V, U>> \notin StrictSubsetOrdering(S)
  <2>1. IsWellFoundedOn(StrictSubsetOrdering(S), FiniteSubsetsOf(S))
    BY FS_StrictSubsetOrderingWellFounded
  <2> HIDE DEF Bad
  <2> QED BY <1>1, <2>1, WFMin
<1>3. PICK e \in U : TRUE
  OBVIOUS
<1> DEFINE V == U \ {e}
<1>4. V \notin Bad
  <2>1. <<V, U>> \in (SUBSET S) \X (SUBSET S) /\ V \subseteq U /\ V # U
    BY <1>3
  <2> QED BY <1>2, <2>1 DEF StrictSubsetOrdering
<1>5. V # {}
  BY <1>3
<1>6. PICK m \in V : \A n \in V : f[m] <= f[n]
  BY <1>4, <1>5
<1>7. \A n \in U : f[n] \in Int /\ (n = e \/ n \in V)
  OBVIOUS
<1>8. CASE f[m] <= f[e]
  BY <1>6, <1>7, <1>8
<1>9. CASE f[e] <= f[m]
  <2>1. \A n \in U : f[e] <= f[n]
    BY <1>3, <1>6, <1>7, <1>9
  <2> QED BY <1>3, <2>1
<1> QED BY <1>3, <1>6, <1>7, <1>8, <1>9

LEMMA MinIsLeast ==
  ASSUME NEW S \in SUBSET Nat, IsFiniteSet(S), S # {}
  PROVE  Min(S) \in S /\ \A n \in S : Min(S) <= n
<1> DEFINE f == [n \in S |-> n]
<1>1. f \in [S -> Int] /\ \A n \in S : f[n] = n
  OBVIOUS
<1>2. \E m \in S : \A n \in S : f[m] <= f[n]
  <2> HIDE DEF f
  <2> QED BY <1>1, FiniteHasLeast
<1>3. \E m \in S : \A n \in S : m <= n
  <2> HIDE DEF f
  <2> QED BY <1>1, <1>2
<1> QED BY <1>3 DEF Min

LEMMA MaxIsGreatest ==
  ASSUME NEW S \in SUBSET Nat, IsFiniteSet(S), S # {}
  PROVE  Max(S) \in S /\ \A n \in S : n <= Max(S)
<1> DEFINE f == [n \in S |-> -n]
<1>1. f \in [S -> Int] /\ \A n \in S : f[n] = -n
  OBVIOUS
<1>2. PICK m \in S : \A n \in S : f[m] <= f[n]
  <2> HIDE DEF f
  <2> QED BY <1>1, FiniteHasLeast
<1>3. \A n \in S : m >= n
  <2> HIDE DEF f
  <2> QED BY <1>1, <1>2
<1> QED BY <1>3 DEF Max

LEMMA FiniteImage ==
  ASSUME NEW S, IsFiniteSet(S), NEW T, NEW f \in [S -> T], T = {f[x] : x \in S}
  PROVE  IsFiniteSet(T) /\ Cardinality(T) <= Cardinality(S)
<1>1. f \in Surjection(S, T)
  BY DEF Surjection
<1> QED BY <1>1, FS_Surjection

-----------------------------------------------------------------------------
(* Lines in order.                                                         *)

\* The lines of a file, or some of them: no two begin at the same offset.
FileLines(S) ==
  S \in SUBSET LogLines /\ IsFiniteSet(S) /\ \A l, o \in S : l.at = o.at => l = o

Below(S, f, x) == {y \in S : f[y] < f[x]}

\* How many lie below an element tells it from the others, and every count below the size
\* of the set is taken.
LEMMA Ranks ==
  ASSUME NEW S, IsFiniteSet(S), NEW f \in [S -> Int], \A x, y \in S : f[x] = f[y] => x = y
  PROVE  /\ \A x \in S : Cardinality(Below(S, f, x)) \in 0 .. Cardinality(S) - 1
         /\ \A x, y \in S : f[x] < f[y] => Cardinality(Below(S, f, x)) < Cardinality(Below(S, f, y))
         /\ \A k \in 0 .. Cardinality(S) - 1 : \E x \in S : Cardinality(Below(S, f, x)) = k
<1> DEFINE rank == [x \in S |-> Cardinality(Below(S, f, x))]
           n == Cardinality(S)
<1>1. n \in Nat /\ \A x \in S : f[x] \in Int
  BY FS_CardinalityType
<1>2. \A x \in S : /\ IsFiniteSet(Below(S, f, x)) /\ Below(S, f, x) \in SUBSET S
                   /\ x \notin Below(S, f, x) /\ Cardinality(Below(S, f, x)) \in Nat
  BY <1>1, FS_Subset, FS_CardinalityType DEF Below
<1>3. ASSUME NEW T \in SUBSET S, NEW U \in SUBSET T, NEW x \in T, x \notin U
      PROVE  Cardinality(U) < Cardinality(T)
  <2>1. /\ IsFiniteSet(T) /\ IsFiniteSet(U) /\ Cardinality(U) <= Cardinality(T)
        /\ Cardinality(T) = Cardinality(U) => T = U
    BY FS_Subset
  <2>2. Cardinality(T) \in Nat /\ Cardinality(U) \in Nat
    BY <2>1, FS_CardinalityType
  <2>3. T # U
    BY <1>3
  <2> HIDE DEF n, rank
  <2> QED BY <2>1, <2>2, <2>3
<1>4. \A x \in S : Cardinality(Below(S, f, x)) \in 0 .. n - 1
  <2>1. \A x \in S : Cardinality(Below(S, f, x)) < n
    BY <1>2, <1>3
  <2> HIDE DEF n
  <2> QED BY <1>1, <1>2, <2>1
<1>5. ASSUME NEW x \in S, NEW y \in S, f[x] < f[y]
      PROVE  Cardinality(Below(S, f, x)) < Cardinality(Below(S, f, y))
  <2>1. x \in Below(S, f, y) /\ x \notin Below(S, f, x)
    BY <1>1, <1>5 DEF Below
  <2>2. Below(S, f, x) \in SUBSET Below(S, f, y)
    BY <1>1, <1>5 DEF Below
  <2> QED BY <1>2, <1>3, <2>1, <2>2
<1>6. rank \in [S -> 0 .. n - 1] /\ \A x \in S : rank[x] = Cardinality(Below(S, f, x))
  BY <1>4
<1>7. \A x, y \in S : rank[x] = rank[y] => x = y
  <2> SUFFICES ASSUME NEW x \in S, NEW y \in S, x # y PROVE rank[x] # rank[y]
    OBVIOUS
  <2>1. f[x] < f[y] \/ f[y] < f[x]
    BY <1>1
  <2>2. rank[x] < rank[y] \/ rank[y] < rank[x]
    BY <1>5, <1>6, <2>1
  <2>3. rank[x] \in Int /\ rank[y] \in Int
    BY <1>6
  <2> HIDE DEF rank
  <2> QED BY <2>2, <2>3
<1>8. rank \in Surjection(S, 0 .. n - 1)
  <2>1. rank \in Injection(S, 0 .. n - 1)
    <3> HIDE DEF rank, n
    <3> QED BY <1>6, <1>7 DEF Injection, IsInjective
  <2>2. IsFiniteSet(0 .. n - 1) /\ Cardinality(0 .. n - 1) = n
    <3>1. 0 \in Int /\ n - 1 \in Int
      BY <1>1
    <3>2. IsFiniteSet(0 .. n - 1) /\ Cardinality(0 .. n - 1) = IF 0 > n - 1 THEN 0 ELSE n - 1 - 0 + 1
      BY <3>1, FS_Interval
    <3> HIDE DEF n
    <3> QED BY <1>1, <3>2
  <2> HIDE DEF rank
  <2> QED BY <2>1, <2>2, FS_Injection
<1>9. \A k \in 0 .. n - 1 : \E x \in S : rank[x] = k
  <2> HIDE DEF rank, n
  <2> QED BY <1>8 DEF Surjection
<1> HIDE DEF rank, n
<1>10. \A k \in 0 .. n - 1 : \E x \in S : Cardinality(Below(S, f, x)) = k
  BY <1>6, <1>9
<1> QED BY <1>4, <1>5, <1>10 DEF n

LEMMA LineIs ==
  ASSUME NEW line \in LogLines
  PROVE  /\ line.at \in Nat /\ line.len \in Nat \ {0} /\ EndOf(line) \in Nat
         /\ EndOf(line) = line.at + line.len /\ line.at < EndOf(line)
         /\ line.level \in {"info", "warn"}
<1>1. Lengths \subseteq Nat \ {0}
  BY LogAssumption DEF LogAssumption
<1>2. line.at \in Nat /\ line.len \in Lengths \cup {1} /\ line.level \in {"info", "warn"}
  BY DEF LogLines
<1>3. line.len \in Nat \ {0}
  <2>1. line.len \in Lengths \/ line.len = 1
    BY <1>2
  <2>2. \A n \in Lengths : n \in Nat /\ n # 0
    BY <1>1
  <2>3. 1 \in Nat /\ 1 # 0
    OBVIOUS
  <2> QED BY <2>1, <2>2, <2>3, Zenon
<1>4. EndOf(line) = line.at + line.len
  BY DEF EndOf
<1> QED BY <1>2, <1>3, <1>4

\* A part of a set of lines of a file is another.
LEMMA SomeLines ==
  ASSUME NEW S, FileLines(S), NEW T \in SUBSET S
  PROVE  FileLines(T) /\ Cardinality(T) \in Nat /\ Cardinality(T) <= Cardinality(S)
BY FS_Subset, FS_CardinalityType DEF FileLines

LEMMA FirstIs ==
  ASSUME NEW S, FileLines(S), S # {}
  PROVE  /\ First(S) \in Nat /\ \A l \in S : First(S) <= l.at
         /\ \E l \in S : l.at = First(S)
<1> DEFINE ats == {line.at : line \in S}
           at == [line \in S |-> line.at]
<1>1. \A l \in S : l.at \in Nat
  BY LineIs DEF FileLines
<1>2. ats \in SUBSET Nat /\ ats # {}
  BY <1>1
<1>3. IsFiniteSet(ats)
  <2>1. at \in [S -> ats] /\ ats = {at[x] : x \in S}
    OBVIOUS
  <2> HIDE DEF ats, at
  <2> QED BY <2>1, FiniteImage DEF FileLines
<1>4. Min(ats) \in ats /\ \A n \in ats : Min(ats) <= n
  <2> HIDE DEF ats
  <2> QED BY <1>2, <1>3, MinIsLeast
<1> QED BY <1>2, <1>4 DEF First

\* The last lines: as many as are asked for, or all.
LEMMA LastOfIs ==
  ASSUME NEW S, FileLines(S), NEW n \in Nat
  PROVE  /\ LastOf(S, n) \in SUBSET S
         /\ \A l \in LastOf(S, n), o \in S : l.at < o.at => o \in LastOf(S, n)
         /\ Cardinality(LastOf(S, n)) \in 0 .. n
         /\ LastOf(S, n) # S => Cardinality(LastOf(S, n)) = n
         /\ Cardinality(S) <= n => LastOf(S, n) = S
<1> DEFINE f == [l \in S |-> -l.at]
           rank == [l \in S |-> Cardinality(Below(S, f, l))]
           L == LastOf(S, n)
           last == [l \in L |-> rank[l]]
<1>1. \A l \in S : l.at \in Nat
  BY LineIs DEF FileLines
<1>2. f \in [S -> Int] /\ \A l \in S : f[l] = -l.at
  BY <1>1
<1>3. \A l, o \in S : f[l] = f[o] => l = o
  <2>1. \A l, o \in S : f[l] = f[o] => l.at = o.at
    <3> HIDE DEF f
    <3> QED BY <1>1, <1>2
  <2> QED BY <2>1 DEF FileLines
<1>4. \A l \in S : {other \in S : l.at < other.at} = Below(S, f, l)
  <2> SUFFICES ASSUME NEW l \in S, NEW o \in S
               PROVE  l.at < o.at <=> f[o] < f[l]
    BY DEF Below
  <2> HIDE DEF f
  <2> QED BY <1>1, <1>2
<1>5. /\ \A l \in S : rank[l] \in 0 .. Cardinality(S) - 1
      /\ \A l, o \in S : f[l] < f[o] => rank[l] < rank[o]
      /\ \A k \in 0 .. Cardinality(S) - 1 : \E l \in S : rank[l] = k
      /\ \A l \in S : rank[l] = Cardinality(Below(S, f, l))
  <2>1. IsFiniteSet(S)
    BY DEF FileLines
  <2> HIDE DEF f
  <2> QED BY <1>2, <1>3, <2>1, Ranks
<1>6. Cardinality(S) \in Nat
  BY FS_CardinalityType DEF FileLines
<1>7. L = {l \in S : rank[l] < n}
  <2> HIDE DEF rank, f
  <2> QED BY <1>4, <1>5 DEF LastOf
<1>8. L \in SUBSET S /\ \A l \in L : rank[l] \in 0 .. n - 1
  <2> HIDE DEF rank, L
  <2> QED BY <1>5, <1>6, <1>7
<1>9. \A l \in L, o \in S : l.at < o.at => o \in L
  <2> SUFFICES ASSUME NEW l \in L, NEW o \in S, l.at < o.at
               PROVE  o \in L
    OBVIOUS
  <2>1. l \in S
    BY <1>8
  <2>2. f[o] < f[l]
    <3> HIDE DEF f, L
    <3> QED BY <1>1, <1>2, <2>1
  <2>3. rank[o] < rank[l] /\ rank[l] < n /\ rank[o] \in Int /\ rank[l] \in Int
    <3> HIDE DEF f, L, rank
    <3> QED BY <1>5, <1>7, <2>1, <2>2
  <2> HIDE DEF f, L, rank
  <2> QED BY <1>7, <2>3
<1>10. \A l, o \in S : rank[l] = rank[o] => l = o
  <2> SUFFICES ASSUME NEW l \in S, NEW o \in S, l # o PROVE rank[l] # rank[o]
    OBVIOUS
  <2>1. f[l] # f[o] /\ f[l] \in Int /\ f[o] \in Int
    <3> HIDE DEF f
    <3> QED BY <1>2, <1>3
  <2>2. rank[l] < rank[o] \/ rank[o] < rank[l]
    <3> HIDE DEF f, rank
    <3> QED BY <1>5, <2>1
  <2> HIDE DEF f, rank
  <2> QED BY <1>5, <2>2
<1>11. IsFiniteSet(0 .. n - 1) /\ Cardinality(0 .. n - 1) = n
  <2>1. IsFiniteSet(0 .. n - 1) /\ Cardinality(0 .. n - 1) = IF 0 > n - 1 THEN 0 ELSE n - 1 - 0 + 1
    BY FS_Interval
  <2> QED BY <2>1
<1>12. last \in Injection(L, 0 .. n - 1)
  <2>1. last \in [L -> 0 .. n - 1] /\ \A l \in L : last[l] = rank[l]
    <3> HIDE DEF L, rank
    <3> QED BY <1>8
  <2> HIDE DEF L, rank, last
  <2> QED BY <1>8, <1>10, <2>1 DEF Injection, IsInjective
<1>13. IsFiniteSet(L) /\ Cardinality(L) \in 0 .. n
  <2>1. IsFiniteSet(L) /\ Cardinality(L) <= n
    <3> HIDE DEF L, last
    <3> QED BY <1>11, <1>12, FS_Injection
  <2>2. Cardinality(L) \in Nat
    <3> HIDE DEF L
    <3> QED BY <2>1, FS_CardinalityType
  <2> HIDE DEF L
  <2> QED BY <2>1, <2>2
<1>14. ASSUME L # S
       PROVE  Cardinality(L) = n
  <2>1. PICK l \in S : ~(rank[l] < n)
    BY <1>7, <1>8, <1>14
  <2>2. n <= Cardinality(S) - 1
    <3> HIDE DEF L, rank
    <3> QED BY <1>5, <1>6, <2>1
  <2>3. \A k \in 0 .. n - 1 : \E o \in L : last[o] = k
    <3> SUFFICES ASSUME NEW k \in 0 .. n - 1
                 PROVE  \E o \in L : last[o] = k
      OBVIOUS
    <3>1. PICK o \in S : rank[o] = k
      <4> HIDE DEF L, rank
      <4> QED BY <1>5, <1>6, <2>2
    <3>2. o \in L
      <4> HIDE DEF L, rank
      <4> QED BY <1>7, <3>1
    <3> QED BY <3>1, <3>2
  <2>4. last \in Surjection(L, 0 .. n - 1)
    <3>1. last \in [L -> 0 .. n - 1]
      <4> HIDE DEF L, last
      <4> QED BY <1>12 DEF Injection
    <3> HIDE DEF L, last
    <3> QED BY <2>3, <3>1 DEF Surjection
  <2>5. n <= Cardinality(L)
    <3> HIDE DEF L, last
    <3> QED BY <1>11, <1>13, <2>4, FS_Surjection
  <2> HIDE DEF L
  <2> QED BY <1>13, <2>5
<1>15. ASSUME Cardinality(S) <= n
       PROVE  L = S
  <2>1. \A l \in S : rank[l] < n
    <3> HIDE DEF rank
    <3> QED BY <1>5, <1>6, <1>15
  <2> HIDE DEF L, rank
  <2> QED BY <1>7, <2>1
<1> QED BY <1>8, <1>9, <1>13, <1>14, <1>15

\* The lines in order: each once, and those before an offset first.
LEMMA InOrderIs ==
  ASSUME NEW S, FileLines(S)
  PROVE  /\ InOrder(S) \in Seq(LogLines) /\ Len(InOrder(S)) = Cardinality(S)
         /\ {InOrder(S)[i] : i \in 1 .. Len(InOrder(S))} = S
         /\ \A i, j \in 1 .. Len(InOrder(S)) : i < j => InOrder(S)[i].at < InOrder(S)[j].at
         /\ \A b \in Int : \A i \in 1 .. Len(InOrder(S)) :
              InOrder(S)[i].at < b <=> i <= Cardinality({l \in S : l.at < b})
<1> DEFINE f == [l \in S |-> l.at]
           rank == [l \in S |-> Cardinality(Below(S, f, l))]
           s == InOrder(S)
           n == Cardinality(S)
<1>1. \A l \in S : l.at \in Nat
  BY LineIs DEF FileLines
<1>2. f \in [S -> Int] /\ \A l \in S : f[l] = l.at
  BY <1>1
<1>3. \A l, o \in S : f[l] = f[o] => l = o
  BY DEF FileLines
<1>4. \A l \in S : {other \in S : other.at < l.at} = Below(S, f, l)
  BY DEF Below
<1>5. /\ \A l \in S : rank[l] \in 0 .. n - 1
      /\ \A l, o \in S : f[l] < f[o] => rank[l] < rank[o]
      /\ \A k \in 0 .. n - 1 : \E l \in S : rank[l] = k
      /\ \A l \in S : rank[l] = Cardinality(Below(S, f, l))
  <2>1. IsFiniteSet(S)
    BY DEF FileLines
  <2> HIDE DEF f
  <2> QED BY <1>2, <1>3, <2>1, Ranks
<1>6. n \in Nat
  BY FS_CardinalityType DEF FileLines
<1>7. \A i \in 1 .. n : s[i] \in S /\ rank[s[i]] = i - 1
  <2> SUFFICES ASSUME NEW i \in 1 .. n
               PROVE  s[i] \in S /\ rank[s[i]] = i - 1
    OBVIOUS
  <2>1. s[i] = CHOOSE l \in S : Cardinality({other \in S : other.at < l.at}) = i - 1
    BY DEF InOrder
  <2>2. i - 1 \in 0 .. n - 1
    <3> HIDE DEF n
    <3> QED BY <1>6
  <2>3. \E l \in S : Cardinality({other \in S : other.at < l.at}) = i - 1
    <3> HIDE DEF rank, f, n
    <3> QED BY <1>4, <1>5, <2>2
  <2>4. s[i] \in S /\ Cardinality({other \in S : other.at < s[i].at}) = i - 1
    <3> HIDE DEF s
    <3> QED BY <2>1, <2>3
  <2> HIDE DEF rank, f, n, s
  <2> QED BY <1>4, <1>5, <2>4
<1>8. s \in Seq(LogLines) /\ Len(s) = n /\ DOMAIN s = 1 .. n
  <2>1. DOMAIN s = 1 .. n /\ s = [i \in 1 .. n |-> s[i]]
    <3> DEFINE line(i) == CHOOSE l \in S : Cardinality({other \in S : other.at < l.at}) = i - 1
    <3>1. s = [i \in 1 .. n |-> line(i)]
      BY DEF InOrder
    <3> HIDE DEF s, n, line
    <3> QED BY <3>1
  <2>2. s \in [1 .. n -> LogLines]
    <3>1. \A i \in 1 .. n : s[i] \in LogLines
      BY <1>7 DEF FileLines
    <3> HIDE DEF s, n
    <3> QED BY <2>1, <3>1
  <2> HIDE DEF s, n
  <2> QED BY <1>6, <2>2
<1>9. {s[i] : i \in 1 .. n} = S
  <2>1. \A l \in S : \E i \in 1 .. n : s[i] = l
    <3> SUFFICES ASSUME NEW l \in S PROVE \E i \in 1 .. n : s[i] = l
      OBVIOUS
    <3>1. rank[l] + 1 \in 1 .. n /\ rank[l] \in Int
      <4> HIDE DEF rank, n
      <4> QED BY <1>5, <1>6
    <3>2. PICK i \in 1 .. n : i = rank[l] + 1
      BY <3>1
    <3>3. s[i] \in S /\ rank[s[i]] = rank[l]
      <4> HIDE DEF rank, n, s
      <4> QED BY <1>6, <1>7, <3>1, <3>2
    <3>4. f[s[i]] = f[l]
      <4> HIDE DEF rank, n, s, f
      <4> QED BY <1>2, <1>5, <3>3
    <3>5. s[i] = l
      <4> HIDE DEF rank, n, s, f
      <4> QED BY <1>3, <3>3, <3>4
    <3> QED BY <3>5
  <2> HIDE DEF s, n
  <2> QED BY <1>7, <2>1
<1>10. ASSUME NEW i \in 1 .. n, NEW j \in 1 .. n, i < j
       PROVE  s[i].at < s[j].at
  <2>1. s[i] \in S /\ s[j] \in S /\ rank[s[i]] = i - 1 /\ rank[s[j]] = j - 1
    BY <1>7
  <2>2. ~(f[s[j]] < f[s[i]]) /\ f[s[i]] # f[s[j]]
    <3>1. ~(rank[s[j]] < rank[s[i]]) /\ rank[s[i]] # rank[s[j]]
      <4> HIDE DEF rank, s, n
      <4> QED BY <1>6, <1>10, <2>1
    <3>2. f[s[i]] = f[s[j]] => s[i] = s[j]
      <4> HIDE DEF rank, s, n, f
      <4> QED BY <1>3, <2>1
    <3> HIDE DEF rank, s, n, f
    <3> QED BY <1>5, <2>1, <3>1, <3>2
  <2> HIDE DEF s, n, f, rank
  <2> QED BY <1>1, <1>2, <2>1, <2>2
<1>11. ASSUME NEW b \in Int, NEW i \in 1 .. n
       PROVE  s[i].at < b <=> i <= Cardinality({l \in S : l.at < b})
  <2> DEFINE low == {l \in S : l.at < b}
             mine == Below(S, f, s[i])
  <2>1. s[i] \in S /\ s[i].at \in Nat /\ Cardinality(mine) = i - 1
    <3>1. s[i] \in S /\ rank[s[i]] = i - 1
      BY <1>7
    <3> HIDE DEF s, rank, f, n
    <3> QED BY <1>1, <1>5, <3>1
  <2>2. IsFiniteSet(S) /\ low \in SUBSET S /\ mine \in SUBSET S
    BY DEF Below, FileLines
  <2>3. IsFiniteSet(low) /\ IsFiniteSet(mine) /\ Cardinality(low) \in Nat
    <3> HIDE DEF low, mine
    <3> QED BY <2>2, FS_Subset, FS_CardinalityType
  <2>4. mine = {l \in S : l.at < s[i].at}
    <3> HIDE DEF s, n
    <3> QED BY <2>1 DEF Below
  <2>5. ASSUME s[i].at < b PROVE i <= Cardinality(low)
    <3>1. mine \in SUBSET low /\ s[i] \in low /\ s[i] \notin mine
      <4> HIDE DEF mine, s, n
      <4> QED BY <1>1, <2>1, <2>4, <2>5
    <3>2. Cardinality(mine) <= Cardinality(low) /\ (Cardinality(mine) = Cardinality(low) => low = mine)
      <4> HIDE DEF mine, low, s, n
      <4> QED BY <2>3, <3>1, FS_Subset
    <3>3. low # mine
      BY <3>1
    <3> HIDE DEF mine, low, s, n
    <3> QED BY <1>6, <2>1, <2>3, <3>2, <3>3
  <2>6. ASSUME ~(s[i].at < b) PROVE ~(i <= Cardinality(low))
    <3>1. low \in SUBSET mine
      <4> HIDE DEF mine, s, n
      <4> QED BY <1>1, <2>1, <2>4, <2>6
    <3>2. Cardinality(low) <= Cardinality(mine)
      <4> HIDE DEF mine, low, s, n
      <4> QED BY <2>3, <3>1, FS_Subset
    <3> HIDE DEF mine, low, s, n
    <3> QED BY <1>6, <2>1, <2>3, <3>2
  <2> HIDE DEF low, s, n
  <2> QED BY <2>5, <2>6 DEF low
<1> HIDE DEF s, n
<1> QED BY <1>8, <1>9, <1>10, <1>11 DEF s, n

-----------------------------------------------------------------------------
(* A file.                                                                 *)

\* The lines of a file lie end to end, and what is torn begins where they end.
FileOK(file) ==
  /\ FileLines(file.lines) /\ file.size \in Nat
  /\ \A l \in file.lines : EndOf(l) <= file.size
  /\ \A l, o \in file.lines : l.at < o.at => EndOf(l) <= o.at
  /\ \A l \in file.lines : l.at = 0 \/ \E o \in file.lines : EndOf(o) = l.at
  /\ file.size = 0 \/ \E o \in file.lines : EndOf(o) = file.size
  /\ file.torn \in SUBSET LogLines /\ IsFiniteSet(file.torn) /\ Cardinality(file.torn) <= 1
  /\ \A l \in file.torn : l.at = file.size

\* No line but a long one has bytes on both sides of an offset.
Clear(file, b) ==
  \A l \in file.lines : l.len <= DeltaMaxBytes => EndOf(l) <= b \/ b <= l.at

LEMMA LogSizeIs ==
  ASSUME NEW file, FileOK(file)
  PROVE  LogSize(file) \in Nat /\ file.size <= LogSize(file) /\ LogSize(file) <= file.size + 1
<1>1. Cardinality(file.torn) \in Nat /\ Cardinality(file.torn) <= 1 /\ file.size \in Nat
  BY FS_CardinalityType DEF FileOK
<1> QED BY <1>1 DEF LogSize

LEMMA BreaksAre ==
  ASSUME NEW file, FileOK(file), NEW a \in Nat, NEW b \in Nat, Breaks(file, a, b) # {}
  PROVE  /\ Min(Breaks(file, a, b)) \in Breaks(file, a, b)
         /\ \A n \in Breaks(file, a, b) : Min(Breaks(file, a, b)) <= n
         /\ Max(Breaks(file, a, b)) \in Breaks(file, a, b)
         /\ \A n \in Breaks(file, a, b) : n <= Max(Breaks(file, a, b))
<1> DEFINE B == Breaks(file, a, b)
           end == [l \in file.lines |-> EndOf(l)]
           ends == {EndOf(l) : l \in file.lines}
<1>1. \A l \in file.lines : EndOf(l) \in Nat
  BY LineIs DEF FileOK, FileLines
<1>2. B \in SUBSET Nat /\ B \in SUBSET ends
  BY <1>1 DEF Breaks
<1>3. IsFiniteSet(ends)
  <2>1. end \in [file.lines -> ends] /\ ends = {end[x] : x \in file.lines}
    OBVIOUS
  <2> HIDE DEF end, ends
  <2> QED BY <2>1, FiniteImage DEF FileOK, FileLines
<1>4. IsFiniteSet(B)
  <2> HIDE DEF B, ends
  <2> QED BY <1>2, <1>3, FS_Subset
<1> HIDE DEF B
<1> QED BY <1>2, <1>4, MinIsLeast, MaxIsGreatest DEF B

LEMMA BreakIs ==
  ASSUME NEW file, NEW a \in Nat, NEW b \in Nat, NEW n \in Breaks(file, a, b)
  PROVE  a < n /\ n <= b /\ \E l \in file.lines : EndOf(l) = n
BY DEF Breaks

\* Between lines no line is divided.
LEMMA BetweenLines ==
  ASSUME NEW file, FileOK(file), NEW b,
         b = 0 \/ (\E l \in file.lines : EndOf(l) = b) \/ (\E l \in file.lines : l.at = b)
  PROVE  /\ b \in Nat /\ b <= file.size
         /\ \A l \in file.lines : EndOf(l) <= b \/ b <= l.at
         /\ Clear(file, b)
<1>1. \A l \in file.lines : /\ l.at \in Nat /\ EndOf(l) \in Nat /\ l.at < EndOf(l)
                            /\ EndOf(l) <= file.size
  BY LineIs DEF FileOK, FileLines
<1>2. \A l, o \in file.lines : l.at < o.at => EndOf(l) <= o.at
  BY DEF FileOK
<1>3. \A l, o \in file.lines : l.at = o.at => l = o
  BY DEF FileOK, FileLines
<1>4. file.size \in Nat
  BY DEF FileOK
<1>5. CASE b = 0
  BY <1>1, <1>4, <1>5 DEF Clear
<1>6. ASSUME NEW o \in file.lines, EndOf(o) = b \/ o.at = b
      PROVE  /\ b \in Nat /\ b <= file.size
             /\ \A l \in file.lines : EndOf(l) <= b \/ b <= l.at
  <2>1. b \in Nat /\ b <= file.size
    BY <1>1, <1>4, <1>6
  <2>2. ASSUME NEW l \in file.lines
        PROVE  EndOf(l) <= b \/ b <= l.at
    <3>1. l.at < o.at \/ l = o \/ o.at < l.at
      BY <1>1, <1>3
    <3>2. l.at < o.at => EndOf(l) <= o.at
      BY <1>2
    <3>3. o.at < l.at => EndOf(o) <= l.at
      BY <1>2
    <3> QED BY <1>1, <1>6, <3>1, <3>2, <3>3
  <2> QED BY <2>1, <2>2
<1> QED BY <1>5, <1>6 DEF Clear

\* A stretch that holds no line's end, as long as a delta reads, divides long lines only.
LEMMA InALongLine ==
  ASSUME NEW file, FileOK(file), NEW a \in Nat, NEW b \in Nat, Breaks(file, a, b) = {},
         a + DeltaMaxBytes <= b
  PROVE  Clear(file, a) /\ Clear(file, b)
<1>1. \A l \in file.lines : /\ l.at \in Nat /\ EndOf(l) \in Nat /\ l.at < EndOf(l)
                            /\ EndOf(l) = l.at + l.len /\ l.len \in Nat
  BY LineIs DEF FileOK, FileLines
<1>2. \A l \in file.lines : ~(a < EndOf(l) /\ EndOf(l) <= b)
  BY DEF Breaks
<1>3. DeltaMaxBytes \in Nat \ {0}
  BY LogAssumption DEF LogAssumption
<1>4. \A l \in file.lines : ~(a < l.at /\ l.at <= b)
  <2> SUFFICES ASSUME NEW l \in file.lines, a < l.at, l.at <= b PROVE FALSE
    OBVIOUS
  <2>1. l.at # 0
    BY <1>1
  <2>2. PICK o \in file.lines : EndOf(o) = l.at
    BY <2>1 DEF FileOK
  <2> QED BY <1>2, <2>2
<1>5. ASSUME NEW l \in file.lines, l.len <= DeltaMaxBytes
      PROVE  (EndOf(l) <= a \/ a <= l.at) /\ (EndOf(l) <= b \/ b <= l.at)
  <2>1. EndOf(l) <= a \/ b < EndOf(l)
    BY <1>1, <1>2
  <2>2. l.at <= a \/ b < l.at
    BY <1>1, <1>4
  <2> QED BY <1>1, <1>3, <1>5, <2>1, <2>2
<1> QED BY <1>5 DEF Clear

-----------------------------------------------------------------------------
(* Answers.                                                                *)

LEMMA PartsOfFile ==
  ASSUME NEW file, FileOK(file), NEW a, NEW b, NEW level
  PROVE  /\ FileLines(Within(file, a, b)) /\ FileLines(Matching(Within(file, a, b), level))
         /\ Matching(Within(file, a, b), level) \in SUBSET Within(file, a, b)
         /\ Within(file, a, b) \in SUBSET file.lines
<1>1. FileLines(file.lines)
  BY DEF FileOK
<1>2. Within(file, a, b) \in SUBSET file.lines
  BY DEF Within
<1>3. Matching(Within(file, a, b), level) \in SUBSET Within(file, a, b)
  BY DEF Matching
<1>4. Matching(Within(file, a, b), level) \in SUBSET file.lines
  BY <1>2, <1>3
<1> QED BY <1>1, <1>2, <1>3, <1>4, SomeLines

\* A line of a stretch that matches is a line of the file that does and lies there.
LEMMA PartIs ==
  ASSUME NEW file, NEW a, NEW b, NEW level, NEW line
  PROVE  line \in Matching(Within(file, a, b), level)
           <=> /\ line \in file.lines /\ a <= line.at /\ EndOf(line) <= b
               /\ (level = "all" \/ line.level = level)
BY DEF Matching, Within

\* Some lines of a stretch, all that match among them, are shown by putting them in order.
LEMMA InOrderShows ==
  ASSUME NEW file, FileOK(file), NEW a, NEW b, NEW level
  PROVE  /\ InOrder(Matching(Within(file, a, b), level)) \in Seq(LogLines)
         /\ Shows(InOrder(Matching(Within(file, a, b), level)), 1, file, a, b, level)
<1> DEFINE those == Matching(Within(file, a, b), level)
           s == InOrder(those)
<1>1. FileLines(those)
  BY PartsOfFile
<1>2. /\ s \in Seq(LogLines) /\ {s[i] : i \in 1 .. Len(s)} = those
      /\ \A i, j \in 1 .. Len(s) : i < j => s[i].at < s[j].at
  <2> HIDE DEF those
  <2> QED BY <1>1, InOrderIs
<1>3. Ordinary(those) \in SUBSET those
  BY DEF Ordinary
<1>4. s \in Seq(LogLines) /\ Shows(s, 1, file, a, b, level)
  <2> HIDE DEF s
  <2> QED BY <1>2, <1>3 DEF Shows
<1> QED BY <1>4

\* Two stretches that meet between lines, or in a long one, are one.
LEMMA ShowsJoined ==
  ASSUME NEW file, FileOK(file), NEW a \in Nat, NEW b \in Nat, NEW c \in Nat, a <= b, b <= c,
         Clear(file, b), NEW level,
         NEW s \in Seq(LogLines), NEW k \in Nat \ {0}, Shows(s, k, file, a, b, level),
         k <= Len(s) + 1,
         NEW t \in Seq(LogLines), Shows(t, 1, file, b, c, level)
  PROVE  s \o t \in Seq(LogLines) /\ Shows(s \o t, k, file, a, c, level)
<1> DEFINE u == s \o t
           front == {s[j] : j \in k .. Len(s)}
           back == {t[j] : j \in 1 .. Len(t)}
           fore == Matching(Within(file, a, b), level)
           aft == Matching(Within(file, b, c), level)
           those == Matching(Within(file, a, c), level)
<1>1. /\ u \in Seq(LogLines) /\ Len(u) = Len(s) + Len(t) /\ Len(s) \in Nat /\ Len(t) \in Nat
      /\ \A j \in 1 .. Len(s) : u[j] = s[j]
      /\ \A j \in 1 .. Len(t) : u[Len(s) + j] = t[j]
  OBVIOUS
<1>2. /\ \A j \in k .. Len(s) : u[j] = s[j] /\ j \in k .. Len(u)
      /\ \A j \in 1 .. Len(t) : u[Len(s) + j] = t[j] /\ Len(s) + j \in k .. Len(u)
      /\ \A j \in k .. Len(u) : j > Len(s) => \E m \in 1 .. Len(t) : j = Len(s) + m
  <2>1. \A j \in k .. Len(u) : j > Len(s) => \E m \in 1 .. Len(t) : j = Len(s) + m
    <3> SUFFICES ASSUME NEW j \in k .. Len(u), j > Len(s)
                 PROVE  \E m \in 1 .. Len(t) : j = Len(s) + m
      OBVIOUS
    <3>1. j - Len(s) \in 1 .. Len(t) /\ j = Len(s) + (j - Len(s))
      <4> HIDE DEF u
      <4> QED BY <1>1
    <3> HIDE DEF u
    <3> QED BY <3>1
  <2>2. \A j \in k .. Len(s) : j \in 1 .. Len(s) /\ j \in k .. Len(u)
    <3> HIDE DEF u
    <3> QED BY <1>1
  <2>3. \A j \in 1 .. Len(t) : Len(s) + j \in k .. Len(u)
    <3> HIDE DEF u
    <3> QED BY <1>1
  <2> HIDE DEF u
  <2> QED BY <1>1, <2>1, <2>2, <2>3
<1>3. /\ front \in SUBSET fore /\ Ordinary(fore) \in SUBSET front
      /\ \A i, j \in k .. Len(s) : i < j => s[i].at < s[j].at
  BY DEF Shows
<1>4. /\ back \in SUBSET aft /\ Ordinary(aft) \in SUBSET back
      /\ \A i, j \in 1 .. Len(t) : i < j => t[i].at < t[j].at
  BY DEF Shows
<1>5. \A l \in file.lines : l.at \in Nat /\ EndOf(l) \in Nat /\ l.at < EndOf(l)
  BY LineIs DEF FileOK, FileLines
<1>6. \A l \in fore : l \in file.lines /\ l \in those /\ l.at < b
  <2> SUFFICES ASSUME NEW l \in fore PROVE l \in file.lines /\ l \in those /\ l.at < b
    OBVIOUS
  <2>1. /\ l \in file.lines /\ a <= l.at /\ EndOf(l) <= b /\ (level = "all" \/ l.level = level)
    BY PartIs
  <2>2. EndOf(l) <= c /\ l.at < b
    BY <1>5, <2>1
  <2> QED BY <2>1, <2>2, PartIs
<1>7. \A l \in aft : l \in file.lines /\ l \in those /\ b <= l.at
  <2> SUFFICES ASSUME NEW l \in aft PROVE l \in file.lines /\ l \in those /\ b <= l.at
    OBVIOUS
  <2>1. /\ l \in file.lines /\ b <= l.at /\ EndOf(l) <= c /\ (level = "all" \/ l.level = level)
    BY PartIs
  <2>2. a <= l.at
    BY <1>5, <2>1
  <2> QED BY <2>1, <2>2, PartIs
<1>8. \A l \in Ordinary(those) : l \in Ordinary(fore) \/ l \in Ordinary(aft)
  <2> SUFFICES ASSUME NEW l \in Ordinary(those)
               PROVE  l \in Ordinary(fore) \/ l \in Ordinary(aft)
    OBVIOUS
  <2>1. l \in those /\ l.len <= DeltaMaxBytes
    BY DEF Ordinary
  <2>2. /\ l \in file.lines /\ a <= l.at /\ EndOf(l) <= c /\ (level = "all" \/ l.level = level)
    BY <2>1, PartIs
  <2>3. EndOf(l) <= b \/ b <= l.at
    BY <2>1, <2>2 DEF Clear
  <2>4. l \in fore \/ l \in aft
    BY <2>2, <2>3, PartIs
  <2> QED BY <2>1, <2>4 DEF Ordinary
<1>9. {u[j] : j \in k .. Len(u)} = front \cup back
  <2>1. \A j \in k .. Len(u) : u[j] \in front \cup back
    <3> SUFFICES ASSUME NEW j \in k .. Len(u) PROVE u[j] \in front \cup back
      OBVIOUS
    <3>1. CASE j \in k .. Len(s)
      <4> HIDE DEF u
      <4> QED BY <1>2, <3>1
    <3>2. CASE j > Len(s)
      <4>1. PICK i \in 1 .. Len(t) : j = Len(s) + i
        BY <1>2, <3>2
      <4>2. u[j] = t[i]
        <5> HIDE DEF u
        <5> QED BY <1>2, <3>2, <4>1
      <4> HIDE DEF u
      <4> QED BY <4>2
    <3>3. j \in k .. Len(s) \/ j > Len(s)
      <4> HIDE DEF u
      <4> QED BY <1>1
    <3> QED BY <3>1, <3>2, <3>3
  <2>2. \A l \in front : \E j \in k .. Len(u) : u[j] = l
    <3> HIDE DEF u
    <3> QED BY <1>2
  <2>3. \A l \in back : \E j \in k .. Len(u) : u[j] = l
    <3> HIDE DEF u
    <3> QED BY <1>2
  <2> HIDE DEF u, front, back
  <2> QED BY <2>1, <2>2, <2>3
<1>10. ASSUME NEW i \in k .. Len(u), NEW j \in k .. Len(u), i < j
       PROVE  u[i].at < u[j].at
  <2>1. CASE i \in k .. Len(s) /\ j \in k .. Len(s)
    <3> HIDE DEF u
    <3> QED BY <1>2, <1>3, <1>10, <2>1
  <2>2. CASE i \in k .. Len(s) /\ j > Len(s)
    <3>1. PICK m \in 1 .. Len(t) : j = Len(s) + m
      <4> HIDE DEF u
      <4> QED BY <1>2, <2>2
    <3>4. u[j] = t[m]
      <4> HIDE DEF u
      <4> QED BY <1>2, <3>1
    <3>2. u[i] = s[i]
      <4> HIDE DEF u
      <4> QED BY <1>2, <2>2
    <3>3. s[i] \in fore /\ t[m] \in aft
      <4> HIDE DEF fore, aft
      <4> QED BY <1>3, <1>4, <2>2
    <3>5. /\ s[i] \in file.lines /\ s[i].at < b
          /\ t[m] \in file.lines /\ b <= t[m].at
      <4> HIDE DEF fore, aft, those
      <4> QED BY <1>6, <1>7, <3>3
    <3>6. s[i].at < t[m].at
      <4>1. s[i].at \in Nat /\ t[m].at \in Nat
        BY <1>5, <3>5
      <4>2. \A x, y \in Nat : x < b /\ b <= y => x < y
        OBVIOUS
      <4> HIDE DEF u, front, back, fore, aft, those
      <4> QED BY <3>5, <4>1, <4>2, Zenon
    <3> HIDE DEF u
    <3> QED BY <3>2, <3>4, <3>6
  <2>3. CASE i > Len(s) /\ j > Len(s)
    <3>1. PICK m \in 1 .. Len(t) : j = Len(s) + m
      <4> HIDE DEF u
      <4> QED BY <1>2, <2>3
    <3>2. PICK n \in 1 .. Len(t) : i = Len(s) + n
      <4> HIDE DEF u
      <4> QED BY <1>2, <2>3
    <3>4. u[j] = t[m] /\ u[i] = t[n]
      <4> HIDE DEF u
      <4> QED BY <1>2, <3>1, <3>2
    <3>3. n < m
      <4> HIDE DEF u
      <4> QED BY <1>1, <1>10, <3>1, <3>2
    <3> HIDE DEF u
    <3> QED BY <1>4, <3>3, <3>4
  <2> HIDE DEF u
  <2> QED BY <1>1, <1>2, <1>10, <2>1, <2>2, <2>3
<1>11. front \cup back \subseteq those /\ Ordinary(those) \subseteq front \cup back
  <2> HIDE DEF front, back, fore, aft, those
  <2> QED BY <1>3, <1>4, <1>6, <1>7, <1>8
<1> HIDE DEF u
<1> QED BY <1>1, <1>9, <1>10, <1>11 DEF Shows, u

\* What follows the k - 1 first lines may be kept alone.
LEMMA ShowsRest ==
  ASSUME NEW file, NEW a, NEW b, NEW level, NEW s \in Seq(LogLines), NEW k \in Nat \ {0},
         k <= Len(s) + 1, Shows(s, k, file, a, b, level)
  PROVE  /\ SubSeq(s, k, Len(s)) \in Seq(LogLines)
         /\ Shows(SubSeq(s, k, Len(s)), 1, file, a, b, level)
<1> DEFINE rest == SubSeq(s, k, Len(s))
<1>1. /\ rest \in Seq(LogLines) /\ Len(rest) = Len(s) - k + 1 /\ Len(s) \in Nat
      /\ \A j \in 1 .. Len(rest) : rest[j] = s[j + k - 1]
  OBVIOUS
<1>2. /\ \A j \in 1 .. Len(rest) : rest[j] = s[j + (k - 1)] /\ j + (k - 1) \in k .. Len(s)
      /\ \A j \in k .. Len(s) : j - (k - 1) \in 1 .. Len(rest) /\ rest[j - (k - 1)] = s[j]
  <2>1. \A j \in 1 .. Len(rest) : rest[j] = s[j + (k - 1)] /\ j + (k - 1) \in k .. Len(s)
    <3> HIDE DEF rest
    <3> QED BY <1>1
  <2>2. ASSUME NEW j \in k .. Len(s)
        PROVE  j - (k - 1) \in 1 .. Len(rest) /\ rest[j - (k - 1)] = s[j]
    <3>1. PICK i \in 1 .. Len(rest) : i = j - (k - 1)
      <4> HIDE DEF rest
      <4> QED BY <1>1
    <3>2. i + (k - 1) = j
      BY <3>1
    <3> HIDE DEF rest
    <3> QED BY <2>1, <3>1, <3>2
  <2> HIDE DEF rest
  <2> QED BY <2>1, <2>2
<1>3. {rest[j] : j \in 1 .. Len(rest)} = {s[j] : j \in k .. Len(s)}
  <2>1. \A j \in 1 .. Len(rest) : \E i \in k .. Len(s) : rest[j] = s[i]
    <3> HIDE DEF rest
    <3> QED BY <1>2
  <2>2. \A i \in k .. Len(s) : \E j \in 1 .. Len(rest) : rest[j] = s[i]
    <3> HIDE DEF rest
    <3> QED BY <1>2
  <2> DEFINE A == {rest[j] : j \in 1 .. Len(rest)}
             B == {s[j] : j \in k .. Len(s)}
  <2>3. \A x \in A : x \in B
    <3> HIDE DEF rest
    <3> QED BY <2>1
  <2>4. \A x \in B : x \in A
    <3> HIDE DEF rest
    <3> QED BY <2>2
  <2> HIDE DEF A, B, rest
  <2>5. A = B
    BY <2>3, <2>4
  <2> QED BY <2>5 DEF A, B
<1>4. \A i, j \in k .. Len(s) : i < j => s[i].at < s[j].at
  BY DEF Shows
<1>5. \A i, j \in 1 .. Len(rest) : i < j => rest[i].at < rest[j].at
  <2> SUFFICES ASSUME NEW i \in 1 .. Len(rest), NEW j \in 1 .. Len(rest), i < j
               PROVE  rest[i].at < rest[j].at
    OBVIOUS
  <2>1. i + (k - 1) < j + (k - 1)
    OBVIOUS
  <2> HIDE DEF rest
  <2> QED BY <1>2, <1>4, <2>1
<1>6. Shows(rest, 1, file, a, b, level)
  <2> HIDE DEF rest
  <2> QED BY <1>3, <1>5 DEF Shows
<1> QED BY <1>1, <1>6

\* What is shown of a file is shown of it when lines were added at its end.
Extends(next, file) ==
  /\ FileOK(file) /\ FileOK(next) /\ file.size <= next.size
  /\ file.lines \in SUBSET next.lines
  /\ \A l \in next.lines \ file.lines : file.size <= l.at

LEMMA ShowsLater ==
  ASSUME NEW file, NEW next, Extends(next, file), NEW a, NEW b \in Nat, b <= file.size
  PROVE  /\ Within(next, a, b) = Within(file, a, b)
         /\ Clear(file, b) => Clear(next, b)
         /\ \A s, i, level : Shows(s, i, next, a, b, level) <=> Shows(s, i, file, a, b, level)
<1>1. file.size \in Nat /\ \A l \in next.lines : /\ l.at \in Nat /\ EndOf(l) \in Nat
                                                 /\ l.at < EndOf(l)
  BY LineIs DEF Extends, FileOK, FileLines
<1>2. /\ \A l \in file.lines : l \in next.lines
      /\ \A l \in next.lines : l \in file.lines \/ file.size <= l.at
  BY DEF Extends
<1>3. \A l \in next.lines : EndOf(l) <= b => l \in file.lines
  BY <1>1, <1>2
<1>4. Within(next, a, b) = Within(file, a, b)
  BY <1>2, <1>3 DEF Within
<1>5. Clear(file, b) => Clear(next, b)
  BY <1>1, <1>2 DEF Clear
<1>6. \A s, i, level : Shows(s, i, next, a, b, level) <=> Shows(s, i, file, a, b, level)
  BY <1>4 DEF Shows
<1> QED BY <1>4, <1>5, <1>6

-----------------------------------------------------------------------------
(* Deltas.                                                                 *)

LEMMA DeltaRead ==
  ASSUME NEW file, FileOK(file), NEW cursor \in Nat
  PROVE  /\ ReadLogFileSince(file, cursor).from \in Nat
         /\ ReadLogFileSince(file, cursor).to \in Nat
         /\ cursor <= file.size =>
              /\ ReadLogFileSince(file, cursor).from = cursor
              /\ cursor <= ReadLogFileSince(file, cursor).to
              /\ ReadLogFileSince(file, cursor).to <= file.size
              /\ Clear(file, cursor) => Clear(file, ReadLogFileSince(file, cursor).to)
<1> DEFINE size == LogSize(file)
           from == IF cursor > size THEN 0 ELSE cursor
           upto == from + Lesser(size - from, DeltaMaxBytes)
           breaks == Breaks(file, from, upto)
           to == IF breaks # {} THEN Max(breaks)
                 ELSE IF size - from > DeltaMaxBytes THEN upto ELSE from
           read == ReadLogFileSince(file, cursor)
           Reached == /\ to \in Nat
                      /\ cursor <= file.size => /\ cursor <= to /\ to <= file.size
                                                /\ Clear(file, cursor) => Clear(file, to)
<1>1. read.from = from /\ read.to = to
  BY DEF ReadLogFileSince
<1>2. size \in Nat /\ file.size \in Nat /\ file.size <= size /\ size <= file.size + 1
  BY LogSizeIs DEF FileOK
<1>3. DeltaMaxBytes \in Nat \ {0}
  BY LogAssumption DEF LogAssumption
<1>4. from \in Nat /\ from <= size /\ (cursor <= file.size => from = cursor)
  <2> HIDE DEF size
  <2> QED BY <1>2
<1>5. /\ upto \in Nat /\ from <= upto /\ upto <= size
      /\ size - from > DeltaMaxBytes => upto = from + DeltaMaxBytes /\ upto <= file.size
  <2> HIDE DEF size, from
  <2> QED BY <1>2, <1>3, <1>4 DEF Lesser
<1>6. ASSUME breaks # {} PROVE Reached
  <2>1. Max(breaks) \in breaks
    <3> HIDE DEF from, upto
    <3> QED BY <1>4, <1>5, <1>6, BreaksAre
  <2>2. PICK l \in file.lines : from < Max(breaks) /\ EndOf(l) = Max(breaks)
    <3> HIDE DEF from, upto
    <3> QED BY <1>4, <1>5, <2>1, BreakIs
  <2>3. Max(breaks) \in Nat /\ Max(breaks) <= file.size /\ Clear(file, Max(breaks))
    <3> HIDE DEF breaks
    <3> QED BY <2>2, BetweenLines
  <2>4. to = Max(breaks)
    BY <1>6
  <2> HIDE DEF from, to, breaks
  <2> QED BY <1>4, <2>2, <2>3, <2>4
<1>7. ASSUME breaks = {} /\ size - from > DeltaMaxBytes PROVE Reached
  <2>1. to = upto
    BY <1>7
  <2>2. Clear(file, upto)
    <3> HIDE DEF from, upto, size
    <3> QED BY <1>3, <1>4, <1>5, <1>7, InALongLine
  <2> HIDE DEF from, to, upto, size, breaks
  <2> QED BY <1>4, <1>5, <1>7, <2>1, <2>2
<1>8. ASSUME breaks = {} /\ ~(size - from > DeltaMaxBytes) PROVE Reached
  <2>1. to = from
    BY <1>8
  <2> HIDE DEF from, to, size, breaks
  <2> QED BY <1>2, <1>4, <2>1
<1>9. Reached
  BY <1>6, <1>7, <1>8
<1> HIDE DEF from, to
<1> QED BY <1>1, <1>4, <1>9

LEMMA DeltaFits ==
  ASSUME NEW file, FileOK(file), NEW cursor \in Nat, NEW level
  PROVE  /\ Delta(file, cursor, level) \in Deltas
         /\ cursor <= file.size /\ Clear(file, cursor) =>
              /\ cursor <= Delta(file, cursor, level).cursor
              /\ Delta(file, cursor, level).cursor <= file.size
              /\ Clear(file, Delta(file, cursor, level).cursor)
              /\ Shows(Delta(file, cursor, level).entries, 1, file,
                       cursor, Delta(file, cursor, level).cursor, level)
<1> DEFINE read == ReadLogFileSince(file, cursor)
           d == Delta(file, cursor, level)
           s == InOrder(Matching(Within(file, read.from, read.to), level))
<1>1. /\ d.entries = s /\ d.cursor = read.to
      /\ d = [entries |-> s, cursor |-> read.to,
              restarted |-> \E line \in Within(file, read.from, read.to) : line.starts]
  BY DEF Delta
<1>2. s \in Seq(LogLines) /\ Shows(s, 1, file, read.from, read.to, level)
  <2> HIDE DEF read
  <2> QED BY InOrderShows
<1>3. d \in Deltas
  <2>1. read.to \in Nat
    BY DeltaRead
  <2>2. (\E line \in Within(file, read.from, read.to) : line.starts) \in BOOLEAN
    OBVIOUS
  <2> HIDE DEF read, s, d
  <2> QED BY <1>1, <1>2, <2>1, <2>2 DEF Deltas
<1>4. cursor <= file.size => /\ read.from = cursor /\ cursor <= read.to /\ read.to <= file.size
                             /\ Clear(file, cursor) => Clear(file, read.to)
  BY DeltaRead
<1> HIDE DEF read, s, d
<1>5. /\ d \in Deltas
      /\ cursor <= file.size /\ Clear(file, cursor) =>
           /\ cursor <= d.cursor /\ d.cursor <= file.size /\ Clear(file, d.cursor)
           /\ Shows(d.entries, 1, file, cursor, d.cursor, level)
  BY <1>1, <1>2, <1>3, <1>4
<1> QED BY <1>5 DEF d

-----------------------------------------------------------------------------
(* Pages of older lines.                                                   *)

\* A chunk ends where it is asked to and begins between lines, at the start of the file
\* or in a long line, and never ahead.
LEMMA ChunkRead ==
  ASSUME NEW file, FileOK(file), NEW at \in Nat \ {0}
  PROVE  LET chunk == ReadLogLinesBefore(file, at)
         IN /\ chunk.from \in Nat /\ chunk.from <= at
            /\ chunk.from = at => \E l \in file.lines : l.len >= PageChunkBytes
            /\ FileLines(chunk.lines)
            /\ \A l \in chunk.lines : l \in file.lines /\ EndOf(l) <= at
            /\ at <= file.size => /\ chunk.lines = Within(file, chunk.from, at)
                                  /\ Clear(file, chunk.from)
<1> DEFINE upto == Lesser(at, LogSize(file))
           start == Greater(0, upto - PageChunkBytes)
           breaks == Breaks(file, start, upto)
           from == IF start > 0 /\ breaks # {} THEN Min(breaks) ELSE start
           chunk == ReadLogLinesBefore(file, at)
           lines == IF start > 0 /\ breaks = {} THEN {} ELSE Within(file, from, upto)
<1>1. chunk.from = from /\ chunk.lines = lines
  BY DEF ReadLogLinesBefore
<1>2. LogSize(file) \in Nat /\ file.size \in Nat /\ file.size <= LogSize(file)
  BY LogSizeIs DEF FileOK
<1>3. PageChunkBytes \in Nat \ {0} /\ DeltaMaxBytes \in Nat /\ DeltaMaxBytes <= PageChunkBytes
  BY LogAssumption DEF LogAssumption
<1>4. upto \in Nat /\ upto <= at /\ (at <= file.size => upto = at)
  BY <1>2 DEF Lesser
<1>5. /\ start \in Nat /\ start <= upto /\ start < at
      /\ start > 0 => start + PageChunkBytes = upto
  <2> HIDE DEF upto
  <2> QED BY <1>3, <1>4 DEF Greater
<1>6. \A l \in file.lines : /\ l.at \in Nat /\ EndOf(l) \in Nat /\ l.at < EndOf(l)
                            /\ EndOf(l) = l.at + l.len /\ l.len \in Nat
  BY LineIs DEF FileOK, FileLines
<1>7. FileLines(lines) /\ \A l \in lines : l \in file.lines /\ EndOf(l) <= at
  <2>1. lines \in SUBSET file.lines /\ \A l \in lines : EndOf(l) <= upto
    BY DEF Within
  <2>2. FileLines(file.lines)
    BY DEF FileOK
  <2>3. \A l \in lines : EndOf(l) <= at
    <3> HIDE DEF lines, upto
    <3> QED BY <1>4, <1>6, <2>1
  <2> HIDE DEF lines
  <2> QED BY <2>1, <2>2, <2>3, SomeLines
<1>8. CASE start > 0 /\ breaks # {}
  <2>1. Min(breaks) \in breaks /\ \A n \in breaks : Min(breaks) <= n
    <3> HIDE DEF start, upto
    <3> QED BY <1>4, <1>5, <1>8, BreaksAre
  <2>2. PICK l \in file.lines : start < Min(breaks) /\ Min(breaks) <= upto /\ EndOf(l) = Min(breaks)
    <3> HIDE DEF start, upto
    <3> QED BY <1>4, <1>5, <2>1, BreakIs
  <2>3. Min(breaks) \in Nat /\ Clear(file, Min(breaks))
    <3> HIDE DEF breaks
    <3> QED BY <2>2, BetweenLines
  <2>4. from = Min(breaks) /\ lines = Within(file, from, upto)
    BY <1>8
  <2>5. from = at => l.len >= PageChunkBytes
    <3> SUFFICES ASSUME from = at PROVE l.len >= PageChunkBytes
      OBVIOUS
    <3>1. EndOf(l) = upto /\ upto = at
      <4> HIDE DEF from, breaks, upto
      <4> QED BY <1>4, <2>2, <2>3, <2>4
    <3>2. l.at <= start
      <4> SUFFICES ASSUME start < l.at PROVE FALSE
        BY <1>5, <1>6
      <4>1. PICK o \in file.lines : EndOf(o) = l.at
        <5>1. l.at # 0
          <6> HIDE DEF start
          <6> QED BY <1>5, <1>6
        <5> QED BY <5>1 DEF FileOK
      <4>2. l.at \in breaks
        <5>1. start < l.at /\ l.at <= upto
          <6> HIDE DEF start, upto
          <6> QED BY <1>4, <1>6, <3>1
        <5> HIDE DEF start, upto
        <5> QED BY <4>1, <5>1 DEF Breaks
      <4>3. Min(breaks) <= l.at
        BY <2>1, <4>2
      <4> HIDE DEF start, upto, breaks
      <4> QED BY <1>6, <2>2, <3>1, <4>3
    <3> HIDE DEF start, upto, from
    <3> QED BY <1>3, <1>4, <1>5, <1>6, <1>8, <3>1, <3>2
  <2> HIDE DEF start, upto, from, breaks, lines, chunk
  <2> QED BY <1>1, <1>4, <1>7, <2>2, <2>3, <2>4, <2>5 DEF chunk
<1>9. CASE start > 0 /\ breaks = {}
  <2>1. from = start /\ lines = {}
    BY <1>9
  <2>2. Clear(file, start)
    <3> HIDE DEF start, upto
    <3> QED BY <1>3, <1>4, <1>5, <1>9, InALongLine
  <2>3. at <= file.size => Within(file, start, at) = {}
    <3> SUFFICES ASSUME at <= file.size, NEW l \in Within(file, start, at) PROVE FALSE
      BY DEF Within
    <3>1. l \in file.lines /\ start <= l.at /\ EndOf(l) <= at /\ upto = at
      <4> HIDE DEF start, upto
      <4> QED BY <1>4 DEF Within
    <3>2. EndOf(l) \in breaks
      <4>1. start < EndOf(l) /\ EndOf(l) <= upto
        <5> HIDE DEF start, upto
        <5> QED BY <1>5, <1>6, <3>1
      <4> HIDE DEF start, upto
      <4> QED BY <3>1, <4>1 DEF Breaks
    <3> QED BY <1>9, <3>2
  <2> HIDE DEF start, upto, from, breaks, lines, chunk
  <2> QED BY <1>1, <1>5, <1>7, <2>1, <2>2, <2>3 DEF chunk
<1>10. CASE ~(start > 0)
  <2>1. from = start /\ lines = Within(file, from, upto)
    BY <1>10
  <2>2. start = 0
    <3> HIDE DEF start
    <3> QED BY <1>5, <1>10
  <2>3. Clear(file, 0)
    BY BetweenLines
  <2> HIDE DEF start, upto, from, breaks, lines, chunk
  <2> QED BY <1>1, <1>4, <1>7, <2>1, <2>2, <2>3 DEF chunk
<1> QED BY <1>8, <1>9, <1>10

\* A pass brings the lines between where the page stood and where it then stands.
LEMMA NextChunkFits ==
  ASSUME NEW file, FileOK(file), NEW p \in OlderPages, ~PageDone(p, PageLines),
         p.at <= p.before
  PROVE  LET next == NextChunk(file, p, PageLines)
         IN /\ next \in OlderPages /\ next.level = p.level /\ next.before = p.before
            /\ next.stale = p.stale /\ next.at <= p.at
            /\ next.at = p.at => \E l \in file.lines : l.len >= PageChunkBytes
            /\ /\ p.before <= file.size /\ Clear(file, p.at)
               /\ Shows(p.picked, 1, file, p.at, p.before, p.level)
               => /\ Clear(file, next.at)
                  /\ Shows(next.picked, 1, file, next.at, p.before, p.level)
<1> DEFINE chunk == ReadLogLinesBefore(file, p.at)
           those == Matching(chunk.lines, p.level)
           room == PageLines - Len(p.picked)
           found == LastOf(those, room)
           full == Len(p.picked) + Cardinality(found) >= PageLines
           at == IF full THEN First(found) ELSE chunk.from
           picked == InOrder(found) \o p.picked
           scanned == p.scanned + Greater(1, p.at - chunk.from)
           next == NextChunk(file, p, PageLines)
<1>1. /\ p.level \in Levels /\ p.before \in Nat \ {0} /\ p.stale \in BOOLEAN /\ p.at \in Nat
      /\ p.picked \in Seq(LogLines) /\ p.scanned \in Nat /\ Len(p.picked) \in Nat
  BY DEF OlderPages
<1>2. p.at \in Nat \ {0} /\ room \in Nat \ {0}
  <2>1. PageLines \in Nat
    BY LogAssumption DEF LogAssumption
  <2>2. ~(p.at <= 0) /\ ~(Len(p.picked) >= PageLines)
    BY DEF PageDone
  <2> QED BY <1>1, <2>1, <2>2
<1>3. /\ chunk.from \in Nat /\ chunk.from <= p.at
      /\ chunk.from = p.at => \E l \in file.lines : l.len >= PageChunkBytes
      /\ FileLines(chunk.lines)
      /\ \A l \in chunk.lines : l \in file.lines /\ EndOf(l) <= p.at
      /\ p.at <= file.size => chunk.lines = Within(file, chunk.from, p.at) /\ Clear(file, chunk.from)
  BY <1>2, ChunkRead
<1>4. those \in SUBSET chunk.lines /\ FileLines(those)
  <2>1. those \in SUBSET chunk.lines
    BY DEF Matching
  <2> HIDE DEF those, chunk
  <2> QED BY <1>3, <2>1, SomeLines
<1>5. /\ found \in SUBSET those /\ FileLines(found) /\ Cardinality(found) \in 0 .. room
      /\ \A l \in found, o \in those : l.at < o.at => o \in found
      /\ found # those => Cardinality(found) = room
  <2>1. /\ found \in SUBSET those /\ Cardinality(found) \in 0 .. room
        /\ \A l \in found, o \in those : l.at < o.at => o \in found
        /\ found # those => Cardinality(found) = room
    <3> HIDE DEF those, room
    <3> QED BY <1>2, <1>4, LastOfIs
  <2>2. FileLines(found)
    <3> HIDE DEF those, found
    <3> QED BY <1>4, <2>1, SomeLines
  <2> QED BY <2>1, <2>2
<1>6. ASSUME full
      PROVE  /\ First(found) \in Nat /\ \A l \in found : First(found) <= l.at
             /\ \E l \in found : l.at = First(found)
  <2>1. PageLines \in Nat
    BY LogAssumption DEF LogAssumption
  <2>2. Cardinality(found) # 0
    <3> HIDE DEF found
    <3> QED BY <1>1, <1>2, <1>6, <2>1
  <2>3. found # {}
    <3> HIDE DEF found
    <3> QED BY <2>2, FS_EmptySet
  <2> HIDE DEF found
  <2> QED BY <1>5, <2>3, FirstIs
<1>7. \A l \in file.lines : l.at \in Nat /\ EndOf(l) \in Nat /\ l.at < EndOf(l)
  BY LineIs DEF FileOK, FileLines
<1>8. at \in Nat /\ at <= p.at /\ (at = p.at => \E l \in file.lines : l.len >= PageChunkBytes)
  <2>1. CASE full
    <3>1. PICK l \in found : l.at = First(found)
      BY <1>6, <2>1
    <3>2. l \in file.lines /\ EndOf(l) <= p.at
      <4> HIDE DEF found, those, chunk
      <4> QED BY <1>3, <1>4, <1>5
    <3>3. First(found) < p.at /\ First(found) \in Nat
      <4> HIDE DEF found
      <4> QED BY <1>1, <1>7, <3>1, <3>2
    <3>4. at = First(found)
      BY <2>1
    <3> HIDE DEF at, found
    <3> QED BY <1>1, <3>3, <3>4
  <2>2. CASE ~full
    <3>1. at = chunk.from
      BY <2>2
    <3> HIDE DEF at, chunk
    <3> QED BY <1>3, <3>1
  <2> QED BY <2>1, <2>2
<1>9. p.at <= file.size => found = Matching(Within(file, at, p.at), p.level) /\ Clear(file, at)
  <2> SUFFICES ASSUME p.at <= file.size
               PROVE  found = Matching(Within(file, at, p.at), p.level) /\ Clear(file, at)
    OBVIOUS
  <2>1. those = Matching(Within(file, chunk.from, p.at), p.level) /\ Clear(file, chunk.from)
    BY <1>3
  <2>2. CASE full
    <3>1. at = First(found)
      BY <2>2
    <3>2. PICK l0 \in found : l0.at = at /\ \A l \in found : at <= l.at
      <4> HIDE DEF found, full
      <4> QED BY <1>6, <2>2, <3>1
    <3>3. \A l \in those : /\ l \in file.lines /\ chunk.from <= l.at /\ EndOf(l) <= p.at
                           /\ p.level = "all" \/ l.level = p.level
      <4> HIDE DEF those, chunk
      <4> QED BY <2>1, PartIs
    <3>4. l0 \in those /\ l0 \in file.lines
      <4> HIDE DEF found, those
      <4> QED BY <1>5, <3>2, <3>3
    <3>5. Clear(file, at)
      <4> HIDE DEF at, found, those
      <4> QED BY <3>2, <3>4, BetweenLines
    <3>6. \A l \in found : l \in Matching(Within(file, at, p.at), p.level)
      <4> HIDE DEF at, found, those
      <4> QED BY <1>5, <3>2, <3>3, PartIs
    <3>7. ASSUME NEW l \in Matching(Within(file, at, p.at), p.level)
          PROVE  l \in found
      <4>1. /\ l \in file.lines /\ at <= l.at /\ EndOf(l) <= p.at
            /\ p.level = "all" \/ l.level = p.level
        <5> HIDE DEF at
        <5> QED BY <3>7, PartIs
      <4>2. chunk.from <= l.at
        <5>1. chunk.from <= l0.at /\ l0.at <= l.at
          <6> HIDE DEF at, found, those, chunk
          <6> QED BY <3>2, <3>3, <3>4, <4>1
        <5> HIDE DEF at, found, those, chunk
        <5> QED BY <1>3, <1>7, <3>4, <4>1, <5>1
      <4>3. l \in those
        <5> HIDE DEF at, found, those, chunk
        <5> QED BY <2>1, <4>1, <4>2, PartIs
      <4>4. l0.at < l.at \/ l0.at = l.at
        <5> HIDE DEF at, found, those, chunk
        <5> QED BY <1>7, <3>2, <3>4, <4>1
      <4>5. l0.at = l.at => l0 = l
        <5> HIDE DEF at, found, those, chunk
        <5> QED BY <1>4, <3>4, <4>3 DEF FileLines
      <4> HIDE DEF at, found, those, chunk
      <4> QED BY <1>5, <4>3, <4>4, <4>5
    <3> HIDE DEF at, found
    <3> QED BY <3>5, <3>6, <3>7
  <2>3. CASE ~full
    <3>1. at = chunk.from
      BY <2>3
    <3>2. found = those
      <4>1. PageLines \in Nat
        BY LogAssumption DEF LogAssumption
      <4>2. Cardinality(found) # room
        <5> HIDE DEF found
        <5> QED BY <1>1, <1>2, <1>5, <2>3, <4>1
      <4> HIDE DEF found, those, room
      <4> QED BY <1>5, <4>2
    <3> HIDE DEF at, found, those, chunk
    <3> QED BY <2>1, <3>1, <3>2
  <2> QED BY <2>2, <2>3
<1>10. InOrder(found) \in Seq(LogLines) /\ picked \in Seq(LogLines)
  <2>1. InOrder(found) \in Seq(LogLines)
    <3> HIDE DEF found
    <3> QED BY <1>5, InOrderIs
  <2> HIDE DEF found
  <2> QED BY <1>1, <2>1
<1>11. /\ next \in OlderPages /\ next.level = p.level /\ next.before = p.before
       /\ next.stale = p.stale /\ next.at = at /\ next.picked = picked
  <2>1. next = [p EXCEPT !.at = at, !.picked = picked, !.scanned = scanned]
    BY DEF NextChunk
  <2>2. scanned \in Nat
    <3> HIDE DEF chunk
    <3> QED BY <1>1, <1>3 DEF Greater
  <2> HIDE DEF next, at, picked, scanned
  <2> QED BY <1>8, <1>10, <2>1, <2>2 DEF OlderPages
<1>12. ASSUME p.before <= file.size, Clear(file, p.at),
              Shows(p.picked, 1, file, p.at, p.before, p.level)
       PROVE  Clear(file, at) /\ Shows(picked, 1, file, at, p.before, p.level)
  <2>1. p.at <= file.size
    <3>1. file.size \in Nat
      BY DEF FileOK
    <3> QED BY <1>1, <1>12, <3>1
  <2>2. Clear(file, at) /\ found = Matching(Within(file, at, p.at), p.level)
    BY <1>9, <2>1
  <2>3. Shows(InOrder(found), 1, file, at, p.at, p.level)
    <3> HIDE DEF found, at
    <3> QED BY <2>2, InOrderShows
  <2>4. 1 <= Len(InOrder(found)) + 1 /\ 1 \in Nat \ {0}
    <3> HIDE DEF found
    <3> QED BY <1>10
  <2>5. Shows(picked, 1, file, at, p.before, p.level)
    <3> HIDE DEF found, at
    <3> QED BY <1>1, <1>8, <1>10, <1>12, <2>3, <2>4, ShowsJoined
  <2> QED BY <2>2, <2>5
<1> HIDE DEF next, at, picked
<1>13. /\ next \in OlderPages /\ next.level = p.level /\ next.before = p.before
       /\ next.stale = p.stale /\ next.at <= p.at
       /\ next.at = p.at => \E l \in file.lines : l.len >= PageChunkBytes
       /\ /\ p.before <= file.size /\ Clear(file, p.at)
          /\ Shows(p.picked, 1, file, p.at, p.before, p.level)
          => /\ Clear(file, next.at)
             /\ Shows(next.picked, 1, file, next.at, p.before, p.level)
  BY <1>8, <1>11, <1>12
<1> QED BY <1>13 DEF next

-----------------------------------------------------------------------------
(* Snapshots.                                                              *)

LEMMA TailRead ==
  ASSUME NEW file, FileOK(file)
  PROVE  /\ ReadLogTail(file).from \in Nat /\ ReadLogTail(file).to \in Nat
         /\ Within(file, ReadLogTail(file).from, ReadLogTail(file).to) # {} =>
              /\ \/ ReadLogTail(file).from = 0
                 \/ \E l \in file.lines : EndOf(l) = ReadLogTail(file).from
              /\ \E l \in file.lines : EndOf(l) = ReadLogTail(file).to
              /\ ReadLogTail(file).from <= ReadLogTail(file).to
<1> DEFINE size == LogSize(file)
           start == Greater(0, size - TailMaxBytes)
           breaks == Breaks(file, start, size)
           from == IF start > 0 /\ breaks # {} THEN Min(breaks) ELSE start
           to == IF breaks = {} THEN start ELSE Max(breaks)
           Whole == \/ from = 0
                    \/ \E l \in file.lines : EndOf(l) = from
           read == ReadLogTail(file)
<1>1. read.from = from /\ read.to = to
  BY DEF ReadLogTail
<1>2. size \in Nat /\ start \in Nat
  <2>1. size \in Nat /\ TailMaxBytes \in Nat
    BY LogSizeIs, LogAssumption DEF LogAssumption
  <2> HIDE DEF size
  <2> QED BY <2>1 DEF Greater
<1>3. \A l \in file.lines : l.at \in Nat /\ EndOf(l) \in Nat /\ l.at < EndOf(l)
  BY LineIs DEF FileOK, FileLines
<1>4. ASSUME breaks = {}
      PROVE  from \in Nat /\ to \in Nat /\ Within(file, from, to) = {}
  <2>1. from = start /\ to = start
    BY <1>4
  <2>2. Within(file, start, start) = {}
    <3> HIDE DEF start
    <3> QED BY <1>2, <1>3 DEF Within
  <2> HIDE DEF from, to, start
  <2> QED BY <1>2, <2>1, <2>2
<1>5. ASSUME breaks # {}
      PROVE  /\ from \in Nat /\ to \in Nat /\ from <= to /\ Whole
             /\ \E l \in file.lines : EndOf(l) = to
  <2>1. /\ Min(breaks) \in breaks /\ Max(breaks) \in breaks
        /\ \A n \in breaks : Min(breaks) <= n
    <3> HIDE DEF start, size
    <3> QED BY <1>2, <1>5, BreaksAre
  <2>2. \A n \in breaks : start < n /\ n \in Nat /\ \E l \in file.lines : EndOf(l) = n
    <3> SUFFICES ASSUME NEW n \in breaks
                 PROVE  start < n /\ n \in Nat /\ \E l \in file.lines : EndOf(l) = n
      OBVIOUS
    <3>1. start < n /\ \E l \in file.lines : EndOf(l) = n
      <4> HIDE DEF start, size
      <4> QED BY <1>2, BreakIs
    <3> QED BY <1>3, <3>1
  <2>3. to = Max(breaks) /\ from \in {Min(breaks), start} /\ (from = Min(breaks) \/ ~(start > 0))
    BY <1>5
  <2> HIDE DEF from, to, breaks, start
  <2> QED BY <1>2, <2>1, <2>2, <2>3
<1> HIDE DEF from, to, breaks
<1> QED BY <1>1, <1>4, <1>5

\* What a snapshot picks among the lines it found: from an offset on every one of them,
\* and before it nothing but warnings.
LEMMA Picked ==
  ASSUME NEW found, FileLines(found), NEW limit \in Nat \ {0}, NEW from \in Nat,
         \A l \in found : from <= l.at
  PROVE  LET important == {line \in found : line.level = "warn"}
             newest == LastOf(found \ important, limit)
             room == limit - Cardinality(important)
             cut == Cardinality(newest) >= limit \/ (room > 0 /\ Cardinality(newest) > room)
             routine == IF room > 0 THEN LastOf(newest, room) ELSE newest
             merged == LastOf(important \cup routine, limit)
             before == IF room > 0 /\ cut THEN First(routine)
                       ELSE IF room <= 0 THEN First(merged) ELSE from
         IN /\ merged \in SUBSET found /\ before \in Nat
            /\ before = from \/ \E l \in found : l.at = before
            /\ \A l \in found : before <= l.at => l \in merged
            /\ \A l \in merged : l.at < before => l.level = "warn"
<1> DEFINE important == {line \in found : line.level = "warn"}
           others == found \ important
           newest == LastOf(others, limit)
           room == limit - Cardinality(important)
           cut == Cardinality(newest) >= limit \/ (room > 0 /\ Cardinality(newest) > room)
           routine == IF room > 0 THEN LastOf(newest, room) ELSE newest
           merged == LastOf(important \cup routine, limit)
           before == IF room > 0 /\ cut THEN First(routine)
                     ELSE IF room <= 0 THEN First(merged) ELSE from
           Chosen == /\ merged \in SUBSET found /\ before \in Nat
                     /\ before = from \/ \E l \in found : l.at = before
                     /\ \A l \in found : before <= l.at => l \in merged
                     /\ \A l \in merged : l.at < before => l.level = "warn"
<1>1. /\ \A l \in found : l.at \in Nat
      /\ \A l, o \in found : l.at = o.at => l = o
  BY LineIs DEF FileLines
<1>2. /\ important \in SUBSET found /\ others \in SUBSET found
      /\ \A l \in found : l \in important \/ l \in others
      /\ \A l \in important : l.level = "warn"
  OBVIOUS
<1>3. /\ FileLines(important) /\ FileLines(others) /\ Cardinality(important) \in Nat
  <2> HIDE DEF important, others
  <2> QED BY <1>2, SomeLines
<1>4. room \in Int /\ limit \in Nat
  <2> HIDE DEF important
  <2> QED BY <1>3
<1>5. /\ newest \in SUBSET others /\ Cardinality(newest) \in 0 .. limit
      /\ \A l \in newest, o \in others : l.at < o.at => o \in newest
      /\ newest # others => Cardinality(newest) = limit
  <2> HIDE DEF others
  <2> QED BY <1>3, <1>4, LastOfIs
<1>6. FileLines(newest)
  <2> HIDE DEF others, newest
  <2> QED BY <1>3, <1>5, SomeLines
<1>7. ASSUME room > 0, NEW R \in SUBSET newest, Cardinality(R) <= room
      PROVE  LastOf(important \cup R, limit) = important \cup R
  <2>1. FileLines(R) /\ Cardinality(R) \in Nat
    <3> HIDE DEF newest
    <3> QED BY <1>6, SomeLines
  <2>2. important \cup R \in SUBSET found
    <3> HIDE DEF important, newest, others
    <3> QED BY <1>2, <1>5
  <2>3. FileLines(important \cup R)
    <3> HIDE DEF important
    <3> QED BY <2>2, SomeLines
  <2>4. /\ IsFiniteSet(important) /\ IsFiniteSet(R)
    <3> HIDE DEF important
    <3> QED BY <1>3, <2>1 DEF FileLines
  <2>5. /\ Cardinality(important \cup R)
             = Cardinality(important) + Cardinality(R) - Cardinality(important \cap R)
        /\ Cardinality(important \cap R) \in Nat
    <3>1. IsFiniteSet(important \cap R)
      <4> HIDE DEF important
      <4> QED BY <2>4, FS_Intersection
    <3>2. Cardinality(important \cap R) \in Nat
      <4> HIDE DEF important
      <4> QED BY <3>1, FS_CardinalityType
    <3> HIDE DEF important
    <3> QED BY <2>4, <3>2, FS_Union, Zenon
  <2>6. Cardinality(important \cup R) <= limit
    <3> DEFINE i == Cardinality(important)
               r == Cardinality(R)
               b == Cardinality(important \cap R)
               u == Cardinality(important \cup R)
    <3>1. /\ i \in Nat /\ r \in Nat /\ b \in Nat /\ u = i + (r - b) /\ r <= limit - i
      <4>1. u = i + r - b /\ i \in Nat /\ r \in Nat /\ b \in Nat
        BY <1>3, <2>1, <2>5
      <4>2. r <= limit - i
        BY <1>7
      <4> HIDE DEF i, r, b, u
      <4> QED BY <4>1, <4>2
    <3> HIDE DEF i, r, b, u
    <3>2. u <= limit
      BY <1>4, <3>1
    <3> QED BY <3>2 DEF u
  <2> HIDE DEF important
  <2> QED BY <1>4, <2>3, <2>6, LastOfIs
<1>8. ASSUME room > 0 /\ cut
      PROVE  Chosen
  <2> DEFINE last == LastOf(newest, room)
  <2>1. /\ last \in SUBSET newest /\ Cardinality(last) \in 0 .. room
        /\ \A l \in last, o \in newest : l.at < o.at => o \in last
        /\ last # newest => Cardinality(last) = room
    <3>1. room \in Nat
      <4> HIDE DEF room
      <4> QED BY <1>4, <1>8
    <3> HIDE DEF newest, room
    <3> QED BY <1>6, <3>1, LastOfIs
  <2>2. last # {}
    <3>1. Cardinality(last) # 0
      <4>1. Cardinality(newest) # 0
        <5> HIDE DEF newest, room
        <5> QED BY <1>4, <1>5, <1>8
      <4> HIDE DEF newest, room, last
      <4> QED BY <1>4, <1>8, <2>1, <4>1
    <3> HIDE DEF last
    <3> QED BY <3>1, FS_EmptySet
  <2>3. merged = important \cup last /\ before = First(last)
    <3>1. routine = last
      BY <1>8
    <3>2. LastOf(important \cup last, limit) = important \cup last
      <4>1. Cardinality(last) <= room
        <5> HIDE DEF last, room
        <5> QED BY <1>4, <2>1
      <4> HIDE DEF important, last, room, newest
      <4> QED BY <1>7, <1>8, <2>1, <4>1
    <3>3. before = First(routine)
      BY <1>8
    <3> HIDE DEF important, last, routine, before
    <3> QED BY <3>1, <3>2, <3>3
  <2>4. FileLines(last)
    <3> HIDE DEF last, newest
    <3> QED BY <1>6, <2>1, SomeLines
  <2>5. PICK r \in last : r.at = First(last) /\ \A l \in last : First(last) <= l.at
    <3> HIDE DEF last
    <3> QED BY <2>2, <2>4, FirstIs
  <2>6. r \in newest /\ r \in others /\ r \in found /\ r.at \in Nat
    <3> HIDE DEF last, newest, others
    <3> QED BY <1>1, <1>2, <1>5, <2>1
  <2>7. ASSUME NEW l \in others, r.at <= l.at
        PROVE  l \in last
    <3>1. l.at \in Nat /\ (r.at = l.at => l = r)
      <4> HIDE DEF last, newest, others
      <4> QED BY <1>1, <1>2, <2>6
    <3>2. r.at < l.at => l \in newest
      <4> HIDE DEF last, newest, others
      <4> QED BY <1>5, <2>6
    <3> HIDE DEF last, newest, others
    <3> QED BY <2>1, <2>6, <2>7, <3>1, <3>2
  <2>8. \A l \in found : r.at <= l.at => l \in important \cup last
    <3> HIDE DEF last, newest, others, important
    <3> QED BY <1>2, <2>7
  <2>9. \A l \in important \cup last : l.at < r.at => l.level = "warn"
    <3> SUFFICES ASSUME NEW l \in last PROVE ~(l.at < r.at)
      BY <1>2
    <3>1. l \in found
      <4> HIDE DEF last, newest, others
      <4> QED BY <1>2, <1>5, <2>1
    <3> HIDE DEF last, newest, others
    <3> QED BY <1>1, <2>5, <2>6, <3>1
  <2>10. important \cup last \in SUBSET found
    <3> HIDE DEF last, newest, others, important
    <3> QED BY <1>2, <1>5, <2>1
  <2> HIDE DEF last, merged, before, important
  <2> QED BY <2>3, <2>5, <2>6, <2>8, <2>9, <2>10
<1>9. ASSUME room > 0, ~cut
      PROVE  Chosen
  <2>1. Cardinality(newest) < limit /\ Cardinality(newest) <= room
    <3> HIDE DEF newest, room
    <3> QED BY <1>4, <1>5, <1>9
  <2>2. newest = others
    <3> HIDE DEF newest, others
    <3> QED BY <1>4, <1>5, <2>1
  <2>3. LastOf(newest, room) = newest
    <3>1. room \in Nat
      <4> HIDE DEF room
      <4> QED BY <1>4, <1>9
    <3> HIDE DEF newest, room
    <3> QED BY <1>6, <2>1, <3>1, LastOfIs
  <2>4. routine = newest /\ before = from
    <3>1. routine = LastOf(newest, room)
      BY <1>9
    <3>2. before = from
      <4>1. ~(room <= 0)
        <5> HIDE DEF room
        <5> QED BY <1>4, <1>9
      <4> HIDE DEF room, cut, routine, merged
      <4> QED BY <1>9, <4>1
    <3> HIDE DEF routine, newest, before
    <3> QED BY <2>3, <3>1, <3>2
  <2>5. merged = important \cup newest
    <3> HIDE DEF newest, important, room, routine
    <3> QED BY <1>7, <1>9, <2>1, <2>4
  <2>6. important \cup newest = found
    <3> HIDE DEF newest
    <3> QED BY <2>2
  <2> HIDE DEF merged, before, newest, important
  <2> QED BY <1>1, <2>4, <2>5, <2>6
<1>10. ASSUME ~(room > 0)
       PROVE  Chosen
  <2> DEFINE all == important \cup newest
  <2>1. merged = LastOf(all, limit) /\ before = First(merged)
    <3>1. routine = newest
      BY <1>10
    <3>2. room <= 0
      <4> HIDE DEF room
      <4> QED BY <1>4, <1>10
    <3>3. before = First(merged)
      <4> HIDE DEF room, cut, routine, merged
      <4> QED BY <1>10, <3>2
    <3> HIDE DEF newest, important, before, routine
    <3> QED BY <3>1, <3>3
  <2>2. all \in SUBSET found /\ FileLines(all)
    <3>1. all \in SUBSET found
      <4> HIDE DEF newest, others, important
      <4> QED BY <1>2, <1>5
    <3> HIDE DEF all
    <3> QED BY <3>1, SomeLines
  <2>3. /\ merged \in SUBSET all /\ Cardinality(merged) \in 0 .. limit
        /\ \A l \in merged, o \in all : l.at < o.at => o \in merged
        /\ merged # all => Cardinality(merged) = limit
    <3> HIDE DEF all, merged
    <3> QED BY <1>4, <2>1, <2>2, LastOfIs
  <2>4. merged # {}
    <3>1. Cardinality(important) # 0
      <4>1. Cardinality(important) >= limit
        BY <1>3, <1>4, <1>10
      <4> HIDE DEF important
      <4> QED BY <1>3, <1>4, <4>1
    <3>2. important # {}
      <4> HIDE DEF important
      <4> QED BY <3>1, FS_EmptySet
    <3>3. all # {}
      <4> HIDE DEF important
      <4> QED BY <3>2
    <3>4. merged # all => merged # {}
      <4> HIDE DEF merged, all
      <4> QED BY <1>4, <2>3, FS_EmptySet
    <3> HIDE DEF merged, all
    <3> QED BY <3>3, <3>4
  <2>5. FileLines(merged)
    <3> HIDE DEF merged, all
    <3> QED BY <2>2, <2>3, SomeLines
  <2>6. PICK b \in merged : b.at = before /\ \A l \in merged : before <= l.at
    <3> HIDE DEF merged, before
    <3> QED BY <2>1, <2>4, <2>5, FirstIs
  <2>7. b \in all /\ b \in found /\ b.at \in Nat
    <3> HIDE DEF merged, before, all
    <3> QED BY <1>1, <2>2, <2>3
  <2>8. ASSUME NEW l \in found, before <= l.at
        PROVE  l \in merged
    <3>1. l.at \in Nat /\ (b.at = l.at => l = b) /\ (b.at < l.at \/ b.at = l.at)
      <4>1. l.at \in Nat
        BY <1>1
      <4>2. b.at = l.at => l = b
        <5> HIDE DEF merged, before, all
        <5> QED BY <1>1, <2>7
      <4> HIDE DEF merged, before, all
      <4> QED BY <2>6, <2>7, <2>8, <4>1, <4>2
    <3>2. l \in all => l \in merged
      <4> HIDE DEF merged, before, all
      <4> QED BY <2>3, <3>1
    <3>3. ASSUME l \notin all
          PROVE  FALSE
      <4>1. l \in others /\ l \notin newest
        <5> HIDE DEF newest, others, important
        <5> QED BY <1>2, <3>3
      <4>2. Cardinality(newest) = limit
        <5> HIDE DEF newest, others
        <5> QED BY <1>5, <4>1
      <4>3. b.at < l.at
        <5> HIDE DEF merged, before, all
        <5> QED BY <2>3, <3>1, <3>3
      <4> DEFINE above == {o \in all : b.at < o.at}
      <4>4. \A o \in newest : o \in above
        <5> SUFFICES ASSUME NEW o \in newest PROVE b.at < o.at
          OBVIOUS
        <5>1. o \in found /\ o.at \in Nat /\ o \in others
          <6> HIDE DEF newest, others
          <6> QED BY <1>1, <1>2, <1>5
        <5>2. ~(o.at < l.at) /\ o.at # l.at
          <6> HIDE DEF newest, others
          <6> QED BY <1>1, <1>5, <4>1, <5>1
        <5> HIDE DEF merged, before, newest, others
        <5> QED BY <2>7, <3>1, <4>3, <5>1, <5>2
      <4>5. Cardinality(above) < limit
        <5>1. b \in LastOf(all, limit)
          <6> HIDE DEF merged, all
          <6> QED BY <2>1
        <5> HIDE DEF merged, all
        <5> QED BY <5>1 DEF LastOf
      <4>6. limit <= Cardinality(above) /\ Cardinality(above) \in Nat
        <5>1. above \in SUBSET all
          OBVIOUS
        <5>2. IsFiniteSet(above) /\ Cardinality(above) \in Nat
          <6> HIDE DEF above, all
          <6> QED BY <2>2, <5>1, SomeLines DEF FileLines
        <5>3. Cardinality(newest) <= Cardinality(above)
          <6> HIDE DEF above, newest
          <6> QED BY <4>4, <5>2, FS_Subset
        <5> HIDE DEF above, newest
        <5> QED BY <4>2, <5>2, <5>3
      <4> HIDE DEF above
      <4> QED BY <1>4, <4>5, <4>6
    <3> QED BY <3>2, <3>3
  <2>9. \A l \in merged : ~(l.at < before)
    <3> SUFFICES ASSUME NEW l \in merged PROVE ~(l.at < before)
      OBVIOUS
    <3>1. l \in found
      <4> HIDE DEF merged, all
      <4> QED BY <2>2, <2>3
    <3>2. l.at \in Nat /\ before \in Nat /\ before <= l.at
      <4> HIDE DEF merged, before
      <4> QED BY <1>1, <2>6, <2>7, <3>1
    <3> HIDE DEF merged, before
    <3> QED BY <3>2
  <2> HIDE DEF merged, before, all
  <2> QED BY <2>2, <2>3, <2>6, <2>7, <2>8, <2>9
<1>11. Chosen
  BY <1>8, <1>9, <1>10
<1> QED BY <1>11

\* The detached lines of a view or an answer: warnings from before an offset, in order.
DetachedBefore(s, n, file, b, level) ==
  \A i \in 1 .. n :
    /\ s[i].level = "warn" /\ s[i] \in Matching(Within(file, 0, b), level)
    /\ i > 1 => s[i - 1].at < s[i].at

\* Lines shown between two offsets of a file, the detached ones before them.
OneStretch(s, n, file, b, c, level) ==
  /\ b <= c /\ c <= file.size /\ Clear(file, b) /\ Clear(file, c)
  /\ Shows(s, n + 1, file, b, c, level) /\ DetachedBefore(s, n, file, b, level)

\* Some lines of a stretch put in order: those from b on are every one that matches, and
\* what lies before b is warnings.
LEMMA OrderedFits ==
  ASSUME NEW file, FileOK(file), NEW level, NEW from \in Nat, NEW to \in Nat, NEW b \in Nat,
         from <= b, b = 0 \/ (\E l \in file.lines : EndOf(l) = b) \/ (\E l \in file.lines : l.at = b),
         NEW merged \in SUBSET Matching(Within(file, from, to), level),
         \A l \in Matching(Within(file, from, to), level) : b <= l.at => l \in merged,
         \A l \in merged : l.at < b => l.level = "warn"
  PROVE  LET s == InOrder(merged)
             n == Cardinality({line \in merged : line.at < b})
         IN /\ s \in Seq(LogLines) /\ n \in Nat /\ n <= Len(s)
            /\ Shows(s, n + 1, file, b, to, level) /\ DetachedBefore(s, n, file, b, level)
<1> DEFINE found == Matching(Within(file, from, to), level)
           s == InOrder(merged)
           low == {line \in merged : line.at < b}
           n == Cardinality(low)
           those == Matching(Within(file, b, to), level)
<1>1. FileLines(merged)
  <2>1. FileLines(found) /\ merged \in SUBSET found
    BY PartsOfFile
  <2> HIDE DEF found
  <2> QED BY <2>1, SomeLines
<1>2. /\ s \in Seq(LogLines) /\ Len(s) = Cardinality(merged)
      /\ {s[i] : i \in 1 .. Len(s)} = merged
      /\ \A i, j \in 1 .. Len(s) : i < j => s[i].at < s[j].at
      /\ \A i \in 1 .. Len(s) : s[i].at < b <=> i <= n
  <2>1. b \in Int
    OBVIOUS
  <2>2. \A i \in 1 .. Len(s) :
          s[i].at < b <=> i <= Cardinality({l \in merged : l.at < b})
    BY <1>1, <2>1, InOrderIs
  <2>3. /\ s \in Seq(LogLines) /\ Len(s) = Cardinality(merged)
        /\ {s[i] : i \in 1 .. Len(s)} = merged
        /\ \A i, j \in 1 .. Len(s) : i < j => s[i].at < s[j].at
    BY <1>1, InOrderIs
  <2> HIDE DEF s
  <2> QED BY <2>2, <2>3
<1>3. n \in Nat /\ n <= Len(s) /\ Len(s) \in Nat
  <2>1. low \in SUBSET merged
    OBVIOUS
  <2>2. n \in Nat /\ n <= Cardinality(merged)
    <3> HIDE DEF low
    <3> QED BY <1>1, <2>1, SomeLines
  <2> HIDE DEF s, n
  <2> QED BY <1>2, <2>2
<1>4. /\ \A l \in file.lines : l.at \in Nat /\ EndOf(l) \in Nat /\ l.at < EndOf(l)
      /\ \A l \in file.lines : EndOf(l) <= b \/ b <= l.at
  BY LineIs, BetweenLines DEF FileOK, FileLines
<1>5. \A l \in found : /\ l \in file.lines /\ from <= l.at /\ EndOf(l) <= to
                       /\ level = "all" \/ l.level = level
  BY PartIs
<1>6. \A i \in 1 .. Len(s) : s[i] \in merged /\ s[i] \in found
  <2> HIDE DEF s
  <2> QED BY <1>2
<1> DEFINE shown == {s[j] : j \in n + 1 .. Len(s)}
<1>7. ASSUME NEW l \in shown
      PROVE  l \in those
  <2>1. PICK j \in n + 1 .. Len(s) : l = s[j]
    OBVIOUS
  <2>2. j \in 1 .. Len(s) /\ ~(j <= n)
    <3> HIDE DEF s, n
    <3> QED BY <1>3
  <2>3. l \in found /\ ~(l.at < b)
    <3> HIDE DEF s, n, found
    <3> QED BY <1>2, <1>6, <2>1, <2>2
  <2>4. l \in file.lines /\ EndOf(l) <= to /\ (level = "all" \/ l.level = level) /\ b <= l.at
    <3> HIDE DEF found, shown
    <3> QED BY <1>4, <1>5, <2>3
  <2> HIDE DEF shown
  <2> QED BY <2>4, PartIs
<1>8. ASSUME NEW l \in those
      PROVE  l \in shown
  <2>1. l \in file.lines /\ b <= l.at /\ EndOf(l) <= to /\ (level = "all" \/ l.level = level)
    BY PartIs
  <2>2. from <= l.at
    BY <1>4, <2>1
  <2>3. l \in merged
    <3>1. l \in found
      <4> HIDE DEF those
      <4> QED BY <2>1, <2>2, PartIs
    <3> QED BY <2>1, <3>1
  <2>4. PICK i \in 1 .. Len(s) : s[i] = l
    <3> HIDE DEF s
    <3> QED BY <1>2, <2>3
  <2>5. i \in n + 1 .. Len(s)
    <3>1. ~(s[i].at < b)
      <4> HIDE DEF s
      <4> QED BY <1>4, <2>1, <2>4
    <3> HIDE DEF s, n
    <3> QED BY <1>2, <1>3, <3>1
  <2> HIDE DEF s, n, those
  <2> QED BY <2>4, <2>5
<1>9. Shows(s, n + 1, file, b, to, level)
  <2>1. \A i, j \in n + 1 .. Len(s) : i < j => s[i].at < s[j].at
    <3> HIDE DEF s, n
    <3> QED BY <1>2, <1>3
  <2>2. Ordinary(those) \in SUBSET those
    BY DEF Ordinary
  <2>3. shown \subseteq those /\ Ordinary(those) \subseteq shown
    <3> HIDE DEF shown, those
    <3> QED BY <1>7, <1>8, <2>2
  <2> HIDE DEF s, n
  <2> QED BY <2>1, <2>3 DEF Shows
<1>10. DetachedBefore(s, n, file, b, level)
  <2> SUFFICES ASSUME NEW i \in 1 .. n
               PROVE  /\ s[i].level = "warn" /\ s[i] \in Matching(Within(file, 0, b), level)
                      /\ i > 1 => s[i - 1].at < s[i].at
    <3> HIDE DEF s, n
    <3> QED BY DEF DetachedBefore
  <2>1. i \in 1 .. Len(s) /\ i <= n
    <3> HIDE DEF s, n
    <3> QED BY <1>3
  <2>2. s[i] \in merged /\ s[i] \in found /\ s[i].at < b
    <3> HIDE DEF s, n, found
    <3> QED BY <1>2, <1>6, <2>1
  <2>3. s[i].level = "warn"
    <3> HIDE DEF s, n
    <3> QED BY <2>2
  <2>4. /\ s[i] \in file.lines /\ (level = "all" \/ s[i].level = level)
        /\ 0 <= s[i].at /\ EndOf(s[i]) <= b
    <3> HIDE DEF s, n, found
    <3> QED BY <1>4, <1>5, <2>2
  <2>5. s[i] \in Matching(Within(file, 0, b), level)
    <3> HIDE DEF s, n
    <3> QED BY <2>4, PartIs
  <2>6. i > 1 => s[i - 1].at < s[i].at
    <3> SUFFICES ASSUME i > 1 PROVE s[i - 1].at < s[i].at
      OBVIOUS
    <3>1. i - 1 \in 1 .. Len(s) /\ i - 1 < i
      <4> HIDE DEF s, n
      <4> QED BY <1>3, <2>1
    <3> HIDE DEF s, n
    <3> QED BY <1>2, <2>1, <3>1
  <2> HIDE DEF s, n
  <2> QED BY <2>3, <2>5, <2>6
<1> HIDE DEF s, n
<1> QED BY <1>2, <1>3, <1>9, <1>10 DEF s, n

\* A snapshot is one stretch of the log, the warnings from further back before it.
LEMMA SnapshotFits ==
  ASSUME NEW file, FileOK(file), NEW level
  PROVE  LET a == Snapshot(file, level, MaxLines)
         IN /\ a \in Snapshots /\ a.detached <= Len(a.entries)
            /\ a.json => OneStretch(a.entries, a.detached, file, a.before, a.cursor, level)
<1> DEFINE tail == ReadLogTail(file)
           raw == Within(file, tail.from, tail.to)
           starts == {EndOf(line) : line \in {l \in raw : l.starts}}
           from == IF starts = {} THEN tail.from ELSE Max(starts)
           found == Matching(Within(file, from, tail.to), level)
           important == {line \in found : line.level = "warn"}
           newest == LastOf(found \ important, MaxLines)
           room == MaxLines - Cardinality(important)
           cut == Cardinality(newest) >= MaxLines \/ (room > 0 /\ Cardinality(newest) > room)
           routine == IF room > 0 THEN LastOf(newest, room) ELSE newest
           merged == LastOf(important \cup routine, MaxLines)
           before == IF room > 0 /\ cut THEN First(routine)
                     ELSE IF room <= 0 THEN First(merged) ELSE from
           n == Cardinality({line \in merged : line.at < before})
           s == InOrder(merged)
           a == Snapshot(file, level, MaxLines)
<1>1. a = [json |-> raw # {}, entries |-> s, cursor |-> tail.to, before |-> before, detached |-> n]
  BY DEF Snapshot
<1>2. /\ tail.from \in Nat /\ tail.to \in Nat
      /\ raw # {} =>
           /\ tail.from = 0 \/ \E l \in file.lines : EndOf(l) = tail.from
           /\ \E l \in file.lines : EndOf(l) = tail.to
           /\ tail.from <= tail.to
  BY TailRead
<1>3. \A l \in file.lines : l.at \in Nat /\ EndOf(l) \in Nat /\ l.at < EndOf(l)
  BY LineIs DEF FileOK, FileLines
<1>4. raw \in SUBSET file.lines /\ \A l \in raw : EndOf(l) <= tail.to
  BY DEF Within
<1>5. ASSUME starts # {}
      PROVE  Max(starts) \in Nat /\ Max(starts) <= tail.to /\ \E l \in file.lines : EndOf(l) = Max(starts)
  <2> DEFINE R == {l \in raw : l.starts}
             end == [l \in R |-> EndOf(l)]
  <2>1. R \in SUBSET file.lines /\ \A l \in R : EndOf(l) <= tail.to
    <3> HIDE DEF raw
    <3> QED BY <1>4
  <2>2. IsFiniteSet(R)
    <3> HIDE DEF R
    <3> QED BY <2>1, FS_Subset DEF FileOK, FileLines
  <2>3. end \in [R -> starts] /\ starts = {end[x] : x \in R}
    <3> HIDE DEF raw
    <3> QED OBVIOUS
  <2>4. IsFiniteSet(starts)
    <3> HIDE DEF end, R, starts
    <3> QED BY <2>2, <2>3, FiniteImage
  <2>5. \A m \in starts : m \in Nat /\ m <= tail.to /\ \E l \in file.lines : EndOf(l) = m
    <3> HIDE DEF raw, tail
    <3> QED BY <1>3, <2>1
  <2>6. Max(starts) \in starts
    <3> HIDE DEF starts
    <3> QED BY <1>5, <2>4, <2>5, MaxIsGreatest
  <2> HIDE DEF starts
  <2> QED BY <2>5, <2>6
<1>6. /\ from \in Nat
      /\ raw # {} => /\ from = 0 \/ \E l \in file.lines : EndOf(l) = from
                     /\ from <= tail.to
  <2>1. CASE starts = {}
    <3>1. from = tail.from
      BY <2>1
    <3> HIDE DEF from, raw, tail
    <3> QED BY <1>2, <3>1
  <2>2. CASE starts # {}
    <3>1. from = Max(starts)
      BY <2>2
    <3> HIDE DEF from, raw, tail, starts
    <3> QED BY <1>5, <2>2, <3>1
  <2> QED BY <2>1, <2>2
<1>7. /\ FileLines(found)
      /\ \A l \in found : l \in file.lines /\ from <= l.at /\ EndOf(l) <= tail.to
  <2> HIDE DEF from, tail
  <2> QED BY PartsOfFile, PartIs
<1>8. MaxLines \in Nat \ {0}
  BY LogAssumption DEF LogAssumption
<1>9. /\ merged \in SUBSET found /\ before \in Nat
      /\ before = from \/ \E l \in found : l.at = before
      /\ \A l \in found : before <= l.at => l \in merged
      /\ \A l \in merged : l.at < before => l.level = "warn"
  <2>1. \A l \in found : from <= l.at
    BY <1>7
  <2> HIDE DEF found, from
  <2> QED BY <1>6, <1>7, <1>8, <2>1, Picked
<1> HIDE DEF merged, before
<1>10. FileLines(merged)
  <2> HIDE DEF found
  <2> QED BY <1>7, <1>9, SomeLines
<1>11. s \in Seq(LogLines) /\ n \in Nat /\ n <= Len(s)
  <2> DEFINE low == {line \in merged : line.at < before}
  <2>1. s \in Seq(LogLines) /\ Len(s) = Cardinality(merged)
    BY <1>10, InOrderIs
  <2>2. low \in SUBSET merged
    OBVIOUS
  <2>3. Cardinality(low) \in Nat /\ Cardinality(low) <= Cardinality(merged)
    <3> HIDE DEF low
    <3> QED BY <1>10, <2>2, SomeLines
  <2> HIDE DEF s
  <2> QED BY <2>1, <2>3
<1>12. ASSUME raw # {}
       PROVE  OneStretch(s, n, file, before, tail.to, level)
  <2>1. from <= before /\ before <= tail.to
    <3>1. CASE before = from
      <4> HIDE DEF from, tail, raw
      <4> QED BY <1>6, <1>9, <1>12, <3>1
    <3>2. ASSUME NEW l \in found, l.at = before PROVE from <= before /\ before <= tail.to
      <4>1. l \in file.lines /\ from <= l.at /\ EndOf(l) <= tail.to
        BY <1>7
      <4> HIDE DEF from, tail, found
      <4> QED BY <1>2, <1>3, <3>2, <4>1
    <3> HIDE DEF from, tail, found
    <3> QED BY <1>9, <3>1, <3>2
  <2>2. \/ before = 0 \/ \E l \in file.lines : EndOf(l) = before
        \/ \E l \in file.lines : l.at = before
    <3> HIDE DEF from, tail, raw, found
    <3> QED BY <1>6, <1>7, <1>9, <1>12
  <2>3. Clear(file, before)
    BY <2>2, BetweenLines
  <2>4. tail.to <= file.size /\ Clear(file, tail.to)
    <3>1. \E l \in file.lines : EndOf(l) = tail.to
      BY <1>2, <1>12
    <3> HIDE DEF tail
    <3> QED BY <3>1, BetweenLines
  <2>5. Shows(s, n + 1, file, before, tail.to, level) /\ DetachedBefore(s, n, file, before, level)
    <3>1. tail.to \in Nat
      BY <1>2
    <3> HIDE DEF from, tail
    <3> QED BY <1>6, <1>9, <2>1, <2>2, <3>1, OrderedFits
  <2> HIDE DEF s, n, tail
  <2> QED BY <2>1, <2>3, <2>4, <2>5 DEF OneStretch
<1>13. a \in Snapshots
  <2>1. (raw # {}) \in BOOLEAN /\ tail.to \in Nat
    BY <1>2
  <2> HIDE DEF a, s, n, tail, raw
  <2> QED BY <1>1, <1>9, <1>11, <2>1 DEF Snapshots
<1>14. /\ a.entries = s /\ a.detached = n /\ a.before = before /\ a.cursor = tail.to
       /\ a.json = (raw # {})
  <2> HIDE DEF a, s, n, tail, raw
  <2> QED BY <1>1
<1> HIDE DEF a, s, n, tail, raw
<1>15. /\ a \in Snapshots /\ a.detached <= Len(a.entries)
       /\ a.json => OneStretch(a.entries, a.detached, file, a.before, a.cursor, level)
  BY <1>11, <1>12, <1>13, <1>14
<1> QED BY <1>15 DEF a

-----------------------------------------------------------------------------
(* The invariant.                                                          *)

\* InStep, of any viewer and file.
Stands(v, file) == v.before # None /\ v.whole /\ v.of = file.rotations

\* What is on screen is one stretch of the file up to the cursor, and the next delta will
\* be asked for by the filter it was read with.
ViewFits(v, file) ==
  /\ v.before # None => v.cursor # None
  /\ Stands(v, file) =>
       /\ v.asked \in {None, v.shows}
       /\ OneStretch(v.lines, v.detached, file, v.before, v.cursor, v.shows)

\* A snapshot that waits to arrive is one stretch of the file it was read of.
SnapshotWaits(r, file) ==
  /\ r.answer # None
  => /\ r.answer \in Snapshots /\ r.answer.detached <= Len(r.answer.entries)
     /\ /\ r.answer.json /\ r.of = file.rotations
        => OneStretch(r.answer.entries, r.answer.detached, file, r.answer.before,
                      r.answer.cursor, r.level)

\* A delta goes on where the screen ends.
DeltaWaits(r, v, file) ==
  /\ r.cursor # None /\ r.answer \in {None} \cup Deltas
  /\ Stands(v, file) =>
       /\ r.cursor = v.cursor /\ r.level = v.shows
       /\ /\ r.answer # None
          => /\ v.cursor <= r.answer.cursor /\ r.answer.cursor <= file.size
             /\ Clear(file, r.answer.cursor)
             /\ Shows(r.answer.entries, 1, file, v.cursor, r.answer.cursor, v.shows)

RefreshFits(r, v, file) ==
  /\ r # None
  => /\ r.of <= file.rotations
     /\ IF r.snapshot THEN SnapshotWaits(r, file) ELSE DeltaWaits(r, v, file)

\* A page that is not stale ends where the screen begins.
PageMeets(p, v, file) ==
  /\ p.before = v.before /\ Clear(file, p.at)
  /\ Shows(p.picked, 1, file, p.at, p.before, p.level)

PagesFit(ps, v, file) ==
  /\ IsFiniteSet(ps) /\ \A p \in ps : p.at <= p.before
  /\ \A p \in ps : ~p.stale => v.loadingOlder /\ v.before # None
  /\ \A p, q \in ps : ~p.stale /\ ~q.stale => p = q
  /\ Stands(v, file) => \A p \in ps : ~p.stale => PageMeets(p, v, file)

Inv ==
  /\ TypeOK /\ FileOK(log)
  /\ ViewFits(view, log) /\ RefreshFits(refresh, view, log) /\ PagesFit(pages, view, log)

-----------------------------------------------------------------------------
(* Writes.                                                                 *)

LEMMA LineTyped ==
  ASSUME NEW at \in Nat, NEW len \in Lengths \cup {1}, NEW level \in {"info", "warn"},
         NEW starts \in BOOLEAN, log \in Files
  PROVE  Line(at, len, level, starts) \in LogLines /\ Line(at, len, level, starts).at = at
<1>1. log.written \in 0 .. MaxWritten
  BY LogAssumption DEF LogAssumption, Files
<1> QED BY <1>1 DEF Line, LogLines

\* A line that begins at the end of a file, torn or whole.
LEMMA LineAdded ==
  ASSUME NEW file \in Files, FileOK(file), NEW line \in LogLines, line.at = file.size
  PROVE  /\ Ended(file, line) \in Files /\ Ended(file, line).rotations = file.rotations
         /\ Ended(file, line).written = file.written
         /\ Extends(Ended(file, line), file)
<1> DEFINE next == Ended(file, line)
<1>1. /\ next.lines = file.lines \cup {line} /\ next.size = EndOf(line) /\ next.torn = {}
      /\ next.rotations = file.rotations /\ next.written = file.written
  BY DEF Ended, Files
<1>2. /\ line.at \in Nat /\ EndOf(line) \in Nat /\ line.at < EndOf(line)
      /\ \A l \in file.lines : l.at \in Nat /\ EndOf(l) \in Nat /\ l.at < EndOf(l)
  BY LineIs DEF FileOK, FileLines
<1>3. next \in Files
  BY <1>2 DEF Ended, Files
<1>4. \A l \in file.lines : EndOf(l) <= file.size /\ l.at < line.at
  BY <1>2 DEF FileOK
<1>5. FileLines(next.lines)
  <2>1. IsFiniteSet(file.lines \cup {line})
    <3>1. IsFiniteSet(file.lines)
      BY DEF FileOK, FileLines
    <3> QED BY <3>1, FS_AddElement
  <2>2. \A l, o \in next.lines : l.at = o.at => l = o
    <3> HIDE DEF next
    <3>1. \A l, o \in file.lines : l.at = o.at => l = o
      BY DEF FileOK, FileLines
    <3>2. \A l \in file.lines : l.at # line.at
      BY <1>2, <1>4
    <3> QED BY <1>1, <3>1, <3>2
  <2>3. next.lines \in SUBSET LogLines
    BY <1>3 DEF Files
  <2> HIDE DEF next
  <2> QED BY <1>1, <2>1, <2>2, <2>3 DEF FileLines
<1> HIDE DEF next
<1>6. FileOK(next)
  <2>1. \A l \in next.lines : EndOf(l) <= next.size
    BY <1>1, <1>2, <1>4 DEF FileOK
  <2>2. \A l, o \in next.lines : l.at < o.at => EndOf(l) <= o.at
    <3> SUFFICES ASSUME NEW l \in next.lines, NEW o \in next.lines, l.at < o.at
                 PROVE  EndOf(l) <= o.at
      OBVIOUS
    <3>1. CASE l \in file.lines /\ o \in file.lines
      BY <3>1 DEF FileOK
    <3>2. CASE l \in file.lines /\ o = line
      BY <1>4, <3>2
    <3>3. ~(l = line /\ o \in file.lines) /\ ~(l = line /\ o = line)
      BY <1>2, <1>4
    <3> QED BY <1>1, <3>1, <3>2, <3>3
  <2>3. \A l \in next.lines : l.at = 0 \/ \E o \in next.lines : EndOf(o) = l.at
    BY <1>1 DEF FileOK
  <2>4. next.size = 0 \/ \E o \in next.lines : EndOf(o) = next.size
    BY <1>1
  <2>5. /\ next.torn \in SUBSET LogLines /\ IsFiniteSet(next.torn) /\ Cardinality(next.torn) <= 1
        /\ \A l \in next.torn : l.at = next.size
    BY <1>1, FS_EmptySet
  <2> QED BY <1>1, <1>2, <1>5, <2>1, <2>2, <2>3, <2>4, <2>5 DEF FileOK
<1>7. Extends(next, file)
  BY <1>1, <1>2, <1>4, <1>6 DEF Extends, FileOK
<1> QED BY <1>1, <1>3, <1>7 DEF next

LEMMA LineBegun ==
  ASSUME NEW file \in Files, FileOK(file), NEW line \in LogLines, line.at = file.size,
         file.written < MaxWritten
  PROVE  /\ Begun(file, line) \in Files /\ Begun(file, line).rotations = file.rotations
         /\ Begun(file, line).size = file.size /\ Begun(file, line).lines = file.lines
         /\ Extends(Begun(file, line), file)
<1> DEFINE next == Begun(file, line)
<1>1. /\ next.lines = file.lines /\ next.size = file.size /\ next.torn = {line}
      /\ next.rotations = file.rotations /\ next.written = file.written + 1
  BY DEF Begun, Files
<1>2. next \in Files
  <2>1. file.written + 1 \in 1 .. MaxWritten
    BY LogAssumption DEF LogAssumption, Files
  <2> QED BY <2>1 DEF Begun, Files
<1>3. IsFiniteSet({line}) /\ Cardinality({line}) = 1
  BY FS_Singleton
<1> HIDE DEF next
<1>4. FileOK(next)
  BY <1>1, <1>3 DEF FileOK
<1>5. Extends(next, file)
  BY <1>1, <1>4 DEF Extends, FileOK
<1> QED BY <1>1, <1>2, <1>5 DEF next

LEMMA RotatedIs ==
  ASSUME log \in Files, FileOK(log), log.torn = {}, NEW len
  PROVE  /\ Rotated(len) \in Files /\ FileOK(Rotated(len)) /\ Rotated(len).written = log.written
         /\ Rotated(len) = log \/ Rotated(len).rotations = log.rotations + 1
<1>1. CASE ~(log.size + len >= RotateAt)
  <2>1. Rotated(len) = log
    BY <1>1 DEF Rotated
  <2> QED BY <2>1
<1>2. CASE log.size + len >= RotateAt
  <2> DEFINE next == [log EXCEPT !.lines = {}, !.size = 0, !.rotations = @ + 1]
  <2>1. Rotated(len) = next
    BY <1>2 DEF Rotated
  <2>2. /\ next \in Files /\ next.lines = {} /\ next.size = 0 /\ next.torn = {}
        /\ next.rotations = log.rotations + 1 /\ next.written = log.written
    <3>1. {} \in SUBSET LogLines /\ 0 \in Nat
      OBVIOUS
    <3>2. log.rotations + 1 \in Nat
      BY DEF Files
    <3>3. next \in Files
      BY <3>1, <3>2 DEF Files
    <3>4. /\ next.lines = {} /\ next.size = 0 /\ next.torn = log.torn
          /\ next.rotations = log.rotations + 1 /\ next.written = log.written
      BY DEF Files
    <3> HIDE DEF next
    <3> QED BY <3>3, <3>4
  <2> HIDE DEF next
  <2>3. IsFiniteSet({}) /\ Cardinality({}) = 0
    BY FS_EmptySet
  <2>4. FileOK(next)
    BY <2>2, <2>3 DEF FileOK, FileLines
  <2> QED BY <2>1, <2>2, <2>4
<1> QED BY <1>1, <1>2

\* A write leaves a file in order, and within a rotation adds to its end.
Grows(file, next) ==
  /\ next \in Files /\ FileOK(next)
  /\ \/ next.rotations = file.rotations + 1
     \/ next.rotations = file.rotations /\ Extends(next, file)

LEMMA Written ==
  ASSUME log \in Files, FileOK(log), log.torn = {}, log.written < MaxWritten,
         NEW len \in Lengths \cup {1}, NEW level \in {"info", "warn"}, NEW starts \in BOOLEAN
  PROVE  LET line == Line(Rotated(len).size, len, level, starts)
             file == Begun(Rotated(len), line)
         IN Grows(log, file) /\ Grows(log, Ended(file, line))
<1> DEFINE old == Rotated(len)
           line == Line(old.size, len, level, starts)
           file == Begun(old, line)
           done == Ended(file, line)
<1>1. /\ old \in Files /\ FileOK(old) /\ old.written = log.written
      /\ old = log \/ old.rotations = log.rotations + 1
  BY RotatedIs
<1>2. line \in LogLines /\ line.at = old.size
  <2>1. old.size \in Nat
    BY <1>1 DEF Files
  <2> HIDE DEF old
  <2> QED BY <2>1, LineTyped
<1> HIDE DEF old, line
<1>3. /\ file \in Files /\ file.rotations = old.rotations /\ file.size = old.size
      /\ file.lines = old.lines /\ Extends(file, old)
  BY <1>1, <1>2, LineBegun
<1> HIDE DEF file
<1>4. FileOK(file) /\ line.at = file.size
  BY <1>2, <1>3 DEF Extends
<1>5. done \in Files /\ done.rotations = file.rotations /\ Extends(done, file)
  BY <1>2, <1>3, <1>4, LineAdded
<1> HIDE DEF done
<1>6. FileOK(done) /\ Extends(done, old)
  BY <1>1, <1>3, <1>5 DEF Extends
<1>7. Grows(log, file)
  BY <1>1, <1>3, <1>4 DEF Grows
<1>8. Grows(log, done)
  BY <1>1, <1>3, <1>5, <1>6 DEF Grows
<1> QED BY <1>7, <1>8 DEF done, file, line, old

LEMMA WritesGrow ==
  ASSUME log \in Files, FileOK(log), Writes
  PROVE  Grows(log, log')
<1>1. CASE WriteLine
  <2>1. PICK level \in {"info", "warn"}, len \in Lengths :
          LET line == Line(Rotated(len).size, len, level, FALSE)
              file == Begun(Rotated(len), line)
          IN log' = Ended(file, line) \/ log' = file
    BY <1>1 DEF WriteLine
  <2>2. log.torn = {} /\ log.written < MaxWritten
    BY <1>1 DEF WriteLine
  <2> QED BY <2>1, <2>2, Written
<1>2. CASE FinishLine
  <2>1. PICK line \in log.torn : log' = Ended(log, line)
    BY <1>2 DEF FinishLine
  <2>2. line \in LogLines /\ line.at = log.size
    BY <2>1 DEF FileOK
  <2>3. log' \in Files /\ log'.rotations = log.rotations /\ Extends(log', log)
    BY <2>1, <2>2, LineAdded
  <2> QED BY <2>3 DEF Grows, Extends
<1>3. CASE StartSession
  <2>1. LET line == Line(Rotated(1).size, 1, "info", TRUE)
        IN log' = Ended(Begun(Rotated(1), line), line)
    BY <1>3 DEF StartSession
  <2>2. log.torn = {} /\ log.written < MaxWritten
    BY <1>3 DEF StartSession
  <2> QED BY <2>1, <2>2, Written
<1> QED BY <1>1, <1>2, <1>3 DEF Writes

LEMMA StretchLater ==
  ASSUME NEW file, NEW next, Extends(next, file), NEW s, NEW n, NEW b \in Nat, NEW c \in Nat,
         NEW level, OneStretch(s, n, file, b, c, level)
  PROVE  OneStretch(s, n, next, b, c, level)
<1>1. /\ b <= c /\ c <= file.size /\ Clear(file, b) /\ Clear(file, c)
      /\ Shows(s, n + 1, file, b, c, level) /\ DetachedBefore(s, n, file, b, level)
  BY DEF OneStretch
<1>2. file.size \in Nat /\ next.size \in Nat /\ file.size <= next.size
  BY DEF Extends, FileOK
<1>3. b <= file.size /\ c <= next.size
  BY <1>1, <1>2
<1>4. Clear(next, b) /\ Within(next, 0, b) = Within(file, 0, b)
  BY <1>1, <1>3, ShowsLater
<1>5. Clear(next, c) /\ Shows(s, n + 1, next, b, c, level)
  BY <1>1, ShowsLater
<1>6. DetachedBefore(s, n, next, b, level)
  BY <1>1, <1>4 DEF DetachedBefore
<1> QED BY <1>1, <1>3, <1>4, <1>5, <1>6 DEF OneStretch

\* Offsets are numbers once they are known.
LEMMA ViewIs ==
  ASSUME NEW v \in Viewers
  PROVE  /\ v.lines \in Seq(LogLines) /\ v.detached \in Nat
         /\ v.before # None => v.before \in Nat
         /\ v.cursor # None => v.cursor \in Nat
BY DEF Viewers

LEMMA FitsLater ==
  ASSUME NEW file, NEW next, Extends(next, file), next.rotations = file.rotations,
         NEW v \in Viewers, ViewFits(v, file)
  PROVE  /\ ViewFits(v, next)
         /\ Stands(v, next) <=> Stands(v, file)
         /\ Stands(v, file) => /\ v.before \in Nat /\ v.cursor \in Nat
                               /\ v.before <= v.cursor /\ v.cursor <= file.size
<1>1. Stands(v, next) <=> Stands(v, file)
  BY DEF Stands
<1>2. ASSUME Stands(v, file)
      PROVE  /\ v.before \in Nat /\ v.cursor \in Nat /\ v.asked \in {None, v.shows}
             /\ OneStretch(v.lines, v.detached, file, v.before, v.cursor, v.shows)
  BY <1>2, ViewIs DEF Stands, ViewFits
<1>3. ASSUME Stands(v, file)
      PROVE  OneStretch(v.lines, v.detached, next, v.before, v.cursor, v.shows)
  BY <1>2, <1>3, StretchLater
<1>4. Stands(v, file) => v.before <= v.cursor /\ v.cursor <= file.size
  BY <1>2 DEF OneStretch
<1>5. ViewFits(v, next)
  BY <1>1, <1>2, <1>3 DEF ViewFits
<1> QED BY <1>1, <1>2, <1>4, <1>5

LEMMA RequestIs ==
  ASSUME NEW r \in Requests
  PROVE  /\ r.level \in Levels /\ r.of \in Nat /\ r.snapshot \in BOOLEAN
         /\ r.cursor # None => r.cursor \in Nat
BY DEF Requests

LEMMA RefreshFitsLater ==
  ASSUME NEW file, NEW next, Extends(next, file), next.rotations = file.rotations,
         NEW v \in Viewers, ViewFits(v, file), NEW r \in {None} \cup Requests,
         RefreshFits(r, v, file)
  PROVE  RefreshFits(r, v, next)
<1> SUFFICES ASSUME r # None
             PROVE  /\ r.of <= file.rotations
                    /\ IF r.snapshot THEN SnapshotWaits(r, next) ELSE DeltaWaits(r, v, next)
  BY DEF RefreshFits
<1>1. r.of <= file.rotations
  BY DEF RefreshFits
<1>2. ASSUME r.snapshot PROVE SnapshotWaits(r, next)
  <2>1. SnapshotWaits(r, file)
    BY <1>2 DEF RefreshFits
  <2> SUFFICES ASSUME r.answer # None, r.answer.json, r.of = file.rotations
               PROVE  OneStretch(r.answer.entries, r.answer.detached, next, r.answer.before,
                                 r.answer.cursor, r.level)
    BY <2>1 DEF SnapshotWaits
  <2>2. /\ r.answer \in Snapshots
        /\ OneStretch(r.answer.entries, r.answer.detached, file, r.answer.before,
                      r.answer.cursor, r.level)
    BY <2>1 DEF SnapshotWaits
  <2>3. r.answer.before \in Nat /\ r.answer.cursor \in Nat
    BY <2>2 DEF Snapshots
  <2> QED BY <2>2, <2>3, StretchLater
<1>3. ASSUME ~r.snapshot PROVE DeltaWaits(r, v, next)
  <2>1. DeltaWaits(r, v, file)
    BY <1>3 DEF RefreshFits
  <2>2. r.cursor # None /\ r.answer \in {None} \cup Deltas
    BY <2>1 DEF DeltaWaits
  <2>3. ASSUME Stands(v, next)
        PROVE  r.cursor = v.cursor /\ r.level = v.shows
    BY <2>1, <2>3, FitsLater DEF DeltaWaits
  <2>4. ASSUME Stands(v, next), r.answer # None
        PROVE  /\ v.cursor <= r.answer.cursor /\ r.answer.cursor <= next.size
               /\ Clear(next, r.answer.cursor)
               /\ Shows(r.answer.entries, 1, next, v.cursor, r.answer.cursor, v.shows)
    <3>1. Stands(v, file)
      BY <2>4, FitsLater
    <3>2. /\ v.cursor <= r.answer.cursor /\ r.answer.cursor <= file.size
          /\ Clear(file, r.answer.cursor)
          /\ Shows(r.answer.entries, 1, file, v.cursor, r.answer.cursor, v.shows)
      BY <2>1, <2>4, <3>1 DEF DeltaWaits
    <3>3. r.answer.cursor \in Nat
      BY <2>2, <2>4 DEF Deltas
    <3>4. file.size \in Nat /\ next.size \in Nat /\ file.size <= next.size
      BY DEF Extends, FileOK
    <3>5. r.answer.cursor <= next.size
      BY <3>2, <3>3, <3>4
    <3>6. /\ Clear(next, r.answer.cursor)
          /\ Shows(r.answer.entries, 1, next, v.cursor, r.answer.cursor, v.shows)
      BY <3>2, <3>3, ShowsLater
    <3> QED BY <3>2, <3>5, <3>6
  <2> QED BY <2>2, <2>3, <2>4 DEF DeltaWaits
<1> QED BY <1>1, <1>2, <1>3

LEMMA PagesFitLater ==
  ASSUME NEW file, NEW next, Extends(next, file), next.rotations = file.rotations,
         NEW v \in Viewers, ViewFits(v, file), NEW ps \in SUBSET OlderPages,
         PagesFit(ps, v, file)
  PROVE  PagesFit(ps, v, next)
<1>1. /\ IsFiniteSet(ps) /\ \A p \in ps : p.at <= p.before
      /\ \A p \in ps : ~p.stale => v.loadingOlder /\ v.before # None
      /\ \A p, q \in ps : ~p.stale /\ ~q.stale => p = q
  BY DEF PagesFit
<1>2. ASSUME Stands(v, next), NEW p \in ps, ~p.stale
      PROVE  PageMeets(p, v, next)
  <2>1. Stands(v, file) /\ v.before \in Nat /\ v.before <= v.cursor /\ v.cursor <= file.size
        /\ v.cursor \in Nat
    BY <1>2, FitsLater
  <2>2. /\ p.before = v.before /\ Clear(file, p.at)
        /\ Shows(p.picked, 1, file, p.at, p.before, p.level)
    BY <1>2, <2>1 DEF PagesFit, PageMeets
  <2>3. file.size \in Nat /\ p.at \in Nat /\ p.at <= p.before
    BY <1>1, <1>2 DEF Extends, FileOK, OlderPages
  <2>4. p.before \in Nat /\ p.before <= file.size /\ p.at <= file.size
    BY <2>1, <2>2, <2>3
  <2>5. Clear(next, p.at)
    BY <2>2, <2>3, <2>4, ShowsLater
  <2>6. Shows(p.picked, 1, next, p.at, p.before, p.level)
    BY <2>2, <2>4, ShowsLater
  <2> QED BY <2>2, <2>5, <2>6 DEF PageMeets
<1> QED BY <1>1, <1>2 DEF PagesFit

\* Once the file has been rotated nothing is claimed of it until the next snapshot.
LEMMA FitsNoMore ==
  ASSUME NEW file \in Files, NEW next \in Files, next.rotations = file.rotations + 1,
         NEW v \in Viewers, v.of <= file.rotations, ViewFits(v, file),
         NEW r \in {None} \cup Requests, RefreshFits(r, v, file),
         NEW ps \in SUBSET OlderPages, PagesFit(ps, v, file)
  PROVE  ViewFits(v, next) /\ RefreshFits(r, v, next) /\ PagesFit(ps, v, next)
<1>1. file.rotations \in Nat /\ v.of \in Nat
  BY DEF Files, Viewers
<1>2. ~Stands(v, next)
  BY <1>1 DEF Stands
<1>3. ViewFits(v, next)
  BY <1>2 DEF ViewFits
<1>4. ASSUME r # None
      PROVE  /\ r.of <= next.rotations
             /\ IF r.snapshot THEN SnapshotWaits(r, next) ELSE DeltaWaits(r, v, next)
  <2>1. r.of \in Nat /\ r.of <= file.rotations
    BY <1>4, RequestIs DEF RefreshFits
  <2>2. r.of <= next.rotations /\ r.of # next.rotations
    BY <1>1, <2>1
  <2>3. CASE r.snapshot
    <3>1. SnapshotWaits(r, file)
      BY <1>4, <2>3 DEF RefreshFits
    <3> QED BY <2>2, <2>3, <3>1 DEF SnapshotWaits
  <2>4. CASE ~r.snapshot
    <3>1. DeltaWaits(r, v, file)
      BY <1>4, <2>4 DEF RefreshFits
    <3> QED BY <1>2, <2>2, <2>4, <3>1 DEF DeltaWaits
  <2> QED BY <2>3, <2>4
<1>5. RefreshFits(r, v, next)
  BY <1>4 DEF RefreshFits
<1>6. PagesFit(ps, v, next)
  BY <1>2 DEF PagesFit
<1> QED BY <1>3, <1>5, <1>6

LEMMA WritesKeep ==
  ASSUME Inv, Writes
  PROVE  Inv'
<1>1. /\ log \in Files /\ FileOK(log) /\ view \in Viewers /\ view.of <= log.rotations
      /\ refresh \in {None} \cup Requests /\ pages \in SUBSET OlderPages
      /\ ViewFits(view, log) /\ RefreshFits(refresh, view, log) /\ PagesFit(pages, view, log)
  BY DEF Inv, TypeOK
<1>2. Grows(log, log')
  BY <1>1, WritesGrow
<1>3. view' = view /\ refresh' = refresh /\ pages' = pages /\ events' = events
  BY DEF Writes, WriteLine, FinishLine, StartSession
<1>4. /\ log' \in Files /\ FileOK(log')
      /\ log'.rotations = log.rotations \/ log'.rotations = log.rotations + 1
  BY <1>2 DEF Grows
<1>5. TypeOK'
  <2>1. view.of <= log'.rotations
    BY <1>1, <1>4 DEF Files, Viewers
  <2>2. Cardinality(log'.torn) <= 1
    BY <1>4 DEF FileOK
  <2>3. TypeOK
    BY DEF Inv
  <2> QED BY <1>3, <1>4, <2>1, <2>2, <2>3 DEF TypeOK
<1>6. ViewFits(view, log') /\ RefreshFits(refresh, view, log') /\ PagesFit(pages, view, log')
  <2>1. CASE log'.rotations = log.rotations + 1
    BY <1>1, <1>4, <2>1, FitsNoMore
  <2>2. CASE log'.rotations = log.rotations /\ Extends(log', log)
    BY <1>1, <2>2, FitsLater, RefreshFitsLater, PagesFitLater
  <2> QED BY <1>2, <2>1, <2>2 DEF Grows
<1> QED BY <1>3, <1>4, <1>5, <1>6 DEF Inv

-----------------------------------------------------------------------------
(* Refreshes.                                                              *)

\* The screen and what it was read with did not change, but that the filter may have to
\* be asked anew.
Same(w, v) ==
  /\ w.before = v.before /\ w.cursor = v.cursor /\ w.lines = v.lines
  /\ w.detached = v.detached /\ w.of = v.of /\ w.shows = v.shows /\ w.whole = v.whole
  /\ w.asked \in {v.asked, None}

LEMMA SameFits ==
  ASSUME NEW v, NEW w, Same(w, v), NEW file
  PROVE  /\ ViewFits(v, file) => ViewFits(w, file)
         /\ \A r : RefreshFits(r, v, file) => RefreshFits(r, w, file)
         /\ \A ps : PagesFit(ps, v, file) /\ (v.loadingOlder => w.loadingOlder)
                      => PagesFit(ps, w, file)
<1>1. Stands(w, file) <=> Stands(v, file)
  BY DEF Stands, Same
<1>2. ViewFits(v, file) => ViewFits(w, file)
  BY <1>1 DEF ViewFits, Same
<1>3. ASSUME NEW r, RefreshFits(r, v, file)
      PROVE  RefreshFits(r, w, file)
  BY <1>1, <1>3 DEF RefreshFits, DeltaWaits, Same
<1>4. ASSUME NEW ps, PagesFit(ps, v, file), v.loadingOlder => w.loadingOlder
      PROVE  PagesFit(ps, w, file)
  BY <1>1, <1>4 DEF PagesFit, PageMeets, Same
<1> QED BY <1>2, <1>3, <1>4

\* The invariant, taken apart and put together.
LEMMA InvIs ==
  ASSUME Inv
  PROVE  /\ log \in Files /\ FileOK(log) /\ view \in Viewers /\ view.of <= log.rotations
         /\ view.detached <= Len(view.lines) /\ Cardinality(log.torn) <= 1
         /\ refresh \in {None} \cup Requests /\ pages \in SUBSET OlderPages
         /\ IsFiniteSet(pages) /\ Cardinality(pages) <= MaxPages /\ events \in 0 .. MaxEvents
         /\ ViewFits(view, log) /\ RefreshFits(refresh, view, log) /\ PagesFit(pages, view, log)
BY DEF Inv, TypeOK, PagesFit

LEMMA InvNext ==
  ASSUME Inv, log' = log, view' \in Viewers, view'.detached <= Len(view'.lines),
         view'.of <= log.rotations, refresh' \in {None} \cup Requests,
         pages' \in SUBSET OlderPages, Cardinality(pages') <= MaxPages,
         events' \in 0 .. MaxEvents,
         ViewFits(view', log), RefreshFits(refresh', view', log), PagesFit(pages', view', log)
  PROVE  Inv'
<1>1. log \in Files /\ FileOK(log) /\ Cardinality(log.torn) <= 1
  BY InvIs
<1>2. TypeOK'
  BY <1>1 DEF TypeOK
<1> QED BY <1>1, <1>2 DEF Inv

LEMMA NothingRefreshes ==
  ASSUME NEW v, NEW file PROVE RefreshFits(None, v, file)
BY DEF RefreshFits

LEMMA RefreshStartsKeeps ==
  ASSUME Inv, RefreshStarts
  PROVE  Inv'
<1> DEFINE snapshot == view.needsSnapshot \/ view.cursor = None \/ view.asked # view.level
           v == [view EXCEPT !.needsSnapshot = @ /\ ~snapshot]
           r == [snapshot |-> snapshot, cursor |-> view.cursor, level |-> view.level,
                 answer |-> None, of |-> 0]
<1>1. refresh' = r /\ view' = v /\ log' = log /\ pages' = pages /\ events' = events
  BY DEF RefreshStarts
<1>2. /\ view \in Viewers /\ snapshot \in BOOLEAN /\ log.rotations \in Nat
      /\ ViewFits(view, log) /\ PagesFit(pages, view, log)
  <2>1. view.needsSnapshot \in BOOLEAN
    BY InvIs DEF Viewers
  <2>2. snapshot \in BOOLEAN
    OBVIOUS
  <2> HIDE DEF snapshot
  <2> QED BY <2>2, InvIs DEF Files
<1>3. v \in Viewers /\ Same(v, view) /\ v.loadingOlder = view.loadingOlder
  <2>1. (view.needsSnapshot /\ ~snapshot) \in BOOLEAN
    OBVIOUS
  <2> HIDE DEF snapshot
  <2> QED BY <1>2, <2>1 DEF Viewers, Same
<1>4. r \in Requests
  <2> HIDE DEF snapshot
  <2>1. view.cursor \in Nat \cup {None} /\ view.level \in Levels /\ 0 \in Nat
    BY <1>2 DEF Viewers
  <2> QED BY <1>2, <2>1 DEF Requests
<1>5. RefreshFits(r, view, log)
  <2>1. /\ r.snapshot = snapshot /\ r.cursor = view.cursor /\ r.level = view.level
        /\ r.answer = None /\ r.of = 0
    <3> HIDE DEF snapshot
    <3> QED OBVIOUS
  <2>2. ASSUME ~snapshot
        PROVE  view.cursor # None /\ view.asked = view.level /\ view.asked # None
    <3>1. view.level \in Levels /\ None \notin Levels
      BY <1>2, LogAssumption DEF LogAssumption, Viewers, Levels
    <3>2. view.cursor # None /\ view.asked = view.level
      BY <2>2
    <3> QED BY <3>1, <3>2
  <2>3. Stands(view, log) => view.asked \in {None, view.shows}
    BY <1>2 DEF ViewFits
  <2> HIDE DEF snapshot, r
  <2>4. SnapshotWaits(r, log)
    BY <2>1 DEF SnapshotWaits
  <2>5. ~snapshot => DeltaWaits(r, view, log)
    BY <2>1, <2>2, <2>3 DEF DeltaWaits
  <2> QED BY <1>2, <2>1, <2>4, <2>5 DEF RefreshFits
<1> HIDE DEF v, r
<1>6. ViewFits(v, log) /\ RefreshFits(r, v, log) /\ PagesFit(pages, v, log)
  BY <1>2, <1>3, <1>5, SameFits
<1>7. v.detached <= Len(v.lines) /\ v.of <= log.rotations
  BY <1>3, InvIs DEF Same
<1> QED BY <1>1, <1>3, <1>4, <1>6, <1>7, InvIs, InvNext

LEMMA RefreshIsAnsweredKeeps ==
  ASSUME Inv, RefreshIsAnswered
  PROVE  Inv'
<1> DEFINE answer == IF refresh.snapshot THEN Snapshot(log, refresh.level, MaxLines)
                     ELSE Delta(log, refresh.cursor, refresh.level)
           r == [refresh EXCEPT !.answer = answer, !.of = log.rotations]
<1>1. /\ refresh # None /\ refresh \in Requests /\ log \in Files /\ FileOK(log)
      /\ RefreshFits(refresh, view, log)
  BY InvIs DEF RefreshIsAnswered
<1>2. refresh' = r /\ log' = log /\ view' = view /\ pages' = pages /\ events' = events
  BY DEF RefreshIsAnswered
<1>3. /\ r.answer = answer /\ r.of = log.rotations /\ r.snapshot = refresh.snapshot
      /\ r.cursor = refresh.cursor /\ r.level = refresh.level
  <2> HIDE DEF answer
  <2> QED BY <1>1 DEF Requests
<1>4. ASSUME refresh.snapshot
      PROVE  answer \in Snapshots /\ SnapshotWaits(r, log)
  <2>1. answer = Snapshot(log, refresh.level, MaxLines)
    BY <1>4
  <2> HIDE DEF answer, r
  <2>2. /\ answer \in Snapshots /\ answer.detached <= Len(answer.entries)
        /\ answer.json => OneStretch(answer.entries, answer.detached, log, answer.before,
                                     answer.cursor, refresh.level)
    BY <1>1, <2>1, SnapshotFits
  <2> QED BY <1>3, <2>2 DEF SnapshotWaits
<1>5. ASSUME ~refresh.snapshot
      PROVE  answer \in Deltas /\ DeltaWaits(r, view, log)
  <2>1. answer = Delta(log, refresh.cursor, refresh.level)
    BY <1>5
  <2>2. /\ refresh.cursor # None
        /\ Stands(view, log) => refresh.cursor = view.cursor /\ refresh.level = view.shows
    BY <1>1, <1>5 DEF RefreshFits, DeltaWaits
  <2>3. refresh.cursor \in Nat
    BY <1>1, <2>2, RequestIs
  <2> HIDE DEF answer, r
  <2>4. /\ answer \in Deltas
        /\ refresh.cursor <= log.size /\ Clear(log, refresh.cursor) =>
             /\ refresh.cursor <= answer.cursor /\ answer.cursor <= log.size
             /\ Clear(log, answer.cursor)
             /\ Shows(answer.entries, 1, log, refresh.cursor, answer.cursor, refresh.level)
    BY <1>1, <2>1, <2>3, DeltaFits
  <2>5. Stands(view, log) => view.cursor <= log.size /\ Clear(log, view.cursor)
    BY InvIs DEF ViewFits, OneStretch
  <2> QED BY <1>3, <2>2, <2>4, <2>5 DEF DeltaWaits
<1>6. r \in Requests
  <2>1. answer \in {None} \cup Deltas \cup Snapshots /\ log.rotations \in Nat
    <3> HIDE DEF answer
    <3> QED BY <1>1, <1>4, <1>5 DEF Files
  <2> HIDE DEF answer
  <2> QED BY <1>1, <2>1 DEF Requests
<1> HIDE DEF r, answer
<1>7. RefreshFits(r, view, log)
  BY <1>1, <1>3, <1>4, <1>5 DEF RefreshFits, Files
<1> QED BY <1>2, <1>6, <1>7, InvIs, InvNext

LEMMA StaleIs ==
  ASSUME NEW ps \in SUBSET OlderPages, IsFiniteSet(ps), \A p \in ps : p.at <= p.before
  PROVE  /\ Stale(ps) \in SUBSET OlderPages /\ IsFiniteSet(Stale(ps))
         /\ Cardinality(Stale(ps)) <= Cardinality(ps)
         /\ \A p \in Stale(ps) : p.stale /\ p.at <= p.before
<1> DEFINE f == [p \in ps |-> [p EXCEPT !.stale = TRUE]]
<1>1. \A p \in ps : /\ [p EXCEPT !.stale = TRUE] \in OlderPages
                    /\ [p EXCEPT !.stale = TRUE].stale
                    /\ [p EXCEPT !.stale = TRUE].at = p.at
                    /\ [p EXCEPT !.stale = TRUE].before = p.before
  BY DEF OlderPages
<1>2. f \in [ps -> Stale(ps)] /\ Stale(ps) = {f[p] : p \in ps}
  BY DEF Stale
<1>3. IsFiniteSet(Stale(ps)) /\ Cardinality(Stale(ps)) <= Cardinality(ps)
  <2> HIDE DEF f
  <2> QED BY <1>2, FiniteImage
<1>4. \A p \in Stale(ps) : p \in OlderPages /\ p.stale /\ p.at <= p.before
  BY <1>1 DEF Stale
<1> QED BY <1>3, <1>4

\* Pages that were made stale constrain nothing any more.
LEMMA StaleFit ==
  ASSUME Inv, NEW v, NEW file
  PROVE  /\ PagesFit(Stale(pages), v, file) /\ Stale(pages) \in SUBSET OlderPages
         /\ Cardinality(Stale(pages)) <= MaxPages
<1>1. /\ pages \in SUBSET OlderPages /\ IsFiniteSet(pages) /\ \A p \in pages : p.at <= p.before
      /\ Cardinality(pages) <= MaxPages
  BY InvIs DEF PagesFit
<1>2. /\ Stale(pages) \in SUBSET OlderPages /\ IsFiniteSet(Stale(pages))
      /\ Cardinality(Stale(pages)) <= Cardinality(pages)
      /\ \A p \in Stale(pages) : p.stale /\ p.at <= p.before
  BY <1>1, StaleIs
<1>3. Cardinality(pages) \in Nat /\ Cardinality(Stale(pages)) \in Nat /\ MaxPages \in Nat
  BY <1>1, <1>2, FS_CardinalityType, LogAssumption DEF LogAssumption
<1> QED BY <1>1, <1>2, <1>3 DEF PagesFit

LEMMA SnapshotArrivesKeeps ==
  ASSUME Inv, SnapshotArrives
  PROVE  Inv'
<1> DEFINE answer == refresh.answer
           w == SetEntries(view, answer)
           v == [w EXCEPT
                   !.cursor = answer.cursor, !.asked = refresh.level,
                   !.of = refresh.of, !.shows = refresh.level, !.whole = TRUE]
<1>1. /\ refresh # None /\ answer # None /\ refresh.snapshot /\ answer.json
      /\ view' = v /\ pages' = Stale(pages) /\ refresh' = None /\ log' = log /\ events' = events
  BY DEF SnapshotArrives, Dropped
<1>2. view \in Viewers /\ refresh \in Requests /\ refresh.level \in Levels /\ refresh.of \in Nat
  BY <1>1, InvIs, RequestIs
<1>3. /\ refresh.of <= log.rotations /\ answer \in Snapshots
      /\ answer.detached <= Len(answer.entries)
      /\ refresh.of = log.rotations =>
           OneStretch(answer.entries, answer.detached, log, answer.before, answer.cursor,
                      refresh.level)
  BY <1>1, InvIs DEF RefreshFits, SnapshotWaits
<1>4. /\ answer.entries \in Seq(LogLines) /\ answer.cursor \in Nat /\ answer.before \in Nat
      /\ answer.detached \in Nat
  BY <1>3 DEF Snapshots
<1>5. /\ v \in Viewers /\ v.lines = answer.entries /\ v.before = answer.before
      /\ v.detached = answer.detached /\ v.cursor = answer.cursor /\ v.asked = refresh.level
      /\ v.of = refresh.of /\ v.shows = refresh.level
  <2>1. w \in Viewers /\ w.lines = answer.entries /\ w.before = answer.before
        /\ w.detached = answer.detached
    BY <1>2, <1>4 DEF SetEntries, Viewers
  <2> HIDE DEF w, answer
  <2>2. v \in Viewers
    BY <1>2, <1>4, <2>1 DEF Viewers
  <2>3. /\ v.lines = w.lines /\ v.before = w.before /\ v.detached = w.detached
        /\ v.cursor = answer.cursor /\ v.asked = refresh.level
        /\ v.of = refresh.of /\ v.shows = refresh.level
    BY <2>1 DEF Viewers
  <2> QED BY <2>1, <2>2, <2>3
<1> HIDE DEF v, w, answer
<1>6. ViewFits(v, log)
  <2>1. v.cursor # None
    BY <1>4, <1>5, LogAssumption DEF LogAssumption
  <2> QED BY <1>3, <1>5, <2>1 DEF ViewFits, Stands
<1>7. RefreshFits(None, v, log)
  BY NothingRefreshes
<1>8. /\ PagesFit(Stale(pages), v, log) /\ Stale(pages) \in SUBSET OlderPages
      /\ Cardinality(Stale(pages)) <= MaxPages
  BY StaleFit
<1>9. v.detached <= Len(v.lines) /\ v.of <= log.rotations
  BY <1>3, <1>5
<1>10. None \in {None} \cup Requests
  OBVIOUS
<1> QED BY <1>1, <1>5, <1>6, <1>7, <1>8, <1>9, <1>10, InvIs, InvNext

\* The lines a delta brings go behind those on screen.
LEMMA StretchGrows ==
  ASSUME NEW file, FileOK(file), NEW s \in Seq(LogLines), NEW n \in Nat, n <= Len(s),
         NEW b \in Nat, NEW c \in Nat, NEW d \in Nat, NEW level,
         OneStretch(s, n, file, b, c, level),
         c <= d, d <= file.size, Clear(file, d),
         NEW t \in Seq(LogLines), Shows(t, 1, file, c, d, level)
  PROVE  OneStretch(s \o t, n, file, b, d, level)
<1>1. /\ b <= c /\ Clear(file, b) /\ Clear(file, c) /\ Shows(s, n + 1, file, b, c, level)
      /\ DetachedBefore(s, n, file, b, level)
  BY DEF OneStretch
<1>2. n + 1 \in Nat \ {0} /\ n + 1 <= Len(s) + 1 /\ Len(s) \in Nat
  OBVIOUS
<1>3. Shows(s \o t, n + 1, file, b, d, level)
  BY <1>1, <1>2, ShowsJoined
<1>4. DetachedBefore(s \o t, n, file, b, level)
  <2> DEFINE u == s \o t
  <2>1. \A i \in 1 .. Len(s) : u[i] = s[i]
    OBVIOUS
  <2>2. \A i \in 1 .. n : u[i] = s[i] /\ (i > 1 => u[i - 1] = s[i - 1])
    <3> HIDE DEF u
    <3> QED BY <1>2, <2>1
  <2>3. DetachedBefore(u, n, file, b, level)
    <3> HIDE DEF u
    <3> QED BY <1>1, <2>2 DEF DetachedBefore
  <2> QED BY <2>3
<1>5. b <= d
  BY <1>1
<1> QED BY <1>1, <1>3, <1>4, <1>5 DEF OneStretch

LEMMA DeltaArrivesKeeps ==
  ASSUME Inv, DeltaArrives
  PROVE  Inv'
<1> DEFINE answer == refresh.answer
           u == [view EXCEPT !.cursor = answer.cursor, !.asked = refresh.level]
<1>1. /\ refresh # None /\ answer # None /\ ~refresh.snapshot
      /\ pages' = pages /\ refresh' = None /\ log' = log /\ events' = events
  BY DEF DeltaArrives
<1>2. PICK stick \in BOOLEAN :
        LET w == AppendEntries(u, answer.entries, stick)
        IN view' = [w EXCEPT !.needsSnapshot = @ \/ answer.restarted,
                             !.whole = @ /\ view.cursor # None]
  BY DEF DeltaArrives
<1> DEFINE w == AppendEntries(u, answer.entries, stick)
           v == [w EXCEPT !.needsSnapshot = @ \/ answer.restarted,
                          !.whole = @ /\ view.cursor # None]
<1>3. view' = v
  BY <1>2
<1>4. view \in Viewers /\ refresh \in Requests /\ refresh.level \in Levels
  BY <1>1, InvIs, RequestIs
<1>5. /\ answer \in Deltas
      /\ Stands(view, log) =>
           /\ refresh.cursor = view.cursor /\ refresh.level = view.shows
           /\ view.cursor <= answer.cursor /\ answer.cursor <= log.size
           /\ Clear(log, answer.cursor)
           /\ Shows(answer.entries, 1, log, view.cursor, answer.cursor, view.shows)
  BY <1>1, InvIs DEF RefreshFits, DeltaWaits
<1>6. answer.entries \in Seq(LogLines) /\ answer.cursor \in Nat /\ answer.restarted \in BOOLEAN
  BY <1>5 DEF Deltas
<1>7. /\ u \in Viewers /\ u.cursor = answer.cursor /\ u.asked = refresh.level
      /\ u.lines = view.lines /\ u.before = view.before /\ u.detached = view.detached
      /\ u.loadingOlder = view.loadingOlder /\ u.of = view.of /\ u.shows = view.shows
      /\ u.whole = view.whole
  <2> HIDE DEF answer
  <2> QED BY <1>4, <1>6 DEF Viewers
<1> HIDE DEF u
<1>8. /\ w \in Viewers /\ w.cursor = answer.cursor /\ w.asked = refresh.level
      /\ w.lines = view.lines \o answer.entries /\ w.before = view.before
      /\ w.detached = view.detached /\ w.loadingOlder = view.loadingOlder /\ w.of = view.of
      /\ w.shows = view.shows /\ w.whole = view.whole
  <2> DEFINE lines == u.lines \o answer.entries
             trim == \/ stick /\ 2 * Len(lines) > 3 * MaxLines
                     \/ Len(lines) > HistoryMaxLines + MaxLines
             needs == u.needsSnapshot \/ (answer.entries # <<>> /\ trim)
  <2>1. w = [u EXCEPT !.lines = lines, !.needsSnapshot = needs]
    <3> HIDE DEF u, answer
    <3> QED BY DEF AppendEntries
  <2>2. needs \in BOOLEAN
    <3>1. u.needsSnapshot \in BOOLEAN
      BY <1>7 DEF Viewers
    <3> QED BY <3>1
  <2>3. lines \in Seq(LogLines) /\ lines = view.lines \o answer.entries
    <3>1. u.lines = view.lines /\ view.lines \in Seq(LogLines)
      BY <1>4, <1>7 DEF Viewers
    <3> HIDE DEF answer
    <3> QED BY <1>6, <3>1
  <2> HIDE DEF w, lines, needs, answer
  <2> QED BY <1>7, <2>1, <2>2, <2>3 DEF Viewers
<1> HIDE DEF w
<1>9. /\ v \in Viewers /\ v.cursor = answer.cursor /\ v.asked = refresh.level
      /\ v.lines = view.lines \o answer.entries /\ v.before = view.before
      /\ v.detached = view.detached /\ v.loadingOlder = view.loadingOlder /\ v.of = view.of
      /\ v.shows = view.shows /\ v.whole = (view.whole /\ view.cursor # None)
  <2> DEFINE needs == w.needsSnapshot \/ answer.restarted
             whole == w.whole /\ view.cursor # None
  <2>1. needs \in BOOLEAN /\ whole \in BOOLEAN /\ whole = (view.whole /\ view.cursor # None)
    BY <1>6, <1>8 DEF Viewers
  <2>2. v = [w EXCEPT !.needsSnapshot = needs, !.whole = whole]
    OBVIOUS
  <2> HIDE DEF v, needs, whole, answer
  <2> QED BY <1>8, <2>1, <2>2 DEF Viewers
<1> HIDE DEF v
<1>10. /\ view.lines \in Seq(LogLines) /\ view.detached \in Nat
       /\ view.detached <= Len(view.lines) /\ view.of <= log.rotations
  BY InvIs DEF Viewers
<1>11. Stands(v, log) => Stands(view, log)
  BY <1>9 DEF Stands
<1>12. ASSUME Stands(v, log)
       PROVE  /\ v.asked \in {None, v.shows}
              /\ OneStretch(v.lines, v.detached, log, v.before, v.cursor, v.shows)
  <2>1. /\ view.before \in Nat /\ view.cursor \in Nat
        /\ OneStretch(view.lines, view.detached, log, view.before, view.cursor, view.shows)
    BY <1>4, <1>11, <1>12, InvIs, ViewIs DEF ViewFits, Stands
  <2>2. OneStretch(view.lines \o answer.entries, view.detached, log, view.before,
                   answer.cursor, view.shows)
    <3> HIDE DEF answer
    <3> QED BY <1>5, <1>6, <1>10, <1>11, <1>12, <2>1, InvIs, StretchGrows
  <2> QED BY <1>5, <1>9, <1>11, <1>12, <2>2
<1>13. ViewFits(v, log)
  <2>1. v.cursor # None
    <3> HIDE DEF answer
    <3> QED BY <1>6, <1>9, LogAssumption DEF LogAssumption
  <2> QED BY <1>12, <2>1 DEF ViewFits
<1>14. PagesFit(pages, v, log)
  BY <1>9, <1>11, InvIs DEF PagesFit, PageMeets
<1>15. v.detached <= Len(v.lines) /\ v.of <= log.rotations
  <2>1. \A s, t \in Seq(LogLines) :
          Len(s) \in Nat /\ Len(s \o t) \in Nat /\ Len(s) <= Len(s \o t)
    OBVIOUS
  <2>2. /\ Len(view.lines) \in Nat /\ Len(v.lines) \in Nat
        /\ Len(view.lines) <= Len(v.lines)
    <3>1. v.lines = view.lines \o answer.entries
      BY <1>9
    <3> HIDE DEF answer
    <3> QED BY <1>6, <1>10, <2>1, <3>1, Zenon
  <2>3. v.detached = view.detached /\ v.of = view.of
    BY <1>9
  <2> QED BY <1>10, <2>2, <2>3
<1>16. RefreshFits(None, v, log) /\ None \in {None} \cup Requests
  BY NothingRefreshes
<1> QED BY <1>1, <1>3, <1>9, <1>13, <1>14, <1>15, <1>16, InvIs, InvNext

LEMMA RefreshEndsKeeps ==
  ASSUME Inv, RefreshDropped \/ RefreshFails
  PROVE  Inv'
<1>1. /\ refresh' = None /\ log' = log /\ view' = view /\ pages' = pages
      /\ events' = events \/ (events' = events + 1 /\ events < MaxEvents)
  BY DEF RefreshDropped, RefreshFails
<1>2. events' \in 0 .. MaxEvents
  BY <1>1, InvIs, LogAssumption DEF LogAssumption
<1>3. RefreshFits(None, view, log) /\ None \in {None} \cup Requests
  BY NothingRefreshes
<1> QED BY <1>1, <1>2, <1>3, InvIs, InvNext

-----------------------------------------------------------------------------
(* Pages.                                                                  *)

LEMMA LoadOlderKeeps ==
  ASSUME Inv, LoadOlder
  PROVE  Inv'
<1> DEFINE p == [level |-> view.level, before |-> view.before, stale |-> FALSE,
                 at |-> view.before, picked |-> <<>>, scanned |-> 0]
           v == [view EXCEPT !.loadingOlder = TRUE]
<1>1. /\ pages' = pages \cup {p} /\ view' = v /\ log' = log /\ refresh' = refresh
      /\ events' = events
      /\ ~view.loadingOlder /\ view.before # None /\ view.before > 0
      /\ Cardinality(pages) < MaxPages
  BY DEF LoadOlder, CanLoadOlder
<1>2. view \in Viewers /\ view.level \in Levels /\ view.before \in Nat \ {0}
  BY <1>1, InvIs, ViewIs DEF Viewers
<1>3. v \in Viewers /\ Same(v, view) /\ v.loadingOlder
  BY <1>2 DEF Viewers, Same
<1>4. /\ p \in OlderPages /\ p.before = view.before /\ p.at = view.before
      /\ p.picked = <<>> /\ p.level = view.level
  BY <1>2 DEF OlderPages
<1> HIDE DEF v, p
<1>5. /\ pages \in SUBSET OlderPages /\ IsFiniteSet(pages) /\ PagesFit(pages, view, log)
      /\ \A q \in pages : q.stale
  BY <1>1, InvIs DEF PagesFit, OlderPages
<1>6. IsFiniteSet(pages \cup {p}) /\ Cardinality(pages \cup {p}) <= MaxPages
  <2>1. /\ IsFiniteSet(pages \cup {p})
        /\ Cardinality(pages \cup {p}) = Cardinality(pages)
           \/ Cardinality(pages \cup {p}) = Cardinality(pages) + 1
    BY <1>5, FS_AddElement
  <2>2. Cardinality(pages) \in Nat /\ MaxPages \in Nat
    BY <1>5, FS_CardinalityType, LogAssumption DEF LogAssumption
  <2> QED BY <1>1, <2>1, <2>2
<1>7. ASSUME Stands(v, log)
      PROVE  PageMeets(p, v, log)
  <2>1. Stands(view, log) /\ v.before = view.before
    BY <1>3, <1>7 DEF Stands, Same
  <2>2. Clear(log, view.before) /\ FileOK(log)
    BY <2>1, InvIs DEF ViewFits, OneStretch
  <2>3. Within(log, view.before, view.before) = {}
    <3>1. \A l \in log.lines : l.at \in Nat /\ EndOf(l) \in Nat /\ l.at < EndOf(l)
      BY <2>2, LineIs DEF FileOK, FileLines
    <3> QED BY <1>2, <3>1 DEF Within
  <2>4. Shows(<<>>, 1, log, view.before, view.before, view.level)
    <3>1. Matching(Within(log, view.before, view.before), view.level) = {}
      BY <2>3 DEF Matching
    <3>2. Ordinary({}) = {} /\ Len(<<>>) = 0 /\ 1 .. 0 = {}
      BY DEF Ordinary
    <3> QED BY <3>1, <3>2 DEF Shows
  <2> QED BY <1>4, <2>1, <2>2, <2>4 DEF PageMeets
<1>8. PagesFit(pages \cup {p}, v, log)
  <2>1. /\ PagesFit(pages, v, log) /\ v.before # None
    <3>1. PagesFit(pages, v, log)
      BY <1>3, <1>5, SameFits
    <3> QED BY <1>1, <1>3, <3>1 DEF Same
  <2>2. p.at <= p.before
    BY <1>2, <1>4
  <2> QED BY <1>3, <1>5, <1>6, <1>7, <2>1, <2>2 DEF PagesFit
<1>9. ViewFits(v, log) /\ RefreshFits(refresh, v, log)
  BY <1>3, InvIs, SameFits
<1>10. v.detached <= Len(v.lines) /\ v.of <= log.rotations
  BY <1>3, InvIs DEF Same
<1>11. pages \cup {p} \in SUBSET OlderPages
  BY <1>4, <1>5
<1> QED BY <1>1, <1>3, <1>6, <1>8, <1>9, <1>10, <1>11, InvIs, InvNext

\* A page that a chunk more was read of is still one page.
LEMMA PageIsReadKeeps ==
  ASSUME Inv, NEW p \in pages, PageIsRead(p)
  PROVE  Inv'
<1> DEFINE q == NextChunk(log, p, PageLines)
           rest == pages \ {p}
<1>1. /\ ~PageDone(p, PageLines) /\ pages' = rest \cup {q} /\ log' = log /\ view' = view
      /\ refresh' = refresh /\ events' = events
  BY DEF PageIsRead
<1>2. /\ pages \in SUBSET OlderPages /\ IsFiniteSet(pages) /\ PagesFit(pages, view, log)
      /\ p \in OlderPages /\ p.at <= p.before /\ FileOK(log) /\ view \in Viewers
  BY InvIs DEF PagesFit
<1>3. /\ q \in OlderPages /\ q.level = p.level /\ q.before = p.before /\ q.stale = p.stale
      /\ q.at <= p.at
      /\ /\ p.before <= log.size /\ Clear(log, p.at)
         /\ Shows(p.picked, 1, log, p.at, p.before, p.level)
         => /\ Clear(log, q.at)
            /\ Shows(q.picked, 1, log, q.at, p.before, p.level)
  BY <1>1, <1>2, NextChunkFits
<1> HIDE DEF q
<1>4. IsFiniteSet(rest \cup {q}) /\ Cardinality(rest \cup {q}) <= Cardinality(pages)
  <2>1. IsFiniteSet(rest) /\ Cardinality(rest) = Cardinality(pages) - 1
    BY <1>2, FS_RemoveElement
  <2>2. /\ IsFiniteSet(rest \cup {q})
        /\ Cardinality(rest \cup {q}) = Cardinality(rest)
           \/ Cardinality(rest \cup {q}) = Cardinality(rest) + 1
    <3> HIDE DEF rest
    <3> QED BY <2>1, FS_AddElement
  <2>3. Cardinality(pages) \in Nat
    BY <1>2, FS_CardinalityType
  <2> HIDE DEF rest
  <2> QED BY <2>1, <2>2, <2>3
<1>5. Cardinality(rest \cup {q}) <= MaxPages
  <2>1. Cardinality(rest \cup {q}) \in Nat /\ Cardinality(pages) \in Nat /\ MaxPages \in Nat
    BY <1>2, <1>4, FS_CardinalityType, LogAssumption DEF LogAssumption
  <2> HIDE DEF rest
  <2> QED BY <1>4, <2>1, InvIs
<1>6. ASSUME Stands(view, log), ~q.stale
      PROVE  PageMeets(q, view, log)
  <2>1. /\ p.before = view.before /\ Clear(log, p.at)
        /\ Shows(p.picked, 1, log, p.at, p.before, p.level)
    BY <1>2, <1>3, <1>6 DEF PagesFit, PageMeets
  <2>2. view.before \in Nat /\ view.cursor \in Nat
    BY <1>2, <1>6, InvIs, ViewIs DEF Stands, ViewFits
  <2>3. view.before <= view.cursor /\ view.cursor <= log.size /\ log.size \in Nat
    BY <1>2, <1>6, InvIs DEF ViewFits, OneStretch, FileOK
  <2>4. p.before <= log.size
    BY <2>1, <2>2, <2>3
  <2> QED BY <1>3, <2>1, <2>4 DEF PageMeets
<1>7. q.at <= q.before
  BY <1>2, <1>3 DEF OlderPages
<1>8. PagesFit(rest \cup {q}, view, log)
  <2>1. \A o \in rest : o \in pages /\ o # p
    OBVIOUS
  <2>2. \A o \in rest : ~o.stale => q.stale
    BY <1>2, <1>3, <2>1 DEF PagesFit
  <2> HIDE DEF rest
  <2>3. \A o \in rest \cup {q} : o.at <= o.before
    BY <1>2, <1>7, <2>1 DEF PagesFit
  <2>4. \A o \in rest \cup {q} : ~o.stale => view.loadingOlder /\ view.before # None
    BY <1>2, <1>3, <2>1 DEF PagesFit
  <2>5. \A o, n \in rest \cup {q} : ~o.stale /\ ~n.stale => o = n
    BY <1>2, <2>1, <2>2 DEF PagesFit
  <2>6. Stands(view, log) => \A o \in rest \cup {q} : ~o.stale => PageMeets(o, view, log)
    BY <1>2, <1>6, <2>1 DEF PagesFit
  <2> QED BY <1>4, <2>3, <2>4, <2>5, <2>6 DEF PagesFit
<1>9. rest \cup {q} \in SUBSET OlderPages
  BY <1>2, <1>3
<1> QED BY <1>1, <1>5, <1>8, <1>9, InvIs, InvNext

\* What is left when a page is gone, and what that asks of the viewer.
LEMMA PageGone ==
  ASSUME Inv, NEW p \in pages
  PROVE  /\ pages \ {p} \in SUBSET OlderPages /\ IsFiniteSet(pages \ {p})
         /\ Cardinality(pages \ {p}) <= MaxPages
         /\ \A q \in pages \ {p} : q.at <= q.before
         /\ ~p.stale => \A q \in pages \ {p} : q.stale
         /\ \A v : PagesFit(pages, v, log) => PagesFit(pages \ {p}, v, log)
<1>1. /\ pages \in SUBSET OlderPages /\ IsFiniteSet(pages) /\ PagesFit(pages, view, log)
      /\ Cardinality(pages) <= MaxPages
  BY InvIs
<1>2. IsFiniteSet(pages \ {p}) /\ Cardinality(pages \ {p}) <= MaxPages
  <2>1. IsFiniteSet(pages \ {p}) /\ Cardinality(pages \ {p}) = Cardinality(pages) - 1
    BY <1>1, FS_RemoveElement
  <2>2. Cardinality(pages) \in Nat /\ MaxPages \in Nat
    BY <1>1, FS_CardinalityType, LogAssumption DEF LogAssumption
  <2> QED BY <1>1, <2>1, <2>2
<1>3. \A q \in pages \ {p} : q.at <= q.before
  BY <1>1 DEF PagesFit
<1>4. ~p.stale => \A q \in pages \ {p} : q.stale
  BY <1>1 DEF PagesFit
<1>5. \A v : PagesFit(pages, v, log) => PagesFit(pages \ {p}, v, log)
  BY <1>2 DEF PagesFit
<1> QED BY <1>1, <1>2, <1>3, <1>4, <1>5

\* No page waits that is not stale: the viewer may turn to the next one.
LEMMA NoneWaits ==
  ASSUME NEW ps \in SUBSET OlderPages, IsFiniteSet(ps), NEW v, NEW file,
         \A q \in ps : q.stale /\ q.at <= q.before
  PROVE  PagesFit(ps, v, file)
BY DEF PagesFit

LEMMA PageFailsKeeps ==
  ASSUME Inv, NEW p \in pages, PageFails(p)
  PROVE  Inv'
<1>1. /\ events < MaxEvents /\ events' = events + 1 /\ pages' = pages \ {p}
      /\ view' = (IF p.stale THEN view ELSE [view EXCEPT !.loadingOlder = FALSE])
      /\ log' = log /\ refresh' = refresh
  BY DEF PageFails
<1>2. view \in Viewers /\ events' \in 0 .. MaxEvents
  BY <1>1, InvIs, LogAssumption DEF LogAssumption
<1>3. view' \in Viewers /\ Same(view', view) /\ (p.stale => view' = view)
  <2>1. CASE p.stale
    <3>1. view' = view
      BY <1>1, <2>1
    <3> QED BY <1>2, <3>1 DEF Same
  <2>2. CASE ~p.stale
    <3> DEFINE v == [view EXCEPT !.loadingOlder = FALSE]
    <3>1. v \in Viewers /\ Same(v, view)
      BY <1>2 DEF Viewers, Same
    <3>2. view' = v
      BY <1>1, <2>2
    <3> HIDE DEF v
    <3> QED BY <2>2, <3>1, <3>2
  <2> QED BY <2>1, <2>2
<1>4. PagesFit(pages \ {p}, view', log)
  <2>1. CASE p.stale
    BY <1>3, <2>1, InvIs, PageGone
  <2>2. CASE ~p.stale
    <3>1. /\ pages \ {p} \in SUBSET OlderPages /\ IsFiniteSet(pages \ {p})
          /\ \A q \in pages \ {p} : q.stale /\ q.at <= q.before
      BY <2>2, PageGone
    <3> QED BY <3>1, NoneWaits
  <2> QED BY <2>1, <2>2
<1>5. ViewFits(view', log) /\ RefreshFits(refresh, view', log)
  BY <1>3, InvIs, SameFits
<1>6. view'.detached <= Len(view'.lines) /\ view'.of <= log.rotations
  BY <1>3, InvIs DEF Same
<1>7. pages \ {p} \in SUBSET OlderPages /\ Cardinality(pages \ {p}) <= MaxPages
  BY PageGone
<1> QED BY <1>1, <1>2, <1>3, <1>4, <1>5, <1>6, <1>7, InvIs, InvNext

\* An older page goes before what is on screen, in the place of the detached lines.
LEMMA PrependFits ==
  ASSUME Inv, NEW p \in pages, ~p.stale, p.level = view.shows, Stands(view, log)
  PROVE  OneStretch(p.picked \o SubSeq(view.lines, view.detached + 1, Len(view.lines)), 0,
                    log, p.at, view.cursor, view.shows)
<1> DEFINE rest == SubSeq(view.lines, view.detached + 1, Len(view.lines))
<1>1. /\ view \in Viewers /\ FileOK(log) /\ view.detached <= Len(view.lines)
      /\ p \in OlderPages /\ p.at <= p.before
      /\ p.before = view.before /\ Clear(log, p.at)
      /\ Shows(p.picked, 1, log, p.at, p.before, p.level)
  BY InvIs DEF PagesFit, PageMeets
<1>2. /\ view.lines \in Seq(LogLines) /\ view.detached \in Nat /\ view.before \in Nat
      /\ view.cursor \in Nat
  BY <1>1, InvIs, ViewIs DEF Stands, ViewFits
<1>3. /\ view.before <= view.cursor /\ view.cursor <= log.size
      /\ Clear(log, view.before) /\ Clear(log, view.cursor)
      /\ Shows(view.lines, view.detached + 1, log, view.before, view.cursor, view.shows)
  BY InvIs DEF ViewFits, OneStretch
<1>4. /\ rest \in Seq(LogLines)
      /\ Shows(rest, 1, log, view.before, view.cursor, view.shows)
  <2>1. /\ view.detached + 1 \in Nat \ {0} /\ view.detached + 1 <= Len(view.lines) + 1
    BY <1>1, <1>2
  <2> QED BY <1>2, <1>3, <2>1, ShowsRest
<1> HIDE DEF rest
<1>5. /\ p.picked \in Seq(LogLines) /\ p.at \in Nat /\ 1 <= Len(p.picked) + 1 /\ 1 \in Nat \ {0}
      /\ p.at <= view.before
  BY <1>1 DEF OlderPages
<1>6. Shows(p.picked \o rest, 1, log, p.at, view.cursor, view.shows)
  BY <1>1, <1>2, <1>3, <1>4, <1>5, ShowsJoined
<1>7. DetachedBefore(p.picked \o rest, 0, log, p.at, view.shows)
  BY DEF DetachedBefore
<1>8. p.at <= view.cursor
  BY <1>2, <1>3, <1>5
<1>9. OneStretch(p.picked \o rest, 0, log, p.at, view.cursor, view.shows)
  BY <1>1, <1>3, <1>6, <1>7, <1>8 DEF OneStretch
<1> QED BY <1>9 DEF rest

LEMMA PageArrivesKeeps ==
  ASSUME Inv, NEW p \in pages, PageArrives(p)
  PROVE  Inv'
<1> DEFINE older == PrependEntries(view, p.picked, p.at)
           v == [older EXCEPT !.loadingOlder = FALSE, !.whole = @ /\ p.level = view.shows]
           lines == p.picked \o SubSeq(view.lines, view.detached + 1, Len(view.lines))
<1>1. /\ pages' = pages \ {p} /\ log' = log /\ refresh' = refresh /\ events' = events
      /\ view' = IF p.stale THEN view
                 ELSE IF p.level # view.level THEN [view EXCEPT !.loadingOlder = FALSE] ELSE v
  BY DEF PageArrives
<1>2. view \in Viewers /\ p \in OlderPages /\ view.of <= log.rotations
  BY InvIs
<1>3. pages \ {p} \in SUBSET OlderPages /\ Cardinality(pages \ {p}) <= MaxPages
  BY PageGone
<1>4. CASE p.stale
  <2>1. view' = view
    BY <1>1, <1>4
  <2>2. PagesFit(pages \ {p}, view, log)
    BY InvIs, PageGone
  <2> HIDE DEF v
  <2> QED BY <1>1, <1>3, <2>1, <2>2, InvIs, InvNext
<1>5. ~p.stale => \A w : PagesFit(pages \ {p}, w, log)
  <2> SUFFICES ASSUME ~p.stale, NEW w PROVE PagesFit(pages \ {p}, w, log)
    OBVIOUS
  <2>1. /\ pages \ {p} \in SUBSET OlderPages /\ IsFiniteSet(pages \ {p})
        /\ \A q \in pages \ {p} : q.stale /\ q.at <= q.before
    BY PageGone
  <2> QED BY <2>1, NoneWaits
<1>6. CASE ~p.stale /\ p.level # view.level
  <2> DEFINE w == [view EXCEPT !.loadingOlder = FALSE]
  <2>1. view' = w
    BY <1>1, <1>6
  <2>2. w \in Viewers /\ Same(w, view)
    BY <1>2 DEF Viewers, Same
  <2> HIDE DEF w, v
  <2>3. ViewFits(w, log) /\ RefreshFits(refresh, w, log)
    BY <2>2, InvIs, SameFits
  <2>4. w.detached <= Len(w.lines) /\ w.of <= log.rotations
    BY <2>2, InvIs DEF Same
  <2> QED BY <1>1, <1>3, <1>5, <1>6, <2>1, <2>2, <2>3, <2>4, InvIs, InvNext
<1>7. CASE ~p.stale /\ p.level = view.level
  <2>1. view' = v
    BY <1>1, <1>7
  <2>2. /\ p.picked \in Seq(LogLines) /\ p.at \in Nat /\ view.lines \in Seq(LogLines)
        /\ view.detached \in Nat /\ view.detached <= Len(view.lines)
    BY <1>2, InvIs DEF OlderPages, Viewers
  <2>3. lines \in Seq(LogLines)
    <3>1. SubSeq(view.lines, view.detached + 1, Len(view.lines)) \in Seq(LogLines)
      BY <2>2
    <3> QED BY <2>2, <3>1
  <2>4. older = [view EXCEPT !.lines = lines, !.detached = 0, !.before = p.at]
    BY DEF PrependEntries
  <2> HIDE DEF older, lines
  <2>5. /\ older \in Viewers /\ older.lines = lines /\ older.detached = 0 /\ older.before = p.at
        /\ older.cursor = view.cursor /\ older.asked = view.asked /\ older.of = view.of
        /\ older.shows = view.shows /\ older.whole = view.whole
    BY <1>2, <2>2, <2>3, <2>4 DEF Viewers
  <2>6. /\ v \in Viewers /\ v.lines = lines /\ v.detached = 0 /\ v.before = p.at
        /\ v.cursor = view.cursor /\ v.asked = view.asked /\ v.of = view.of
        /\ v.shows = view.shows /\ v.whole = (view.whole /\ p.level = view.shows)
    <3> DEFINE whole == older.whole /\ p.level = view.shows
    <3>1. whole \in BOOLEAN /\ whole = (view.whole /\ p.level = view.shows)
      BY <2>5 DEF Viewers
    <3>2. v = [older EXCEPT !.loadingOlder = FALSE, !.whole = whole]
      OBVIOUS
    <3> HIDE DEF v, whole
    <3> QED BY <2>5, <3>1, <3>2 DEF Viewers
  <2> HIDE DEF v
  <2>7. view.before # None /\ view.cursor # None
    BY <1>7, InvIs DEF PagesFit, ViewFits
  <2>8. Stands(v, log) => Stands(view, log) /\ p.level = view.shows
    BY <2>6, <2>7 DEF Stands
  <2>9. ASSUME Stands(v, log)
        PROVE  /\ v.asked \in {None, v.shows}
               /\ OneStretch(v.lines, v.detached, log, v.before, v.cursor, v.shows)
    <3>1. OneStretch(lines, 0, log, p.at, view.cursor, view.shows)
      BY <1>7, <2>8, <2>9, PrependFits DEF lines
    <3>2. view.asked \in {None, view.shows}
      BY <2>8, <2>9, InvIs DEF ViewFits
    <3> QED BY <2>6, <3>1, <3>2
  <2>10. ViewFits(v, log)
    BY <2>6, <2>7, <2>9 DEF ViewFits
  <2>11. RefreshFits(refresh, v, log)
    BY <2>6, <2>8, InvIs DEF RefreshFits, DeltaWaits
  <2>12. v.detached <= Len(v.lines) /\ v.of <= log.rotations
    BY <1>2, <2>3, <2>6
  <2> QED BY <1>1, <1>3, <1>5, <1>7, <2>1, <2>6, <2>10, <2>11, <2>12, InvIs, InvNext
<1> QED BY <1>4, <1>6, <1>7

-----------------------------------------------------------------------------
(* The admin.                                                              *)

LEMMA AdminKeeps ==
  ASSUME Inv, Admin
  PROVE  Inv'
<1>1. /\ view \in Viewers /\ log' = log /\ refresh' = refresh /\ events' \in 0 .. MaxEvents
  <2>1. log' = log /\ refresh' = refresh /\ events < MaxEvents /\ events' = events + 1
    BY DEF Admin, FiltersChange, RequestSnapshot, Reset
  <2>2. events \in 0 .. MaxEvents /\ MaxEvents \in Nat
    BY InvIs, LogAssumption DEF LogAssumption
  <2> QED BY <2>1, <2>2, InvIs
<1>2. CASE FiltersChange \/ RequestSnapshot
  <2>1. pages' = pages
    BY <1>2 DEF FiltersChange, RequestSnapshot
  <2>2. view' \in Viewers /\ Same(view', view) /\ view'.loadingOlder = view.loadingOlder
    BY <1>1, <1>2 DEF FiltersChange, RequestSnapshot, Viewers, Same
  <2>3. /\ ViewFits(view', log) /\ RefreshFits(refresh, view', log)
        /\ PagesFit(pages, view', log)
    BY <2>2, InvIs, SameFits
  <2>4. view'.detached <= Len(view'.lines) /\ view'.of <= log.rotations
    BY <2>2, InvIs DEF Same
  <2> QED BY <1>1, <2>1, <2>2, <2>3, <2>4, InvIs, InvNext
<1>3. CASE Reset
  <2>1. view' = ResetViewer(view) /\ pages' = Stale(pages)
    BY <1>3 DEF Reset
  <2>2. /\ view' \in Viewers /\ view'.before = None /\ view'.detached = 0
        /\ view'.lines = <<>> /\ view'.of = view.of
    <3>1. <<>> \in Seq(LogLines) /\ 0 \in Nat
      OBVIOUS
    <3> QED BY <1>1, <2>1, <3>1 DEF ResetViewer, Viewers
  <2>3. ~Stands(view', log)
    BY <2>2 DEF Stands
  <2>4. ViewFits(view', log)
    BY <2>2, <2>3 DEF ViewFits
  <2>5. RefreshFits(refresh, view', log)
    BY <2>3, InvIs DEF RefreshFits, DeltaWaits
  <2>6. /\ PagesFit(Stale(pages), view', log) /\ Stale(pages) \in SUBSET OlderPages
        /\ Cardinality(Stale(pages)) <= MaxPages
    BY StaleFit
  <2>7. view'.detached <= Len(view'.lines) /\ view'.of <= log.rotations
    BY <2>2, InvIs
  <2> QED BY <1>1, <2>1, <2>2, <2>4, <2>5, <2>6, <2>7, InvIs, InvNext
<1> QED BY <1>2, <1>3 DEF Admin

-----------------------------------------------------------------------------
(* The invariant holds.                                                    *)

LEMMA InitFits ==
  ASSUME Init
  PROVE  Inv
<1>1. MaxWritten \in Nat \ {0} /\ MaxEvents \in Nat /\ MaxPages \in Nat
  BY LogAssumption DEF LogAssumption
<1>2. FirstLine \in LogLines /\ FirstLine.at = 0 /\ EndOf(FirstLine) = 1
  BY <1>1 DEF FirstLine, LogLines, EndOf
<1>3. /\ log.lines = {FirstLine} /\ log.size = 1 /\ log.torn = {} /\ log.rotations = 0
      /\ log \in Files
  BY <1>1, <1>2 DEF Init, Files
<1>4. IsFiniteSet({FirstLine}) /\ IsFiniteSet({}) /\ Cardinality({}) = 0
  BY FS_Singleton, FS_EmptySet
<1>5. FileOK(log)
  <2>1. FileLines({FirstLine})
    BY <1>2, <1>4 DEF FileLines
  <2> QED BY <1>2, <1>3, <1>4, <2>1 DEF FileOK
<1>6. /\ view \in Viewers /\ view.before = None /\ view.detached = 0 /\ view.lines = <<>>
      /\ view.of = 0
  <2>1. <<>> \in Seq(LogLines) /\ 0 \in Nat /\ "all" \in Levels
    BY DEF Levels
  <2> QED BY <2>1 DEF Init, Viewer, Viewers
<1>7. refresh = None /\ pages = {} /\ events = 0
  BY DEF Init
<1>8. TypeOK
  BY <1>1, <1>3, <1>4, <1>6, <1>7 DEF TypeOK
<1>9. ViewFits(view, log) /\ RefreshFits(refresh, view, log) /\ PagesFit(pages, view, log)
  BY <1>4, <1>6, <1>7 DEF ViewFits, Stands, RefreshFits, PagesFit
<1> QED BY <1>5, <1>8, <1>9 DEF Inv

LEMMA NextKeeps ==
  ASSUME Inv, [Next]_vars
  PROVE  Inv'
<1>1. CASE Writes
  BY <1>1, WritesKeep
<1>2. CASE Refreshes
  BY <1>2, RefreshStartsKeeps, RefreshIsAnsweredKeeps, SnapshotArrivesKeeps, DeltaArrivesKeeps,
     RefreshEndsKeeps DEF Refreshes
<1>3. CASE Pages
  BY <1>3, LoadOlderKeeps, PageIsReadKeeps, PageArrivesKeeps, PageFailsKeeps DEF Pages
<1>4. CASE Admin
  BY <1>4, AdminKeeps
<1>5. CASE UNCHANGED vars
  BY <1>5, InvIs, InvNext DEF vars
<1> QED BY <1>1, <1>2, <1>3, <1>4, <1>5 DEF Next

LEMMA InvShows ==
  ASSUME Inv
  PROVE  ConsoleInOrder
<1>1. TypeOK
  BY DEF Inv
<1>2. ASSUME InStep
      PROVE  OneStretch(view.lines, view.detached, log, view.before, view.cursor, view.shows)
  BY <1>2, InvIs DEF ViewFits, Stands, InStep
<1>3. ShowsTheLog
  BY <1>2 DEF ShowsTheLog, OneStretch
<1>4. DetachedComeAgain
  BY <1>2 DEF DetachedComeAgain, OneStretch, DetachedBefore
<1> QED BY <1>1, <1>3, <1>4 DEF ConsoleInOrder

\* The console shows the log: one stretch of it by one filter, each line once and in its
\* order, with warnings from further back before it, whatever arrives late or is rotated
\* away.
THEOREM ConsoleIsTheLog == Spec => []ConsoleInOrder
<1>1. Init => Inv
  BY InitFits
<1>2. Inv /\ [Next]_vars => Inv'
  BY NextKeeps
<1>3. Inv => ConsoleInOrder
  BY InvShows
<1> QED BY <1>1, <1>2, <1>3, PTL DEF Spec

\* A page that is read to its end leads further back, unless a line fills a chunk.
THEOREM PagesLead == Spec => PagesLeadBack
<1> DEFINE Leads ==
             \A p \in pages :
               LET page == NextChunk(log, p, PageLines)
               IN PageIsRead(p) /\ PageDone(page, PageLines) =>
                    \/ page.at < page.before
                    \/ \E line \in log.lines : line.len >= PageChunkBytes
<1>1. Inv => Leads
  <2> SUFFICES ASSUME Inv, NEW p \in pages, PageIsRead(p)
               PROVE  \/ NextChunk(log, p, PageLines).at < NextChunk(log, p, PageLines).before
                      \/ \E line \in log.lines : line.len >= PageChunkBytes
    OBVIOUS
  <2> DEFINE page == NextChunk(log, p, PageLines)
  <2>1. ~PageDone(p, PageLines) /\ p \in OlderPages /\ p.at <= p.before /\ FileOK(log)
    BY InvIs DEF PageIsRead, PagesFit
  <2>2. /\ page \in OlderPages /\ page.before = p.before /\ page.at <= p.at
        /\ page.at = p.at => \E l \in log.lines : l.len >= PageChunkBytes
    BY <2>1, NextChunkFits
  <2> HIDE DEF page
  <2>3. page.at < page.before \/ \E line \in log.lines : line.len >= PageChunkBytes
    BY <2>1, <2>2 DEF OlderPages
  <2> QED BY <2>3 DEF page
<1>2. Init => Inv
  BY InitFits
<1>3. Inv /\ [Next]_vars => Inv'
  BY NextKeeps
<1> HIDE DEF Leads
<1>4. Spec => [][Leads]_vars
  BY <1>1, <1>2, <1>3, PTL DEF Spec
<1> QED BY <1>4 DEF PagesLeadBack, Leads

=============================================================================
