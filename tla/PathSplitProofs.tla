-------------------------- MODULE PathSplitProofs --------------------------
(***************************************************************************)
(* Proofs about path_split, for paths with any names, a buffer of any size *)
(* and anything left behind its text.                                      *)
(***************************************************************************)
EXTENDS PathSplit, NaturalFacts, SequenceTheorems

(***************************************************************************)
(* The lengths of prefixes.                                                *)
(***************************************************************************)

\* The lengths of the prefixes are sums: each adds a name and a '/'.
LEMMA TakenSums ==
  ASSUME NEW names \in Seq(Nat)
  PROVE  /\ Taken(names) \in [0 .. Len(names) -> Nat]
         /\ Taken(names)[0] = 0
         /\ \A k \in 1 .. Len(names) :
              Taken(names)[k] = Taken(names)[k-1] + names[k] + 1
<1> DEFINE N == Len(names)
           Sums(n, g) == /\ g[0] = 0
                         /\ \A k \in 1 .. n : g[k] = g[k-1] + names[k] + 1
           Summed == {n \in 0 .. N : \E g \in [0 .. n -> Nat] : Sums(n, g)}
<1>1. N \in Nat /\ \A k \in 1 .. N : names[k] \in Nat
  OBVIOUS
<1>2. 0 \in Summed
  <2>1. [k \in 0 .. 0 |-> 0] \in [0 .. 0 -> Nat] /\ Sums(0, [k \in 0 .. 0 |-> 0])
    OBVIOUS
  <2>2. \E g \in [0 .. 0 -> Nat] : Sums(0, g)
    BY <2>1, Zenon
  <2> HIDE DEF Sums
  <2>3. QED
    BY <1>1, <2>2
<1>3. ASSUME NEW n \in 0 .. N - 1, n \in Summed PROVE n + 1 \in Summed
  <2>1. PICK g \in [0 .. n -> Nat] : Sums(n, g)
    BY <1>3
  <2> DEFINE h == [k \in 0 .. n + 1 |-> IF k = n + 1 THEN g[n] + names[n+1] + 1 ELSE g[k]]
  <2>2. g[n] + names[n+1] + 1 \in Nat
    BY <1>1
  <2>3. h \in [0 .. n + 1 -> Nat]
    BY <2>2
  <2>4. h[0] = 0
    BY <2>1
  <2>5. ASSUME NEW k \in 1 .. n + 1 PROVE h[k] = h[k-1] + names[k] + 1
    BY <2>1
  <2> HIDE DEF h
  <2>6. \E u \in [0 .. n + 1 -> Nat] : Sums(n + 1, u)
    BY <2>3, <2>4, <2>5, Zenon
  <2> HIDE DEF Sums
  <2>7. n + 1 \in 0 .. N
    BY <1>1
  <2>8. QED
    BY <2>6, <2>7, Zenon
<1>4. N \in Summed
  <2> HIDE DEF Summed
  <2>1. 0 .. N \subseteq Summed
    BY <1>1, <1>2, <1>3, SetInduction
  <2>2. QED
    BY <1>1, <2>1
<1>5. PICK g \in [0 .. N -> Nat] : Sums(N, g)
  BY <1>4
<1>6. g = [k \in 0 .. N |-> IF k = 0 THEN 0 ELSE g[k-1] + names[k] + 1]
  BY <1>5
<1>7. Taken(names) = [k \in 0 .. N |-> IF k = 0 THEN 0 ELSE Taken(names)[k-1] + names[k] + 1]
  BY <1>6, Zenon DEF Taken
<1> DEFINE T == Taken(names)
<1> HIDE DEF T
<1>8. T[0] = 0 /\ \A k \in 1 .. N : T[k] = T[k-1] + names[k] + 1
  BY <1>1, <1>7 DEF T
<1>9. 0 .. N \subseteq {k \in 0 .. N : T[k] \in Nat}
  <2> DEFINE Typed == {k \in 0 .. N : T[k] \in Nat}
  <2>1. 0 \in Typed
    BY <1>1, <1>8
  <2>2. ASSUME NEW n \in 0 .. N - 1, n \in Typed PROVE n + 1 \in Typed
    BY <1>1, <1>8, <2>2
  <2> HIDE DEF Typed
  <2>3. 0 .. N \subseteq Typed
    BY <1>1, <2>1, <2>2, SetInduction
  <2>4. QED
    BY <2>3 DEF Typed
<1>10. T \in [0 .. N -> Nat]
  <2>1. T = [k \in 0 .. N |-> T[k]]
    BY <1>7 DEF T
  <2>2. \A k \in 0 .. N : T[k] \in Nat
    BY <1>9
  <2>3. QED
    BY <2>1, <2>2
<1>11. QED
  BY <1>8, <1>10 DEF T

\* A longer prefix has no fewer characters.
LEMMA TakenGrows ==
  ASSUME NEW names \in Seq(Nat), NEW k \in 0 .. Len(names), NEW h \in 0 .. k
  PROVE  Taken(names)[h] <= Taken(names)[k]
<1> DEFINE T == Taken(names)
           N == Len(names)
           Grown == {m \in 0 .. N : \A j \in 0 .. m : T[j] <= T[m]}
<1>1. N \in Nat /\ T \in [0 .. N -> Nat]
  BY TakenSums
<1>2. \A m \in 1 .. N : T[m-1] <= T[m]
  <2>1. SUFFICES ASSUME NEW m \in 1 .. N PROVE T[m-1] <= T[m]
    OBVIOUS
  <2>2. T[m] = T[m-1] + names[m] + 1
    BY TakenSums
  <2>3. names[m] \in Nat /\ T[m-1] \in Nat
    <3>1. names[m] \in Nat
      BY <1>1, ElementOfSeq DEF N
    <3>2. m - 1 \in 0 .. N
      BY <1>1
    <3>3. QED
      BY <1>1, <3>1, <3>2
  <2>4. QED
    BY <2>2, <2>3
<1> HIDE DEF T, N
<1>3. 0 \in Grown
  BY <1>1
<1>4. ASSUME NEW m \in 0 .. N - 1, m \in Grown PROVE m + 1 \in Grown
  <2>1. m + 1 \in 1 .. N /\ (m + 1) - 1 = m
    BY <1>1
  <2>2. T[m] <= T[m+1]
    BY <1>2, <2>1
  <2>3. ASSUME NEW j \in 0 .. m + 1 PROVE T[j] <= T[m+1]
    <3>1. T[j] \in Nat /\ T[m] \in Nat /\ T[m+1] \in Nat
      BY <1>1
    <3>2. CASE j = m + 1
      BY <3>1, <3>2
    <3>3. CASE j \in 0 .. m
      BY <1>4, <2>2, <3>1, <3>3
    <3>4. QED
      BY <3>2, <3>3
  <2>4. QED
    BY <1>1, <2>1, <2>3
<1>5. 0 .. N \subseteq Grown
  <2> HIDE DEF Grown
  <2>1. QED
    BY <1>1, <1>3, <1>4, SetInduction
<1>6. QED
  BY <1>5 DEF T, N

(***************************************************************************)
(* The copy.                                                               *)
(***************************************************************************)

\* A function on 1 .. n is a sequence of n elements.
LEMMA FunctionIsSeq ==
  ASSUME NEW S, NEW n \in Nat, NEW f \in [1 .. n -> S]
  PROVE  f \in Seq(S) /\ Len(f) = n
<1>1. f \in Seq(S)
  BY SeqDef, Zenon
<1>2. DOMAIN f = 1 .. Len(f) /\ Len(f) \in Nat
  BY <1>1, LenProperties
<1>3. DOMAIN f = 1 .. n
  OBVIOUS
<1>4. QED
  BY <1>1, <1>2, <1>3

\* A path is a sequence of lengths.
LEMMA PathIsSeq ==
  ASSUME NEW p \in Paths
  PROVE  /\ p \in Seq(1 .. MaxName) /\ p \in Seq(Nat)
         /\ Len(p) \in 0 .. MaxNames
         /\ DOMAIN p = 1 .. Len(p)
         /\ p \in [1 .. Len(p) -> 1 .. MaxName]
<1>1. PICK n \in 0 .. MaxNames : p \in [1 .. n -> 1 .. MaxName]
  BY DEF Paths
<1>2. n \in Nat
  BY <1>1
<1>3. p \in Seq(1 .. MaxName) /\ Len(p) = n
  BY <1>1, <1>2, FunctionIsSeq
<1>4. p \in Seq(Nat)
  <2>1. 1 .. MaxName \subseteq Nat
    OBVIOUS
  <2>2. QED
    BY <1>3, <2>1, SeqMonotonic
<1>5. QED
  BY <1>1, <1>2, <1>3, <1>4

\* What becomes of a sequence that is cut and continued.
LEMMA CutSeq ==
  ASSUME NEW S, NEW s \in Seq(S), NEW k \in 0 .. Len(s), NEW t \in Seq(S)
  PROVE  /\ SubSeq(s, 1, k) \o t \in Seq(S)
         /\ Len(SubSeq(s, 1, k) \o t) = k + Len(t)
         /\ \A h \in 1 .. k : (SubSeq(s, 1, k) \o t)[h] = s[h]
<1> DEFINE pre == SubSeq(s, 1, k)
<1>1. k \in Nat /\ k \in Int /\ 1 \in Int /\ Len(t) \in Nat
  BY LenProperties
<1>2. \A h \in 1 .. k : s[h] \in S
  BY LenProperties
<1>3. /\ pre \in Seq(S)
      /\ Len(pre) = IF 1 <= k THEN k - 1 + 1 ELSE 0
      /\ \A h \in 1 .. k - 1 + 1 : pre[h] = s[1 + h - 1]
  BY <1>1, <1>2, SubSeqProperties
<1>4. Len(pre) = k /\ \A h \in 1 .. k : pre[h] = s[h]
  BY <1>1, <1>3
<1> HIDE DEF pre
<1>5. /\ pre \o t \in Seq(S)
      /\ Len(pre \o t) = k + Len(t)
      /\ \A h \in 1 .. k + Len(t) : (pre \o t)[h] = IF h <= k THEN pre[h] ELSE t[h - k]
  BY <1>3, <1>4, ConcatProperties
<1>6. QED
  BY <1>1, <1>4, <1>5 DEF pre

\* What comes first behind the cut.
LEMMA CutTail ==
  ASSUME NEW S, NEW s \in Seq(S), NEW k \in 0 .. Len(s), NEW x \in S
  PROVE  (SubSeq(s, 1, k) \o <<x>>)[k + 1] = x
<1> DEFINE pre == SubSeq(s, 1, k)
<1>1. k \in Nat
  BY LenProperties
<1>2. pre \o <<>> \in Seq(S) /\ Len(pre \o <<>>) = k
  BY <1>1, CutSeq
<1>3. pre \in Seq(S) /\ Len(pre) = k
  <2>1. \A h \in 1 .. k : s[h] \in S
    BY LenProperties
  <2>2. /\ pre \in Seq(S)
        /\ Len(pre) = IF 1 <= k THEN k - 1 + 1 ELSE 0
    BY <1>1, <2>1, SubSeqProperties
  <2>3. QED
    BY <1>1, <2>2
<1> HIDE DEF pre
<1>4. QED
  BY <1>1, <1>3 DEF pre

\* The names that fit as a whole, and the room that is left behind them.
Whole(room) == {k \in 0 .. Len(path) : Taken(path)[k] <= room}
Fit(room) == CHOOSE m \in Whole(room) : \A h \in Whole(room) : h <= m

\* There is a last name that fits as a whole; the one behind it does not.
LEMMA LastWhole ==
  ASSUME path \in Paths, NEW room \in Nat
  PROVE  /\ Fit(room) \in 0 .. Len(path)
         /\ room - Taken(path)[Fit(room)] \in Nat
         /\ Fit(room) # Len(path) =>
              room - Taken(path)[Fit(room)] < path[Fit(room) + 1] + 1
         /\ Taken(path)[Len(path)] <= room <=> Fit(room) = Len(path)
<1> DEFINE T == Taken(path)
           N == Len(path)
           k == Fit(room)
<1>1. path \in Seq(Nat) /\ N \in Nat
  BY PathIsSeq
<1>2. T \in [0 .. N -> Nat] /\ T[0] = 0
  BY <1>1, TakenSums
<1>3. 0 \in Whole(room) /\ Whole(room) \in SUBSET (0 .. N)
  BY <1>1, <1>2 DEF Whole
<1>4. \E m \in Whole(room) : \A h \in Whole(room) : h <= m
  BY <1>1, <1>3, LargestElement
<1>5. k \in Whole(room) /\ \A h \in Whole(room) : h <= k
  BY <1>4 DEF Fit
<1>6. k \in 0 .. N /\ T[k] \in Nat /\ T[k] <= room
  BY <1>2, <1>5 DEF Whole
<1>7. ASSUME k # N PROVE room - T[k] < path[k+1] + 1
  <2>1. k + 1 \in 1 .. N /\ (k + 1) - 1 = k /\ k + 1 \in 0 .. N
    BY <1>1, <1>6, <1>7
  <2>2. T[k+1] = T[k] + path[k+1] + 1
    BY <1>1, <2>1, TakenSums
  <2>3. k + 1 \notin Whole(room)
    BY <1>5, <1>6
  <2>4. ~(T[k+1] <= room)
    BY <2>1, <2>3 DEF Whole
  <2>5. path[k+1] \in Nat /\ T[k+1] \in Nat
    BY <1>1, <1>2, <2>1
  <2> HIDE DEF k, T, N
  <2>6. QED
    BY <1>6, <2>2, <2>4, <2>5
<1>8. T[N] <= room => k = N
  <2>1. SUFFICES ASSUME T[N] <= room PROVE k = N
    OBVIOUS
  <2>2. N \in Whole(room)
    BY <1>1, <2>1 DEF Whole
  <2>3. QED
    BY <1>5, <1>6, <2>2
<1> HIDE DEF k, T
<1>9. room - T[k] \in Nat
  BY <1>6
<1>10. QED
  BY <1>6, <1>7, <1>8, <1>9 DEF k, T

\* What of a path stays in the buffer: whole names, of which only the last may
\* be cut short, and none is if a '/' ends them.  A '/' does so for "/" itself
\* and for a path that is cut right behind it.
LEMMA CutShape ==
  ASSUME path \in Paths, NEW room \in Nat
  PROVE  /\ Cut(room) \in [names : Paths, slash : BOOLEAN]
         /\ Len(Cut(room).names) <= Len(path)
         /\ path # <<>> /\ Cut(room).slash => Len(Cut(room).names) < Len(path)
         /\ \A h \in 1 .. Len(Cut(room).names) :
              /\ Cut(room).names[h] <= path[h]
              /\ h < Len(Cut(room).names) \/ Cut(room).slash => Cut(room).names[h] = path[h]
         /\ \A n \in 0 .. Len(path) - 1 :
              Taken(path)[n] + 1 = room <=> Cut(room).slash /\ n = Len(Cut(room).names)
         /\ Taken(path)[Len(path)] <= room =>
              Cut(room) = [names |-> path, slash |-> path = <<>>]
<1> DEFINE k == Fit(room)
           N == Len(path)
           rest == room - Taken(path)[k]
           tail == IF rest > 1 THEN <<rest - 1>> ELSE <<>>
           names == SubSeq(path, 1, k) \o tail
<1>1. Cut(room) = IF k = N THEN [names |-> path, slash |-> path = <<>>]
                  ELSE [names |-> names, slash |-> rest = 1]
  BY Zenon DEF Cut, Fit, Whole
<1>2. /\ k \in 0 .. N /\ rest \in Nat
      /\ k # N => rest < path[k+1] + 1
      /\ Taken(path)[N] <= room <=> k = N
  BY LastWhole
<1>3. path \in Seq(1 .. MaxName) /\ N \in 0 .. MaxNames /\ N \in Nat
  BY PathIsSeq
<1>4. MaxNames \in Nat /\ MaxName \in Nat
  BY SplitAssumption
<1> HIDE DEF k
<1>5. ASSUME NEW n \in 0 .. N - 1
      PROVE  Taken(path)[n] + 1 = room <=> k = n /\ rest = 1
  <2>1. /\ Taken(path) \in [0 .. N -> Nat]
        /\ Taken(path)[n + 1] = Taken(path)[n] + path[n + 1] + 1
    <3>1. n + 1 \in 1 .. N /\ (n + 1) - 1 = n
      BY <1>3
    <3>2. QED
      BY <3>1, PathIsSeq, TakenSums
  <2>2. path[n + 1] \in 1 .. MaxName /\ n \in Nat /\ n + 1 \in 0 .. N
    <3>1. n \in Nat /\ n + 1 \in 0 .. N /\ n + 1 \in 1 .. N
      BY <1>3
    <3>2. QED
      BY <1>3, <3>1, ElementOfSeq
  <2>3. ASSUME Taken(path)[n] + 1 = room PROVE k = n
    <3>1. ~(k >= n + 1)
      <4>1. SUFFICES ASSUME k >= n + 1 PROVE FALSE
        OBVIOUS
      <4>2. n + 1 \in 0 .. k
        BY <1>2, <2>2, <4>1
      <4>3. Taken(path)[n + 1] <= Taken(path)[k]
        BY <1>2, <4>2, PathIsSeq, TakenGrows
      <4>4. Taken(path)[k] \in Nat /\ Taken(path)[n] \in Nat
        BY <1>2, <1>3, <2>1, <2>2
      <4>5. Taken(path)[k] <= room
        BY <1>2, <4>4
      <4>6. QED
        BY <2>1, <2>2, <2>3, <4>3, <4>4, <4>5
    <3>2. ~(k < n)
      <4>1. SUFFICES ASSUME k < n PROVE FALSE
        OBVIOUS
      <4>2. k + 1 \in 1 .. N /\ (k + 1) - 1 = k /\ k + 1 \in 0 .. n /\ n \in 0 .. N
        BY <1>2, <2>2, <4>1
      <4>3. Taken(path)[k + 1] <= Taken(path)[n]
        BY <4>2, PathIsSeq, TakenGrows
      <4>4. Taken(path)[k + 1] = Taken(path)[k] + path[k + 1] + 1
        BY <4>2, PathIsSeq, TakenSums
      <4>5. path[k + 1] \in 1 .. MaxName
        BY <1>3, <4>2, ElementOfSeq
      <4>6. rest < path[k + 1] + 1
        BY <1>2, <2>2, <4>1
      <4>7. Taken(path)[k] \in Nat /\ Taken(path)[n] \in Nat
        BY <1>2, <2>1, <4>2
      <4>8. QED
        BY <2>3, <4>3, <4>4, <4>5, <4>6, <4>7
    <3>3. QED
      BY <1>2, <2>2, <3>1, <3>2
  <2>4. Taken(path)[n] \in Nat
    BY <2>1
  <2>5. QED
    BY <2>3, <2>4
<1>6. CASE k = N
  <2>1. Cut(room) = [names |-> path, slash |-> path = <<>>]
    BY <1>1, <1>6
  <2>2. \A n \in 0 .. N - 1 : n # k
    BY <1>3, <1>6
  <2>3. \A h \in 1 .. N : path[h] \in 1 .. MaxName
    BY <1>3, ElementOfSeq
  <2>4. Cut(room).names = path /\ Cut(room).slash = (path = <<>>)
    BY <2>1
  <2>5. path # <<>> \/ N = 0
    BY <1>3, EmptySeq
  <2>6. \A n \in 0 .. N - 1 :
          Taken(path)[n] + 1 = room <=> Cut(room).slash /\ n = Len(Cut(room).names)
    BY <1>3, <1>5, <2>2, <2>4
  <2>7. Cut(room) \in [names : Paths, slash : BOOLEAN]
    BY <2>1
  <2>8. Len(Cut(room).names) <= N /\ ~(path # <<>> /\ Cut(room).slash)
    <3> DEFINE kept == Cut(room).names
    <3>1. kept = path
      BY <2>4
    <3> HIDE DEF kept
    <3>2. Len(kept) <= N
      BY <1>3, <3>1
    <3>3. ~(path # <<>> /\ Cut(room).slash)
      BY <2>4, Zenon
    <3>4. QED
      BY <3>2, <3>3 DEF kept
  <2>9. \A h \in 1 .. Len(Cut(room).names) :
          Cut(room).names[h] <= path[h] /\ Cut(room).names[h] = path[h]
    <3>1. \A h \in 1 .. N : path[h] <= path[h]
      BY <1>4, <2>3
    <3>2. QED
      BY <2>4, <3>1
  <2>10. QED
    BY <2>1, <2>6, <2>7, <2>8, <2>9
<1>7. CASE k # N
  <2>1. Cut(room) = [names |-> names, slash |-> rest = 1]
    BY <1>1, <1>7
  <2>2. k \in Nat /\ k + 1 \in 1 .. N
    BY <1>2, <1>3, <1>7
  <2>3. path[k+1] \in 1 .. MaxName
    BY <1>3, <2>2, ElementOfSeq
  <2> HIDE DEF rest
  <2>4. rest <= path[k+1]
    BY <1>2, <1>7, <2>3
  <2>5. tail \in Seq(1 .. MaxName) /\ Len(tail) = IF rest > 1 THEN 1 ELSE 0
    <3>1. CASE rest > 1
      <4>1. rest - 1 \in 1 .. MaxName
        BY <1>4, <1>2, <2>3, <2>4, <3>1
      <4>2. QED
        BY <3>1, <4>1
    <3>2. CASE ~(rest > 1)
      BY <3>2
    <3>3. QED
      BY <3>1, <3>2
  <2> HIDE DEF tail
  <2>6. /\ names \in Seq(1 .. MaxName)
        /\ Len(names) = k + Len(tail)
        /\ \A h \in 1 .. k : names[h] = path[h]
    BY <1>2, <1>3, <2>5, CutSeq
  <2> HIDE DEF names
  <2>7. names \in Seq(1 .. MaxName) /\ Len(names) = k + (IF rest > 1 THEN 1 ELSE 0)
    BY <2>5, <2>6
  <2>8. Len(names) <= N /\ Len(names) \in 0 .. MaxNames
    BY <1>4, <1>3, <2>2, <2>7
  <2>9. names \in Paths
    <3>1. names \in [1 .. Len(names) -> 1 .. MaxName]
      BY <2>7, LenProperties
    <3>2. QED
      BY <2>8, <3>1 DEF Paths
  <2>10. ASSUME NEW h \in 1 .. Len(names), h < Len(names) \/ rest = 1
         PROVE  names[h] = path[h]
    <3>1. h \in 1 .. k
      BY <1>2, <2>2, <2>7, <2>10
    <3>2. QED
      BY <2>6, <3>1
  <2>11. ASSUME NEW h \in 1 .. Len(names) PROVE names[h] <= path[h]
    <3>1. CASE h \in 1 .. k
      <4>1. h \in 1 .. N
        BY <1>2, <1>3, <3>1
      <4>2. path[h] \in 1 .. MaxName
        BY <1>3, <4>1, ElementOfSeq
      <4>3. QED
        BY <2>6, <3>1, <4>2
    <3>2. CASE h \notin 1 .. k
      <4>1. h = k + 1 /\ rest > 1
        BY <2>2, <2>7, <3>2
      <4>2. names[h] = rest - 1
        BY <1>3, <2>2, <4>1, CutTail DEF names, tail
      <4>3. QED
        BY <1>2, <2>3, <2>4, <4>1, <4>2
    <3>3. QED
      BY <3>1, <3>2
  <2>12. ~(Taken(path)[N] <= room)
    BY <1>2, <1>7
  <2>13. /\ Cut(room).names = names /\ Cut(room).slash = (rest = 1)
         /\ Cut(room) \in [names : Paths, slash : BOOLEAN]
    BY <2>1, <2>9
  <2>14. \A n \in 0 .. N - 1 :
           Taken(path)[n] + 1 = room <=> Cut(room).slash /\ n = Len(names)
    BY <1>2, <1>5, <2>2, <2>7, <2>13 DEF rest
  <2>15. rest = 1 => Len(names) < N
    BY <2>2, <2>7, <1>3
  <2>16. QED
    BY <2>8, <2>10, <2>11, <2>12, <2>13, <2>14, <2>15
<1>8. QED
  BY <1>6, <1>7

(***************************************************************************)
(* The components.                                                         *)
(***************************************************************************)

Kinds == {"root", "name", "stray"}
Lengths == 1 .. MaxName + Left + 1
ComponentType == [kind : Kinds, len : Lengths]
List(p, s) == <<Root>> \o (Parts("name", p) \o Parts("stray", s))

\* Components of these lengths are as many.
LEMMA PartsShape ==
  ASSUME NEW kind \in Kinds, NEW lens \in Seq(Lengths)
  PROVE  /\ Parts(kind, lens) \in Seq(ComponentType)
         /\ Len(Parts(kind, lens)) = Len(lens)
         /\ \A k \in 1 .. Len(lens) : Parts(kind, lens)[k] = Component(kind, lens[k])
<1>1. Len(lens) \in Nat /\ DOMAIN lens = 1 .. Len(lens)
      /\ \A k \in 1 .. Len(lens) : lens[k] \in Lengths
  BY LenProperties
<1>2. \A k \in 1 .. Len(lens) : Component(kind, lens[k]) \in ComponentType
  BY <1>1 DEF Component, ComponentType
<1>3. Parts(kind, lens) \in [1 .. Len(lens) -> ComponentType]
  BY <1>1, <1>2, Zenon DEF Parts
<1>4. Parts(kind, lens) \in Seq(ComponentType) /\ Len(Parts(kind, lens)) = Len(lens)
  BY <1>1, <1>3, FunctionIsSeq
<1>5. \A k \in 1 .. Len(lens) : Parts(kind, lens)[k] = Component(kind, lens[k])
  BY <1>1 DEF Parts
<1>6. QED
  BY <1>4, <1>5

\* The names, and what may be read behind them, are lengths of components.
LEMMA LengthsOf ==
  /\ \A p \in Paths : p \in Seq(Lengths)
  /\ \A s \in Strays \cup {<<>>} : s \in Seq(Lengths) /\ Len(s) \in Nat
<1>1. MaxName \in Nat /\ Left \in Nat
  BY SplitAssumption
<1>2. ASSUME NEW p \in Paths PROVE p \in Seq(Lengths)
  <2>1. 1 .. MaxName \subseteq Lengths
    BY <1>1 DEF Lengths
  <2>2. p \in Seq(1 .. MaxName)
    BY PathIsSeq
  <2>3. QED
    BY <2>1, <2>2, SeqMonotonic
<1>3. ASSUME NEW s \in Strays PROVE s \in Seq(Lengths)
  <2>1. PICK n \in 1 .. Left + 1 : s \in [1 .. n -> 1 .. Left + 1]
    BY DEF Strays
  <2>2. n \in Nat
    BY <1>1, <2>1
  <2>3. s \in Seq(1 .. Left + 1)
    BY <2>1, <2>2, FunctionIsSeq
  <2>4. 1 .. Left + 1 \subseteq Lengths
    BY <1>1 DEF Lengths
  <2>5. QED
    BY <2>3, <2>4, SeqMonotonic
<1>4. <<>> \in Seq(Lengths)
  OBVIOUS
<1>5. QED
  BY <1>2, <1>3, <1>4, LenProperties

\* "/" comes first, the names come next, each at its place, and then the rest.
LEMMA ListShape ==
  ASSUME NEW p \in Paths, NEW s \in Strays \cup {<<>>}
  PROVE  /\ List(p, s) \in Seq(ComponentType)
         /\ Len(List(p, s)) = 1 + Len(p) + Len(s)
         /\ List(p, s)[1] = Root
         /\ \A h \in 2 .. Len(p) + 1 : List(p, s)[h] = Component("name", p[h-1])
         /\ \A h \in Len(p) + 2 .. 1 + Len(p) + Len(s) : List(p, s)[h].kind = "stray"
<1> DEFINE names == Parts("name", p)
           strays == Parts("stray", s)
           rest == names \o strays
<1>1. Len(p) \in Nat /\ Len(s) \in Nat /\ p \in Seq(Lengths) /\ s \in Seq(Lengths)
  BY LengthsOf, PathIsSeq
<1>2. /\ names \in Seq(ComponentType) /\ Len(names) = Len(p)
      /\ \A k \in 1 .. Len(p) : names[k] = Component("name", p[k])
  BY <1>1, PartsShape DEF Kinds
<1>3. /\ strays \in Seq(ComponentType) /\ Len(strays) = Len(s)
      /\ \A k \in 1 .. Len(s) : strays[k] = Component("stray", s[k])
  BY <1>1, PartsShape DEF Kinds
<1> HIDE DEF names, strays
<1>4. /\ rest \in Seq(ComponentType)
      /\ Len(rest) = Len(p) + Len(s)
      /\ \A k \in 1 .. Len(p) + Len(s) :
           rest[k] = IF k <= Len(p) THEN names[k] ELSE strays[k - Len(p)]
  <2>1. /\ rest \in Seq(ComponentType)
        /\ Len(rest) = Len(names) + Len(strays)
        /\ \A k \in 1 .. Len(names) + Len(strays) :
             rest[k] = IF k <= Len(names) THEN names[k] ELSE strays[k - Len(names)]
    <3>1. names \in Seq(ComponentType) /\ strays \in Seq(ComponentType)
      BY <1>2, <1>3
    <3>2. QED
      BY <3>1, ConcatProperties
  <2>2. QED
    BY <1>2, <1>3, <2>1
<1> HIDE DEF rest
<1>5. <<Root>> \in Seq(ComponentType) /\ Len(<<Root>>) = 1 /\ <<Root>>[1] = Root
  BY SplitAssumption DEF Root, Component, ComponentType, Kinds, Lengths
<1>6. /\ List(p, s) \in Seq(ComponentType)
      /\ Len(List(p, s)) = 1 + Len(rest)
      /\ \A k \in 1 .. 1 + Len(rest) :
           List(p, s)[k] = IF k <= 1 THEN <<Root>>[k] ELSE rest[k - 1]
  <2>1. /\ <<Root>> \o rest \in Seq(ComponentType)
        /\ Len(<<Root>> \o rest) = Len(<<Root>>) + Len(rest)
        /\ \A k \in 1 .. Len(<<Root>>) + Len(rest) :
             (<<Root>> \o rest)[k] = IF k <= Len(<<Root>>) THEN <<Root>>[k]
                                      ELSE rest[k - Len(<<Root>>)]
    BY <1>4, <1>5, ConcatProperties
  <2>2. List(p, s) = <<Root>> \o rest
    BY DEF List, rest, names, strays
  <2>3. QED
    BY <1>5, <2>1, <2>2
<1>7. List(p, s)[1] = Root
  BY <1>1, <1>4, <1>5, <1>6
<1>8. ASSUME NEW h \in 2 .. Len(p) + 1
      PROVE  List(p, s)[h] = Component("name", p[h-1])
  <2>1. h \in 1 .. 1 + Len(rest) /\ ~(h <= 1)
        /\ h - 1 \in 1 .. Len(p) /\ h - 1 \in 1 .. Len(p) + Len(s)
    BY <1>1, <1>4
  <2>2. List(p, s)[h] = rest[h - 1]
    BY <1>6, <2>1
  <2>3. rest[h - 1] = names[h - 1]
    BY <1>4, <2>1
  <2>4. QED
    BY <1>2, <2>1, <2>2, <2>3
<1>9. ASSUME NEW h \in Len(p) + 2 .. 1 + Len(p) + Len(s)
      PROVE  List(p, s)[h].kind = "stray"
  <2>1. /\ h \in 1 .. 1 + Len(rest) /\ ~(h <= 1)
        /\ h - 1 \in 1 .. Len(p) + Len(s) /\ ~(h - 1 <= Len(p))
        /\ (h - 1) - Len(p) \in 1 .. Len(s)
    BY <1>1, <1>4
  <2>2. List(p, s)[h] = Component("stray", s[(h - 1) - Len(p)])
    BY <1>3, <1>4, <1>6, <2>1
  <2>3. QED
    BY <2>2 DEF Component
<1>10. Len(List(p, s)) = 1 + Len(p) + Len(s)
  BY <1>1, <1>4, <1>6
<1>11. QED
  BY <1>6, <1>7, <1>8, <1>9, <1>10

(***************************************************************************)
(* The invariant: what each step has left for the next.                    *)
(***************************************************************************)

SplitInv ==
  /\ TypeOK
  /\ pc \in {"copy", "append"} => stray = <<>>
  /\ pc # "copy" => buf = Cut(Size - 2)
  /\ stray # <<>> => buf.slash
  /\ pc = "done" => components = IF full_pathlen = 1 THEN <<Root>> ELSE List(buf.names, stray)

LEMMA SplitInvInit == ASSUME Init PROVE SplitInv
<1>1. <<>> \in Paths
  <2>1. 0 \in 0 .. MaxNames
    BY SplitAssumption
  <2>2. <<>> \in [1 .. 0 -> 1 .. MaxName]
    OBVIOUS
  <2>3. QED
    BY <2>1, <2>2 DEF Paths
<1>2. QED
  BY <1>1 DEF Init, SplitInv, TypeOK

LEMMA SplitInvStep ==
  ASSUME SplitInv, [Next]_vars
  PROVE  SplitInv'
<1>1. Size - 2 \in Nat
  BY SplitAssumption
<1>2. CASE UNCHANGED vars
  <2>1. /\ (Cut(Size - 2))' = Cut(Size - 2)
        /\ full_pathlen' = full_pathlen
        /\ List(buf.names, stray)' = List(buf.names, stray)
    BY <1>2 DEF vars, Cut, full_pathlen, List
  <2>2. QED
    BY <1>2, <2>1 DEF SplitInv, TypeOK, vars
<1>3. CASE CopyPath
  <2>1. buf' \in [names : Paths, slash : BOOLEAN] /\ buf' = Cut(Size - 2)
    BY <1>1, <1>3, CutShape DEF CopyPath, SplitInv, TypeOK
  <2>2. (Cut(Size - 2))' = Cut(Size - 2)
    BY <1>3 DEF CopyPath, Cut
  <2>3. QED
    BY <1>3, <2>1, <2>2 DEF CopyPath, SplitInv, TypeOK
<1>4. CASE AppendDot
  <2>1. stray' \in Strays \cup {<<>>} /\ (stray' # <<>> => buf.slash)
    BY <1>4 DEF AppendDot
  <2>2. (Cut(Size - 2))' = Cut(Size - 2)
    BY <1>4 DEF AppendDot, Cut
  <2>3. QED
    BY <1>4, <2>1, <2>2 DEF AppendDot, SplitInv, TypeOK
<1>5. CASE Split
  <2>1. components' = IF full_pathlen = 1 THEN <<Root>> ELSE List(buf.names, stray)
    BY <1>5 DEF Split, List
  <2>2. /\ (Cut(Size - 2))' = Cut(Size - 2)
        /\ full_pathlen' = full_pathlen
        /\ List(buf.names, stray)' = List(buf.names, stray)
    BY <1>5 DEF Split, Cut, full_pathlen, List
  <2>3. components' \in Seq(ComponentType)
    <3>1. <<Root>> \in Seq(ComponentType)
      BY SplitAssumption DEF Root, Component, ComponentType, Kinds, Lengths
    <3>2. List(buf.names, stray) \in Seq(ComponentType)
      BY ListShape DEF SplitInv, TypeOK
    <3>3. QED
      BY <2>1, <3>1, <3>2
  <2>4. \A k \in DOMAIN components' : components'[k] \in ComponentType
    BY <2>3, LenProperties
  <2>5. TypeOK'
    BY <1>5, <2>4 DEF Split, SplitInv, TypeOK, ComponentType, Kinds, Lengths
  <2>6. QED
    BY <1>5, <2>1, <2>2, <2>5 DEF Split, SplitInv
<1>6. QED
  BY <1>2, <1>3, <1>4, <1>5 DEF Next

\* "/" itself is returned before what is behind it is split.
LEMMA RootAlone ==
  ASSUME SplitInv, pc = "done", path = <<>>
  PROVE  components = <<Root>>
<1>1. path \in Paths /\ Size - 2 \in Nat /\ buf = Cut(Size - 2)
  BY SplitAssumption DEF SplitInv, TypeOK
<1>2. Len(path) = 0 /\ Taken(path)[0] = 0 /\ Taken(path)[Len(path)] <= Size - 2
  <2>1. path \in Seq(Nat) /\ Len(path) = 0
    BY <1>1, PathIsSeq
  <2>2. Taken(path)[0] = 0
    BY <2>1, TakenSums
  <2>3. QED
    BY <1>1, <2>1, <2>2
<1>3. buf.names = path /\ buf.slash
  BY <1>1, <1>2, CutShape
<1>4. full_pathlen = Taken(path)[0] + 1
  BY <1>2, <1>3, Zenon DEF full_pathlen
<1>5. QED
  BY <1>2, <1>4 DEF SplitInv

LEMMA SplitInvariant == Spec => []SplitInv
<1>1. Init => SplitInv
  BY SplitInvInit
<1>2. SplitInv /\ [Next]_vars => SplitInv'
  BY SplitInvStep
<1>3. QED
  BY <1>1, <1>2, PTL DEF Spec

(***************************************************************************)
(* Theorems.                                                               *)
(***************************************************************************)

\* What path_split works with keeps its types: in particular every component
\* has at least one character, also where the buffer cuts the path.
THEOREM TypeCorrect == Spec => []TypeOK
<1>1. SplitInv => TypeOK
  BY DEF SplitInv
<1>2. QED
  BY <1>1, SplitInvariant, PTL

\* A path that fits into the buffer is split into "/" and its names, whatever
\* is left on the stack behind it (path.c:53-66).
THEOREM SplitsExactly == Spec => []SplitExact
<1>1. SplitInv => SplitExact
  <2>1. SUFFICES ASSUME SplitInv, pc = "done", Taken(path)[Len(path)] <= Size - 2
                 PROVE  components = <<Root>> \o Parts("name", path)
    BY DEF SplitExact
  <2>2. path \in Paths /\ Size - 2 \in Nat
    BY <2>1, SplitAssumption DEF SplitInv, TypeOK
  <2>3. buf.names = path /\ buf.slash = (path = <<>>)
    <3>1. buf = [names |-> path, slash |-> path = <<>>]
      BY <2>1, <2>2, CutShape DEF SplitInv
    <3>2. QED
      BY <3>1
  <2>4. path \in Seq(Nat) /\ path \in Seq(1 .. MaxName) /\ Len(path) \in Nat
    BY <2>2, PathIsSeq
  <2>5. CASE path = <<>>
    <3>1. components = <<Root>>
      BY <2>1, <2>5, RootAlone
    <3>2. Parts("name", path) = <<>>
      BY <2>5 DEF Parts
    <3>3. <<Root>> \o <<>> = <<Root>>
      OBVIOUS
    <3>4. QED
      BY <3>1, <3>2, <3>3
  <2>6. CASE path # <<>>
    <3> DEFINE n == Len(path)
    <3>1. n \in 1 .. n /\ n - 1 \in 0 .. n
      BY <2>4, <2>6, EmptySeq
    <3>2. path[n] \in 1 .. MaxName /\ Taken(path)[n-1] \in Nat
      BY <2>4, <3>1, ElementOfSeq, TakenSums
    <3>3. Taken(path)[n] = Taken(path)[n-1] + path[n] + 1
      BY <2>4, <3>1, TakenSums
    <3>4. full_pathlen = Taken(path)[n]
      <4>1. full_pathlen = Taken(path)[n] + 0
        BY <2>3, <2>6 DEF full_pathlen
      <4>2. Taken(path)[n] \in Nat
        BY <2>4, <3>1, TakenSums
      <4>3. QED
        BY <4>1, <4>2
    <3>5. full_pathlen # 1
      BY <3>2, <3>3, <3>4
    <3>6. stray = <<>>
      BY <2>1, <2>3, <2>6 DEF SplitInv
    <3>7. Parts("stray", stray) = <<>>
      BY <3>6 DEF Parts
    <3>8. Parts("name", path) \in Seq(ComponentType)
      BY <2>2, LengthsOf, PartsShape DEF Kinds
    <3>9. List(path, stray) = <<Root>> \o Parts("name", path)
      BY <3>7, <3>8, ConcatEmptySeq DEF List
    <3>10. QED
      BY <2>1, <2>3, <3>5, <3>9 DEF SplitInv
  <2>7. QED
    BY <2>5, <2>6
<1>2. QED
  BY <1>1, SplitInvariant, PTL

\* Of any path, also one that the buffer cuts, "/" and the names come first,
\* each at its place; what is not of the path comes only behind a '/' at which
\* the path is cut, whatever and however much is left on the stack
\* (path.c:49-68).
THEOREM LeadingNamesIntact == Spec => []LeadingIntact
<1>1. SplitInv => LeadingIntact
  <2>1. SUFFICES ASSUME SplitInv, pc = "done", components # <<Root>>
                 PROVE  LeadingIntact
    <3>1. components = <<Root>> => components[1] = Root /\ Len(components) = 1
      OBVIOUS
    <3>2. QED
      BY <2>1, <3>1 DEF LeadingIntact
  <2> DEFINE p == buf.names
             N == Len(path)
  <2>2. /\ path \in Paths /\ p \in Paths /\ Size - 2 \in Nat
        /\ buf = Cut(Size - 2) /\ stray \in Strays \cup {<<>>}
        /\ path # <<>> /\ components = List(p, stray)
    BY <2>1, RootAlone, SplitAssumption DEF SplitInv, TypeOK
  <2>3. /\ Len(p) \in Nat /\ N \in Nat \ {0} /\ DOMAIN path = 1 .. N
        /\ Len(stray) \in Nat /\ (Len(stray) # 0 => buf.slash)
    <3>1. path \in Seq(Nat) /\ Len(p) \in Nat /\ N \in Nat /\ DOMAIN path = 1 .. N
      BY <2>2, PathIsSeq
    <3>2. N # 0
      BY <2>2, <3>1, EmptySeq
    <3>3. Len(stray) \in Nat /\ (Len(stray) # 0 => stray # <<>>)
      BY <2>2, LengthsOf
    <3>4. QED
      BY <2>1, <3>1, <3>2, <3>3 DEF SplitInv
  <2>4. /\ Len(p) <= N /\ (buf.slash => Len(p) < N)
        /\ \A h \in 1 .. Len(p) : /\ p[h] <= path[h]
                                  /\ h < Len(p) \/ buf.slash => p[h] = path[h]
        /\ \A n \in 0 .. N - 1 :
             Taken(path)[n] + 1 = Size - 2 <=> buf.slash /\ n = Len(p)
    BY <2>2, CutShape
  <2>5. /\ Len(components) = 1 + Len(p) + Len(stray)
        /\ components[1] = Root
        /\ \A h \in 2 .. Len(p) + 1 : components[h] = Component("name", p[h-1])
        /\ \A h \in Len(p) + 2 .. 1 + Len(p) + Len(stray) : components[h].kind = "stray"
    BY <2>2, ListShape
  <2> HIDE DEF p, N
  <2>6. \A n \in 0 .. N : CutAtSlash(n) <=> n < N /\ buf.slash /\ n = Len(p)
    <3>1. ASSUME NEW n \in 0 .. N PROVE CutAtSlash(n) <=> n < N /\ buf.slash /\ n = Len(p)
      <4>1. n < N <=> n \in 0 .. N - 1
        BY <2>3
      <4>2. QED
        BY <2>4, <4>1 DEF CutAtSlash, N
    <3>2. QED
      BY <3>1
  <2>7. ASSUME NEW k \in 2 .. Len(components),
               NEW n \in 0 .. N, n < k - 1, CutAtSlash(n)
        PROVE  components[k].kind = "stray"
    <3>1. n = Len(p)
      BY <2>6, <2>7
    <3>2. k \in Len(p) + 2 .. 1 + Len(p) + Len(stray)
      BY <2>3, <2>5, <2>7, <3>1
    <3>3. QED
      BY <2>5, <3>2
  <2>8. ASSUME NEW k \in 2 .. Len(components),
               ~\E n \in 0 .. N : n < k - 1 /\ CutAtSlash(n)
        PROVE  /\ components[k].kind = "name" /\ k - 1 \in 1 .. N
               /\ components[k].len <= path[k-1]
               /\ k < Len(components) => components[k].len = path[k-1]
    <3>1. buf.slash => Len(p) < N /\ CutAtSlash(Len(p))
      <4>1. buf.slash => Len(p) < N /\ Len(p) \in 0 .. N
        BY <2>3, <2>4
      <4>2. QED
        BY <2>6, <4>1
    <3>2. k <= Len(p) + 1
      BY <2>3, <2>5, <2>8, <3>1
    <3>3. k \in 2 .. Len(p) + 1 /\ k - 1 \in 1 .. Len(p) /\ k - 1 \in 1 .. N
      BY <2>3, <2>4, <3>2
    <3>4. components[k] = Component("name", p[k-1]) /\ p[k-1] <= path[k-1]
      BY <2>4, <2>5, <3>3
    <3>5. k < Len(components) => k - 1 < Len(p) \/ buf.slash
      BY <2>3, <2>5, <3>3
    <3>6. QED
      BY <2>4, <3>3, <3>4, <3>5 DEF Component
  <2>9. QED
    BY <2>3, <2>5, <2>7, <2>8 DEF LeadingIntact, N
<1>2. QED
  BY <1>1, SplitInvariant, PTL
=============================================================================
