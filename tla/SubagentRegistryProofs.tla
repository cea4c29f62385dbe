----------------------- MODULE SubagentRegistryProofs -----------------------
(***************************************************************************)
(* Theorems about the registry of children, for any children, sessions and *)
(* limits: the spawn graph has a node for exactly the children that have a *)
(* home, the retention queue lists the completed records in their order,   *)
(* who waits for a child waits for one that will end, and no completed     *)
(* record is lost to a wake.                                               *)
(***************************************************************************)
EXTENDS SubagentMessageProofs, SequenceTheorems

----------------------------------------------------------------------------
(* Sequences.                                                              *)

(* retain is a recursive function, which exists: one that is defined up to *)
(* an index extends to the next.                                           *)
LEMMA RetainUnfolds ==
  ASSUME NEW T, NEW seq \in Seq(T), NEW S
  PROVE  \E f : /\ f[0] = << >>
                /\ \A k \in 1 .. Len(seq) :
                     f[k] = IF seq[k] \in S THEN Append(f[k - 1], seq[k]) ELSE f[k - 1]
                /\ retain(seq, S) = f[Len(seq)]
<1>1. Len(seq) \in Nat OBVIOUS
<1> DEFINE At(f, k) == IF k = 0 THEN << >>
                       ELSE IF seq[k] \in S THEN Append(f[k - 1], seq[k]) ELSE f[k - 1]
           Exists(m) == \E f : f = [k \in 0 .. m |-> At(f, k)]
           Bad == {m \in Nat : ~ Exists(m)}
<1>2. Exists(Len(seq))
  <2> SUFFICES ASSUME ~ Exists(Len(seq)) PROVE FALSE OBVIOUS
  <2>1. Bad \subseteq Nat /\ Bad # {} BY <1>1
  <2>2. PICK m \in Bad : \A k \in Bad : m =< k
    <3> HIDE DEF Bad
    <3> QED BY <2>1, LeastElement
  <2>3. m \in Nat /\ ~ Exists(m) BY <2>2
  <2>4. CASE m = 0
    <3> DEFINE g == [k \in 0 .. 0 |-> << >>]
    <3>1. \A k \in 0 .. 0 : At(g, k) = << >> OBVIOUS
    <3> HIDE DEF At
    <3>2. g = [k \in 0 .. 0 |-> At(g, k)] BY <3>1
    <3> QED BY <2>3, <2>4, <3>2
  <2>5. CASE m # 0
    <3>1. m - 1 \in Nat /\ ~ (m =< m - 1) BY <2>3, <2>5
    <3>2. PICK f : f = [k \in 0 .. m - 1 |-> At(f, k)] BY <2>2, <3>1
    <3> DEFINE g == [k \in 0 .. m |-> IF k = m THEN At(f, m) ELSE f[k]]
    <3>3. \A k \in 0 .. m : k # 0 => k - 1 \in 0 .. m /\ k - 1 # m BY <2>3
    <3>4. \A k \in 0 .. m : k # 0 => g[k - 1] = f[k - 1] BY <3>3
    <3>5. \A k \in 0 .. m : At(g, k) = At(f, k) BY <3>4
    <3>6. \A k \in 0 .. m : k # m => k \in 0 .. m - 1 BY <2>3
    <3>7. \A k \in 0 .. m : g[k] = At(f, k)
      <4> HIDE DEF At
      <4>1. \A k \in 0 .. m - 1 : f[k] = At(f, k) BY <3>2
      <4> QED BY <3>6, <4>1
    <3>8. g = [k \in 0 .. m |-> g[k]] OBVIOUS
    <3> HIDE DEF g, At
    <3>9. g = [k \in 0 .. m |-> At(g, k)] BY <3>5, <3>7, <3>8
    <3> QED BY <2>3, <3>9
  <2> QED BY <2>4, <2>5
<1>3. PICK f : f = [k \in 0 .. Len(seq) |-> At(f, k)] /\ retain(seq, S) = f[Len(seq)]
      BY <1>2 DEF retain
<1>4. \A k \in 0 .. Len(seq) : f[k] = At(f, k)
  <2> HIDE DEF At
  <2> QED BY <1>3
<1>5. 0 \in 0 .. Len(seq) /\ \A k \in 1 .. Len(seq) : k \in 0 .. Len(seq) /\ k # 0
      BY <1>1
<1> QED BY <1>3, <1>4, <1>5

(* The values of the elements under `at` grow along the sequence.          *)
Sorted(seq, at) ==
  \A i, j \in 1 .. Len(seq) : i < j => at[seq[i]] < at[seq[j]]

(* The elements of a longer sequence.                                      *)
LEMMA AppendFacts ==
  ASSUME NEW T, NEW seq \in Seq(T), NEW e \in T, NEW at
  PROVE  /\ Append(seq, e) \in Seq(T)
         /\ ToSet(Append(seq, e)) = ToSet(seq) \cup {e}
         /\ Sorted(seq, at) /\ (\A x \in ToSet(seq) : at[x] < at[e]) =>
              Sorted(Append(seq, e), at)
<1> DEFINE a == Append(seq, e)
           n == Len(seq)
<1>1. /\ a \in Seq(T) /\ Len(a) = n + 1 /\ n \in Nat
      /\ DOMAIN a = 1 .. n + 1 /\ DOMAIN seq = 1 .. n
      /\ \A i \in 1 .. n : a[i] = seq[i]
      /\ a[n + 1] = e
      BY AppendProperties, LenProperties
<1>2. \A i \in 1 .. n + 1 : i \in 1 .. n \/ i = n + 1 BY <1>1
<1>3. \A i \in 1 .. n : i \in 1 .. n + 1 BY <1>1
<1>4. n + 1 \in 1 .. n + 1 BY <1>1
<1> HIDE DEF a, n
<1>5. ToSet(a) = ToSet(seq) \cup {e} BY <1>1, <1>2, <1>3, <1>4 DEF ToSet
<1>6. ASSUME Sorted(seq, at), \A x \in ToSet(seq) : at[x] < at[e]
      PROVE  Sorted(a, at)
  <2> SUFFICES ASSUME NEW i \in 1 .. n + 1, NEW j \in 1 .. n + 1, i < j
               PROVE  at[a[i]] < at[a[j]]
      BY <1>1 DEF Sorted
  <2>1. i \in 1 .. n BY <1>1
  <2>2. CASE j = n + 1
    <3>1. a[i] \in ToSet(seq) BY <1>1, <2>1 DEF ToSet
    <3> QED BY <1>1, <1>6, <2>2, <3>1
  <2>3. CASE j \in 1 .. n BY <1>1, <1>6, <2>1, <2>3 DEF Sorted, n
  <2> QED BY <1>2, <2>2, <2>3
<1> QED BY <1>1, <1>5, <1>6 DEF a

(* What is retained, in the same order.                                    *)
LEMMA RetainFacts ==
  ASSUME NEW T, NEW seq \in Seq(T), NEW S, NEW at
  PROVE  /\ retain(seq, S) \in Seq(T)
         /\ ToSet(retain(seq, S)) = ToSet(seq) \cap S
         /\ Sorted(seq, at) => Sorted(retain(seq, S), at)
<1> DEFINE n == Len(seq)
           Upto(k) == {seq[i] : i \in 1 .. k}
<1>1. /\ n \in Nat /\ DOMAIN seq = 1 .. n /\ \A i \in 1 .. n : seq[i] \in T
      BY LenProperties, ElementOfSeq
<1>2. PICK f : /\ f[0] = << >>
               /\ \A k \in 1 .. n :
                    f[k] = IF seq[k] \in S THEN Append(f[k - 1], seq[k]) ELSE f[k - 1]
               /\ retain(seq, S) = f[n]
      BY RetainUnfolds
<1> DEFINE Fine(k) == /\ f[k] \in Seq(T)
                      /\ ToSet(f[k]) = Upto(k) \cap S
                      /\ Sorted(seq, at) => Sorted(f[k], at)
           Bad == {k \in 0 .. n : ~ Fine(k)}
<1> HIDE DEF n
<1>3. Fine(0)
  <2>1. f[0] \in Seq(T) /\ Len(f[0]) = 0 BY <1>2, EmptySeq
  <2>2. ToSet(f[0]) = {} BY <2>1, LenProperties DEF ToSet
  <2>3. Upto(0) = {} OBVIOUS
  <2>4. Sorted(f[0], at) BY <2>1 DEF Sorted
  <2> QED BY <2>1, <2>2, <2>3, <2>4
<1>4. ASSUME NEW k \in 1 .. n, Fine(k - 1) PROVE Fine(k)
  <2>1. k \in Nat /\ \A i \in 1 .. k : i \in 1 .. k - 1 \/ i = k BY <1>1
  <2>2. /\ Upto(k) = Upto(k - 1) \cup {seq[k]}
        BY <1>1, <2>1
  <2>3. seq[k] \in T BY <1>1
  <2>4. Sorted(seq, at) => \A x \in Upto(k - 1) : at[x] < at[seq[k]]
    <3> SUFFICES ASSUME Sorted(seq, at), NEW i \in 1 .. k - 1
                 PROVE  at[seq[i]] < at[seq[k]]
        OBVIOUS
    <3>1. i \in 1 .. n /\ i < k BY <1>1
    <3> QED BY <3>1 DEF Sorted, n
  <2> HIDE DEF Upto
  <2>5. CASE seq[k] \in S
    <3>1. f[k] = Append(f[k - 1], seq[k]) BY <1>2, <2>5
    <3>2. f[k] \in Seq(T) /\ ToSet(f[k]) = ToSet(f[k - 1]) \cup {seq[k]}
          BY <1>4, <2>3, <3>1, AppendFacts
    <3>3. Sorted(seq, at) => Sorted(f[k], at)
      <4> SUFFICES ASSUME Sorted(seq, at) PROVE Sorted(f[k], at) OBVIOUS
      <4>1. \A x \in ToSet(f[k - 1]) : at[x] < at[seq[k]] BY <1>4, <2>4
      <4> QED BY <1>4, <2>3, <3>1, <4>1, AppendFacts
    <3> QED BY <1>4, <2>2, <2>5, <3>2, <3>3
  <2>6. CASE seq[k] \notin S BY <1>2, <1>4, <2>2, <2>6
  <2> QED BY <2>5, <2>6
<1> HIDE DEF Fine
<1>5. Bad = {}
  <2> SUFFICES ASSUME Bad # {} PROVE FALSE OBVIOUS
  <2>1. Bad \subseteq Nat BY <1>1
  <2>2. PICK k \in Bad : \A j \in Bad : k =< j
    <3> HIDE DEF Bad
    <3> QED BY <2>1, LeastElement
  <2>3. k # 0 BY <1>3, <2>2
  <2>4. k \in 1 .. n /\ k - 1 \in 0 .. n /\ ~ (k =< k - 1) BY <1>1, <2>2, <2>3
  <2>5. Fine(k - 1) BY <2>2, <2>4
  <2> QED BY <1>4, <2>2, <2>4, <2>5
<1>6. Fine(n)
  <2>1. n \in 0 .. n BY <1>1
  <2> QED BY <1>5, <2>1
<1>7. Upto(n) = ToSet(seq) BY <1>1 DEF ToSet
<1> QED BY <1>2, <1>6, <1>7 DEF Fine

(* An element that is inserted at a position.                              *)
LEMMA InsertAtFacts ==
  ASSUME NEW T, NEW seq \in Seq(T), NEW e \in T, NEW i \in 1 .. Len(seq) + 1
  PROVE  /\ InsertAt(seq, i, e) \in Seq(T)
         /\ Len(InsertAt(seq, i, e)) = Len(seq) + 1
         /\ \A j \in 1 .. Len(seq) + 1 :
              InsertAt(seq, i, e)[j] =
                IF j < i THEN seq[j] ELSE IF j = i THEN e ELSE seq[j - 1]
<1> DEFINE n == Len(seq)
           a == SubSeq(seq, 1, i - 1)
           b == SubSeq(seq, i, n)
           c == a \o <<e>>
<1>1. n \in Nat /\ \A j \in 1 .. n : seq[j] \in T BY LenProperties, ElementOfSeq
<1>2. i \in Int /\ i - 1 \in Nat /\ i - 1 <= n BY <1>1
<1>3. /\ a \in Seq(T) /\ Len(a) = i - 1
      /\ \A j \in 1 .. i - 1 : a[j] = seq[j]
  <2>1. \A j \in 1 .. i - 1 : seq[j] \in T BY <1>1, <1>2
  <2>2. /\ a \in Seq(T) /\ Len(a) = (IF 1 <= i - 1 THEN i - 1 - 1 + 1 ELSE 0)
        /\ \A j \in 1 .. i - 1 - 1 + 1 : a[j] = seq[1 + j - 1]
        BY <1>2, <2>1, SubSeqProperties
  <2>3. i - 1 - 1 + 1 = i - 1 /\ \A j \in 1 .. i - 1 : 1 + j - 1 = j BY <1>2
  <2> HIDE DEF a
  <2> QED BY <1>2, <2>2, <2>3
<1>4. /\ b \in Seq(T) /\ Len(b) = n + 1 - i
      /\ \A j \in 1 .. n + 1 - i : b[j] = seq[i + j - 1]
  <2>1. \A j \in i .. n : seq[j] \in T BY <1>1, <1>2
  <2>2. /\ b \in Seq(T) /\ Len(b) = (IF i <= n THEN n - i + 1 ELSE 0)
        /\ \A j \in 1 .. n - i + 1 : b[j] = seq[i + j - 1]
        BY <1>1, <1>2, <2>1, SubSeqProperties
  <2>3. n - i + 1 = n + 1 - i /\ (~ (i <= n) => n + 1 - i = 0) BY <1>1, <1>2
  <2> HIDE DEF b
  <2> QED BY <2>2, <2>3
<1>5. /\ c \in Seq(T) /\ Len(c) = i
      /\ \A j \in 1 .. i : c[j] = IF j <= i - 1 THEN a[j] ELSE <<e>>[j - (i - 1)]
  <2>1. <<e>> \in Seq(T) /\ Len(<<e>>) = 1 OBVIOUS
  <2> HIDE DEF a
  <2>2. /\ c \in Seq(T) /\ Len(c) = (i - 1) + 1
        /\ \A j \in 1 .. (i - 1) + 1 :
             c[j] = IF j <= i - 1 THEN a[j] ELSE <<e>>[j - (i - 1)]
        BY <1>3, <2>1, ConcatProperties
  <2>3. (i - 1) + 1 = i BY <1>2
  <2> QED BY <2>2, <2>3
<1>6. \A j \in 1 .. i : c[j] = IF j < i THEN seq[j] ELSE e
  <2> SUFFICES ASSUME NEW j \in 1 .. i PROVE c[j] = IF j < i THEN seq[j] ELSE e
      OBVIOUS
  <2> HIDE DEF a, c
  <2>1. CASE j < i
    <3>1. j \in 1 .. i - 1 /\ j <= i - 1 BY <1>2, <2>1
    <3> QED BY <1>3, <1>5, <2>1, <3>1
  <2>2. CASE j = i
    <3>1. ~ (j <= i - 1) /\ j - (i - 1) = 1 BY <1>2, <2>2
    <3>2. <<e>>[1] = e OBVIOUS
    <3> QED BY <1>5, <2>2, <3>1, <3>2
  <2>3. j < i \/ j = i BY <1>2
  <2> QED BY <2>1, <2>2, <2>3
<1> DEFINE d == InsertAt(seq, i, e)
<1>7. d = c \o b BY DEF InsertAt
<1> HIDE DEF a, b, c, n
<1>8. /\ d \in Seq(T) /\ Len(d) = i + (n + 1 - i)
      /\ \A j \in 1 .. i + (n + 1 - i) : d[j] = IF j <= i THEN c[j] ELSE b[j - i]
  <2>1. /\ d \in Seq(T) /\ Len(d) = Len(c) + Len(b)
        /\ \A j \in 1 .. Len(c) + Len(b) :
             d[j] = IF j <= Len(c) THEN c[j] ELSE b[j - Len(c)]
    <3>1. c \in Seq(T) /\ b \in Seq(T) BY <1>4, <1>5
    <3>2. /\ (c \o b) \in Seq(T) /\ Len(c \o b) = Len(c) + Len(b)
          /\ \A j \in 1 .. Len(c) + Len(b) :
               (c \o b)[j] = IF j <= Len(c) THEN c[j] ELSE b[j - Len(c)]
          BY ONLY <3>1, ConcatProperties, Zenon
    <3> HIDE DEF d
    <3> QED BY ONLY <1>7, <3>2, Zenon
  <2>2. Len(c) = i /\ Len(b) = n + 1 - i BY <1>4, <1>5
  <2> HIDE DEF d
  <2> QED BY <2>1, <2>2
<1>9. i + (n + 1 - i) = n + 1 BY <1>1, <1>2
<1> HIDE DEF d
<1>10. ASSUME NEW j \in 1 .. n + 1
       PROVE  d[j] = IF j < i THEN seq[j] ELSE IF j = i THEN e ELSE seq[j - 1]
  <2>1. CASE j <= i
    <3>1. j \in 1 .. i BY <1>1, <1>2, <2>1
    <3>2. j < i \/ j = i BY <1>2, <2>1
    <3> QED BY <1>6, <1>8, <1>9, <2>1, <3>1, <3>2
  <2>2. CASE ~ (j <= i)
    <3>1. j - i \in 1 .. n + 1 - i /\ i + (j - i) - 1 = j - 1 /\ ~ (j < i) /\ j # i
          BY <1>1, <1>2, <2>2
    <3>2. d[j] = b[j - i] BY <1>8, <1>9, <2>2
    <3>3. b[j - i] = seq[i + (j - i) - 1] BY <1>4, <3>1
    <3> QED BY <3>1, <3>2, <3>3
  <2> QED BY <2>1, <2>2
<1> QED BY <1>8, <1>9, <1>10 DEF d, n

(* The position before the first element of a greater value.               *)
LEMMA InsertFacts ==
  ASSUME NEW T, NEW seq \in Seq(T), NEW at \in [T -> Nat], Sorted(seq, at),
         NEW e \in T, \A x \in ToSet(seq) : at[x] # at[e],
         NEW i \in 1 .. Len(seq) + 1,
         \A j \in 1 .. Len(seq) : j < i => ~ (at[seq[j]] > at[e]),
         i \in 1 .. Len(seq) => at[seq[i]] > at[e]
  PROVE  /\ InsertAt(seq, i, e) \in Seq(T)
         /\ ToSet(InsertAt(seq, i, e)) = ToSet(seq) \cup {e}
         /\ Sorted(InsertAt(seq, i, e), at)
<1> DEFINE n == Len(seq)
           d == InsertAt(seq, i, e)
<1>1. /\ n \in Nat /\ DOMAIN seq = 1 .. n /\ \A j \in 1 .. n : seq[j] \in T
      BY LenProperties, ElementOfSeq
<1>2. /\ d \in Seq(T) /\ Len(d) = n + 1
      /\ \A j \in 1 .. n + 1 :
           d[j] = IF j < i THEN seq[j] ELSE IF j = i THEN e ELSE seq[j - 1]
  <2>1. /\ InsertAt(seq, i, e) \in Seq(T)
        /\ Len(InsertAt(seq, i, e)) = Len(seq) + 1
        /\ \A j \in 1 .. Len(seq) + 1 :
             InsertAt(seq, i, e)[j] =
               IF j < i THEN seq[j] ELSE IF j = i THEN e ELSE seq[j - 1]
    <3>1. i \in 1 .. Len(seq) + 1 OBVIOUS
    <3> QED BY <3>1, InsertAtFacts
  <2> QED BY <2>1
<1>3. DOMAIN d = 1 .. n + 1 BY <1>2, LenProperties
<1> HIDE DEF d, n
<1>4. ToSet(d) = ToSet(seq) \cup {e}
  <2>1. ASSUME NEW j \in 1 .. n + 1 PROVE d[j] \in ToSet(seq) \cup {e}
    <3>1. j < i => j \in 1 .. n BY <1>1 DEF n
    <3>2. ~ (j < i) /\ j # i => j - 1 \in 1 .. n BY <1>1
    <3> QED BY <1>1, <1>2, <3>1, <3>2 DEF ToSet
  <2>2. e \in ToSet(d)
    <3>1. i \in 1 .. n + 1 /\ ~ (i < i) BY <1>1 DEF n
    <3>2. d[i] = e BY <1>2, <3>1
    <3> QED BY <1>3, <3>1, <3>2 DEF ToSet
  <2>3. ASSUME NEW j \in 1 .. n PROVE seq[j] \in ToSet(d)
    <3>1. CASE j < i
      <4>1. j \in 1 .. n + 1 /\ d[j] = seq[j] BY <1>1, <1>2, <3>1
      <4> QED BY <1>3, <4>1 DEF ToSet
    <3>2. CASE ~ (j < i)
      <4>1. /\ j + 1 \in 1 .. n + 1 /\ ~ (j + 1 < i) /\ j + 1 # i /\ (j + 1) - 1 = j
            BY <1>1, <3>2
      <4>2. d[j + 1] = seq[j] BY <1>2, <4>1
      <4> QED BY <1>3, <4>1, <4>2 DEF ToSet
    <3> QED BY <3>1, <3>2
  <2> QED BY <1>1, <1>3, <2>1, <2>2, <2>3 DEF ToSet
<1>5. ASSUME NEW j \in 1 .. n, j < i PROVE at[seq[j]] < at[e]
  <2>1. seq[j] \in ToSet(seq) BY <1>1 DEF ToSet
  <2>2. at[seq[j]] \in Nat /\ at[e] \in Nat BY <1>1
  <2>3. ~ (at[seq[j]] > at[e]) BY <1>5 DEF n
  <2> QED BY <2>1, <2>2, <2>3
<1>6. ASSUME NEW j \in 1 .. n, ~ (j < i) PROVE at[e] < at[seq[j]]
  <2>1. i \in 1 .. n BY <1>1, <1>6 DEF n
  <2>2. at[e] < at[seq[i]]
    <3>1. at[e] \in Nat /\ at[seq[i]] \in Nat BY <1>1, <2>1
    <3> QED BY <2>1, <3>1 DEF n
  <2>3. CASE j = i BY <2>2, <2>3
  <2>4. CASE j # i
    <3>1. i < j BY <1>1, <1>6, <2>4
    <3>2. at[seq[i]] < at[seq[j]] BY <2>1, <3>1 DEF Sorted, n
    <3>3. at[e] \in Nat /\ at[seq[i]] \in Nat /\ at[seq[j]] \in Nat BY <1>1, <2>1
    <3> QED BY <2>2, <3>2, <3>3
  <2> QED BY <2>3, <2>4
<1>7. Sorted(d, at)
  <2> SUFFICES ASSUME NEW j \in 1 .. n + 1, NEW k \in 1 .. n + 1, j < k
               PROVE  at[d[j]] < at[d[k]]
      BY <1>2 DEF Sorted
  <2>1. CASE k < i
    <3>1. j < i /\ j \in 1 .. n /\ k \in 1 .. n BY <1>1, <2>1 DEF n
    <3>2. d[j] = seq[j] /\ d[k] = seq[k] BY <1>2, <2>1, <3>1
    <3> QED BY <3>1, <3>2 DEF Sorted, n
  <2>2. CASE k = i
    <3>1. j < i /\ j \in 1 .. n BY <1>1, <2>2 DEF n
    <3>2. d[j] = seq[j] /\ d[k] = e BY <1>2, <2>2, <3>1
    <3> QED BY <1>5, <3>1, <3>2
  <2>3. CASE ~ (k < i) /\ k # i
    <3>1. k - 1 \in 1 .. n /\ ~ (k - 1 < i) BY <1>1, <2>3 DEF n
    <3>2. d[k] = seq[k - 1] BY <1>2, <2>3
    <3>3. CASE j < i
      <4>1. j \in 1 .. n /\ j < k - 1 BY <1>1, <3>1, <3>3
      <4>2. d[j] = seq[j] BY <1>2, <3>3
      <4> QED BY <3>1, <3>2, <4>1, <4>2 DEF Sorted, n
    <3>4. CASE j = i
      <4>1. d[j] = e BY <1>2, <3>4
      <4> QED BY <1>6, <3>1, <3>2, <4>1
    <3>5. CASE ~ (j < i) /\ j # i
      <4>1. j - 1 \in 1 .. n /\ j - 1 < k - 1 BY <1>1, <3>5 DEF n
      <4>2. d[j] = seq[j - 1] BY <1>2, <3>5
      <4> QED BY <3>1, <3>2, <4>1, <4>2 DEF Sorted, n
    <3> QED BY <3>3, <3>4, <3>5
  <2> QED BY <2>1, <2>2, <2>3
<1> QED BY <1>2, <1>4, <1>7 DEF d

(* A record of a completion age goes before the first of a younger one.    *)
LEMMA PointFacts ==
  ASSUME NEW T, NEW order \in Seq(T), NEW all, NEW age \in Nat,
         \A x \in T : all[x].age \in Nat
  PROVE  LET i == insertion_point(order, all, age)
         IN  /\ i \in 1 .. Len(order) + 1
             /\ \A j \in 1 .. Len(order) : j < i => ~ (all[order[j]].age > age)
             /\ i \in 1 .. Len(order) => all[order[i]].age > age
<1> DEFINE n == Len(order)
           I == {j \in 1 .. n : all[order[j]].age > age}
           i == insertion_point(order, all, age)
<1>1. n \in Nat BY LenProperties
<1>2. SelectInSeq(order, LAMBDA x : all[x].age > age) = IF I # {} THEN Min(I) ELSE 0
      BY DEF SelectInSeq
<1>3. i = IF I = {} THEN n + 1 ELSE IF Min(I) = 0 THEN n + 1 ELSE Min(I)
      BY <1>2 DEF insertion_point
<1>4. CASE I = {}
  <2>1. i = n + 1 BY <1>3, <1>4
  <2>2. \A j \in 1 .. n : ~ (all[order[j]].age > age) BY <1>4
  <2> HIDE DEF I, i
  <2> QED BY <1>1, <2>1, <2>2 DEF i
<1>5. CASE I # {}
  <2>1. I \subseteq Nat BY <1>1
  <2>2. PICK m \in I : \A j \in I : m =< j
    <3> HIDE DEF I
    <3> QED BY <1>5, <2>1, LeastElement
  <2>3. Min(I) \in I /\ \A j \in I : Min(I) =< j
    <3> HIDE DEF I
    <3> QED BY <2>2 DEF Min
  <2>4. Min(I) # 0 BY <2>3
  <2>5. i = Min(I) BY <1>3, <1>5, <2>4
  <2>6. i \in 1 .. n /\ all[order[i]].age > age BY <2>3, <2>5
  <2>7. \A j \in 1 .. n : j < i => ~ (all[order[j]].age > age)
    <3> SUFFICES ASSUME NEW j \in 1 .. n, j < i, all[order[j]].age > age
                 PROVE  FALSE
        OBVIOUS
    <3>1. i =< j BY <2>3, <2>5
    <3> HIDE DEF i
    <3> QED BY <1>1, <2>6, <3>1
  <2> HIDE DEF I, i
  <2>8. i \in 1 .. n + 1 BY <1>1, <2>6
  <2> QED BY <2>6, <2>7, <2>8 DEF i
<1> QED BY <1>4, <1>5

(* One more record that is put back.                                       *)
Inserted(sofar, all, id) == InsertAt(sofar, insertion_point(sofar, all, all[id].age), id)

One(S) == CHOOSE x \in S : TRUE

(* f tells what the queue is when the records of a set are back.           *)
Refills(f, order, all, ids) ==
  /\ f[{}] = order
  /\ \A S \in SUBSET ids : S # {} => f[S] = Inserted(f[S \ {One(S)}], all, One(S))

Refilled(order, all, ids) ==
  \E f : Refills(f, order, all, ids) /\ reinsert(order, all, ids) = f[ids]

(* The records of a set are put back one by one: the fold is a recursive   *)
(* function, and one that is defined for the sets of up to m records       *)
(* extends to those of one record more.                                    *)
LEMMA ReinsertUnfolds ==
  ASSUME NEW order, NEW all, NEW ids, IsFiniteSet(ids)
  PROVE  Refilled(order, all, ids)
<1> DEFINE At(f, S) == IF S = {} THEN order
                       ELSE Inserted(f[S \ {One(S)}], all, One(S))
           Low(m) == {S \in SUBSET ids : Cardinality(S) <= m}
           Exists(m) == \E f : f = [S \in Low(m) |-> At(f, S)]
           Bad == {m \in Nat : ~ Exists(m)}
           n == Cardinality(ids)
<1>1. /\ n \in Nat
      /\ \A S \in SUBSET ids : IsFiniteSet(S) /\ Cardinality(S) \in Nat
                               /\ Cardinality(S) <= n
      BY FS_CardinalityType, FS_Subset
<1>2. \A S \in SUBSET ids : S # {} => One(S) \in S BY DEF One
<1>3. \A S \in SUBSET ids : S # {} =>
        S \ {One(S)} \in SUBSET ids /\ Cardinality(S \ {One(S)}) = Cardinality(S) - 1
      BY <1>1, <1>2, FS_RemoveElement
<1>4. Exists(n)
  <2> SUFFICES ASSUME ~ Exists(n) PROVE FALSE OBVIOUS
  <2>1. Bad \subseteq Nat /\ Bad # {} BY <1>1
  <2>2. PICK m \in Bad : \A k \in Bad : m =< k
    <3> HIDE DEF Bad
    <3> QED BY <2>1, LeastElement
  <2>3. m \in Nat /\ ~ Exists(m) BY <2>2
  <2>4. CASE m = 0
    <3>1. Low(0) = {{}}
      <4>1. \A S \in SUBSET ids : Cardinality(S) <= 0 => S = {}
            BY <1>1, FS_EmptySet
      <4>2. Cardinality({}) = 0 BY FS_EmptySet
      <4>3. {} \in Low(0) BY <4>2
      <4>4. \A S \in Low(0) : S = {} BY <4>1
      <4> HIDE DEF Low
      <4> QED BY <4>3, <4>4
    <3> DEFINE g == [S \in {{}} |-> order]
    <3>2. \A S \in {{}} : At(g, S) = order OBVIOUS
    <3> HIDE DEF At, Low
    <3>3. g = [S \in Low(0) |-> At(g, S)] BY <3>1, <3>2
    <3> QED BY <2>3, <2>4, <3>3
  <2>5. CASE m # 0
    <3>1. m - 1 \in Nat /\ ~ (m =< m - 1) BY <2>3, <2>5
    <3>2. PICK f : f = [S \in Low(m - 1) |-> At(f, S)] BY <2>2, <3>1
    <3> DEFINE g == [S \in Low(m) |-> At(f, S)]
    <3>3. Low(m - 1) \subseteq Low(m) BY <1>1, <2>3
    <3>4. \A S \in Low(m) : S # {} => S \ {One(S)} \in Low(m - 1)
          BY <1>1, <1>3, <2>3
    <3>5. \A S \in Low(m - 1) : f[S] = At(f, S)
      <4> HIDE DEF At, Low
      <4> QED BY <3>2
    <3>6. \A S \in Low(m - 1) : g[S] = f[S]
      <4> HIDE DEF At, Low
      <4> QED BY <3>3, <3>5
    <3> HIDE DEF g
    <3>7. \A S \in Low(m) : At(g, S) = At(f, S)
      <4> SUFFICES ASSUME NEW S \in Low(m) PROVE At(g, S) = At(f, S) OBVIOUS
      <4>1. CASE S = {} BY <4>1
      <4>2. CASE S # {}
        <5>1. g[S \ {One(S)}] = f[S \ {One(S)}] BY <3>4, <3>6, <4>2
        <5> QED BY <5>1
      <4> QED BY <4>1, <4>2
    <3> HIDE DEF At, Low
    <3>8. g = [S \in Low(m) |-> At(g, S)] BY <3>7 DEF g
    <3> QED BY <2>3, <3>8
  <2> QED BY <2>4, <2>5
<1>5. Low(n) = SUBSET ids BY <1>1
<1>6. PICK f : /\ f = [S \in SUBSET ids |-> At(f, S)]
               /\ reinsert(order, all, ids) = f[ids]
  <2>1. \E f : f = [S \in SUBSET ids |-> At(f, S)]
    <3> HIDE DEF Low, At
    <3> QED BY <1>4, <1>5
  <2>2. reinsert(order, all, ids) = (CHOOSE f : f = [S \in SUBSET ids |-> At(f, S)])[ids]
        BY DEF reinsert, FoldSet, MapThenFoldSet, Inserted, One
  <2> HIDE DEF At
  <2> QED BY <2>1, <2>2
<1>7. \A S \in SUBSET ids : f[S] = At(f, S)
  <2> HIDE DEF At
  <2> QED BY <1>6
<1>8. {} \in SUBSET ids OBVIOUS
<1>9. Refills(f, order, all, ids) BY <1>7, <1>8 DEF Refills
<1>10. reinsert(order, all, ids) = f[ids] BY <1>6
<1> HIDE DEF At
<1> QED BY <1>9, <1>10 DEF Refilled

(* Put back at the position of its age, each record joins the queue and    *)
(* leaves it in order.                                                     *)
LEMMA ReinsertFacts ==
  ASSUME NEW T, NEW all, NEW at \in [T -> Nat],
         \A x \in T : all[x].age = at[x], \A x, y \in T : at[x] = at[y] => x = y,
         NEW order \in Seq(T), Sorted(order, at),
         NEW ids \in SUBSET T, IsFiniteSet(ids), ids \cap ToSet(order) = {}
  PROVE  /\ reinsert(order, all, ids) \in Seq(T)
         /\ ToSet(reinsert(order, all, ids)) = ToSet(order) \cup ids
         /\ Sorted(reinsert(order, all, ids), at)
<1>1. PICK f : Refills(f, order, all, ids) /\ reinsert(order, all, ids) = f[ids]
  <2>1. Refilled(order, all, ids) BY ReinsertUnfolds
  <2> QED BY <2>1 DEF Refilled
<1> DEFINE Fine(S) == /\ f[S] \in Seq(T)
                      /\ ToSet(f[S]) = ToSet(order) \cup S
                      /\ Sorted(f[S], at)
           Bad == {m \in Nat : \E S \in SUBSET ids : Cardinality(S) = m /\ ~ Fine(S)}
<1>2. \A S \in SUBSET ids : IsFiniteSet(S) /\ Cardinality(S) \in Nat
      BY FS_CardinalityType, FS_Subset
<1>3. ASSUME NEW S \in SUBSET ids, S # {}, Fine(S \ {One(S)}) PROVE Fine(S)
  <2> DEFINE x == One(S)
             sofar == f[S \ {x}]
             i == insertion_point(sofar, all, all[x].age)
  <2>1. x \in S /\ x \in ids /\ x \in T BY <1>3 DEF One
  <2>2. sofar \in Seq(T) /\ ToSet(sofar) = ToSet(order) \cup (S \ {x}) /\ Sorted(sofar, at)
        BY <1>3
  <2>3. f[S] = InsertAt(sofar, i, x) BY <1>1, <1>3 DEF Inserted, Refills
  <2> HIDE DEF x, sofar, Fine
  <2>4. all[x].age = at[x] /\ at[x] \in Nat /\ \A y \in T : all[y].age = at[y] /\ at[y] \in Nat
        BY <2>1
  <2>5. /\ i \in 1 .. Len(sofar) + 1
        /\ \A j \in 1 .. Len(sofar) : j < i => ~ (all[sofar[j]].age > all[x].age)
        /\ i \in 1 .. Len(sofar) => all[sofar[i]].age > all[x].age
    <3> DEFINE age == all[x].age
    <3>1. sofar \in Seq(T) /\ age \in Nat /\ \A y \in T : all[y].age \in Nat
          BY <2>2, <2>4
    <3> HIDE DEF age
    <3>2. /\ insertion_point(sofar, all, age) \in 1 .. Len(sofar) + 1
          /\ \A j \in 1 .. Len(sofar) :
               j < insertion_point(sofar, all, age) => ~ (all[sofar[j]].age > age)
          /\ insertion_point(sofar, all, age) \in 1 .. Len(sofar) =>
               all[sofar[insertion_point(sofar, all, age)]].age > age
          BY ONLY <3>1, PointFacts, Zenon
    <3> QED BY <3>2 DEF age
  <2> HIDE DEF i
  <2>6. DOMAIN sofar = 1 .. Len(sofar) /\ \A j \in 1 .. Len(sofar) : sofar[j] \in T
        BY <2>2, LenProperties, ElementOfSeq
  <2>7. \A j \in 1 .. Len(sofar) : j < i => ~ (at[sofar[j]] > at[x])
        BY <2>4, <2>5, <2>6
  <2>8. i \in 1 .. Len(sofar) => at[sofar[i]] > at[x] BY <2>4, <2>5, <2>6
  <2>9. \A y \in ToSet(sofar) : at[y] # at[x]
    <3>1. \A y \in ToSet(sofar) : y \in T BY <2>6 DEF ToSet
    <3>2. x \notin ToSet(sofar) BY <2>1, <2>2
    <3> QED BY <2>1, <3>1, <3>2
  <2>10. /\ InsertAt(sofar, i, x) \in Seq(T)
         /\ ToSet(InsertAt(sofar, i, x)) = ToSet(sofar) \cup {x}
         /\ Sorted(InsertAt(sofar, i, x), at)
         BY <2>1, <2>2, <2>5, <2>7, <2>8, <2>9, InsertFacts
  <2>11. ToSet(sofar) \cup {x} = ToSet(order) \cup S BY <2>1, <2>2
  <2> QED BY <2>3, <2>10, <2>11 DEF Fine
<1>4. Fine({}) BY <1>1 DEF Refills
<1>5. Bad = {}
  <2> SUFFICES ASSUME Bad # {} PROVE FALSE OBVIOUS
  <2>1. PICK m \in Bad : \A k \in Bad : m =< k
    <3>1. Bad \subseteq Nat OBVIOUS
    <3> HIDE DEF Bad
    <3> QED BY <3>1, LeastElement
  <2>2. PICK S \in SUBSET ids : Cardinality(S) = m /\ ~ Fine(S) BY <2>1
  <2> HIDE DEF Fine
  <2>3. S # {} BY <1>4, <2>2
  <2> DEFINE R == S \ {One(S)}
  <2>4. One(S) \in S BY <2>3 DEF One
  <2>5. R \in SUBSET ids /\ Cardinality(R) = m - 1
        BY <1>2, <2>2, <2>4, FS_RemoveElement
  <2>6. ~ Fine(R) BY <1>3, <2>2, <2>3
  <2>7. m - 1 \in Nat BY <1>2, <2>5
  <2>8. m - 1 \in Bad BY <2>5, <2>6, <2>7
  <2> QED BY <2>1, <2>7, <2>8
<1>6. Fine(ids)
  <2>1. Cardinality(ids) \in Nat BY <1>2
  <2> HIDE DEF Fine
  <2> QED BY <1>5, <2>1
<1> QED BY <1>1, <1>6

(* Values that grow repeat no element.                                     *)
LEMMA SortedFacts ==
  ASSUME NEW T, NEW seq \in Seq(T), NEW at \in [T -> Nat], Sorted(seq, at)
  PROVE  /\ IsFiniteSet(ToSet(seq)) /\ Cardinality(ToSet(seq)) = Len(seq)
         /\ \A i, j \in 1 .. Len(seq) : seq[i] = seq[j] => i = j
<1> DEFINE n == Len(seq)
<1>1. n \in Nat /\ DOMAIN seq = 1 .. n /\ seq \in [1 .. n -> T]
      /\ \A i \in 1 .. n : seq[i] \in T
      BY LenProperties, ElementOfSeq
<1>2. ASSUME NEW i \in 1 .. n, NEW j \in 1 .. n, seq[i] = seq[j] PROVE i = j
  <2>1. ~ (i < j) /\ ~ (j < i)
    <3>1. at[seq[i]] \in Nat /\ at[seq[j]] \in Nat BY <1>1
    <3> QED BY <1>2, <3>1 DEF Sorted
  <2> QED BY <1>1, <2>1
<1> HIDE DEF n
<1>3. seq \in Surjection(1 .. n, ToSet(seq)) /\ seq \in Injection(1 .. n, ToSet(seq))
  <2>1. seq \in [1 .. n -> ToSet(seq)] BY <1>1 DEF ToSet
  <2>2. IsInjective(seq) BY <1>1, <1>2 DEF IsInjective
  <2>3. seq \in Surjection(1 .. n, ToSet(seq))
        BY <1>1, <2>1 DEF ToSet, Surjection
  <2>4. seq \in Injection(1 .. n, ToSet(seq))
        BY <1>1, <1>2, <2>1 DEF Injection, IsInjective
  <2> QED BY <2>3, <2>4
<1>4. IsFiniteSet(1 .. n) /\ Cardinality(1 .. n) = n BY <1>1, FS_Interval
<1>5. IsFiniteSet(ToSet(seq)) /\ Cardinality(ToSet(seq)) = Cardinality(1 .. n)
      BY <1>3, <1>4, FS_Surjection
<1> QED BY <1>2, <1>4, <1>5 DEF n

(* A sequence over the elements it has.                                    *)
LEMMA SeqOver ==
  ASSUME NEW T, NEW seq \in Seq(T), NEW U, ToSet(seq) \subseteq U
  PROVE  seq \in Seq(U)
<1>1. Len(seq) \in Nat /\ DOMAIN seq = 1 .. Len(seq) /\ seq \in [1 .. Len(seq) -> T]
      BY LenProperties
<1>2. seq \in [1 .. Len(seq) -> U] BY <1>1 DEF ToSet
<1> QED BY <1>1, <1>2, IsASeq

LEMMA SortedSame ==
  ASSUME NEW T, NEW seq \in Seq(T), NEW at, NEW bt,
         \A x \in ToSet(seq) : at[x] = bt[x], Sorted(seq, at)
  PROVE  Sorted(seq, bt)
<1>1. DOMAIN seq = 1 .. Len(seq) BY LenProperties
<1>2. \A i \in 1 .. Len(seq) : at[seq[i]] = bt[seq[i]] BY <1>1 DEF ToSet
<1> QED BY <1>2 DEF Sorted

(* Younger elements that follow the older ones.                            *)
LEMMA ConcatFacts ==
  ASSUME NEW T, NEW s1 \in Seq(T), NEW s2 \in Seq(T), NEW at \in [T -> Nat]
  PROVE  /\ s1 \o s2 \in Seq(T)
         /\ ToSet(s1 \o s2) = ToSet(s1) \cup ToSet(s2)
         /\ /\ Sorted(s1, at) /\ Sorted(s2, at)
            /\ \A x \in ToSet(s1), y \in ToSet(s2) : at[x] < at[y]
            => Sorted(s1 \o s2, at)
<1> DEFINE a == s1 \o s2
           m == Len(s1)
           n == Len(s2)
<1>1. /\ a \in Seq(T) /\ Len(a) = m + n
      /\ \A i \in 1 .. m + n : a[i] = IF i <= m THEN s1[i] ELSE s2[i - m]
      BY ConcatProperties, Zenon
<1>2. m \in Nat /\ n \in Nat /\ DOMAIN s1 = 1 .. m /\ DOMAIN s2 = 1 .. n
      BY LenProperties
<1>3. DOMAIN a = 1 .. m + n BY <1>1, LenProperties
<1> HIDE DEF a, m, n
<1>4. \A i \in 1 .. m : i \in 1 .. m + n /\ a[i] = s1[i] BY <1>1, <1>2
<1>5. \A i \in 1 .. n : i + m \in 1 .. m + n /\ a[i + m] = s2[i]
  <2>1. \A i \in 1 .. n : i + m \in 1 .. m + n /\ ~ (i + m <= m) /\ (i + m) - m = i
        BY <1>2
  <2> QED BY <1>1, <2>1
<1>6. \A i \in 1 .. m + n : i \in 1 .. m \/ (i - m \in 1 .. n /\ ~ (i <= m))
      BY <1>2
<1>7. ToSet(a) = ToSet(s1) \cup ToSet(s2)
  <2>1. ToSet(a) \subseteq ToSet(s1) \cup ToSet(s2)
        BY <1>1, <1>2, <1>3, <1>4, <1>6 DEF ToSet
  <2>2. ToSet(s1) \subseteq ToSet(a) BY <1>2, <1>3, <1>4 DEF ToSet
  <2>3. ToSet(s2) \subseteq ToSet(a) BY <1>2, <1>3, <1>5 DEF ToSet
  <2> QED BY <2>1, <2>2, <2>3
<1>8. ASSUME Sorted(s1, at), Sorted(s2, at),
             \A x \in ToSet(s1), y \in ToSet(s2) : at[x] < at[y]
      PROVE  Sorted(a, at)
  <2> SUFFICES ASSUME NEW i \in 1 .. m + n, NEW j \in 1 .. m + n, i < j
               PROVE  at[a[i]] < at[a[j]]
      BY <1>1 DEF Sorted
  <2>1. CASE j \in 1 .. m
    <3>1. i \in 1 .. m BY <1>2, <2>1
    <3> QED BY <1>4, <1>8, <2>1, <3>1 DEF Sorted, m
  <2>2. CASE i \in 1 .. m /\ j - m \in 1 .. n /\ ~ (j <= m)
    <3>1. a[i] \in ToSet(s1) BY <1>2, <1>4, <2>2 DEF ToSet
    <3>2. a[j] \in ToSet(s2) BY <1>1, <1>2, <2>2 DEF ToSet
    <3> QED BY <1>8, <3>1, <3>2
  <2>3. CASE i - m \in 1 .. n /\ j - m \in 1 .. n /\ ~ (i <= m) /\ ~ (j <= m)
    <3>1. a[i] = s2[i - m] /\ a[j] = s2[j - m] BY <1>1, <2>3
    <3>2. i - m < j - m BY <1>2
    <3> QED BY <1>8, <2>3, <3>1, <3>2 DEF Sorted, n
  <2>4. ~ (j \in 1 .. m) => j - m \in 1 .. n /\ ~ (j <= m) BY <1>6
  <2>5. ~ (i \in 1 .. m) => i - m \in 1 .. n /\ ~ (i <= m) BY <1>6
  <2> QED BY <2>1, <2>2, <2>3, <2>4, <2>5
<1> QED BY <1>1, <1>7, <1>8 DEF a

(* What is left when the first k are dropped.                              *)
LEMMA SuffixFacts ==
  ASSUME NEW T, NEW seq \in Seq(T), NEW at \in [T -> Nat], Sorted(seq, at),
         NEW k \in 0 .. Len(seq)
  PROVE  /\ SubSeq(seq, k + 1, Len(seq)) \in Seq(T)
         /\ Len(SubSeq(seq, k + 1, Len(seq))) = Len(seq) - k
         /\ ToSet(SubSeq(seq, k + 1, Len(seq))) = ToSet(seq) \ {seq[i] : i \in 1 .. k}
         /\ Sorted(SubSeq(seq, k + 1, Len(seq)), at)
<1> DEFINE n == Len(seq)
           a == SubSeq(seq, k + 1, n)
<1>1. n \in Nat /\ DOMAIN seq = 1 .. n /\ \A i \in 1 .. n : seq[i] \in T
      BY LenProperties, ElementOfSeq
<1>2. k \in Nat /\ k <= n /\ k + 1 \in Int /\ n \in Int BY <1>1
<1>3. \A i \in k + 1 .. n : seq[i] \in T BY <1>1, <1>2
<1>4. /\ a \in Seq(T)
      /\ Len(a) = IF k + 1 <= n THEN n - (k + 1) + 1 ELSE 0
      /\ \A i \in 1 .. n - (k + 1) + 1 : a[i] = seq[k + 1 + i - 1]
  <2> DEFINE m == k + 1
  <2>1. m \in Int /\ n \in Int /\ \A i \in m .. n : seq[i] \in T BY <1>2, <1>3
  <2> HIDE DEF n, m
  <2>2. /\ SubSeq(seq, m, n) \in Seq(T)
        /\ Len(SubSeq(seq, m, n)) = IF m <= n THEN n - m + 1 ELSE 0
        /\ \A i \in 1 .. n - m + 1 : SubSeq(seq, m, n)[i] = seq[m + i - 1]
        BY <2>1, SubSeqProperties
  <2> QED BY <2>2 DEF a, m
<1> HIDE DEF a, n
<1>5. Len(a) = n - k BY <1>2, <1>4
<1>6. \A i \in 1 .. n - k : i + k \in 1 .. n /\ a[i] = seq[i + k]
  <2> SUFFICES ASSUME NEW i \in 1 .. n - k
               PROVE  i + k \in 1 .. n /\ a[i] = seq[i + k]
      OBVIOUS
  <2>1. i \in 1 .. n - (k + 1) + 1 BY <1>2
  <2>2. k + 1 + i - 1 = i + k /\ i + k \in 1 .. n BY <1>1, <1>2
  <2> QED BY <1>4, <2>1, <2>2
<1>7. DOMAIN a = 1 .. n - k BY <1>4, <1>5, LenProperties
<1>8. \A i, j \in 1 .. n : seq[i] = seq[j] => i = j BY SortedFacts DEF n
<1>9. ToSet(a) = ToSet(seq) \ {seq[i] : i \in 1 .. k}
  <2>1. ASSUME NEW x \in ToSet(a)
        PROVE  x \in ToSet(seq) /\ x \notin {seq[i] : i \in 1 .. k}
    <3>1. PICK i \in 1 .. n - k : x = seq[i + k] /\ i + k \in 1 .. n
          BY <1>6, <1>7, <2>1 DEF ToSet
    <3>2. x \in ToSet(seq) BY <1>1, <3>1 DEF ToSet
    <3>3. \A j \in 1 .. k : j \in 1 .. n /\ j # i + k BY <1>1, <1>2
    <3> QED BY <1>8, <3>1, <3>2, <3>3
  <2>2. ASSUME NEW x \in ToSet(seq), x \notin {seq[i] : i \in 1 .. k}
        PROVE  x \in ToSet(a)
    <3>1. PICK i \in 1 .. n : x = seq[i] BY <1>1 DEF ToSet
    <3>2. i \notin 1 .. k BY <2>2, <3>1
    <3>3. i - k \in 1 .. n - k /\ (i - k) + k = i BY <1>1, <1>2, <3>2
    <3>4. a[i - k] = x BY <1>6, <3>1, <3>3
    <3> QED BY <1>7, <3>3, <3>4 DEF ToSet
  <2> QED BY <2>1, <2>2
<1>10. Sorted(a, at)
  <2> SUFFICES ASSUME NEW i \in 1 .. n - k, NEW j \in 1 .. n - k, i < j
               PROVE  at[a[i]] < at[a[j]]
      BY <1>5 DEF Sorted
  <2>1. i + k < j + k BY <1>1, <1>2
  <2> QED BY <1>6, <2>1 DEF Sorted, n
<1> QED BY <1>4, <1>5, <1>9, <1>10 DEF a, n

(* A list of the elements of ids without repetition.                       *)
Lists(seq, ids) ==
  /\ seq \in Seq(ids)
  /\ ToSet(seq) = ids
  /\ \A i, j \in 1 .. Len(seq) : seq[i] = seq[j] => i = j

LEMMA IndexFacts ==
  ASSUME NEW seq, NEW ids, Lists(seq, ids)
  PROVE  /\ Len(seq) \in Nat
         /\ \A id \in ids : IndexIn(seq, id) \in 1 .. Len(seq) /\ seq[IndexIn(seq, id)] = id
         /\ \A i \in 1 .. Len(seq) : seq[i] \in ids /\ IndexIn(seq, seq[i]) = i
         /\ \A x, y \in ids : IndexIn(seq, x) = IndexIn(seq, y) => x = y
<1>1. Len(seq) \in Nat /\ DOMAIN seq = 1 .. Len(seq) BY LenProperties DEF Lists
<1>2. ASSUME NEW id \in ids
      PROVE  IndexIn(seq, id) \in 1 .. Len(seq) /\ seq[IndexIn(seq, id)] = id
  <2>1. \E i \in 1 .. Len(seq) : seq[i] = id BY <1>1 DEF Lists, ToSet
  <2> QED BY <2>1 DEF IndexIn
<1>3. \A i \in 1 .. Len(seq) : seq[i] \in ids BY ElementOfSeq DEF Lists
<1>4. \A i \in 1 .. Len(seq) : IndexIn(seq, seq[i]) = i BY <1>2, <1>3 DEF Lists
<1> QED BY <1>1, <1>2, <1>3, <1>4

LEMMA OneList ==
  ASSUME NEW x
  PROVE  Lists(<<x>>, {x}) /\ Len(<<x>>) = 1
<1>1. Len(<<x>>) = 1 /\ <<x>> \in Seq({x}) /\ DOMAIN <<x>> = 1 .. 1 /\ <<x>>[1] = x OBVIOUS
<1>2. \A i \in 1 .. 1 : i = 1 OBVIOUS
<1>3. 1 \in 1 .. 1 OBVIOUS
<1>4. ToSet(<<x>>) = {x} BY <1>1, <1>2, <1>3 DEF ToSet
<1> QED BY <1>1, <1>2, <1>4 DEF Lists

(* The entries in the order of their arrival, each once.                   *)
LEMMA ArrivalLists ==
  ASSUME NEW map, NEW ids, IsFiniteSet(ids),
         \A id \in ids : map[id].queued_at \in Nat,
         \A x, y \in ids : map[x].queued_at = map[y].queued_at => x = y
  PROVE  Lists(InArrivalOrder(map, ids), ids)
<1> DEFINE at == [id \in ids |-> map[id].queued_at]
           rank(id) == Cardinality({x \in ids : map[x].queued_at < map[id].queued_at})
           n == Cardinality(ids)
           seq == InArrivalOrder(map, ids)
           pos == [id \in ids |-> rank(id) + 1]
<1>1. at \in [ids -> Nat] /\ \A id \in ids : at[id] = map[id].queued_at OBVIOUS
<1>2. n \in Nat BY FS_CardinalityType
<1>3. \A id \in ids : rank(id) = Cardinality(Ahead(ids, at, id))
  <2>1. \A id \in ids : {x \in ids : map[x].queued_at < map[id].queued_at}
                          = Ahead(ids, at, id)
        BY DEF Ahead
  <2> QED BY <2>1
<1> HIDE DEF at, rank
<1>4. ASSUME NEW id \in ids PROVE rank(id) \in Nat /\ rank(id) < n
  <2> DEFINE A == Ahead(ids, at, id)
  <2>1. IsFiniteSet(A) /\ A \subseteq ids /\ Cardinality(A) \in Nat BY <1>1, AheadFacts
  <2>2. id \notin A BY <1>1 DEF Ahead
  <2> HIDE DEF A
  <2>3. Cardinality(A \cup {id}) = Cardinality(A) + 1 BY <2>1, <2>2, FS_AddElement
  <2>4. A \cup {id} \in SUBSET ids BY <2>1
  <2>5. Cardinality(A \cup {id}) <= n BY <2>4, FS_Subset
  <2>6. Cardinality(A) < n BY <1>2, <2>1, <2>3, <2>5
  <2> QED BY <1>3, <2>1, <2>6 DEF A
<1>5. \A x, y \in ids : rank(x) = rank(y) => x = y
  <2> SUFFICES ASSUME NEW x \in ids, NEW y \in ids, x # y PROVE rank(x) # rank(y) OBVIOUS
  <2>1. at[x] \in Nat /\ at[y] \in Nat /\ at[x] # at[y] BY <1>1
  <2>2. at[x] < at[y] => rank(x) < rank(y) BY <1>1, <1>3, AheadFacts
  <2>3. at[y] < at[x] => rank(y) < rank(x) BY <1>1, <1>3, AheadFacts
  <2>4. rank(x) \in Nat /\ rank(y) \in Nat BY <1>4
  <2> QED BY <2>1, <2>2, <2>3, <2>4
<1>6. seq = [k \in 1 .. n |-> CHOOSE id \in ids : rank(id) = k - 1]
      BY DEF InArrivalOrder, rank
<1> HIDE DEF seq, n
<1>7. \A k \in 1 .. n : \E id \in ids : rank(id) = k - 1
  <2>1. pos \in Injection(ids, 1 .. n)
    <3>1. pos \in [ids -> 1 .. n] BY <1>2, <1>4
    <3>2. \A x, y \in ids : pos[x] = pos[y] => x = y BY <1>4, <1>5
    <3> HIDE DEF pos
    <3> QED BY <3>1, <3>2 DEF Injection, IsInjective
  <2>2. IsFiniteSet(1 .. n) /\ Cardinality(1 .. n) = n BY <1>2, FS_Interval
  <2>3. pos \in Surjection(ids, 1 .. n)
    <3> HIDE DEF pos
    <3> QED BY <2>1, <2>2, FS_Injection DEF n
  <2>4. \A k \in 1 .. n : \E id \in ids : pos[id] = k
    <3> HIDE DEF pos
    <3> QED BY <2>3 DEF Surjection
  <2>5. \A id \in ids : pos[id] = rank(id) + 1 OBVIOUS
  <2> HIDE DEF pos
  <2> SUFFICES ASSUME NEW k \in 1 .. n PROVE \E id \in ids : rank(id) = k - 1 OBVIOUS
  <2>6. PICK id \in ids : pos[id] = k BY <2>4
  <2>7. rank(id) + 1 = k /\ rank(id) \in Nat BY <1>4, <2>5, <2>6
  <2>8. rank(id) = k - 1 BY <2>7
  <2> QED BY <2>8
<1>8. \A k \in 1 .. n : seq[k] \in ids /\ rank(seq[k]) = k - 1
  <2> SUFFICES ASSUME NEW k \in 1 .. n PROVE seq[k] \in ids /\ rank(seq[k]) = k - 1
      OBVIOUS
  <2>1. seq[k] = CHOOSE id \in ids : rank(id) = k - 1 BY <1>6
  <2>2. \E id \in ids : rank(id) = k - 1 BY <1>7
  <2> QED BY <2>1, <2>2
<1>9. seq \in [1 .. n -> ids] BY <1>6, <1>8
<1>10. seq \in Seq(ids) BY <1>2, <1>9, IsASeq
<1>11. Len(seq) = n /\ DOMAIN seq = 1 .. n
  <2>1. DOMAIN seq = 1 .. n BY <1>9
  <2>2. Len(seq) \in Nat /\ DOMAIN seq = 1 .. Len(seq) BY <1>10, LenProperties
  <2> QED BY <1>2, <2>1, <2>2
<1>12. \A i, j \in 1 .. Len(seq) : seq[i] = seq[j] => i = j
  <2> SUFFICES ASSUME NEW i \in 1 .. n, NEW j \in 1 .. n, seq[i] = seq[j] PROVE i = j
      BY <1>11
  <2>1. i - 1 = j - 1 BY <1>8
  <2> QED BY <1>2, <2>1
<1>13. \A id \in ids : \E k \in 1 .. n : seq[k] = id
  <2> SUFFICES ASSUME NEW id \in ids PROVE \E k \in 1 .. n : seq[k] = id OBVIOUS
  <2>1. rank(id) + 1 \in 1 .. n /\ (rank(id) + 1) - 1 = rank(id) BY <1>2, <1>4
  <2>2. rank(seq[rank(id) + 1]) = rank(id) /\ seq[rank(id) + 1] \in ids BY <1>8, <2>1
  <2> QED BY <1>5, <2>1, <2>2
<1>14. ToSet(seq) = ids BY <1>8, <1>11, <1>13 DEF ToSet
<1> QED BY <1>10, <1>12, <1>14 DEF Lists, seq

----------------------------------------------------------------------------
(* The invariant of the methods.                                           *)

(* An active record: what its counts are is Flight's concern.              *)
ActiveRow ==
  [req : Request, cancelled : BOOLEAN, reply : BOOLEAN, deadline : BOOLEAN,
   handle_only : BOOLEAN, definition_background : BOOLEAN, generation : Nat,
   finalizing : BOOLEAN, in_flight : Int, clean : BOOLEAN,
   reporter_waits : BOOLEAN, wake : CompletedChild \cup {None}]

(* A wake has no caller and belongs to no workflow.                        *)
Quiet(map) ==
  \A id \in DOMAIN map :
    map[id].wake # None => ~ map[id].reply /\ map[id].req.workflow = None

(* The records of the maps.                                                *)
Maps(s) ==
  /\ DOMAIN s = Fields
  /\ MapOf(s.queued, QueuedSpawn) /\ Quiet(s.queued)
  /\ MapOf(s.pending, PendingChild) /\ Quiet(s.pending)
  /\ MapOf(s.active, ActiveRow) /\ Quiet(s.active)
  /\ MapOf(s.completed, CompletedChild)
  /\ Distinct(s)

Outcomes == {"none", "waiting", "Accepted", "Refused", "Uncertain"}

Channels == {"none", "listening", "answered", "gone"}

(* The other fields have their type.                                       *)
Values(s) ==
  /\ MapOf(s.terminal_outputs, BOOLEAN)
  /\ s.next_completion_age \in Nat /\ s.next_generation \in Nat
  /\ s.waiters \subseteq [query : Queries, id : Ids]
  /\ s.progress \subseteq [query : Queries, id : Ids]
  /\ s.drain_waiters \subseteq [session : Sessions, prompt : Prompts]
  /\ s.workflow_cancel_waiters \subseteq Runs
  /\ s.teardown_drains \subseteq Sessions
  /\ s.spawn_blocked_sessions \subseteq Sessions
  /\ s.runs \subseteq Ids
  /\ s.publications \subseteq
       [id : Ids, age : Nat, stage : {"presenting", "stored", "sent"}]
  /\ s.caller \in [Ids -> Channels]
  /\ s.query \in [Queries -> Channels]
  /\ s.outcome \in [Messages -> Outcomes]

(* T tells what the children in transit were taken out with.               *)
Transit(T) ==
  /\ DOMAIN T \subseteq Ids
  /\ \A id \in DOMAIN T : /\ T[id].req \in Request /\ T[id].reply \in BOOLEAN
                          /\ T[id].wake \in CompletedChild \cup {None}
  /\ Quiet(T)

(* A node for each child that has a home or is in transit, and no other.   *)
Nodes(s, T) ==
  /\ MapOf(s.graph, SpawnNode)
  /\ DOMAIN s.graph = Live(s) \cup DOMAIN s.completed \cup DOMAIN T

Replying(map) == {id \in DOMAIN map : map[id].reply}

(* Whoever listens will be answered.                                       *)
Attended(s, T) ==
  /\ \A w \in s.waiters : w.id \in Live(s) \cup DOMAIN T
  /\ \A q \in Queries : s.query[q] = "listening" =>
       \E w \in s.waiters \cup s.progress : w.query = q
  /\ \A id \in Ids : s.caller[id] = "listening" =>
       \/ id \in Replying(s.queued)
       \/ id \in Replying(s.pending)
       \/ id \in Replying(s.active)
       \/ id \in Replying(T)

(* The requester of a workflow's cancellation waits for one of its         *)
(* children.                                                               *)
Awaited(s, T) ==
  \A r \in s.workflow_cancel_waiters :
    OfRun(s.pending, r) # {} \/ OfRun(s.active, r) # {} \/ OfRun(T, r) # {}

Displaces(map, id, a) ==
  id \in DOMAIN map /\ map[id].wake # None /\ map[id].wake.age = a

(* A record of id completed at the age a: it is kept, or a wake that is    *)
(* not over has displaced it.                                              *)
HasAge(s, T, id, a) ==
  \/ id \in DOMAIN s.completed /\ s.completed[id].age = a
  \/ Displaces(s.queued, id, a)
  \/ Displaces(s.pending, id, a)
  \/ Displaces(s.active, id, a)
  \/ Displaces(T, id, a)

(* Completion ages are in the past, and no two records have the same.      *)
Dated(s, T) ==
  /\ \A id, a : HasAge(s, T, id, a) => a < s.next_completion_age
  /\ \A x, y, a : HasAge(s, T, x, a) /\ HasAge(s, T, y, a) => x = y

Ages(map) == [id \in DOMAIN map |-> map[id].age]

(* The retention queue has each record once, the oldest first.             *)
Ordered(s) ==
  /\ s.completed_order \in Seq(DOMAIN s.completed)
  /\ ToSet(s.completed_order) = DOMAIN s.completed
  /\ Sorted(s.completed_order, Ages(s.completed))

Registry(s, T) ==
  /\ Apart(s, DOMAIN T) /\ Transit(T)
  /\ Maps(s) /\ Values(s)
  /\ Nodes(s, T) /\ Attended(s, T) /\ Awaited(s, T)
  /\ Dated(s, T) /\ Ordered(s)

----------------------------------------------------------------------------
(* What becomes of the completed records.                                  *)

(* There is a record of id that completed at the age a or later.           *)
Found(s, T, id, a) ==
  /\ a < s.next_completion_age
  /\ \E b \in Nat : b >= a /\ HasAge(s, T, id, b)

(* The retention window has passed the age a.                              *)
Outdated(s, a) == s.next_completion_age - a > MaxCompleted

(* From s, with T in transit, to t, with U: no completed record leaves the *)
(* map, and of a child that had a record one is found, or its age is       *)
(* outside the window.                                                     *)
Lasts(s, T, t, U) ==
  /\ s.next_completion_age \in Nat /\ t.next_completion_age \in Nat
  /\ s.next_completion_age <= t.next_completion_age
  /\ \A id \in DOMAIN s.completed :
       id \in DOMAIN t.completed /\ t.completed[id] = s.completed[id]
  /\ \A id : \A a \in Nat :
       Found(s, T, id, a) => Found(t, U, id, a) \/ Outdated(t, a)

LEMMA LastsTrans ==
  ASSUME NEW s, NEW T, NEW t, NEW U, NEW u, NEW V, Lasts(s, T, t, U), Lasts(t, U, u, V)
  PROVE  Lasts(s, T, u, V)
<1>1. MaxCompleted \in Nat BY ConstantsAssumption
<1>2. \A a \in Nat : Outdated(t, a) => Outdated(u, a) BY <1>1 DEF Lasts, Outdated
<1>3. \A id : \A a \in Nat :
        Found(s, T, id, a) => Found(u, V, id, a) \/ Outdated(u, a)
      BY <1>2 DEF Lasts
<1> QED BY <1>3 DEF Lasts

(* Records that move, and none that is new.                                *)
LEMMA MovesLast ==
  ASSUME NEW s, NEW T, NEW t, NEW U, Registry(s, T),
         t.next_completion_age = s.next_completion_age,
         \A id \in DOMAIN s.completed :
           id \in DOMAIN t.completed /\ t.completed[id] = s.completed[id],
         \A id, a : HasAge(s, T, id, a) => HasAge(t, U, id, a)
  PROVE  Lasts(s, T, t, U)
<1>1. s.next_completion_age \in Nat BY DEF Registry, Values
<1>2. \A id : \A a \in Nat : Found(s, T, id, a) => Found(t, U, id, a) BY DEF Found
<1> QED BY <1>1, <1>2 DEF Lasts

(* Nothing is in transit, before or after.                                 *)
Upholds(s, t) == Registry(t, NoMap) /\ Lasts(s, NoMap, t, NoMap)

LEMMA UpholdsTrans ==
  ASSUME NEW s, NEW t, NEW u, Upholds(s, t), Upholds(t, u)
  PROVE  Upholds(s, u)
BY LastsTrans DEF Upholds

LEMMA UpholdsSelf ==
  ASSUME NEW s, Registry(s, NoMap)
  PROVE  Upholds(s, s)
BY MovesLast DEF Upholds

(* A restored state: a displaced record is back, or outside the window     *)
(* that ends at now[id].                                                   *)
Restores(s, T, t, U, now) ==
  /\ t.next_completion_age = s.next_completion_age
  /\ \A id \in DOMAIN s.completed :
       id \in DOMAIN t.completed /\ t.completed[id] = s.completed[id]
  /\ \A id, b : HasAge(s, T, id, b) =>
       HasAge(t, U, id, b) \/ (id \in DOMAIN now /\ now[id] - b > MaxCompleted)

(* Whatever happens next, as long as it files enough completions.          *)
LEMMA RestoresLast ==
  ASSUME NEW s, NEW T, NEW t, NEW U, NEW u, NEW V, NEW now,
         Registry(s, T), Restores(s, T, t, U, now), Lasts(t, U, u, V),
         \A id \in DOMAIN now : now[id] \in Nat /\ now[id] <= u.next_completion_age
  PROVE  Lasts(s, T, u, V)
<1>1. MaxCompleted \in Nat BY ConstantsAssumption
<1>2. /\ s.next_completion_age \in Nat /\ u.next_completion_age \in Nat
      /\ s.next_completion_age <= u.next_completion_age
      BY DEF Restores, Lasts
<1>3. \A id \in DOMAIN s.completed :
        id \in DOMAIN u.completed /\ u.completed[id] = s.completed[id]
      BY DEF Restores, Lasts
<1>4. ASSUME NEW id, NEW a \in Nat, Found(s, T, id, a)
      PROVE  Found(u, V, id, a) \/ Outdated(u, a)
  <2>1. a < s.next_completion_age BY <1>4 DEF Found
  <2>2. PICK b \in Nat : b >= a /\ HasAge(s, T, id, b) BY <1>4 DEF Found
  <2>3. CASE HasAge(t, U, id, b)
    <3>1. Found(t, U, id, a) BY <2>1, <2>2, <2>3 DEF Found, Restores
    <3> QED BY <3>1 DEF Lasts
  <2>4. CASE id \in DOMAIN now /\ now[id] - b > MaxCompleted
    BY <1>1, <1>2, <2>2, <2>4 DEF Outdated
  <2> QED BY <2>2, <2>3, <2>4 DEF Restores
<1> QED BY <1>2, <1>3, <1>4 DEF Lasts

----------------------------------------------------------------------------
(* Frames.                                                                 *)

(* t differs from s in nothing that Registry relates.                      *)
Calm(s, t) ==
  /\ DOMAIN t = Fields
  /\ t.queued = s.queued /\ t.pending = s.pending /\ t.active = s.active
  /\ t.completed = s.completed /\ t.completed_order = s.completed_order
  /\ t.next_completion_age = s.next_completion_age
  /\ t.graph = s.graph
  /\ t.waiters = s.waiters /\ t.progress = s.progress
  /\ t.query = s.query /\ t.caller = s.caller
  /\ t.workflow_cancel_waiters = s.workflow_cancel_waiters
  /\ Held(s) => Held(t)
  /\ Values(s) => Values(t)

LEMMA CalmRegistry ==
  ASSUME NEW s, NEW t, NEW T, Registry(s, T), Calm(s, t)
  PROVE  Registry(t, T) /\ Lasts(s, T, t, T)
<1>1. Apart(t, DOMAIN T) BY DEF Registry, Apart, Calm
<1>2. Maps(t) BY DEF Registry, Maps, Calm, Distinct
<1>3. Values(t) BY DEF Registry, Calm
<1>4. Nodes(t, T) BY DEF Registry, Nodes, Calm, Live
<1>5. Attended(t, T) BY DEF Registry, Attended, Calm, Live
<1>6. Awaited(t, T) BY DEF Registry, Awaited, Calm
<1>7. \A id, a : HasAge(t, T, id, a) <=> HasAge(s, T, id, a) BY DEF HasAge, Calm
<1>8. Dated(t, T) BY <1>7 DEF Registry, Dated, Calm
<1>9. Ordered(t) BY DEF Registry, Ordered, Calm
<1>10. Lasts(s, T, t, T) BY <1>7, MovesLast DEF Calm
<1> QED BY <1>1, <1>2, <1>3, <1>4, <1>5, <1>6, <1>8, <1>9, <1>10 DEF Registry

LEMMA CalmUpholds ==
  ASSUME NEW s, NEW t, Registry(s, NoMap), Calm(s, t)
  PROVE  Upholds(s, t)
BY CalmRegistry DEF Upholds

LEMMA CalmTrans ==
  ASSUME NEW s, NEW t, NEW u, Calm(s, t), Calm(t, u)
  PROVE  Calm(s, u)
BY DEF Calm

LEMMA AnswerCalm ==
  ASSUME NEW s, DOMAIN s = Fields, NEW msgs, NEW how \in Outcomes
  PROVE  Calm(s, Answer(s, msgs, how))
<1> DEFINE t == Answer(s, msgs, how)
<1>1. /\ DOMAIN t = Fields
      /\ \A f \in Fields \ {"outcome"} : t[f] = s[f]
      /\ t.outcome = [m \in Messages |-> IF m \in msgs THEN how ELSE s.outcome[m]]
      BY DEF Answer, Fields
<1> HIDE DEF t
<1>2. Values(s) => t.outcome \in [Messages -> Outcomes] BY <1>1 DEF Values
<1>3. Calm(s, t) BY <1>1, <1>2 DEF Calm, Values, Held, Fields
<1> QED BY <1>3 DEF t

LEMMA RejectSpawnReadyCalm ==
  ASSUME NEW s, DOMAIN s = Fields, NEW ids
  PROVE  Calm(s, reject_spawn_ready_ids(s, ids))
<1> DEFINE doomed == {m \in s.spawn_ready : m.id \in ids}
           t == [s EXCEPT !.spawn_ready = @ \ doomed]
<1>1. /\ DOMAIN t = Fields
      /\ \A f \in Fields \ {"spawn_ready"} : t[f] = s[f]
      BY DEF Fields
<1>2. reject_spawn_ready_ids(s, ids) = Answer(t, MsgsOf(doomed), "Refused")
      BY DEF reject_spawn_ready_ids
<1> HIDE DEF t, doomed
<1>3. Calm(s, t) BY <1>1 DEF Calm, Values, Held, Fields
<1>4. Calm(t, Answer(t, MsgsOf(doomed), "Refused")) BY <1>1, AnswerCalm DEF Outcomes
<1> QED BY <1>2, <1>3, <1>4, CalmTrans

LEMMA RejectPendingWakesCalm ==
  ASSUME NEW s, DOMAIN s = Fields, NEW ids
  PROVE  Calm(s, reject_pending_wakes_for_ids(s, ids))
<1> DEFINE doomed == {m \in s.pending_wakes : m.id \in ids}
           t == [s EXCEPT !.pending_wakes = @ \ doomed]
<1>1. /\ DOMAIN t = Fields
      /\ \A f \in Fields \ {"pending_wakes"} : t[f] = s[f]
      BY DEF Fields
<1>2. reject_pending_wakes_for_ids(s, ids) = Answer(t, MsgsOf(doomed), "Refused")
      BY DEF reject_pending_wakes_for_ids
<1> HIDE DEF t, doomed
<1>3. Calm(s, t) BY <1>1 DEF Calm, Values, Held, Fields
<1>4. Calm(t, Answer(t, MsgsOf(doomed), "Refused")) BY <1>1, AnswerCalm DEF Outcomes
<1> QED BY <1>2, <1>3, <1>4, CalmTrans

LEMMA TeardownDrainCalm ==
  ASSUME NEW s, DOMAIN s = Fields, NEW ps
  PROVE  Calm(s, resolve_teardown_drain_waiters(s, ps)) /\ Calm(s, clear_teardown_drain(s, ps))
<1>1. \A S : Calm(s, clear_teardown_drain(s, S))
  <2> TAKE S
  <2> DEFINE t == clear_teardown_drain(s, S)
  <2>1. /\ DOMAIN t = Fields
        /\ \A f \in Fields \ {"teardown_drains", "spawn_blocked_sessions"} : t[f] = s[f]
        /\ t.teardown_drains = s.teardown_drains \ S
        /\ t.spawn_blocked_sessions = s.spawn_blocked_sessions \ S
        BY DEF clear_teardown_drain, Fields
  <2> HIDE DEF t
  <2>2. Calm(s, t) BY <2>1 DEF Calm, Values, Held, Fields
  <2> QED BY <2>2 DEF t
<1> QED BY <1>1 DEF resolve_teardown_drain_waiters

(* Resolving the queries on a set of children.                             *)
LEMMA ResolveWaitersFacts ==
  ASSUME NEW s, DOMAIN s = Fields, NEW ids
  PROVE  LET t == resolve_waiters(s, ids)
         IN  /\ DOMAIN t = Fields
             /\ \A f \in Fields \ {"waiters", "query"} : t[f] = s[f]
             /\ t.waiters = {w \in s.waiters : w.id \notin ids}
             /\ Values(s) => t.query \in [Queries -> Channels]
             /\ \A q \in Queries : t.query[q] = "listening" =>
                  s.query[q] = "listening" /\ \A w \in s.waiters : w.query = q => w.id \notin ids
<1> DEFINE due == {w \in s.waiters : w.id \in ids}
           now == [q \in Queries |->
                     IF (\E w \in due : w.query = q) /\ s.query[q] = "listening"
                     THEN "answered" ELSE s.query[q]]
           t == resolve_waiters(s, ids)
<1>1. /\ DOMAIN t = Fields
      /\ \A f \in Fields \ {"waiters", "query"} : t[f] = s[f]
      /\ t.waiters = s.waiters \ due
      /\ t.query = now
      BY DEF resolve_waiters, Fields
<1>2. s.waiters \ due = {w \in s.waiters : w.id \notin ids} OBVIOUS
<1>3. Values(s) => now \in [Queries -> Channels]
  <2>1. Values(s) => \A q \in Queries : s.query[q] \in Channels BY DEF Values
  <2> QED BY <2>1 DEF Channels
<1>4. \A q \in Queries : now[q] = "listening" =>
        s.query[q] = "listening" /\ \A w \in s.waiters : w.query = q => w.id \notin ids
      OBVIOUS
<1> HIDE DEF t, now
<1> QED BY <1>1, <1>2, <1>3, <1>4 DEF t

(* Ages are natural numbers, of children.                                  *)
LEMMA AgeType ==
  ASSUME NEW s, NEW T, Maps(s), Transit(T), NEW id, NEW a, HasAge(s, T, id, a)
  PROVE  a \in Nat /\ id \in Ids
<1>1. \A r \in CompletedChild : r.age \in Nat BY DEF CompletedChild
<1>2. CASE id \in DOMAIN s.completed /\ s.completed[id].age = a
      BY <1>1, <1>2 DEF Maps, MapOf
<1>3. CASE Displaces(s.queued, id, a)
      BY <1>1, <1>3 DEF Maps, MapOf, Displaces, QueuedSpawn
<1>4. CASE Displaces(s.pending, id, a)
      BY <1>1, <1>4 DEF Maps, MapOf, Displaces, PendingChild
<1>5. CASE Displaces(s.active, id, a)
      BY <1>1, <1>5 DEF Maps, MapOf, Displaces, ActiveRow
<1>6. CASE Displaces(T, id, a)
      BY <1>1, <1>6 DEF Transit, Displaces
<1> QED BY <1>2, <1>3, <1>4, <1>5, <1>6 DEF HasAge

LEMMA WithoutFacts ==
  ASSUME NEW f, NEW S
  PROVE  /\ DOMAIN Without(f, S) = DOMAIN f \ S
         /\ \A x \in DOMAIN f \ S : Without(f, S)[x] = f[x]
BY DEF Without

LEMMA RestrictFacts ==
  ASSUME NEW f, NEW S
  PROVE  /\ DOMAIN Restrict(f, S) = S
         /\ \A x \in S : Restrict(f, S)[x] = f[x]
BY DEF Restrict

LEMMA OverlayFacts ==
  ASSUME NEW f, NEW g
  PROVE  /\ DOMAIN Overlay(f, g) = DOMAIN f \cup DOMAIN g
         /\ \A x \in DOMAIN g : Overlay(f, g)[x] = g[x]
         /\ \A x \in DOMAIN f : x \notin DOMAIN g => Overlay(f, g)[x] = f[x]
BY DEF Overlay

LEMMA TransitWithout ==
  ASSUME NEW T, NEW S, Transit(T)
  PROVE  Transit(Without(T, S))
<1> DEFINE U == Without(T, S)
<1>1. DOMAIN U = DOMAIN T \ S /\ \A x \in DOMAIN T \ S : U[x] = T[x] BY WithoutFacts
<1> HIDE DEF U
<1>2. Transit(U) BY <1>1 DEF Transit, Quiet
<1> QED BY <1>2 DEF U

(* Who is told of a completion ends up in the buffer, and records that are *)
(* filed are the youngest.                                                 *)
LEMMA FileRegistry ==
  ASSUME NEW s, NEW T, Registry(s, T),
         NEW recs, DOMAIN recs \subseteq DOMAIN T,
         \A id \in DOMAIN recs : /\ recs[id].req = T[id].req
                                 /\ recs[id].reply = T[id].reply
                                 /\ recs[id].address \in BOOLEAN
                                 /\ recs[id].started \in BOOLEAN,
         NEW seq, Lists(seq, DOMAIN recs)
  PROVE  LET u == file_completions(s, recs, seq)
             U == Without(T, DOMAIN recs)
         IN  /\ Registry(u, U) /\ Lasts(s, T, u, U)
             /\ u.next_completion_age = s.next_completion_age + Len(seq)
<1> DEFINE ids == DOMAIN recs
           age(id) == s.next_completion_age + IndexIn(seq, id) - 1
           buffered == buffer_completion(s, [id \in ids |-> recs[id].req], seq)
           w == resolve_waiters(s, ids)
           told == [id \in Ids |->
                      IF id \in ids /\ recs[id].reply /\ s.caller[id] = "listening"
                      THEN "answered" ELSE s.caller[id]]
           done == [id \in ids |->
                      [req |-> recs[id].req, age |-> age(id), published |-> FALSE,
                       address |-> recs[id].address, started |-> recs[id].started]]
           shown == {[id |-> id, age |-> age(id), stage |-> "presenting"] : id \in ids}
           filed == [w EXCEPT
             !.caller = told,
             !.pending_completions = purge_completions_for_spawner(buffered, ids),
             !.completed = Overlay(@, done),
             !.completed_order = @ \o seq,
             !.next_completion_age = @ + Len(seq),
             !.publications = @ \cup shown]
           W == {recs[id].req.workflow : id \in ids}
           t == resolve_workflow_cancel_waiters(filed, W)
           u == resolve_teardown_drain_waiters(t, {recs[id].req.session : id \in ids})
           U == Without(T, ids)
           now == s.next_completion_age
<1>1. file_completions(s, recs, seq) = u BY DEF file_completions
<1>2. DOMAIN s = Fields BY DEF Registry, Maps
<1>3. /\ DOMAIN w = Fields
      /\ \A f \in Fields \ {"waiters", "query"} : w[f] = s[f]
      /\ w.waiters = {x \in s.waiters : x.id \notin ids}
      /\ Values(s) => w.query \in [Queries -> Channels]
      /\ \A q \in Queries : w.query[q] = "listening" =>
           s.query[q] = "listening" /\ \A x \in s.waiters : x.query = q => x.id \notin ids
      BY <1>2, ResolveWaitersFacts
<1>4. /\ DOMAIN t = Fields
      /\ t.queued = s.queued /\ t.pending = s.pending /\ t.active = s.active
      /\ t.graph = s.graph /\ t.progress = s.progress
      /\ t.terminal_outputs = s.terminal_outputs
      /\ t.next_generation = s.next_generation /\ t.drain_waiters = s.drain_waiters
      /\ t.teardown_drains = s.teardown_drains
      /\ t.spawn_blocked_sessions = s.spawn_blocked_sessions
      /\ t.runs = s.runs /\ t.outcome = s.outcome
      /\ t.waiters = w.waiters /\ t.query = w.query
      /\ t.caller = told
      /\ t.completed = Overlay(s.completed, done)
      /\ t.completed_order = s.completed_order \o seq
      /\ t.next_completion_age = now + Len(seq)
      /\ t.publications = s.publications \cup shown
  <2> HIDE DEF w, told, done, shown, buffered
  <2>1. /\ DOMAIN filed = Fields
        /\ \A f \in Fields \ {"caller", "pending_completions", "completed", "completed_order",
                              "next_completion_age", "publications"} : filed[f] = w[f]
        /\ filed.caller = told
        /\ filed.completed = Overlay(w.completed, done)
        /\ filed.completed_order = w.completed_order \o seq
        /\ filed.next_completion_age = w.next_completion_age + Len(seq)
        /\ filed.publications = w.publications \cup shown
        BY <1>3 DEF Fields
  <2> HIDE DEF filed
  <2>2. /\ DOMAIN t = Fields
        /\ \A f \in Fields \ {"workflow_cancel_waiters"} : t[f] = filed[f]
        BY <2>1 DEF resolve_workflow_cancel_waiters, Fields
  <2> HIDE DEF t
  <2>3. /\ DOMAIN t = Fields
        /\ \A f \in Fields \ {"waiters", "query", "caller", "pending_completions",
                              "completed", "completed_order", "next_completion_age",
                              "publications", "workflow_cancel_waiters"} : t[f] = s[f]
        BY <1>3, <2>1, <2>2
  <2>4. /\ t.queued = s.queued /\ t.pending = s.pending /\ t.active = s.active
        /\ t.graph = s.graph /\ t.progress = s.progress
        /\ t.terminal_outputs = s.terminal_outputs
        /\ t.next_generation = s.next_generation /\ t.drain_waiters = s.drain_waiters
        /\ t.teardown_drains = s.teardown_drains
        /\ t.spawn_blocked_sessions = s.spawn_blocked_sessions
        /\ t.runs = s.runs /\ t.outcome = s.outcome
        BY <2>3 DEF Fields
  <2>5. /\ t.waiters = filed.waiters /\ t.query = filed.query
        /\ t.caller = filed.caller /\ t.completed = filed.completed
        /\ t.completed_order = filed.completed_order
        /\ t.next_completion_age = filed.next_completion_age
        /\ t.publications = filed.publications
        BY <2>2 DEF Fields
  <2>6. filed.waiters = w.waiters /\ filed.query = w.query BY <2>1 DEF Fields
  <2>7. /\ w.completed = s.completed /\ w.completed_order = s.completed_order
        /\ w.next_completion_age = s.next_completion_age
        /\ w.publications = s.publications
        BY <1>3 DEF Fields
  <2> QED BY <2>1, <2>2, <2>4, <2>5, <2>6, <2>7
<1>5. \A r \in t.workflow_cancel_waiters :
        /\ r \in s.workflow_cancel_waiters
        /\ r \in W => OfRun(s.pending, r) # {} \/ OfRun(s.active, r) # {}
  <2> HIDE DEF w, told, done, shown, buffered, W
  <2>1. /\ DOMAIN filed = Fields
        /\ \A f \in {"pending", "active", "workflow_cancel_waiters"} : filed[f] = w[f]
        BY <1>3 DEF Fields
  <2> HIDE DEF filed
  <2>2. t.workflow_cancel_waiters =
          {r \in filed.workflow_cancel_waiters :
             r \in W => OfRun(filed.pending, r) \cup OfRun(filed.active, r) # {}}
        BY <2>1 DEF resolve_workflow_cancel_waiters, workflow_outstanding, Fields
  <2>3. /\ filed.pending = s.pending /\ filed.active = s.active
        /\ filed.workflow_cancel_waiters = s.workflow_cancel_waiters
        BY <1>3, <2>1 DEF Fields
  <2> HIDE DEF t
  <2> QED BY <2>2, <2>3
<1>6. /\ ids \subseteq Ids /\ now \in Nat
      /\ Len(seq) \in Nat
      /\ \A id \in ids : IndexIn(seq, id) \in 1 .. Len(seq) /\ seq[IndexIn(seq, id)] = id
      /\ \A i \in 1 .. Len(seq) : seq[i] \in ids /\ IndexIn(seq, seq[i]) = i
      /\ \A x, y \in ids : IndexIn(seq, x) = IndexIn(seq, y) => x = y
  <2>1. ids \subseteq Ids /\ now \in Nat BY DEF Registry, Transit, Values
  <2> QED BY <2>1, IndexFacts
<1>7. \A id \in ids : age(id) \in Nat /\ age(id) >= now /\ age(id) < now + Len(seq)
      BY <1>6
<1>8. /\ DOMAIN done = ids
      /\ \A id \in ids : done[id] \in CompletedChild /\ done[id].age = age(id)
      BY <1>7 DEF Registry, Transit, CompletedChild
<1>9. shown \subseteq [id : Ids, age : Nat, stage : {"presenting", "stored", "sent"}]
      BY <1>6, <1>7
<1>10. /\ told \in [Ids -> Channels]
       /\ \A id \in Ids : told[id] = "listening" =>
            s.caller[id] = "listening" /\ ~ (id \in ids /\ recs[id].reply)
  <2>1. \A id \in Ids : s.caller[id] \in Channels BY DEF Registry, Values
  <2> QED BY <2>1 DEF Channels
<1>11. DOMAIN U = DOMAIN T \ ids /\ \A x \in DOMAIN T \ ids : U[x] = T[x]
       BY WithoutFacts
<1>12. /\ DOMAIN t.completed = DOMAIN s.completed \cup ids
       /\ \A id \in ids : t.completed[id] = done[id]
       /\ \A id \in DOMAIN s.completed : id \notin ids /\ t.completed[id] = s.completed[id]
  <2>1. DOMAIN s.completed \cap ids = {} BY DEF Registry, Apart
  <2> HIDE DEF done, t, ids
  <2>2. t.completed = Overlay(s.completed, done) BY <1>4
  <2>3. /\ DOMAIN Overlay(s.completed, done) = DOMAIN s.completed \cup DOMAIN done
        /\ \A x \in DOMAIN done : Overlay(s.completed, done)[x] = done[x]
        /\ \A x \in DOMAIN s.completed : x \notin DOMAIN done =>
             Overlay(s.completed, done)[x] = s.completed[x]
        BY OverlayFacts
  <2>4. DOMAIN done = ids BY <1>8
  <2> QED BY <2>1, <2>2, <2>3, <2>4
<1>13. \A id \in ids : T[id].req.workflow \in W /\ recs[id].reply = T[id].reply
       OBVIOUS
<1>14. Transit(U) BY TransitWithout DEF Registry
<1> HIDE DEF t, w, told, done, shown, U, W, age
<1>15. Apart(t, DOMAIN U) BY <1>4, <1>11, <1>12 DEF Registry, Apart, Held
<1>16. Maps(t)
  <2>1. MapOf(t.completed, CompletedChild)
        BY <1>6, <1>8, <1>12 DEF Registry, Maps, MapOf
  <2> QED BY <1>4, <2>1 DEF Registry, Maps, Distinct
<1>17. Values(t)
  <2>1. now + Len(seq) \in Nat BY <1>6
  <2>2. t.waiters \subseteq s.waiters BY <1>3, <1>4
  <2>3. t.workflow_cancel_waiters \subseteq s.workflow_cancel_waiters BY <1>5
  <2>4. Values(s) BY DEF Registry
  <2>5. t.query \in [Queries -> Channels] BY <1>3, <1>4, <2>4
  <2> HIDE DEF ids, now
  <2> QED BY <1>4, <1>9, <1>10, <2>1, <2>2, <2>3, <2>4, <2>5 DEF Values
<1>18. Nodes(t, U) BY <1>4, <1>11, <1>12 DEF Registry, Nodes, Live
<1>19. Attended(t, U)
  <2>1. \A x \in t.waiters : x.id \in Live(t) \cup DOMAIN U
        BY <1>3, <1>4, <1>11 DEF Registry, Attended, Live
  <2>2. ASSUME NEW q \in Queries, t.query[q] = "listening"
        PROVE  \E x \in t.waiters \cup t.progress : x.query = q
    <3>1. PICK x \in s.waiters \cup s.progress : x.query = q
          BY <1>3, <1>4, <2>2 DEF Registry, Attended
    <3>2. x \in t.waiters \cup t.progress BY <1>3, <1>4, <2>2, <3>1
    <3> QED BY <3>1, <3>2
  <2>3. ASSUME NEW id \in Ids, t.caller[id] = "listening"
        PROVE  \/ id \in Replying(t.queued) \/ id \in Replying(t.pending)
               \/ id \in Replying(t.active) \/ id \in Replying(U)
    <3>1. s.caller[id] = "listening" /\ ~ (id \in ids /\ recs[id].reply)
          BY <1>4, <1>10, <2>3
    <3>2. id \in Replying(T) => id \in Replying(U)
          BY <1>11, <1>13, <3>1 DEF Replying
    <3> QED BY <1>4, <3>1, <3>2 DEF Registry, Attended
  <2> QED BY <2>1, <2>2, <2>3 DEF Attended
<1>20. Awaited(t, U)
  <2> SUFFICES ASSUME NEW r \in t.workflow_cancel_waiters
               PROVE  OfRun(t.pending, r) # {} \/ OfRun(t.active, r) # {} \/ OfRun(U, r) # {}
      BY DEF Awaited
  <2>1. CASE r \in W BY <1>4, <1>5, <2>1
  <2>2. CASE r \notin W
    <3>1. OfRun(T, r) \subseteq OfRun(U, r) BY <1>11, <1>13, <2>2 DEF OfRun
    <3> QED BY <1>4, <1>5, <3>1 DEF Registry, Awaited
  <2> QED BY <2>1, <2>2
<1>21. \A id, a : HasAge(t, U, id, a) =>
         HasAge(s, T, id, a) \/ (id \in ids /\ a = age(id))
       BY <1>4, <1>8, <1>11, <1>12 DEF HasAge, Displaces
<1>22. \A id, a : HasAge(s, T, id, a) => a \in Nat /\ a < now
       BY AgeType DEF Registry, Dated
<1>23. \A x, y \in ids : age(x) = age(y) => x = y BY <1>6 DEF age
<1>24. Dated(t, U)
  <2>1. ASSUME NEW id, NEW a, HasAge(t, U, id, a) PROVE a < t.next_completion_age
    <3>1. CASE HasAge(s, T, id, a)
      <4>1. a \in Nat /\ a < now BY <1>22, <3>1
      <4> QED BY <1>4, <1>6, <4>1
    <3>2. CASE id \in ids /\ a = age(id) BY <1>4, <1>7, <3>2
    <3> QED BY <1>21, <2>1, <3>1, <3>2
  <2>2. ASSUME NEW x, NEW y, NEW a, HasAge(t, U, x, a), HasAge(t, U, y, a) PROVE x = y
    <3>1. CASE HasAge(s, T, x, a) /\ HasAge(s, T, y, a) BY <3>1 DEF Registry, Dated
    <3>2. CASE x \in ids /\ a = age(x) /\ y \in ids /\ a = age(y) BY <1>23, <3>2
    <3>3. ASSUME NEW z \in ids, a = age(z) PROVE ~ (a \in Nat /\ a < now)
          BY <1>6, <1>7, <3>3
    <3> QED BY <1>21, <1>22, <2>2, <3>1, <3>2, <3>3
  <2> QED BY <2>1, <2>2 DEF Dated
<1>25. Ordered(t)
  <2> DEFINE D == DOMAIN t.completed
             at == Ages(t.completed)
  <2>1. at \in [D -> Nat] BY <1>16 DEF Maps, MapOf, CompletedChild, Ages
  <2>2. /\ \A id \in ids : at[id] = age(id)
        /\ \A id \in DOMAIN s.completed : at[id] = Ages(s.completed)[id]
                                          /\ at[id] \in Nat /\ at[id] < now
    <3>1. \A id \in DOMAIN s.completed : HasAge(s, T, id, s.completed[id].age) BY DEF HasAge
    <3> QED BY <1>8, <1>12, <1>22, <3>1 DEF Ages
  <2>3. Ordered(s) BY DEF Registry
  <2>4. /\ s.completed_order \in Seq(D) /\ ToSet(s.completed_order) = DOMAIN s.completed
        /\ seq \in Seq(D) /\ ToSet(seq) = ids
    <3>1. DOMAIN s.completed \subseteq D /\ ids \subseteq D BY <1>12
    <3> HIDE DEF D, ids
    <3> QED BY <2>3, <3>1, SeqOver DEF Ordered, Lists, ids
  <2>5. Sorted(s.completed_order, at)
    <3> HIDE DEF at, D
    <3> QED BY <2>2, <2>3, <2>4, SortedSame DEF Ordered
  <2>6. Sorted(seq, at)
    <3> SUFFICES ASSUME NEW i \in 1 .. Len(seq), NEW j \in 1 .. Len(seq), i < j
                 PROVE  at[seq[i]] < at[seq[j]]
        BY DEF Sorted
    <3>1. at[seq[i]] = now + i - 1 /\ at[seq[j]] = now + j - 1
          BY <1>6, <2>2 DEF age
    <3> QED BY <1>6, <3>1
  <2>7. \A x \in ToSet(s.completed_order), y \in ToSet(seq) : at[x] < at[y]
    <3> HIDE DEF at, D, ids, now
    <3> QED BY <1>6, <1>7, <2>2, <2>4
  <2> HIDE DEF at, D
  <2>8. /\ s.completed_order \o seq \in Seq(D)
        /\ ToSet(s.completed_order \o seq) = ToSet(s.completed_order) \cup ToSet(seq)
        /\ Sorted(s.completed_order \o seq, at)
        BY <2>1, <2>4, <2>5, <2>6, <2>7, ConcatFacts
  <2>9. ToSet(s.completed_order) \cup ToSet(seq) = D BY <1>12, <2>4 DEF D
  <2> QED BY <1>4, <2>8, <2>9 DEF Ordered, D, at
<1>26. Registry(t, U)
       BY <1>14, <1>15, <1>16, <1>17, <1>18, <1>19, <1>20, <1>24, <1>25 DEF Registry
<1>27. Calm(t, u) BY <1>4, TeardownDrainCalm
<1>28. Lasts(s, T, t, U)
  <2>1. \A id \in ids : HasAge(t, U, id, age(id)) BY <1>8, <1>12 DEF HasAge
  <2>2. \A id, b : HasAge(s, T, id, b) => HasAge(t, U, id, b) \/ id \in ids
        BY <1>4, <1>11, <1>12 DEF HasAge, Displaces
  <2>3. \A id \in DOMAIN s.completed :
          id \in DOMAIN t.completed /\ t.completed[id] = s.completed[id]
        BY <1>12
  <2>4. now \in Nat /\ Len(seq) \in Nat /\ t.next_completion_age = now + Len(seq)
        BY <1>4, <1>6
  <2> HIDE DEF now, age
  <2>5. ASSUME NEW id, NEW a \in Nat, Found(s, T, id, a) PROVE Found(t, U, id, a)
    <3>1. a < now BY <2>5 DEF Found, now
    <3>2. CASE id \in ids
          BY <1>7, <2>1, <2>4, <3>1, <3>2 DEF Found
    <3>3. CASE id \notin ids
          BY <2>2, <2>4, <2>5, <3>1, <3>3 DEF Found
    <3> QED BY <3>2, <3>3
  <2> QED BY <2>3, <2>4, <2>5 DEF Lasts, now
<1> HIDE DEF u
<1>29. Registry(u, U) /\ Lasts(t, U, u, U) BY <1>26, <1>27, CalmRegistry
<1>30. Lasts(s, T, u, U) BY <1>28, <1>29, LastsTrans
<1>31. u.next_completion_age = s.next_completion_age + Len(seq)
       BY <1>4, <1>27 DEF Calm
<1> QED BY <1>1, <1>29, <1>30, <1>31 DEF U

(* What a wake displaced goes back, or is dropped with its node.           *)
LEMMA RestoreRegistry ==
  ASSUME NEW s, NEW T, Registry(s, T),
         NEW displaced, DOMAIN displaced \subseteq DOMAIN T,
         \A id \in DOMAIN displaced : T[id].wake # None /\ displaced[id] = T[id].wake,
         NEW now
  PROVE  LET t == restore_displaced_completion(s, displaced, now)
             U == Without(T, DOMAIN displaced)
         IN  /\ Registry(t, U)
             /\ now \in [DOMAIN displaced -> Nat] => Restores(s, T, t, U, now)
<1> DEFINE ids == DOMAIN displaced
           kept == {id \in ids : retained(displaced[id].age, now[id])}
           back == [id \in kept |-> displaced[id]]
           all == Overlay(s.completed, back)
           w == resolve_waiters(s, ids)
           t == [w EXCEPT !.completed = all,
                          !.completed_order = reinsert(@, all, kept),
                          !.graph = Without(@, ids \ kept)]
           U == Without(T, ids)
<1>1. restore_displaced_completion(s, displaced, now) = t
      BY DEF restore_displaced_completion
<1>2. DOMAIN s = Fields BY DEF Registry, Maps
<1>3. /\ DOMAIN w = Fields
      /\ \A f \in Fields \ {"waiters", "query"} : w[f] = s[f]
      /\ w.waiters = {x \in s.waiters : x.id \notin ids}
      /\ Values(s) => w.query \in [Queries -> Channels]
      /\ \A q \in Queries : w.query[q] = "listening" =>
           s.query[q] = "listening" /\ \A x \in s.waiters : x.query = q => x.id \notin ids
      BY <1>2, ResolveWaitersFacts
<1> HIDE DEF w
<1>4. /\ kept \subseteq ids /\ DOMAIN back = kept
      /\ \A id \in kept : back[id] = displaced[id]
      /\ \A id \in ids \ kept : ~ retained(displaced[id].age, now[id])
      OBVIOUS
<1> HIDE DEF kept, back
<1>5. /\ DOMAIN all = DOMAIN s.completed \cup kept
      /\ \A id \in kept : all[id] = displaced[id]
      /\ \A id \in DOMAIN s.completed : id \notin ids /\ all[id] = s.completed[id]
  <2>1. DOMAIN s.completed \cap ids = {} BY DEF Registry, Apart
  <2>2. /\ DOMAIN all = DOMAIN s.completed \cup DOMAIN back
        /\ \A x \in DOMAIN back : all[x] = back[x]
        /\ \A x \in DOMAIN s.completed : x \notin DOMAIN back => all[x] = s.completed[x]
        BY OverlayFacts
  <2> HIDE DEF all, ids
  <2> QED BY <1>4, <2>1, <2>2
<1> HIDE DEF all
<1>6. /\ DOMAIN t = Fields
      /\ \A f \in Fields \ {"completed", "completed_order", "graph", "waiters", "query"} :
           t[f] = s[f]
      /\ t.waiters = w.waiters /\ t.query = w.query
      /\ t.completed = all
      /\ t.completed_order = reinsert(s.completed_order, all, kept)
      /\ t.graph = Without(s.graph, ids \ kept)
      BY <1>3 DEF Fields
<1> HIDE DEF t
<1>7. /\ t.queued = s.queued /\ t.pending = s.pending /\ t.active = s.active
      /\ t.progress = s.progress /\ t.caller = s.caller
      /\ t.workflow_cancel_waiters = s.workflow_cancel_waiters
      /\ t.next_completion_age = s.next_completion_age
      BY <1>6 DEF Fields
<1>8. DOMAIN U = DOMAIN T \ ids /\ \A x \in DOMAIN T \ ids : U[x] = T[x]
      BY WithoutFacts
<1>9. Transit(U) BY TransitWithout DEF Registry
<1> HIDE DEF U
<1>10. \A id \in ids : /\ id \in Ids /\ displaced[id] \in CompletedChild
                       /\ ~ T[id].reply /\ T[id].req.workflow = None
       BY DEF Registry, Transit, Quiet
<1>11. Apart(t, DOMAIN U) BY <1>4, <1>5, <1>6, <1>7, <1>8 DEF Registry, Apart, Held, Fields
<1>12. Maps(t)
  <2>1. MapOf(t.completed, CompletedChild)
        BY <1>4, <1>5, <1>6, <1>10 DEF Registry, Maps, MapOf
  <2> QED BY <1>6, <1>7, <2>1 DEF Registry, Maps, Distinct
<1>13. Values(t)
  <2>1. Values(s) BY DEF Registry
  <2>2. t.waiters \subseteq s.waiters BY <1>3, <1>6
  <2>3. t.query \in [Queries -> Channels] BY <1>3, <1>6, <2>1
  <2> QED BY <1>6, <2>1, <2>2, <2>3 DEF Values, Fields
<1>14. Nodes(t, U)
  <2>1. /\ DOMAIN t.graph = DOMAIN s.graph \ (ids \ kept)
        /\ \A x \in DOMAIN t.graph : t.graph[x] = s.graph[x]
    <3> DEFINE g == Without(s.graph, ids \ kept)
    <3>1. /\ DOMAIN g = DOMAIN s.graph \ (ids \ kept)
          /\ \A x \in DOMAIN s.graph \ (ids \ kept) : g[x] = s.graph[x]
          BY WithoutFacts
    <3>2. t.graph = g BY <1>6
    <3> HIDE DEF g
    <3> QED BY <3>1, <3>2
  <2>2. ids \cap (Live(s) \cup DOMAIN s.completed) = {}
        BY DEF Registry, Apart, Live
  <2>3. DOMAIN t.completed = DOMAIN s.completed \cup kept /\ Live(t) = Live(s)
        BY <1>5, <1>6, <1>7 DEF Live
  <2>4. MapOf(t.graph, SpawnNode) BY <2>1 DEF Registry, Nodes, MapOf
  <2>5. DOMAIN s.graph = Live(s) \cup DOMAIN s.completed \cup DOMAIN T
        BY DEF Registry, Nodes
  <2>6. DOMAIN t.graph = Live(t) \cup DOMAIN t.completed \cup DOMAIN U
    <3> HIDE DEF ids
    <3> QED BY <1>4, <1>8, <2>1, <2>2, <2>3, <2>5 DEF ids
  <2> QED BY <2>4, <2>6 DEF Nodes
<1>15. Attended(t, U)
  <2>1. \A x \in t.waiters : x.id \in Live(t) \cup DOMAIN U
        BY <1>3, <1>6, <1>7, <1>8 DEF Registry, Attended, Live
  <2>2. ASSUME NEW q \in Queries, t.query[q] = "listening"
        PROVE  \E x \in t.waiters \cup t.progress : x.query = q
    <3>1. PICK x \in s.waiters \cup s.progress : x.query = q
          BY <1>3, <1>6, <2>2 DEF Registry, Attended
    <3>2. x \in t.waiters \cup t.progress BY <1>3, <1>6, <1>7, <2>2, <3>1
    <3> QED BY <3>1, <3>2
  <2>3. ASSUME NEW id \in Ids, t.caller[id] = "listening"
        PROVE  \/ id \in Replying(t.queued) \/ id \in Replying(t.pending)
               \/ id \in Replying(t.active) \/ id \in Replying(U)
    <3>1. id \in Replying(T) => id \in Replying(U) BY <1>8, <1>10 DEF Replying
    <3> QED BY <1>7, <2>3, <3>1 DEF Registry, Attended
  <2> QED BY <2>1, <2>2, <2>3 DEF Attended
<1>16. Awaited(t, U)
  <2> SUFFICES ASSUME NEW r \in s.workflow_cancel_waiters
               PROVE  OfRun(s.pending, r) # {} \/ OfRun(s.active, r) # {} \/ OfRun(U, r) # {}
      BY <1>7 DEF Awaited
  <2>1. r # None BY ConstantsAssumption DEF Registry, Values
  <2>2. OfRun(T, r) \subseteq OfRun(U, r) BY <1>8, <1>10, <2>1 DEF OfRun
  <2> QED BY <2>2 DEF Registry, Awaited
<1>17. \A id, a : HasAge(t, U, id, a) => HasAge(s, T, id, a)
       BY <1>4, <1>5, <1>6, <1>7, <1>8 DEF HasAge, Displaces
<1>18. Dated(t, U) BY <1>7, <1>17 DEF Registry, Dated
<1>19. Ordered(t)
  <2> DEFINE D == DOMAIN all
             at == Ages(all)
  <2>1. at \in [D -> Nat] /\ \A x \in D : all[x].age = at[x]
        BY <1>6, <1>12 DEF Maps, MapOf, CompletedChild, Ages
  <2>2. \A x, y \in D : at[x] = at[y] => x = y
    <3>1. \A x \in D : HasAge(t, U, x, at[x]) BY <1>6 DEF HasAge, Ages
    <3> HIDE DEF at, D
    <3> QED BY <1>18, <3>1 DEF Dated
  <2>3. Ordered(s) BY DEF Registry
  <2>4. s.completed_order \in Seq(D) /\ ToSet(s.completed_order) = DOMAIN s.completed
    <3>1. DOMAIN s.completed \subseteq D BY <1>5
    <3> HIDE DEF D
    <3> QED BY <2>3, <3>1, SeqOver DEF Ordered
  <2>5. \A id \in DOMAIN s.completed : at[id] = Ages(s.completed)[id]
        BY <1>5 DEF Ages
  <2>6. Sorted(s.completed_order, at)
    <3> HIDE DEF at, D
    <3> QED BY <2>3, <2>4, <2>5, SortedSame DEF Ordered
  <2>7. kept \in SUBSET D /\ IsFiniteSet(kept) /\ kept \cap ToSet(s.completed_order) = {}
    <3>1. kept \in SUBSET Ids BY <1>4, <1>10
    <3>2. IsFiniteSet(kept) BY <3>1, ConstantsAssumption, FS_Subset
    <3> QED BY <1>4, <1>5, <2>4, <3>2
  <2> HIDE DEF at, D
  <2>8. /\ reinsert(s.completed_order, all, kept) \in Seq(D)
        /\ ToSet(reinsert(s.completed_order, all, kept)) = ToSet(s.completed_order) \cup kept
        /\ Sorted(reinsert(s.completed_order, all, kept), at)
        BY <2>1, <2>2, <2>4, <2>6, <2>7, ReinsertFacts
  <2>9. ToSet(s.completed_order) \cup kept = D BY <1>5, <2>4 DEF D
  <2> QED BY <1>6, <2>8, <2>9 DEF Ordered, D, at
<1>20. Registry(t, U)
       BY <1>9, <1>11, <1>12, <1>13, <1>14, <1>15, <1>16, <1>18, <1>19 DEF Registry
<1>21. ASSUME now \in [ids -> Nat] PROVE Restores(s, T, t, U, now)
  <2>1. \A id \in ids \ kept : now[id] - displaced[id].age > MaxCompleted
    <3>1. \A id \in ids : displaced[id].age \in Nat
          BY DEF Registry, Transit, CompletedChild
    <3> HIDE DEF ids
    <3> QED BY <1>4, <1>21, <3>1, ConstantsAssumption DEF retained
  <2>2. \A id, b : HasAge(s, T, id, b) =>
          \/ HasAge(t, U, id, b)
          \/ id \in ids \ kept /\ b = displaced[id].age
        BY <1>4, <1>5, <1>6, <1>7, <1>8 DEF HasAge, Displaces
  <2>3. \A id \in DOMAIN s.completed :
          id \in DOMAIN t.completed /\ t.completed[id] = s.completed[id]
        BY <1>5, <1>6
  <2>4. t.next_completion_age = s.next_completion_age BY <1>7
  <2> HIDE DEF ids
  <2> QED BY <1>21, <2>1, <2>2, <2>3, <2>4 DEF Restores
<1> QED BY <1>1, <1>20, <1>21 DEF U

(* Children in transit that start are pending, with what they were taken   *)
(* out with.                                                               *)
LEMMA StartChildrenRegistry ==
  ASSUME NEW s, NEW T, Registry(s, T),
         NEW recs, DOMAIN recs \subseteq DOMAIN T,
         \A id \in DOMAIN recs :
           /\ recs[id].req = T[id].req /\ recs[id].reply = T[id].reply
           /\ recs[id].wake = T[id].wake /\ recs[id].deadline \in BOOLEAN
  PROVE  LET t == start_children(s, recs)
             U == Without(T, DOMAIN recs)
         IN  Registry(t, U) /\ Lasts(s, T, t, U)
<1> DEFINE ids == DOMAIN recs
           fresh == [id \in ids |-> fresh_pending(recs[id])]
           t == [s EXCEPT !.pending = Overlay(@, fresh), !.runs = @ \cup ids]
           U == Without(T, ids)
<1>1. start_children(s, recs) = t BY DEF start_children
<1>2. DOMAIN s = Fields BY DEF Registry, Maps
<1>3. /\ DOMAIN fresh = ids
      /\ \A id \in ids : /\ fresh[id] \in PendingChild
                         /\ fresh[id].req = T[id].req /\ fresh[id].reply = T[id].reply
                         /\ fresh[id].wake = T[id].wake
      BY DEF Registry, Transit, PendingChild, fresh_pending
<1> HIDE DEF fresh
<1>4. /\ DOMAIN t = Fields
      /\ \A f \in Fields \ {"pending", "runs"} : t[f] = s[f]
      /\ t.pending = Overlay(s.pending, fresh)
      /\ t.runs = s.runs \cup ids
      BY <1>2 DEF Fields
<1> HIDE DEF t
<1>5. /\ DOMAIN t.pending = DOMAIN s.pending \cup ids
      /\ \A id \in ids : t.pending[id] = fresh[id]
      /\ \A id \in DOMAIN s.pending : id \notin ids /\ t.pending[id] = s.pending[id]
  <2>1. DOMAIN s.pending \cap ids = {} BY DEF Registry, Apart
  <2> DEFINE o == Overlay(s.pending, fresh)
  <2>2. /\ DOMAIN o = DOMAIN s.pending \cup DOMAIN fresh
        /\ \A x \in DOMAIN fresh : o[x] = fresh[x]
        /\ \A x \in DOMAIN s.pending : x \notin DOMAIN fresh => o[x] = s.pending[x]
        BY OverlayFacts
  <2>3. t.pending = o BY <1>4
  <2> HIDE DEF o
  <2> HIDE DEF ids
  <2> QED BY <1>3, <2>1, <2>2, <2>3
<1>6. DOMAIN U = DOMAIN T \ ids /\ \A x \in DOMAIN T \ ids : U[x] = T[x]
      BY WithoutFacts
<1>7. Transit(U) BY TransitWithout DEF Registry
<1> HIDE DEF U
<1>8. /\ t.queued = s.queued /\ t.active = s.active /\ t.completed = s.completed
      /\ t.completed_order = s.completed_order
      /\ t.next_completion_age = s.next_completion_age
      /\ t.graph = s.graph /\ t.waiters = s.waiters /\ t.progress = s.progress
      /\ t.query = s.query /\ t.caller = s.caller
      /\ t.workflow_cancel_waiters = s.workflow_cancel_waiters
      BY <1>4 DEF Fields
<1>9. Apart(t, DOMAIN U) BY <1>4, <1>5, <1>6, <1>8 DEF Registry, Apart, Held, Fields
<1>10. Maps(t)
  <2>1. MapOf(t.pending, PendingChild)
        BY <1>3, <1>5 DEF Registry, Maps, MapOf, Transit
  <2>2. Quiet(t.pending) BY <1>3, <1>5 DEF Registry, Maps, Quiet, Transit
  <2> QED BY <1>4, <1>8, <2>1, <2>2 DEF Registry, Maps, Distinct
<1>11. Values(t)
  <2>1. ids \subseteq Ids BY DEF Registry, Transit
  <2> QED BY <1>4, <2>1 DEF Registry, Values, Fields
<1>12. Nodes(t, U) BY <1>5, <1>6, <1>8 DEF Registry, Nodes, Live
<1>13. Attended(t, U)
  <2>1. Live(s) \cup DOMAIN T = Live(t) \cup DOMAIN U BY <1>5, <1>6, <1>8 DEF Live
  <2>2. \A id \in Replying(T) : id \in Replying(t.pending) \/ id \in Replying(U)
        BY <1>3, <1>5, <1>6 DEF Replying
  <2>3. \A id \in Replying(s.pending) : id \in Replying(t.pending)
        BY <1>5 DEF Replying
  <2> QED BY <1>8, <2>1, <2>2, <2>3 DEF Registry, Attended
<1>14. Awaited(t, U)
  <2> SUFFICES ASSUME NEW r \in s.workflow_cancel_waiters
               PROVE  OfRun(t.pending, r) # {} \/ OfRun(t.active, r) # {} \/ OfRun(U, r) # {}
      BY <1>8 DEF Awaited
  <2>1. OfRun(T, r) \subseteq OfRun(t.pending, r) \cup OfRun(U, r)
        BY <1>3, <1>5, <1>6 DEF OfRun
  <2>2. OfRun(s.pending, r) \subseteq OfRun(t.pending, r) BY <1>5 DEF OfRun
  <2> QED BY <1>8, <2>1, <2>2 DEF Registry, Awaited
<1>15. \A id, a : HasAge(t, U, id, a) => HasAge(s, T, id, a)
       BY <1>3, <1>5, <1>6, <1>8 DEF HasAge, Displaces
<1>16. Dated(t, U) BY <1>8, <1>15 DEF Registry, Dated
<1>17. Ordered(t) BY <1>8 DEF Registry, Ordered
<1>18. Registry(t, U)
       BY <1>7, <1>9, <1>10, <1>11, <1>12, <1>13, <1>14, <1>16, <1>17 DEF Registry
<1>19. \A id, a : HasAge(s, T, id, a) => HasAge(t, U, id, a)
       BY <1>3, <1>5, <1>6, <1>8 DEF HasAge, Displaces
<1>20. Lasts(s, T, t, U) BY <1>8, <1>19, MovesLast
<1> QED BY <1>1, <1>18, <1>20 DEF U

LEMMA EmptyMap == DOMAIN NoMap = {}
BY DEF NoMap

(* Entries taken out of the queue are in transit.                          *)
LEMMA DequeueRegistry ==
  ASSUME NEW s, Registry(s, NoMap), NEW D, D \subseteq DOMAIN s.queued
  PROVE  LET t == [s EXCEPT !.queued = Without(@, D)]
             T == Restrict(s.queued, D)
         IN  Registry(t, T) /\ Lasts(s, NoMap, t, T)
<1> DEFINE t == [s EXCEPT !.queued = Without(@, D)]
           T == Restrict(s.queued, D)
<1>1. DOMAIN s = Fields BY DEF Registry, Maps
<1>2. /\ DOMAIN t = Fields
      /\ \A f \in Fields \ {"queued"} : t[f] = s[f]
      /\ t.queued = Without(s.queued, D)
      BY <1>1 DEF Fields
<1>3. DOMAIN T = D /\ \A x \in D : T[x] = s.queued[x] BY RestrictFacts
<1> HIDE DEF t, T
<1>4. /\ DOMAIN t.queued = DOMAIN s.queued \ D
      /\ \A x \in DOMAIN t.queued : t.queued[x] = s.queued[x]
  <2>1. /\ DOMAIN Without(s.queued, D) = DOMAIN s.queued \ D
        /\ \A x \in DOMAIN s.queued \ D : Without(s.queued, D)[x] = s.queued[x]
        BY WithoutFacts
  <2> QED BY <1>2, <2>1
<1>5. /\ t.pending = s.pending /\ t.active = s.active /\ t.completed = s.completed
      /\ t.completed_order = s.completed_order
      /\ t.next_completion_age = s.next_completion_age
      /\ t.graph = s.graph /\ t.waiters = s.waiters /\ t.progress = s.progress
      /\ t.query = s.query /\ t.caller = s.caller
      /\ t.workflow_cancel_waiters = s.workflow_cancel_waiters
      BY <1>2 DEF Fields
<1>6. Apart(t, DOMAIN T) BY <1>2, <1>3, <1>4, <1>5 DEF Registry, Apart, Held, Fields
<1>7. Transit(T) BY <1>3 DEF Registry, Maps, MapOf, QueuedSpawn, Transit, Quiet
<1>8. Maps(t)
  <2>1. MapOf(t.queued, QueuedSpawn) BY <1>4 DEF Registry, Maps, MapOf
  <2>2. Quiet(t.queued) BY <1>4 DEF Registry, Maps, Quiet
  <2>3. Distinct(t) BY <1>4 DEF Registry, Maps, Distinct
  <2> QED BY <1>2, <1>5, <2>1, <2>2, <2>3 DEF Registry, Maps
<1>9. Values(t) BY <1>2 DEF Registry, Values, Fields
<1>10. Live(t) \cup DOMAIN T = Live(s) \cup DOMAIN NoMap
       BY <1>3, <1>4, <1>5, EmptyMap DEF Live
<1>11. Nodes(t, T) BY <1>5, <1>10, EmptyMap DEF Registry, Nodes
<1>12. Attended(t, T)
  <2>1. \A id \in Replying(s.queued) : id \in Replying(t.queued) \/ id \in Replying(T)
        BY <1>3, <1>4 DEF Replying
  <2>2. Replying(NoMap) = {} BY EmptyMap DEF Replying
  <2> QED BY <1>5, <1>10, <2>1, <2>2 DEF Registry, Attended
<1>13. Awaited(t, T)
  <2>1. \A r : OfRun(NoMap, r) = {} BY EmptyMap DEF OfRun
  <2> QED BY <1>5, <2>1 DEF Registry, Awaited
<1>14. \A id, a : HasAge(t, T, id, a) => HasAge(s, NoMap, id, a)
       BY <1>3, <1>4, <1>5 DEF HasAge, Displaces
<1>15. Dated(t, T) BY <1>5, <1>14 DEF Registry, Dated
<1>16. Ordered(t) BY <1>5 DEF Registry, Ordered
<1>17. Registry(t, T)
       BY <1>6, <1>7, <1>8, <1>9, <1>11, <1>12, <1>13, <1>15, <1>16 DEF Registry
<1>18. \A id, a : HasAge(s, NoMap, id, a) => HasAge(t, T, id, a)
       BY <1>3, <1>4, <1>5, EmptyMap DEF HasAge, Displaces
<1>19. Lasts(s, NoMap, t, T) BY <1>5, <1>18, MovesLast
<1> QED BY <1>17, <1>19 DEF t, T

(* What is in transit may be named by any map of the same records.         *)
LEMMA TransitSame ==
  ASSUME NEW s, NEW T, NEW U, Registry(s, T),
         DOMAIN U = DOMAIN T, \A x \in DOMAIN T : U[x] = T[x]
  PROVE  Registry(s, U) /\ Lasts(s, T, s, U)
<1>1. Apart(s, DOMAIN U) BY DEF Registry
<1>2. Transit(U) BY DEF Registry, Transit, Quiet
<1>3. Nodes(s, U) BY DEF Registry, Nodes
<1>4. Attended(s, U)
  <2>1. Replying(U) = Replying(T) BY DEF Replying
  <2> QED BY <2>1 DEF Registry, Attended
<1>5. Awaited(s, U)
  <2>1. \A r : OfRun(T, r) = OfRun(U, r) BY DEF OfRun
  <2> QED BY <2>1 DEF Registry, Awaited
<1>6. \A id, a : HasAge(s, U, id, a) <=> HasAge(s, T, id, a) BY DEF HasAge, Displaces
<1>7. Dated(s, U) BY <1>6 DEF Registry, Dated
<1>8. Lasts(s, T, s, U) BY <1>6, MovesLast
<1> QED BY <1>1, <1>2, <1>3, <1>4, <1>5, <1>7, <1>8 DEF Registry

LEMMA FinishCancelledRegistry ==
  ASSUME NEW s, NEW T, Registry(s, T),
         \A x \in DOMAIN T : T[x].queued_at \in Nat,
         \A x, y \in DOMAIN T : T[x].queued_at = T[y].queued_at => x = y
  PROVE  LET t == finish_cancelled_queued(s, T)
         IN  Registry(t, NoMap) /\ Lasts(s, T, t, NoMap)
<1> DEFINE wakes == {id \in DOMAIN T : T[id].wake # None}
           spawns == DOMAIN T \ wakes
           earlier(id) == {x \in spawns : T[x].queued_at < T[id].queued_at}
           displaced == [id \in wakes |-> T[id].wake]
           now == [id \in wakes |-> s.next_completion_age + Cardinality(earlier(id))]
           restored == restore_displaced_completion(s, displaced, now)
           told == reject_spawn_ready_ids(restored, spawns)
           recs == [id \in spawns |->
                      [req |-> T[id].req, reply |-> T[id].reply,
                       address |-> FALSE, started |-> FALSE]]
           seq == InArrivalOrder(T, spawns)
           U == Without(T, wakes)
<1>1. finish_cancelled_queued(s, T) = file_completions(told, recs, seq)
      BY DEF finish_cancelled_queued
<1>2. /\ DOMAIN displaced = wakes /\ DOMAIN recs = spawns
      /\ \A id \in wakes : displaced[id] = T[id].wake
      /\ \A id \in spawns : /\ recs[id].req = T[id].req /\ recs[id].reply = T[id].reply
                            /\ recs[id].address = FALSE /\ recs[id].started = FALSE
      OBVIOUS
<1>3. wakes \subseteq DOMAIN T /\ \A id \in wakes : T[id].wake # None OBVIOUS
<1>4. DOMAIN U = spawns /\ \A x \in spawns : U[x] = T[x] BY WithoutFacts
<1>5. IsFiniteSet(spawns)
  <2>1. spawns \in SUBSET Ids BY DEF Registry, Transit
  <2> QED BY <2>1, ConstantsAssumption, FS_Subset
<1>6. spawns \subseteq DOMAIN T OBVIOUS
<1>7. /\ now \in [wakes -> Nat]
       /\ \A id \in wakes : now[id] <= s.next_completion_age + Cardinality(spawns)
  <2>1. \A id : /\ Cardinality(earlier(id)) \in Nat
               /\ Cardinality(earlier(id)) <= Cardinality(spawns)
    <3> SUFFICES ASSUME NEW id
                 PROVE  /\ Cardinality(earlier(id)) \in Nat
                        /\ Cardinality(earlier(id)) <= Cardinality(spawns)
        OBVIOUS
    <3>1. earlier(id) \in SUBSET spawns OBVIOUS
    <3> HIDE DEF spawns, earlier
    <3>2. IsFiniteSet(earlier(id)) BY <1>5, <3>1, FS_Subset
    <3> QED BY <1>5, <3>1, <3>2, FS_Subset, FS_CardinalityType
  <2>2. s.next_completion_age \in Nat /\ Cardinality(spawns) \in Nat
        BY <1>5, FS_CardinalityType DEF Registry, Values
  <2> HIDE DEF earlier, spawns, wakes
  <2> QED BY <2>1, <2>2
<1> HIDE DEF wakes, spawns, displaced, now, recs, U
<1>8. Lists(seq, spawns) /\ Len(seq) = Cardinality(spawns)
  <2>1. Lists(seq, spawns) BY <1>5, <1>6, ArrivalLists
  <2>2. Cardinality(spawns) \in Nat BY <1>5, FS_CardinalityType
  <2>3. Len(seq) = Cardinality(spawns) BY <2>2 DEF InArrivalOrder
  <2> QED BY <2>1, <2>3
<1> HIDE DEF seq
<1>9. /\ Registry(restored, Without(T, DOMAIN displaced))
      /\ Restores(s, T, restored, Without(T, DOMAIN displaced), now)
      BY <1>2, <1>3, <1>7, RestoreRegistry
<1>10. Registry(restored, U) /\ Restores(s, T, restored, U, now) BY <1>2, <1>9 DEF U
<1> HIDE DEF restored
<1>11. Calm(restored, told) BY <1>10, RejectSpawnReadyCalm DEF Registry, Maps
<1>12. /\ Registry(told, U) /\ Lasts(restored, U, told, U)
       /\ told.next_completion_age = s.next_completion_age
       BY <1>10, <1>11, CalmRegistry DEF Restores, Calm
<1> HIDE DEF told
<1> DEFINE done == file_completions(told, recs, seq)
           V == Without(U, DOMAIN recs)
<1>13. /\ Registry(done, V) /\ Lasts(told, U, done, V)
       /\ done.next_completion_age = s.next_completion_age + Len(seq)
  <2>1. DOMAIN recs \subseteq DOMAIN U BY <1>2, <1>4
  <2>2. \A id \in DOMAIN recs : /\ recs[id].req = U[id].req
                                /\ recs[id].reply = U[id].reply
                                /\ recs[id].address \in BOOLEAN
                                /\ recs[id].started \in BOOLEAN
        BY <1>2, <1>4
  <2>3. Lists(seq, DOMAIN recs) BY <1>2, <1>8
  <2> QED BY <1>12, <2>1, <2>2, <2>3, FileRegistry
<1>14. DOMAIN V = DOMAIN NoMap
  <2>1. DOMAIN V = DOMAIN U \ DOMAIN recs BY WithoutFacts
  <2> QED BY <1>2, <1>4, <2>1, EmptyMap
<1> HIDE DEF done, V
<1>15. Registry(done, NoMap) /\ Lasts(done, V, done, NoMap)
       BY <1>13, <1>14, EmptyMap, TransitSame
<1>16. Lasts(restored, U, done, NoMap)
  <2>1. Lasts(told, U, done, NoMap) BY <1>13, <1>15, LastsTrans
  <2> QED BY <1>12, <2>1, LastsTrans
<1>17. \A id \in DOMAIN now : now[id] \in Nat /\ now[id] <= done.next_completion_age
       BY <1>8, <1>13, <1>7
<1>18. Lasts(s, T, done, NoMap) BY <1>10, <1>16, <1>17, RestoresLast
<1> QED BY <1>1, <1>15, <1>18 DEF done

(* Entries of the queue came at different times.                           *)
LEMMA EntryTimes ==
  ASSUME NEW s, NEW T, Registry(s, T), NEW D, D \subseteq DOMAIN s.queued
  PROVE  LET R == Restrict(s.queued, D)
         IN  /\ DOMAIN R = D /\ \A x \in D : R[x] = s.queued[x]
             /\ \A x \in D : R[x].queued_at \in Nat
             /\ \A x, y \in D : R[x].queued_at = R[y].queued_at => x = y
<1> DEFINE R == Restrict(s.queued, D)
<1>1. DOMAIN R = D /\ \A x \in D : R[x] = s.queued[x] BY RestrictFacts
<1> HIDE DEF R
<1>2. \A x \in D : R[x].queued_at \in Nat
      BY <1>1 DEF Registry, Maps, MapOf, QueuedSpawn
<1>3. \A x, y \in D : R[x].queued_at = R[y].queued_at => x = y
      BY <1>1 DEF Registry, Maps, Distinct
<1> QED BY <1>1, <1>2, <1>3 DEF R

LEMMA StartQueuedRegistry ==
  ASSUME NEW s, Registry(s, NoMap)
  PROVE  Upholds(s, start_queued_within_capacity(s))
<1> DEFINE live == live_queued(s)
           starting == {id \in live :
             has_capacity(session_running_count(s, s.queued[id].req.session)
                            + Cardinality(queued_ahead(s, id)))}
           cancelled == DOMAIN s.queued \ live
           D == starting \cup cancelled
           out == [s EXCEPT !.queued = Without(@, D)]
           go == Restrict(s.queued, starting)
           end == Restrict(s.queued, cancelled)
           T == Restrict(s.queued, D)
           t == start_children(out, go)
<1>1. start_queued_within_capacity(s) = finish_cancelled_queued(t, end)
      BY DEF start_queued_within_capacity
<1>2. live \subseteq DOMAIN s.queued BY DEF live_queued
<1>3. starting \subseteq live OBVIOUS
<1> HIDE DEF live, starting
<1>4. D \subseteq DOMAIN s.queued /\ starting \subseteq DOMAIN s.queued
      BY <1>2, <1>3
<1>5. /\ DOMAIN T = D /\ \A x \in D : T[x] = s.queued[x]
      /\ DOMAIN go = starting /\ \A x \in starting : go[x] = s.queued[x]
      BY RestrictFacts
<1>6. /\ DOMAIN end = cancelled /\ \A x \in cancelled : end[x] = s.queued[x]
      /\ \A x \in cancelled : end[x].queued_at \in Nat
      /\ \A x, y \in cancelled : end[x].queued_at = end[y].queued_at => x = y
  <2>1. cancelled \subseteq DOMAIN s.queued OBVIOUS
  <2> HIDE DEF cancelled
  <2> QED BY <2>1, EntryTimes
<1>7. Registry(out, T) /\ Lasts(s, NoMap, out, T) BY <1>4, DequeueRegistry
<1>8. \A x \in starting : s.queued[x].deadline \in BOOLEAN
      BY <1>4 DEF Registry, Maps, MapOf, QueuedSpawn
<1> HIDE DEF out, go, end, T
<1>9. /\ Registry(t, Without(T, DOMAIN go))
      /\ Lasts(out, T, t, Without(T, DOMAIN go))
  <2>1. DOMAIN go \subseteq DOMAIN T BY <1>5
  <2>2. \A id \in DOMAIN go :
           /\ go[id].req = T[id].req /\ go[id].reply = T[id].reply
           /\ go[id].wake = T[id].wake /\ go[id].deadline \in BOOLEAN
        BY <1>5, <1>8
  <2> QED BY <1>7, <2>1, <2>2, StartChildrenRegistry
<1>10. Registry(t, end) /\ Lasts(out, T, t, end)
  <2> DEFINE V == Without(T, DOMAIN go)
  <2>1. DOMAIN V = DOMAIN T \ DOMAIN go /\ \A x \in DOMAIN T \ DOMAIN go : V[x] = T[x]
        BY WithoutFacts
  <2>2. DOMAIN T \ DOMAIN go = cancelled BY <1>2, <1>3, <1>5
  <2>3. \A x \in cancelled : T[x] = end[x] BY <1>5, <1>6
  <2>4. Registry(t, V) /\ Lasts(out, T, t, V) BY <1>9
  <2> HIDE DEF t, V
  <2>5. DOMAIN end = DOMAIN V /\ \A x \in DOMAIN V : end[x] = V[x]
        BY <1>6, <2>1, <2>2, <2>3
  <2>6. Registry(t, end) /\ Lasts(t, V, t, end) BY <2>4, <2>5, TransitSame
  <2> QED BY <2>4, <2>6, LastsTrans
<1> HIDE DEF t, cancelled
<1> DEFINE u == finish_cancelled_queued(t, end)
<1>11. Registry(u, NoMap) /\ Lasts(t, end, u, NoMap)
       BY <1>6, <1>10, FinishCancelledRegistry
<1> HIDE DEF u
<1>12. Lasts(out, T, u, NoMap) BY <1>10, <1>11, LastsTrans
<1>13. Lasts(s, NoMap, u, NoMap) BY <1>7, <1>12, LastsTrans
<1> QED BY <1>1, <1>11, <1>13 DEF u, Upholds

LEMMA RemoveQueuedRegistry ==
  ASSUME NEW s, NEW ids, Registry(s, NoMap)
  PROVE  Upholds(s, remove_queued(s, ids))
<1> DEFINE D == ids \cap DOMAIN s.queued
           gone == Restrict(s.queued, D)
           out == [s EXCEPT !.queued = Without(@, DOMAIN gone)]
           told == reject_spawn_ready_ids(out, DOMAIN gone)
           ended == finish_cancelled_queued(told, gone)
<1>1. remove_queued(s, ids) = IF \E id \in DOMAIN gone : gone[id].wake = None
                              THEN start_queued_within_capacity(ended) ELSE ended
      BY DEF remove_queued
<1>2. D \subseteq DOMAIN s.queued OBVIOUS
<1> HIDE DEF D
<1>3. /\ DOMAIN gone = D
      /\ \A x \in D : gone[x].queued_at \in Nat
      /\ \A x, y \in D : gone[x].queued_at = gone[y].queued_at => x = y
      BY <1>2, EntryTimes
<1>4. Registry(out, gone) /\ Lasts(s, NoMap, out, gone) BY <1>2, <1>3, DequeueRegistry
<1> HIDE DEF out, gone
<1>5. Calm(out, told) BY <1>4, RejectSpawnReadyCalm DEF Registry, Maps
<1>6. Registry(told, gone) /\ Lasts(out, gone, told, gone) BY <1>4, <1>5, CalmRegistry
<1> HIDE DEF told
<1>7. Registry(ended, NoMap) /\ Lasts(told, gone, ended, NoMap)
      BY <1>3, <1>6, FinishCancelledRegistry
<1> HIDE DEF ended
<1>8. Lasts(s, NoMap, ended, NoMap)
  <2>1. Lasts(out, gone, ended, NoMap) BY <1>6, <1>7, LastsTrans
  <2> QED BY <1>4, <2>1, LastsTrans
<1> DEFINE t == start_queued_within_capacity(ended)
<1>9. Upholds(s, ended) /\ Upholds(ended, t)
      BY <1>7, <1>8, StartQueuedRegistry DEF Upholds
<1> HIDE DEF t
<1>10. Upholds(s, t) BY <1>9, UpholdsTrans
<1> QED BY <1>1, <1>9, <1>10 DEF t

(* A child that leaves pending or active is in transit.                    *)
LEMMA LeaveRegistry ==
  ASSUME NEW s, Registry(s, NoMap), NEW id, id \in DOMAIN s.active \cup DOMAIN s.pending,
         NEW rec, rec = IF id \in DOMAIN s.active THEN s.active[id] ELSE s.pending[id]
  PROVE  LET t == [s EXCEPT !.active = Without(@, {id}), !.pending = Without(@, {id})]
             T == [x \in {id} |-> rec]
         IN  Registry(t, T) /\ Lasts(s, NoMap, t, T)
<1> DEFINE t == [s EXCEPT !.active = Without(@, {id}), !.pending = Without(@, {id})]
           T == [x \in {id} |-> rec]
<1>1. DOMAIN s = Fields BY DEF Registry, Maps
<1>2. /\ DOMAIN t = Fields
      /\ \A f \in Fields \ {"active", "pending"} : t[f] = s[f]
      /\ t.active = Without(s.active, {id}) /\ t.pending = Without(s.pending, {id})
      BY <1>1 DEF Fields
<1>3. DOMAIN T = {id} /\ T[id] = rec OBVIOUS
<1> HIDE DEF t, T
<1>4. /\ DOMAIN t.active = DOMAIN s.active \ {id}
      /\ \A x \in DOMAIN s.active \ {id} : t.active[x] = s.active[x]
      /\ DOMAIN t.pending = DOMAIN s.pending \ {id}
      /\ \A x \in DOMAIN s.pending \ {id} : t.pending[x] = s.pending[x]
  <2>1. \A f : /\ DOMAIN Without(f, {id}) = DOMAIN f \ {id}
               /\ \A x \in DOMAIN f \ {id} : Without(f, {id})[x] = f[x]
        BY WithoutFacts
  <2> QED BY <1>2, <2>1
<1>5. /\ t.queued = s.queued /\ t.completed = s.completed
      /\ t.completed_order = s.completed_order
      /\ t.next_completion_age = s.next_completion_age
      /\ t.graph = s.graph /\ t.waiters = s.waiters /\ t.progress = s.progress
      /\ t.query = s.query /\ t.caller = s.caller
      /\ t.workflow_cancel_waiters = s.workflow_cancel_waiters
      BY <1>2 DEF Fields
<1>6. DOMAIN s.active \cap DOMAIN s.pending = {} BY DEF Registry, Apart
<1>7. \/ id \in DOMAIN s.active /\ id \notin DOMAIN s.pending /\ rec = s.active[id]
      \/ id \in DOMAIN s.pending /\ id \notin DOMAIN s.active /\ rec = s.pending[id]
      BY <1>6
<1>8. Apart(t, DOMAIN T)
  <2>1. Held(t) BY <1>2 DEF Registry, Apart, Held, Fields
  <2>2. Apart(s, {}) BY EmptyMap DEF Registry
  <2> QED BY <1>2, <1>3, <1>4, <1>5, <1>7, <2>1, <2>2 DEF Apart
<1>9. Transit(T)
      BY <1>3, <1>7 DEF Registry, Maps, MapOf, PendingChild, ActiveRow, Transit, Quiet
<1>10. Maps(t)
  <2>1. MapOf(t.active, ActiveRow) /\ MapOf(t.pending, PendingChild)
        BY <1>4 DEF Registry, Maps, MapOf
  <2>2. Quiet(t.active) /\ Quiet(t.pending) BY <1>4 DEF Registry, Maps, Quiet
  <2> QED BY <1>2, <1>5, <2>1, <2>2 DEF Registry, Maps, Distinct
<1>11. Values(t) BY <1>2 DEF Registry, Values, Fields
<1>12. Live(t) \cup DOMAIN T = Live(s) \cup DOMAIN NoMap
       BY <1>3, <1>4, <1>5, <1>7, EmptyMap DEF Live
<1>13. Nodes(t, T) BY <1>5, <1>12, EmptyMap DEF Registry, Nodes
<1>14. Attended(t, T)
  <2>1. \A x \in Replying(s.active) \cup Replying(s.pending) :
          x \in Replying(t.active) \/ x \in Replying(t.pending) \/ x \in Replying(T)
        BY <1>3, <1>4, <1>7 DEF Replying
  <2>2. Replying(NoMap) = {} BY EmptyMap DEF Replying
  <2> QED BY <1>5, <1>12, <2>1, <2>2 DEF Registry, Attended
<1>15. Awaited(t, T)
  <2>1. \A r : OfRun(NoMap, r) = {} BY EmptyMap DEF OfRun
  <2>2. \A r : OfRun(s.active, r) \subseteq OfRun(t.active, r) \cup OfRun(T, r)
        BY <1>3, <1>4, <1>7 DEF OfRun
  <2>3. \A r : OfRun(s.pending, r) \subseteq OfRun(t.pending, r) \cup OfRun(T, r)
        BY <1>3, <1>4, <1>7 DEF OfRun
  <2> QED BY <1>5, <2>1, <2>2, <2>3 DEF Registry, Awaited
<1>16. \A x, a : HasAge(t, T, x, a) => HasAge(s, NoMap, x, a)
       BY <1>3, <1>4, <1>5, <1>7 DEF HasAge, Displaces
<1>17. Dated(t, T) BY <1>5, <1>16 DEF Registry, Dated
<1>18. Ordered(t) BY <1>5 DEF Registry, Ordered
<1>19. Registry(t, T)
       BY <1>8, <1>9, <1>10, <1>11, <1>13, <1>14, <1>15, <1>17, <1>18 DEF Registry
<1>20. \A x, a : HasAge(s, NoMap, x, a) => HasAge(t, T, x, a)
       BY <1>3, <1>4, <1>5, <1>7, EmptyMap DEF HasAge, Displaces
<1>21. Lasts(s, NoMap, t, T) BY <1>5, <1>20, MovesLast
<1> QED BY <1>19, <1>21 DEF t, T

LEMMA FinishChildRegistry ==
  ASSUME NEW s, NEW id, NEW success, Registry(s, NoMap)
  PROVE  Upholds(s, finish_child(s, id, success))
<1> DEFINE rejected == reject_spawn_ready_ids(s, {id})
           rec == IF id \in DOMAIN s.active THEN s.active[id] ELSE s.pending[id]
           left == [rejected EXCEPT !.active = Without(@, {id}),
                                    !.pending = Without(@, {id})]
           displaced == [x \in {id} |-> rec.wake]
           now == [x \in {id} |-> s.next_completion_age]
           back == restore_displaced_completion(left, displaced, now)
           restored == resolve_teardown_drain_waiters(back, {rec.wake.req.session})
           recs == [x \in {id} |->
                      [req |-> rec.req, reply |-> rec.reply,
                       address |-> rec.req.workflow = None,
                       started |-> id \in DOMAIN s.active]]
           filed == file_completions(left, recs, <<id>>)
           T == [x \in {id} |-> rec]
<1>1. Calm(s, rejected) BY RejectSpawnReadyCalm DEF Registry, Maps
<1>2. Registry(rejected, NoMap) /\ Lasts(s, NoMap, rejected, NoMap)
      BY <1>1, CalmRegistry
<1>3. CASE id \notin DOMAIN s.active \cup DOMAIN s.pending
  <2>1. finish_child(s, id, success) = rejected BY <1>3 DEF finish_child
  <2> QED BY <1>2, <2>1 DEF Upholds
<1>4. CASE id \in DOMAIN s.active \cup DOMAIN s.pending
  <2>1. finish_child(s, id, success)
          = start_queued_within_capacity(
              IF ~success /\ rec.wake # None THEN restored ELSE filed)
        BY <1>4 DEF finish_child
  <2>2. rejected.active = s.active /\ rejected.pending = s.pending BY <1>1 DEF Calm
  <2> HIDE DEF rejected
  <2>3. Registry(left, T) /\ Lasts(rejected, NoMap, left, T)
    <3>1. /\ id \in DOMAIN rejected.active \cup DOMAIN rejected.pending
          /\ rec = IF id \in DOMAIN rejected.active THEN rejected.active[id]
                   ELSE rejected.pending[id]
          BY <1>4, <2>2
    <3> HIDE DEF rec
    <3> QED BY <1>2, <3>1, LeaveRegistry
  <2> HIDE DEF left
  <2>4. left.next_completion_age = s.next_completion_age
    <3>1. rejected.next_completion_age = s.next_completion_age /\ DOMAIN rejected = Fields
          BY <1>1 DEF Calm
    <3> QED BY <3>1 DEF left, Fields
  <2>5. DOMAIN T = {id} /\ T[id] = rec OBVIOUS
  <2>6. DOMAIN Without(T, {id}) = DOMAIN NoMap
    <3>1. \A f : DOMAIN Without(f, {id}) = DOMAIN f \ {id} BY WithoutFacts
    <3>2. DOMAIN Without(T, {id}) = {} BY <2>5, <3>1
    <3> QED BY <3>2, EmptyMap
  <2> HIDE DEF T, rec
  <2>7. ASSUME rec.wake # None
        PROVE  Registry(restored, NoMap) /\ Lasts(left, T, restored, NoMap)
    <3>1. DOMAIN displaced = {id} /\ displaced[id] = rec.wake OBVIOUS
    <3>2. /\ now \in [{id} -> Nat] /\ DOMAIN now = {id}
          /\ now[id] = left.next_completion_age
          BY <2>4 DEF Registry, Values
    <3> HIDE DEF displaced, now
    <3> DEFINE V == Without(T, DOMAIN displaced)
    <3>3. Registry(back, V) /\ Restores(left, T, back, V, now)
          BY <2>3, <2>5, <2>7, <3>1, <3>2, RestoreRegistry
    <3>4. DOMAIN V = DOMAIN NoMap BY <2>6, <3>1
    <3> HIDE DEF back, V
    <3>5. Registry(back, NoMap) /\ Lasts(back, V, back, NoMap)
          BY <3>3, <3>4, EmptyMap, TransitSame
    <3>6. Calm(back, restored) BY <3>5, TeardownDrainCalm DEF Registry, Maps
    <3> HIDE DEF restored
    <3>7. Registry(restored, NoMap) /\ Lasts(back, NoMap, restored, NoMap)
          BY <3>5, <3>6, CalmRegistry
    <3>8. Lasts(back, V, restored, NoMap) BY <3>5, <3>7, LastsTrans
    <3>9. \A x \in DOMAIN now : now[x] \in Nat /\ now[x] <= restored.next_completion_age
          BY <3>2, <3>3, <3>8 DEF Lasts, Restores
    <3> QED BY <2>3, <3>3, <3>7, <3>8, <3>9, RestoresLast
  <2>8. Registry(filed, NoMap) /\ Lasts(left, T, filed, NoMap)
    <3> DEFINE clear == rec.req.workflow = None
               ran == id \in DOMAIN s.active
               r == [req |-> rec.req, reply |-> rec.reply, address |-> clear, started |-> ran]
    <3>5. clear \in BOOLEAN /\ ran \in BOOLEAN OBVIOUS
    <3>6. recs = [x \in {id} |-> r] OBVIOUS
    <3> HIDE DEF clear, ran, recs
    <3>1. /\ DOMAIN recs = {id} /\ recs[id].req = rec.req /\ recs[id].reply = rec.reply
          /\ recs[id].address \in BOOLEAN /\ recs[id].started \in BOOLEAN
          BY <3>5, <3>6
    <3>2. Lists(<<id>>, DOMAIN recs) BY <3>1, OneList
    <3>3. /\ DOMAIN recs \subseteq DOMAIN T
          /\ \A x \in DOMAIN recs : /\ recs[x].req = T[x].req
                                    /\ recs[x].reply = T[x].reply
                                    /\ recs[x].address \in BOOLEAN
                                    /\ recs[x].started \in BOOLEAN
          BY <2>5, <3>1
    <3> DEFINE V == Without(T, DOMAIN recs)
    <3>4. Registry(filed, V) /\ Lasts(left, T, filed, V)
          BY <2>3, <3>2, <3>3, FileRegistry
    <3>7. DOMAIN V = DOMAIN NoMap BY <2>6, <3>1
    <3> HIDE DEF filed, V
    <3>8. Registry(filed, NoMap) /\ Lasts(filed, V, filed, NoMap)
          BY <3>4, <3>7, EmptyMap, TransitSame
    <3> QED BY <3>4, <3>8, LastsTrans
  <2> HIDE DEF restored, filed
  <2> DEFINE ended == IF ~success /\ rec.wake # None THEN restored ELSE filed
             t == start_queued_within_capacity(ended)
  <2>9. Registry(ended, NoMap) /\ Lasts(left, T, ended, NoMap) BY <2>7, <2>8
  <2>10. finish_child(s, id, success) = t BY <2>1
  <2> HIDE DEF ended
  <2>11. Registry(t, NoMap) /\ Lasts(ended, NoMap, t, NoMap) BY <2>9, StartQueuedRegistry DEF Upholds
  <2> HIDE DEF t
  <2>12. Lasts(left, T, t, NoMap) BY <2>9, <2>11, LastsTrans
  <2>13. Lasts(rejected, NoMap, t, NoMap) BY <2>3, <2>12, LastsTrans
  <2>14. Lasts(s, NoMap, t, NoMap) BY <1>2, <2>13, LastsTrans
  <2> QED BY <2>10, <2>11, <2>14 DEF Upholds
<1> QED BY <1>3, <1>4

----------------------------------------------------------------------------
(* Methods that change the records of live children.                       *)

(* t differs from s in no field that Registry relates but the maps of the  *)
(* live children and the callers.                                          *)
Beside(s, t) ==
  /\ DOMAIN t = Fields
  /\ t.completed = s.completed /\ t.completed_order = s.completed_order
  /\ t.next_completion_age = s.next_completion_age
  /\ t.graph = s.graph
  /\ t.waiters = s.waiters /\ t.progress = s.progress
  /\ t.query = s.query
  /\ t.workflow_cancel_waiters = s.workflow_cancel_waiters
  /\ Held(s) => Held(t)
  /\ Values(s) => Values(t)

(* The records of g are those of f, some without reply, some without wake. *)
SameRows(f, g) ==
  /\ DOMAIN g = DOMAIN f
  /\ \A id \in DOMAIN f : /\ g[id].req.workflow = f[id].req.workflow
                          /\ g[id].reply => f[id].reply
                          /\ g[id].wake # None => g[id].wake = f[id].wake

LEMMA RowsRegistry ==
  ASSUME NEW s, NEW t, Registry(s, NoMap), Beside(s, t),
         SameRows(s.queued, t.queued), MapOf(t.queued, QueuedSpawn),
         SameRows(s.pending, t.pending), MapOf(t.pending, PendingChild),
         SameRows(s.active, t.active), MapOf(t.active, ActiveRow),
         \A id \in DOMAIN s.queued : t.queued[id].queued_at = s.queued[id].queued_at,
         \A id \in Ids : t.caller[id] = "listening" =>
           /\ s.caller[id] = "listening"
           /\ id \in Replying(s.queued) => id \in Replying(t.queued)
           /\ id \in Replying(s.pending) => id \in Replying(t.pending)
           /\ id \in Replying(s.active) => id \in Replying(t.active)
  PROVE  /\ Registry(t, NoMap)
         /\ /\ SameWakes(s.queued, t.queued) /\ SameWakes(s.pending, t.pending)
            /\ SameWakes(s.active, t.active)
            => Upholds(s, t)
<1>1. Apart(t, DOMAIN NoMap) BY DEF Registry, Apart, Beside, SameRows
<1>2. Maps(t)
  <2>1. Quiet(t.queued) BY DEF Registry, Maps, Quiet, SameRows
  <2>2. Quiet(t.pending) BY DEF Registry, Maps, Quiet, SameRows
  <2>3. Quiet(t.active) BY DEF Registry, Maps, Quiet, SameRows
  <2>4. Distinct(t) BY DEF Registry, Maps, Distinct, SameRows
  <2>5. MapOf(t.completed, CompletedChild) BY DEF Registry, Maps, Beside
  <2> QED BY <2>1, <2>2, <2>3, <2>4, <2>5 DEF Maps, Beside
<1>3. Values(t) BY DEF Registry, Beside
<1>4. Live(t) = Live(s) BY DEF Live, SameRows
<1>5. Nodes(t, NoMap) BY <1>4 DEF Registry, Nodes, Beside
<1>6. Attended(t, NoMap)
  <2>1. \A w \in t.waiters : w.id \in Live(t) \cup DOMAIN NoMap
        BY <1>4 DEF Registry, Attended, Beside
  <2>2. \A q \in Queries : t.query[q] = "listening" =>
          \E w \in t.waiters \cup t.progress : w.query = q
        BY DEF Registry, Attended, Beside
  <2>3. \A id \in Ids : t.caller[id] = "listening" =>
          \/ id \in Replying(t.queued) \/ id \in Replying(t.pending)
          \/ id \in Replying(t.active) \/ id \in Replying(NoMap)
        BY DEF Registry, Attended
  <2> QED BY <2>1, <2>2, <2>3 DEF Attended
<1>7. Awaited(t, NoMap)
  <2>1. \A r : OfRun(t.pending, r) = OfRun(s.pending, r)
        BY DEF OfRun, SameRows
  <2>2. \A r : OfRun(t.active, r) = OfRun(s.active, r)
        BY DEF OfRun, SameRows
  <2> QED BY <2>1, <2>2 DEF Registry, Awaited, Beside
<1>8. \A id, a : HasAge(t, NoMap, id, a) => HasAge(s, NoMap, id, a)
      BY DEF HasAge, Displaces, SameRows, Beside
<1>9. Dated(t, NoMap) BY <1>8 DEF Registry, Dated, Beside
<1>10. Ordered(t) BY DEF Registry, Ordered, Beside
<1>11. Transit(NoMap) BY DEF Registry
<1>12. Registry(t, NoMap)
       BY <1>1, <1>2, <1>3, <1>5, <1>6, <1>7, <1>9, <1>10, <1>11 DEF Registry
<1>13. ASSUME SameWakes(s.queued, t.queued), SameWakes(s.pending, t.pending),
              SameWakes(s.active, t.active)
       PROVE  Upholds(s, t)
  <2>1. \A id, a : HasAge(s, NoMap, id, a) => HasAge(t, NoMap, id, a)
        BY <1>13 DEF HasAge, Displaces, SameWakes, Beside
  <2>2. /\ t.next_completion_age = s.next_completion_age
        /\ \A id \in DOMAIN s.completed :
             id \in DOMAIN t.completed /\ t.completed[id] = s.completed[id]
        BY DEF Beside
  <2> QED BY <1>12, <2>1, <2>2, MovesLast DEF Upholds
<1> QED BY <1>12, <1>13

LEMMA SelfRows ==
  ASSUME NEW f
  PROVE  SameRows(f, f) /\ SameWakes(f, f)
BY DEF SameRows, SameWakes

(* One active record changes.                                              *)
LEMMA ActiveRegistry ==
  ASSUME NEW s, NEW t, Registry(s, NoMap), Beside(s, t),
         t.queued = s.queued, t.pending = s.pending, t.caller = s.caller,
         NEW id \in DOMAIN s.active, NEW r \in ActiveRow,
         r.req.workflow = s.active[id].req.workflow,
         r.reply = s.active[id].reply,
         r.wake # None => r.wake = s.active[id].wake,
         t.active = [s.active EXCEPT ![id] = r]
  PROVE  /\ Registry(t, NoMap)
         /\ r.wake = s.active[id].wake => Upholds(s, t)
<1>1. /\ DOMAIN t.active = DOMAIN s.active /\ t.active[id] = r
      /\ \A x \in DOMAIN s.active : x # id => t.active[x] = s.active[x]
      OBVIOUS
<1>2. SameRows(s.active, t.active) BY <1>1 DEF SameRows
<1>3. MapOf(t.active, ActiveRow) BY <1>1 DEF Registry, Maps, MapOf
<1>4. \A x : x \in Replying(s.active) => x \in Replying(t.active)
      BY <1>1 DEF Replying
<1>5. /\ SameRows(s.queued, t.queued) /\ SameRows(s.pending, t.pending)
      /\ SameWakes(s.queued, t.queued) /\ SameWakes(s.pending, t.pending)
      BY SelfRows
<1>6. MapOf(t.queued, QueuedSpawn) /\ MapOf(t.pending, PendingChild)
      BY DEF Registry, Maps
<1>7. r.wake = s.active[id].wake => SameWakes(s.active, t.active) BY <1>1 DEF SameWakes
<1> QED BY <1>2, <1>3, <1>4, <1>5, <1>6, <1>7, RowsRegistry

LEMMA TerminalizationRegistry ==
  ASSUME NEW s, NEW id, NEW success \in BOOLEAN, Registry(s, NoMap)
  PROVE  Upholds(s, begin_terminalization(s, id, success))
<1> DEFINE child == s.active[id]
           closing == [s EXCEPT !.active[id].finalizing = TRUE]
           parked == [closing EXCEPT !.terminal_outputs = Put(@, id, success)]
<1>1. CASE id \notin DOMAIN s.active
  <2>1. begin_terminalization(s, id, success) = finish_child(s, id, success)
        BY <1>1 DEF begin_terminalization
  <2> QED BY <2>1, FinishChildRegistry
<1>2. CASE id \in DOMAIN s.active
  <2> DEFINE r == [child EXCEPT !.finalizing = TRUE]
  <2>1. begin_terminalization(s, id, success)
          = IF child.in_flight = 0 THEN finish_child(closing, id, success /\ child.clean)
            ELSE parked
        BY <1>2 DEF begin_terminalization, finish_terminalized_child
  <2>2. DOMAIN s = Fields /\ child \in ActiveRow /\ id \in Ids
        BY <1>2 DEF Registry, Maps, MapOf
  <2>3. r \in ActiveRow /\ r.req = child.req /\ r.reply = child.reply /\ r.wake = child.wake
        BY <2>2 DEF ActiveRow
  <2>4. /\ DOMAIN closing = Fields
        /\ \A f \in Fields \ {"active"} : closing[f] = s[f]
        /\ closing.active = [s.active EXCEPT ![id] = r]
        BY <2>2 DEF Fields
  <2>5. /\ DOMAIN parked = Fields
        /\ \A f \in Fields \ {"active", "terminal_outputs"} : parked[f] = s[f]
        /\ parked.active = [s.active EXCEPT ![id] = r]
        /\ parked.terminal_outputs = Put(s.terminal_outputs, id, success)
        BY <2>2 DEF Fields
  <2> HIDE DEF closing, parked, r, child
  <2>6. Upholds(s, closing)
    <3>1. Beside(s, closing) BY <2>4 DEF Beside, Held, Values, Fields
    <3>2. closing.queued = s.queued /\ closing.pending = s.pending
          /\ closing.caller = s.caller
          BY <2>4 DEF Fields
    <3> QED BY <1>2, <2>3, <2>4, <3>1, <3>2, ActiveRegistry DEF child
  <2>7. Upholds(s, parked)
    <3>1. MapOf(s.terminal_outputs, BOOLEAN) => MapOf(parked.terminal_outputs, BOOLEAN)
          BY <2>2, <2>5 DEF MapOf, Put
    <3>2. Beside(s, parked) BY <2>5, <3>1 DEF Beside, Held, Values, Fields
    <3>3. parked.queued = s.queued /\ parked.pending = s.pending
          /\ parked.caller = s.caller
          BY <2>5 DEF Fields
    <3> QED BY <1>2, <2>3, <2>5, <3>2, <3>3, ActiveRegistry DEF child
  <2> DEFINE ended == finish_child(closing, id, success /\ child.clean)
  <2>8. Upholds(closing, ended) BY <2>6, FinishChildRegistry DEF Upholds
  <2> HIDE DEF ended
  <2>9. Upholds(s, ended) BY <2>6, <2>8, UpholdsTrans
  <2> QED BY <2>1, <2>7, <2>9 DEF ended
<1> QED BY <1>1, <1>2

(* Admissions raise the count of one active child.                         *)
LEMMA AdmitRegistry ==
  ASSUME NEW s, NEW id \in DOMAIN s.active, Registry(s, NoMap),
         NEW msgs, IsFiniteSet(msgs)
  PROVE  Upholds(s, admit_active_messages(s, id, msgs))
<1> DEFINE child == s.active[id]
           ahead(m) == {x \in msgs : x.msg < m.msg}
           taken == {m \in msgs : admissible(child, Cardinality(ahead(m)))}
           n == Cardinality(taken)
           r == [child EXCEPT !.in_flight = @ + n]
           begun == {[msg |-> m.msg, id |-> id, generation |-> child.generation] : m \in taken}
           t == [s EXCEPT !.active[id] = r, !.active_messages = @ \cup begun]
<1>1. CASE msgs = {}
  <2>1. admit_active_messages(s, id, msgs) = s BY <1>1 DEF admit_active_messages
  <2> QED BY <2>1, UpholdsSelf
<1>2. CASE msgs # {}
  <2>1. admit_active_messages(s, id, msgs) = Answer(t, MsgsOf(msgs \ taken), "Refused")
        BY <1>2 DEF admit_active_messages, begin_admissions
  <2>2. n \in Nat
    <3>1. taken \in SUBSET msgs OBVIOUS
    <3> HIDE DEF taken
    <3> QED BY <3>1, FS_Subset, FS_CardinalityType
  <2>3. DOMAIN s = Fields /\ child \in ActiveRow BY DEF Registry, Maps, MapOf
  <2> HIDE DEF n, taken, begun
  <2>4. r \in ActiveRow /\ r.req = child.req /\ r.reply = child.reply /\ r.wake = child.wake
        BY <2>2, <2>3 DEF ActiveRow
  <2>5. /\ DOMAIN t = Fields
        /\ \A f \in Fields \ {"active", "active_messages"} : t[f] = s[f]
        /\ t.active = [s.active EXCEPT ![id] = r]
        BY <2>3 DEF Fields
  <2> HIDE DEF t, r, child
  <2>6. Beside(s, t) BY <2>5 DEF Beside, Held, Values, Fields
  <2>7. t.queued = s.queued /\ t.pending = s.pending /\ t.caller = s.caller
        BY <2>5 DEF Fields
  <2>8. Upholds(s, t) BY <2>4, <2>5, <2>6, <2>7, ActiveRegistry DEF child
  <2> DEFINE u == Answer(t, MsgsOf(msgs \ taken), "Refused")
  <2>9. Calm(t, u) BY <2>5, AnswerCalm DEF Outcomes
  <2> HIDE DEF u
  <2>10. Upholds(t, u) BY <2>8, <2>9, CalmUpholds DEF Upholds
  <2>11. Upholds(s, u) BY <2>8, <2>10, UpholdsTrans
  <2> QED BY <2>1, <2>11 DEF u
<1> QED BY <1>1, <1>2

LEMMA AdmitSpawnReadyRegistry ==
  ASSUME NEW s, NEW id \in DOMAIN s.active, Registry(s, NoMap),
         IsFiniteSet(s.spawn_ready)
  PROVE  Upholds(s, admit_spawn_ready_messages(s, id))
<1> DEFINE parked == {m \in s.spawn_ready : m.id = id}
           initial == {m \in parked : m.initial}
           t == [s EXCEPT !.spawn_ready = @ \ parked]
           u == Answer(t, MsgsOf(initial), "Accepted")
<1>1. admit_spawn_ready_messages(s, id) = admit_active_messages(u, id, parked \ initial)
      BY DEF admit_spawn_ready_messages
<1>2. parked \ initial \in SUBSET s.spawn_ready OBVIOUS
<1>3. IsFiniteSet(parked \ initial) BY <1>2, FS_Subset
<1>4. DOMAIN s = Fields BY DEF Registry, Maps
<1> HIDE DEF parked, initial
<1>5. DOMAIN t = Fields /\ \A f \in Fields \ {"spawn_ready"} : t[f] = s[f]
      BY <1>4 DEF Fields
<1> HIDE DEF t
<1>6. Calm(s, t) BY <1>5 DEF Calm, Values, Held, Fields
<1>7. Calm(t, u) BY <1>5, AnswerCalm DEF Outcomes
<1> HIDE DEF u
<1>8. Calm(s, u) BY <1>6, <1>7, CalmTrans
<1>9. Upholds(s, u) /\ Registry(u, NoMap) /\ id \in DOMAIN u.active
      BY <1>8, CalmUpholds DEF Calm, Upholds
<1> DEFINE v == admit_active_messages(u, id, parked \ initial)
<1>10. Upholds(u, v) BY <1>3, <1>9, AdmitRegistry
<1> HIDE DEF v
<1>11. Upholds(s, v) BY <1>9, <1>10, UpholdsTrans
<1> QED BY <1>1, <1>11 DEF v

LEMMA FinishMessageRegistry ==
  ASSUME NEW s, NEW f, NEW how \in Outcomes, Registry(s, NoMap)
  PROVE  Upholds(s, finish_active_message(s, f, how))
<1> DEFINE id == f.id
           child == s.active[id]
           known == id \in DOMAIN s.active /\ child.generation = f.generation
           last == child.in_flight = 1 /\ child.finalizing
           clean == child.clean /\ how # "Uncertain"
           left == [s EXCEPT !.active_messages = @ \ {f}]
           told == Answer(left, {f.msg}, how)
           settled == [told EXCEPT !.active[id].in_flight = @ - 1,
                                   !.active[id].clean = clean,
                                   !.active[id].reporter_waits = @ /\ ~last]
           freed == [settled EXCEPT !.terminal_outputs = Without(@, {id})]
           late == IF how = "Accepted" THEN "Uncertain" ELSE how
<1>1. finish_active_message(s, f, how)
        = IF ~known THEN Answer(left, {f.msg}, late)
          ELSE IF last /\ id \in DOMAIN s.terminal_outputs
          THEN finish_child(freed, id, s.terminal_outputs[id] /\ clean)
          ELSE settled
      BY DEF finish_active_message, finish_terminalized_child
<1>2. DOMAIN s = Fields BY DEF Registry, Maps
<1>3. DOMAIN left = Fields /\ \A x \in Fields \ {"active_messages"} : left[x] = s[x]
      BY <1>2 DEF Fields
<1> HIDE DEF left
<1>4. Calm(s, left) BY <1>3 DEF Calm, Values, Held, Fields
<1>5. late \in Outcomes BY DEF Outcomes
<1> HIDE DEF late
<1>6. Upholds(s, Answer(left, {f.msg}, late))
  <2>1. Calm(left, Answer(left, {f.msg}, late)) BY <1>3, <1>5, AnswerCalm
  <2>2. Calm(s, Answer(left, {f.msg}, late)) BY <1>4, <2>1, CalmTrans
  <2> QED BY <2>2, CalmUpholds
<1>7. Calm(s, told)
  <2>1. Calm(left, told) BY <1>3, AnswerCalm
  <2> QED BY <1>4, <2>1, CalmTrans
<1>8. told.terminal_outputs = s.terminal_outputs BY <1>3 DEF Answer, Fields
<1> HIDE DEF told
<1>9. /\ Registry(told, NoMap) /\ Upholds(s, told)
      /\ told.active = s.active /\ DOMAIN told = Fields
      BY <1>7, CalmUpholds DEF Calm, Upholds
<1>10. ASSUME known PROVE Upholds(s, settled) /\ Upholds(s, freed)
  <2> DEFINE waits == child.reporter_waits /\ ~last
             r == [child EXCEPT !.in_flight = @ - 1, !.clean = clean, !.reporter_waits = waits]
  <2>1. id \in DOMAIN s.active /\ child \in ActiveRow
        BY <1>10 DEF Registry, Maps, MapOf
  <2>2. clean \in BOOLEAN /\ waits \in BOOLEAN BY <2>1 DEF ActiveRow
  <2>3. /\ DOMAIN settled = Fields
        /\ \A x \in Fields \ {"active"} : settled[x] = told[x]
        /\ settled.active = [told.active EXCEPT ![id] = r]
    <3> HIDE DEF last, clean
    <3>1. DOMAIN settled = Fields BY <1>9 DEF Fields
    <3>2. \A x \in Fields \ {"active"} : settled[x] = told[x] BY <1>9 DEF Fields
    <3>3. settled.active = [told.active EXCEPT ![id] = r]
          BY <1>9, <2>1 DEF Fields, ActiveRow
    <3> QED BY <3>1, <3>2, <3>3
  <2> HIDE DEF settled, clean, last, waits
  <2>4. r \in ActiveRow /\ r.req = child.req /\ r.reply = child.reply /\ r.wake = child.wake
    <3> DEFINE n == child.in_flight - 1
               r0 == [child EXCEPT !.in_flight = n]
               r1 == [r0 EXCEPT !.clean = clean]
    <3>1. n \in Int BY <2>1 DEF ActiveRow
    <3>2. r = [r1 EXCEPT !.reporter_waits = waits] OBVIOUS
    <3> HIDE DEF child, n, r
    <3>3. r0 \in ActiveRow /\ r0.req = child.req /\ r0.reply = child.reply
          /\ r0.wake = child.wake
          BY <2>1, <3>1 DEF ActiveRow
    <3> HIDE DEF r0
    <3>4. r1 \in ActiveRow /\ r1.req = child.req /\ r1.reply = child.reply
          /\ r1.wake = child.wake
          BY <2>2, <3>3 DEF ActiveRow
    <3> HIDE DEF r1
    <3> QED BY <2>2, <3>2, <3>4 DEF ActiveRow
  <2> HIDE DEF r
  <2>5. Upholds(told, settled)
    <3>1. Beside(told, settled) BY <2>3 DEF Beside, Held, Values, Fields
    <3>2. settled.queued = told.queued /\ settled.pending = told.pending
          /\ settled.caller = told.caller
          BY <2>3 DEF Fields
    <3> QED BY <1>9, <2>1, <2>3, <2>4, <3>1, <3>2, ActiveRegistry
  <2>6. /\ DOMAIN freed = Fields
        /\ \A x \in Fields \ {"terminal_outputs"} : freed[x] = settled[x]
        /\ freed.terminal_outputs = Without(settled.terminal_outputs, {id})
        BY <2>3 DEF Fields
  <2> HIDE DEF freed
  <2>7. Calm(settled, freed)
    <3>1. MapOf(settled.terminal_outputs, BOOLEAN) => MapOf(freed.terminal_outputs, BOOLEAN)
          BY <2>6 DEF MapOf, Without
    <3> QED BY <2>6, <3>1 DEF Calm, Values, Held, Fields
  <2>8. Upholds(settled, freed) BY <2>5, <2>7, CalmUpholds DEF Upholds
  <2>9. Upholds(s, settled) BY <1>9, <2>5, UpholdsTrans
  <2> QED BY <2>8, <2>9, UpholdsTrans
<1> HIDE DEF known, settled, freed, clean, last
<1> DEFINE ended == finish_child(freed, id, s.terminal_outputs[id] /\ clean)
<1>11. ASSUME known PROVE Upholds(s, ended)
  <2>1. Upholds(s, freed) BY <1>10, <1>11
  <2>2. Upholds(freed, ended) BY <2>1, FinishChildRegistry DEF Upholds
  <2> HIDE DEF ended
  <2> QED BY <2>1, <2>2, UpholdsTrans
<1> HIDE DEF ended
<1> QED BY <1>1, <1>6, <1>10, <1>11 DEF ended

----------------------------------------------------------------------------
(* Waking a completed child.                                               *)

(* What an iteration may do to the records: a completed one stays or is in *)
(* the wake that has displaced it, and a displaced one is live, completed  *)
(* at no earlier age or outside the window.                                *)
Spares(s, u) ==
  /\ u.next_completion_age \in Nat
  /\ \A id \in DOMAIN s.completed :
       \/ waking(u, id) = s.completed[id]
       \/ id \in DOMAIN u.completed /\ u.completed[id].age = s.completed[id].age
  /\ \A id : waking(s, id) # None =>
       \/ id \in Live(u)
       \/ Outdated(u, waking(s, id).age)
       \/ id \in DOMAIN u.completed /\ u.completed[id].age >= waking(s, id).age

(* The record that a wake has displaced.                                   *)
LEMMA WakingAge ==
  ASSUME NEW s, NEW T, Registry(s, T), NEW id, waking(s, id) # None
  PROVE  /\ waking(s, id) \in CompletedChild
         /\ HasAge(s, T, id, waking(s, id).age)
<1> DEFINE w == waking(s, id)
<1>1. \/ id \in DOMAIN s.queued /\ w = s.queued[id].wake
      \/ id \in DOMAIN s.pending /\ w = s.pending[id].wake
      \/ id \in DOMAIN s.active /\ w = s.active[id].wake
      BY DEF waking
<1>2. w # None OBVIOUS
<1> HIDE DEF w
<1>3. w \in CompletedChild
      BY <1>1, <1>2 DEF Registry, Maps, MapOf, QueuedSpawn, PendingChild, ActiveRow
<1>4. HasAge(s, T, id, w.age) BY <1>1, <1>2 DEF HasAge, Displaces
<1> QED BY <1>3, <1>4 DEF w

LEMMA UpholdsSpares ==
  ASSUME NEW s, NEW u, Registry(s, NoMap), Upholds(s, u)
  PROVE  Spares(s, u)
<1>1. Registry(u, NoMap) /\ Lasts(s, NoMap, u, NoMap) BY DEF Upholds
<1>2. ASSUME NEW id, waking(s, id) # None
      PROVE  \/ id \in Live(u)
             \/ Outdated(u, waking(s, id).age)
             \/ id \in DOMAIN u.completed /\ u.completed[id].age >= waking(s, id).age
  <2> DEFINE a == waking(s, id).age
  <2>1. a \in Nat /\ HasAge(s, NoMap, id, a) BY <1>2, WakingAge DEF CompletedChild
  <2> HIDE DEF a
  <2>2. a < s.next_completion_age BY <2>1 DEF Registry, Dated
  <2>3. Found(s, NoMap, id, a) BY <2>1, <2>2 DEF Found
  <2>4. CASE Found(u, NoMap, id, a)
    <3>1. PICK b \in Nat : b >= a /\ HasAge(u, NoMap, id, b) BY <2>4 DEF Found
    <3>2. id \in Live(u) \/ (id \in DOMAIN u.completed /\ u.completed[id].age = b)
          BY <3>1, EmptyMap DEF HasAge, Displaces, Live
    <3> QED BY <3>1, <3>2 DEF a
  <2> QED BY <1>1, <2>1, <2>3, <2>4 DEF Lasts, a
<1> QED BY <1>1, <1>2 DEF Spares, Lasts

LEMMA CalmSpares ==
  ASSUME NEW s, NEW t, NEW u, Calm(s, t), Spares(t, u)
  PROVE  Spares(s, u)
BY DEF Calm, Spares, waking

(* A completed record that leaves for a wake is in transit.                *)
LEMMA DisplaceRegistry ==
  ASSUME NEW s, Registry(s, NoMap), NEW id \in DOMAIN s.completed,
         s.completed[id].req.workflow = None,
         NEW T, DOMAIN T = {id}, T[id].req = wake_request(s.completed[id].req),
         T[id].reply \in BOOLEAN, ~T[id].reply, T[id].wake = s.completed[id],
         NEW t, DOMAIN t = Fields,
         \A f \in Fields \ {"completed", "completed_order", "spawn_ready"} : t[f] = s[f],
         t.completed = Without(s.completed, {id}),
         t.completed_order = retain(s.completed_order, ToSet(s.completed_order) \ {id})
  PROVE  Registry(t, T)
<1> DEFINE old == s.completed[id]
           rec == T[id]
<1>1. DOMAIN T = {id} /\ T[id] = rec OBVIOUS
<1>2. /\ DOMAIN t.completed = DOMAIN s.completed \ {id}
      /\ \A x \in DOMAIN s.completed \ {id} : t.completed[x] = s.completed[x]
  <2> DEFINE g == Without(s.completed, {id})
  <2>1. /\ DOMAIN g = DOMAIN s.completed \ {id}
        /\ \A x \in DOMAIN s.completed \ {id} : g[x] = s.completed[x]
        BY WithoutFacts
  <2>2. t.completed = g OBVIOUS
  <2> HIDE DEF g
  <2> QED BY <2>1, <2>2
<1>3. /\ t.queued = s.queued /\ t.pending = s.pending /\ t.active = s.active
      /\ t.next_completion_age = s.next_completion_age
      /\ t.graph = s.graph /\ t.waiters = s.waiters /\ t.progress = s.progress
      /\ t.query = s.query /\ t.caller = s.caller
      /\ t.workflow_cancel_waiters = s.workflow_cancel_waiters
      BY DEF Fields
<1>4. id \in Ids /\ old \in CompletedChild BY DEF Registry, Maps, MapOf
<1>5. rec.req \in Request /\ rec.req.workflow = None
  <2> DEFINE req == old.req
  <2>1. req \in Request /\ req.workflow = None BY <1>4 DEF CompletedChild
  <2> HIDE DEF req
  <2>2. wake_request(req) \in Request /\ wake_request(req).workflow = req.workflow
        BY <2>1 DEF wake_request, Request
  <2>3. rec.req = wake_request(req) BY DEF req
  <2> QED BY <2>1, <2>2, <2>3
<1>6. Apart(t, DOMAIN T)
  <2>1. Held(t) BY DEF Registry, Apart, Held, Fields
  <2>2. Apart(s, {}) BY EmptyMap DEF Registry
  <2> QED BY <1>1, <1>2, <1>3, <2>1, <2>2 DEF Apart
<1>7. Transit(T) BY <1>1, <1>4, <1>5 DEF Transit, Quiet
<1>8. Maps(t)
  <2>1. MapOf(t.completed, CompletedChild) BY <1>2 DEF Registry, Maps, MapOf
  <2> QED BY <1>3, <2>1 DEF Registry, Maps, Distinct
<1>9. Values(t) BY DEF Registry, Values, Fields
<1>10. Nodes(t, T) BY <1>1, <1>2, <1>3, EmptyMap DEF Registry, Nodes, Live
<1>11. Attended(t, T)
  <2>1. Replying(NoMap) = {} BY EmptyMap DEF Replying
  <2> QED BY <1>3, <2>1, EmptyMap DEF Registry, Attended, Live
<1>12. Awaited(t, T)
  <2>1. \A r : OfRun(NoMap, r) = {} BY EmptyMap DEF OfRun
  <2> QED BY <1>3, <2>1 DEF Registry, Awaited
<1>13. \A x, a : HasAge(t, T, x, a) => HasAge(s, NoMap, x, a)
       BY <1>1, <1>2, <1>3 DEF HasAge, Displaces
<1>14. Dated(t, T) BY <1>3, <1>13 DEF Registry, Dated
<1>15. Ordered(t)
  <2> DEFINE D == DOMAIN s.completed
             S == ToSet(s.completed_order) \ {id}
             at == Ages(s.completed)
             bt == Ages(t.completed)
  <2>1. Ordered(s) BY DEF Registry
  <2>2. /\ s.completed_order \in Seq(D) /\ ToSet(s.completed_order) = D
        /\ Sorted(s.completed_order, at)
        BY <2>1 DEF Ordered
  <2>3. \A x \in DOMAIN t.completed : at[x] = bt[x] BY <1>2 DEF Ages
  <2> HIDE DEF at, bt, D
  <2>4. /\ t.completed_order \in Seq(D)
        /\ ToSet(t.completed_order) = ToSet(s.completed_order) \cap S
        /\ Sorted(t.completed_order, at)
    <3> DEFINE q == retain(s.completed_order, S)
    <3>1. /\ q \in Seq(D) /\ ToSet(q) = ToSet(s.completed_order) \cap S
          /\ Sorted(q, at)
      <4> HIDE DEF S
      <4> QED BY <2>2, RetainFacts
    <3>2. t.completed_order = q OBVIOUS
    <3> QED BY <3>1, <3>2
  <2>5. ToSet(t.completed_order) = DOMAIN t.completed
        BY <1>2, <2>2, <2>4 DEF D
  <2>6. t.completed_order \in Seq(DOMAIN t.completed) BY <2>4, <2>5, SeqOver
  <2>7. Sorted(t.completed_order, bt) BY <2>3, <2>4, <2>5, <2>6, SortedSame
  <2> QED BY <2>5, <2>6, <2>7 DEF Ordered, bt
<1>16. Registry(t, T)
       BY <1>6, <1>7, <1>8, <1>9, <1>10, <1>11, <1>12, <1>14, <1>15 DEF Registry
<1> QED BY <1>16

(* A child in transit of no workflow may join the queue.                   *)
LEMMA EnqueueRegistry ==
  ASSUME NEW s, NEW T, Registry(s, T), NEW id \in DOMAIN T, NEW entry \in QueuedSpawn,
         entry.req = T[id].req, entry.req.workflow = None, entry.reply = T[id].reply,
         entry.wake = T[id].wake,
         \A x \in DOMAIN s.queued : s.queued[x].queued_at # entry.queued_at
  PROVE  LET t == [s EXCEPT !.queued = Put(@, id, entry)]
             U == Without(T, {id})
         IN  Registry(t, U) /\ Lasts(s, T, t, U)
<1> DEFINE t == [s EXCEPT !.queued = Put(@, id, entry)]
           U == Without(T, {id})
<1>1. DOMAIN s = Fields BY DEF Registry, Maps
<1>2. /\ DOMAIN t = Fields
      /\ \A f \in Fields \ {"queued"} : t[f] = s[f]
      /\ t.queued = Put(s.queued, id, entry)
      BY <1>1 DEF Fields
<1> HIDE DEF t
<1>3. DOMAIN U = DOMAIN T \ {id} /\ \A x \in DOMAIN T \ {id} : U[x] = T[x]
      BY WithoutFacts
<1>4. Transit(U) BY TransitWithout DEF Registry
<1> HIDE DEF U
<1>5. id \notin DOMAIN s.queued /\ id \in Ids BY DEF Registry, Apart, Transit
<1>6. /\ DOMAIN t.queued = DOMAIN s.queued \cup {id} /\ t.queued[id] = entry
      /\ \A x \in DOMAIN s.queued : x # id /\ t.queued[x] = s.queued[x]
  <2> DEFINE o == Put(s.queued, id, entry)
  <2>1. /\ DOMAIN o = DOMAIN s.queued \cup {id} /\ o[id] = entry
        /\ \A x \in DOMAIN s.queued : x # id => o[x] = s.queued[x]
        BY DEF Put
  <2>2. t.queued = o BY <1>2
  <2> HIDE DEF o
  <2> QED BY <1>5, <2>1, <2>2
<1>7. /\ t.pending = s.pending /\ t.active = s.active /\ t.completed = s.completed
      /\ t.completed_order = s.completed_order
      /\ t.next_completion_age = s.next_completion_age
      /\ t.graph = s.graph /\ t.waiters = s.waiters /\ t.progress = s.progress
      /\ t.query = s.query /\ t.caller = s.caller
      /\ t.workflow_cancel_waiters = s.workflow_cancel_waiters
      BY <1>2 DEF Fields
<1>8. Apart(t, DOMAIN U)
  <2>1. Held(t) BY <1>2 DEF Registry, Apart, Held, Fields
  <2>2. Apart(s, DOMAIN T) BY DEF Registry
  <2> QED BY <1>2, <1>3, <1>6, <1>7, <2>1, <2>2 DEF Apart
<1>9. Maps(t)
  <2>1. MapOf(t.queued, QueuedSpawn) BY <1>5, <1>6 DEF Registry, Maps, MapOf
  <2>2. Quiet(t.queued) BY <1>6 DEF Registry, Maps, Quiet, Transit
  <2>3. Distinct(t) BY <1>6 DEF Registry, Maps, Distinct
  <2> QED BY <1>2, <1>7, <2>1, <2>2, <2>3 DEF Registry, Maps
<1>10. Values(t) BY <1>2 DEF Registry, Values, Fields
<1>11. Live(t) \cup DOMAIN U = Live(s) \cup DOMAIN T BY <1>3, <1>6, <1>7 DEF Live
<1>12. Nodes(t, U) BY <1>7, <1>11 DEF Registry, Nodes
<1>13. Attended(t, U)
  <2>1. \A x \in Replying(T) : x \in Replying(t.queued) \/ x \in Replying(U)
        BY <1>3, <1>6 DEF Replying
  <2>2. \A x \in Replying(s.queued) : x \in Replying(t.queued) BY <1>6 DEF Replying
  <2> QED BY <1>7, <1>11, <2>1, <2>2 DEF Registry, Attended
<1>14. Awaited(t, U)
  <2> SUFFICES ASSUME NEW r \in s.workflow_cancel_waiters
               PROVE  OfRun(s.pending, r) # {} \/ OfRun(s.active, r) # {} \/ OfRun(U, r) # {}
      BY <1>7 DEF Awaited
  <2>1. r # None BY ConstantsAssumption DEF Registry, Values
  <2>2. OfRun(T, r) \subseteq OfRun(U, r) BY <1>3, <2>1 DEF OfRun
  <2> QED BY <2>2 DEF Registry, Awaited
<1>15. \A x, a : HasAge(t, U, x, a) => HasAge(s, T, x, a)
       BY <1>3, <1>6, <1>7 DEF HasAge, Displaces
<1>16. Dated(t, U) BY <1>7, <1>15 DEF Registry, Dated
<1>17. Ordered(t) BY <1>7 DEF Registry, Ordered
<1>18. Registry(t, U)
       BY <1>4, <1>8, <1>9, <1>10, <1>12, <1>13, <1>14, <1>16, <1>17 DEF Registry
<1>19. \A x, a : HasAge(s, T, x, a) => HasAge(t, U, x, a)
       BY <1>3, <1>6, <1>7 DEF HasAge, Displaces
<1>20. Lasts(s, T, t, U) BY <1>7, <1>19, MovesLast
<1> QED BY <1>18, <1>20 DEF t, U

(* A child in transit may join the active ones.                            *)
LEMMA ActivateRegistry ==
  ASSUME NEW s, NEW T, Registry(s, T), NEW id \in DOMAIN T, NEW r \in ActiveRow,
         r.req = T[id].req, r.reply = T[id].reply, r.wake # None => r.wake = T[id].wake,
         NEW t, DOMAIN t = Fields,
         \A f \in Fields \ {"active", "next_generation"} : t[f] = s[f],
         t.active = Put(s.active, id, r), t.next_generation \in Nat
  PROVE  Registry(t, Without(T, {id}))
<1> DEFINE U == Without(T, {id})
<1>3. DOMAIN U = DOMAIN T \ {id} /\ \A x \in DOMAIN T \ {id} : U[x] = T[x]
      BY WithoutFacts
<1>4. Transit(U) BY TransitWithout DEF Registry
<1> HIDE DEF U
<1>5. id \notin DOMAIN s.active /\ id \in Ids BY DEF Registry, Apart, Transit
<1>6. /\ DOMAIN t.active = DOMAIN s.active \cup {id} /\ t.active[id] = r
      /\ \A x \in DOMAIN s.active : x # id /\ t.active[x] = s.active[x]
  <2> DEFINE o == Put(s.active, id, r)
  <2>1. /\ DOMAIN o = DOMAIN s.active \cup {id} /\ o[id] = r
        /\ \A x \in DOMAIN s.active : x # id => o[x] = s.active[x]
        BY DEF Put
  <2>2. t.active = o OBVIOUS
  <2> HIDE DEF o
  <2> QED BY <1>5, <2>1, <2>2
<1>7. /\ t.queued = s.queued /\ t.pending = s.pending /\ t.completed = s.completed
      /\ t.completed_order = s.completed_order
      /\ t.next_completion_age = s.next_completion_age
      /\ t.graph = s.graph /\ t.waiters = s.waiters /\ t.progress = s.progress
      /\ t.query = s.query /\ t.caller = s.caller
      /\ t.workflow_cancel_waiters = s.workflow_cancel_waiters
      BY DEF Fields
<1>8. Apart(t, DOMAIN U)
  <2>1. Held(t) BY DEF Registry, Apart, Held, Fields
  <2>2. Apart(s, DOMAIN T) BY DEF Registry
  <2> QED BY <1>3, <1>6, <1>7, <2>1, <2>2 DEF Apart
<1>9. Maps(t)
  <2>1. MapOf(t.active, ActiveRow) BY <1>5, <1>6 DEF Registry, Maps, MapOf
  <2>2. Quiet(t.active) BY <1>6 DEF Registry, Maps, Quiet, Transit
  <2> QED BY <1>7, <2>1, <2>2 DEF Registry, Maps, Distinct
<1>10. Values(t) BY DEF Registry, Values, Fields
<1>11. Live(t) \cup DOMAIN U = Live(s) \cup DOMAIN T BY <1>3, <1>6, <1>7 DEF Live
<1>12. Nodes(t, U) BY <1>7, <1>11 DEF Registry, Nodes
<1>13. Attended(t, U)
  <2>1. \A x \in Replying(T) : x \in Replying(t.active) \/ x \in Replying(U)
        BY <1>3, <1>6 DEF Replying
  <2>2. \A x \in Replying(s.active) : x \in Replying(t.active) BY <1>6 DEF Replying
  <2> QED BY <1>7, <1>11, <2>1, <2>2 DEF Registry, Attended
<1>14. Awaited(t, U)
  <2> SUFFICES ASSUME NEW k \in s.workflow_cancel_waiters
               PROVE  OfRun(s.pending, k) # {} \/ OfRun(t.active, k) # {} \/ OfRun(U, k) # {}
      BY <1>7 DEF Awaited
  <2>1. OfRun(T, k) \subseteq OfRun(U, k) \cup OfRun(t.active, k) BY <1>3, <1>6 DEF OfRun
  <2>2. OfRun(s.active, k) \subseteq OfRun(t.active, k) BY <1>6 DEF OfRun
  <2> QED BY <2>1, <2>2 DEF Registry, Awaited
<1>15. \A x, a : HasAge(t, U, x, a) => HasAge(s, T, x, a)
       BY <1>3, <1>6, <1>7 DEF HasAge, Displaces
<1>16. Dated(t, U) BY <1>7, <1>15 DEF Registry, Dated
<1>17. Ordered(t) BY <1>7 DEF Registry, Ordered
<1>18. Registry(t, U)
       BY <1>4, <1>8, <1>9, <1>10, <1>12, <1>13, <1>14, <1>16, <1>17 DEF Registry
<1> QED BY <1>18 DEF U

(* Nothing is left in transit.                                             *)
LEMMA ArrivedAll ==
  ASSUME NEW s, NEW T, NEW S, Registry(s, Without(T, S)), DOMAIN T \subseteq S
  PROVE  Registry(s, NoMap) /\ Lasts(s, Without(T, S), s, NoMap)
<1> DEFINE U == Without(T, S)
<1>1. DOMAIN U = DOMAIN T \ S BY WithoutFacts
<1>2. Registry(s, U) OBVIOUS
<1> HIDE DEF U
<1>3. DOMAIN NoMap = DOMAIN U /\ \A x \in DOMAIN U : NoMap[x] = U[x]
      BY <1>1, EmptyMap
<1> QED BY <1>2, <1>3, TransitSame DEF U

(* A record that is alone in transit joins the live ones.                  *)
LEMMA DisplacedSpares ==
  ASSUME NEW s, NEW id \in DOMAIN s.completed, Registry(s, NoMap),
         NEW u, u.next_completion_age = s.next_completion_age,
         u.completed = Without(s.completed, {id}),
         Live(s) \subseteq Live(u), waking(u, id) = s.completed[id]
  PROVE  Spares(s, u)
<1>1. /\ DOMAIN u.completed = DOMAIN s.completed \ {id}
      /\ \A x \in DOMAIN s.completed \ {id} : u.completed[x] = s.completed[x]
  <2> DEFINE g == Without(s.completed, {id})
  <2>1. /\ DOMAIN g = DOMAIN s.completed \ {id}
        /\ \A x \in DOMAIN s.completed \ {id} : g[x] = s.completed[x]
        BY WithoutFacts
  <2>2. u.completed = g OBVIOUS
  <2> HIDE DEF g
  <2> QED BY <2>1, <2>2
<1>2. \A x : waking(s, x) # None => x \in Live(s) BY DEF waking, Live
<1>3. u.next_completion_age \in Nat BY DEF Registry, Values
<1> QED BY <1>1, <1>2, <1>3 DEF Spares

(* A woken child is pending or queued.                                     *)
LEMMA WakeRegistry ==
  ASSUME NEW s, Registry(s, NoMap), Shaped(s), NEW id \in DOMAIN s.completed,
         s.completed[id].req.workflow = None, NEW msgs
  PROVE  LET u == wake_completed_child(s, id, msgs)
         IN  Registry(u, NoMap) /\ Spares(s, u)
<1> DEFINE old == s.completed[id]
           first == CHOOSE m \in msgs : \A x \in msgs : m.msg <= x.msg
           req == wake_request(old.req)
           decision == admit(s, req)
           at == next_queued_at(s)
           a == {Park(first, TRUE)}
           b == {Park(m, FALSE) : m \in msgs \ {first}}
           moved == [s EXCEPT
             !.completed = Without(@, {id}),
             !.completed_order = retain(@, ToSet(@) \ {id}),
             !.spawn_ready = @ \cup a \cup b]
           entry == [req |-> req, cancelled |-> FALSE, reply |-> FALSE,
                     deadline |-> FALSE, wake |-> old, queued_at |-> at]
           parked == [s EXCEPT !.pending_wakes = @ \cup msgs]
           refused == Answer(s, MsgsOf(msgs), "Refused")
           one == [x \in {id} |-> entry]
           started == start_children(moved, one)
           queued == [moved EXCEPT !.queued = Put(@, id, entry)]
<1>0. DOMAIN s = Fields BY DEF Registry, Maps
<1>1. \/ wake_completed_child(s, id, msgs) = parked
      \/ wake_completed_child(s, id, msgs) = refused
      \/ wake_completed_child(s, id, msgs) = started
      \/ wake_completed_child(s, id, msgs) = queued
      BY DEF wake_completed_child
<1>2. Upholds(s, parked)
  <2>1. DOMAIN parked = Fields /\ \A f \in Fields \ {"pending_wakes"} : parked[f] = s[f]
        BY <1>0 DEF Fields
  <2> HIDE DEF parked
  <2>2. Calm(s, parked) BY <2>1 DEF Calm, Values, Held, Fields
  <2> QED BY <2>2, CalmUpholds
<1>3. Upholds(s, refused)
  <2>1. Calm(s, refused) BY <1>0, AnswerCalm DEF Outcomes
  <2> QED BY <2>1, CalmUpholds
<1> HIDE DEF parked, refused, first, a, b
<1>4. /\ DOMAIN moved = Fields
      /\ \A f \in Fields \ {"completed", "completed_order", "spawn_ready"} : moved[f] = s[f]
      /\ moved.completed = Without(s.completed, {id})
      /\ moved.completed_order = retain(s.completed_order, ToSet(s.completed_order) \ {id})
      BY <1>0 DEF Fields
<1>5. at \in Nat /\ \A x \in DOMAIN s.queued : s.queued[x].queued_at < at BY NextTime
<1>6. old \in CompletedChild BY DEF Registry, Maps, MapOf
<1>7. req \in Request /\ req.workflow = None
  <2> DEFINE r == old.req
  <2>1. r \in Request /\ r.workflow = None BY <1>6 DEF CompletedChild
  <2> HIDE DEF r
  <2>2. wake_request(r) \in Request /\ wake_request(r).workflow = r.workflow
        BY <2>1 DEF wake_request, Request
  <2> QED BY <2>1, <2>2 DEF r
<1> HIDE DEF moved, at
<1>8. /\ entry \in QueuedSpawn /\ entry.req = req /\ entry.reply = FALSE
      /\ entry.wake = old /\ entry.queued_at = at /\ entry.deadline = FALSE
  <2> HIDE DEF req, old
  <2> QED BY <1>5, <1>6, <1>7 DEF QueuedSpawn
<1>9. DOMAIN one = {id} /\ one[id] = entry OBVIOUS
<1> HIDE DEF entry
<1>10. Registry(moved, one)
  <2>1. /\ one[id].req = wake_request(s.completed[id].req)
        /\ one[id].reply \in BOOLEAN /\ ~one[id].reply
        /\ one[id].wake = s.completed[id]
        BY <1>8, <1>9
  <2> HIDE DEF one, req, old
  <2> QED BY <1>4, <1>9, <2>1, DisplaceRegistry
<1> HIDE DEF one, req, old
<1>11. Registry(started, Without(one, DOMAIN one))
       BY <1>8, <1>9, <1>10, StartChildrenRegistry
<1>12. Registry(queued, Without(one, {id}))
  <2>1. moved.queued = s.queued BY <1>4 DEF Fields
  <2>2. \A x \in DOMAIN moved.queued : moved.queued[x].queued_at # entry.queued_at
    <3>1. \A x \in DOMAIN s.queued : s.queued[x].queued_at \in Nat
          BY DEF Registry, Maps, MapOf, QueuedSpawn
    <3> QED BY <1>5, <1>8, <2>1, <3>1
  <2> HIDE DEF queued
  <2>3. id \in DOMAIN one BY <1>9
  <2>4. /\ entry.req = one[id].req /\ entry.reply = one[id].reply
        /\ entry.wake = one[id].wake /\ entry.req.workflow = None
        BY <1>7, <1>8, <1>9
  <2>5. Registry([moved EXCEPT !.queued = Put(@, id, entry)], Without(one, {id}))
        BY <1>8, <1>10, <2>2, <2>3, <2>4, EnqueueRegistry
  <2> QED BY <2>5 DEF queued
<1>13. /\ moved.queued = s.queued /\ moved.pending = s.pending /\ moved.active = s.active
       /\ moved.next_completion_age = s.next_completion_age
       BY <1>4 DEF Fields
<1>14. id \notin Live(s) /\ old = s.completed[id] BY DEF Registry, Apart, Live, old
<1>15. Spares(s, started)
  <2> DEFINE fresh == [x \in DOMAIN one |-> fresh_pending(one[x])]
             o == Overlay(s.pending, fresh)
  <2>1. /\ started.pending = Overlay(moved.pending, fresh)
        /\ started.queued = moved.queued /\ started.active = moved.active
        /\ started.completed = moved.completed
        /\ started.next_completion_age = moved.next_completion_age
        BY <1>4 DEF start_children, Fields
  <2>2. DOMAIN fresh = {id} /\ fresh[id].wake = old
        BY <1>8, <1>9 DEF fresh_pending
  <2> HIDE DEF started, fresh
  <2>3. /\ DOMAIN o = DOMAIN s.pending \cup DOMAIN fresh
        /\ \A x \in DOMAIN fresh : o[x] = fresh[x]
        BY OverlayFacts
  <2>4. started.pending = o BY <1>13, <2>1
  <2> HIDE DEF o
  <2>5. Live(s) \subseteq Live(started) BY <1>13, <2>1, <2>3, <2>4 DEF Live
  <2>6. waking(started, id) = old
        BY <1>13, <1>14, <2>1, <2>2, <2>3, <2>4 DEF waking, Live
  <2> QED BY <1>4, <1>13, <1>14, <2>1, <2>5, <2>6, DisplacedSpares
<1>16. Spares(s, queued)
  <2> DEFINE o == Put(s.queued, id, entry)
  <2>1. /\ queued.queued = Put(moved.queued, id, entry)
        /\ queued.pending = moved.pending /\ queued.active = moved.active
        /\ queued.completed = moved.completed
        /\ queued.next_completion_age = moved.next_completion_age
        BY <1>4 DEF Fields
  <2>2. DOMAIN o = DOMAIN s.queued \cup {id} /\ o[id] = entry BY DEF Put
  <2> HIDE DEF queued
  <2>3. queued.queued = o BY <1>13, <2>1
  <2> HIDE DEF o
  <2>4. Live(s) \subseteq Live(queued) BY <1>13, <2>1, <2>2, <2>3 DEF Live
  <2>5. waking(queued, id) = old BY <1>8, <2>2, <2>3 DEF waking
  <2> QED BY <1>4, <1>13, <1>14, <2>1, <2>4, <2>5, DisplacedSpares
<1> HIDE DEF started, queued
<1>17. Registry(started, NoMap) BY <1>11, ArrivedAll
<1>18. Registry(queued, NoMap) BY <1>9, <1>12, ArrivedAll
<1>19. \A u : Upholds(s, u) => Registry(u, NoMap) /\ Spares(s, u)
       BY UpholdsSpares DEF Upholds
<1> QED BY <1>1, <1>2, <1>3, <1>15, <1>16, <1>17, <1>18, <1>19

LEMMA SendRegistry ==
  ASSUME NEW s, Registry(s, NoMap), Shaped(s), NEW id, NEW msgs, IsFiniteSet(msgs)
  PROVE  LET u == handle_send_active_message(s, id, msgs)
         IN  Registry(u, NoMap) /\ Spares(s, u)
<1> DEFINE owned == {m \in msgs : is_reachable_from(s, id, m.sender)}
           chosen == {m \in owned : Addressable(s, m)}
           refuse(rest) == Answer(s, MsgsOf(rest), "Refused")
           new == {Park(m, FALSE) : m \in owned}
           t == refuse(msgs \ owned)
           w == refuse(msgs \ chosen)
           parked == [t EXCEPT !.spawn_ready = @ \cup new]
<1>0. DOMAIN s = Fields BY DEF Registry, Maps
<1>1. \/ handle_send_active_message(s, id, msgs) = refuse(msgs)
      \/ /\ id \in DOMAIN s.active
         /\ handle_send_active_message(s, id, msgs) = admit_active_messages(t, id, owned)
      \/ handle_send_active_message(s, id, msgs) = parked
      \/ /\ id \in DOMAIN s.completed /\ s.completed[id].req.workflow = None
         /\ handle_send_active_message(s, id, msgs) = wake_completed_child(w, id, chosen)
      BY DEF handle_send_active_message
<1>2. IsFiniteSet(owned)
  <2>1. owned \in SUBSET msgs OBVIOUS
  <2> QED BY <2>1, FS_Subset
<1> HIDE DEF owned, chosen
<1>3. \A rest : /\ Calm(s, refuse(rest)) /\ Upholds(s, refuse(rest))
                /\ Registry(refuse(rest), NoMap)
                /\ DOMAIN refuse(rest) = Fields
                /\ refuse(rest).active = s.active
                /\ refuse(rest).completed = s.completed
                /\ refuse(rest).queued = s.queued /\ refuse(rest).pending = s.pending
  <2> TAKE rest
  <2>1. Calm(s, refuse(rest)) BY <1>0, AnswerCalm DEF Outcomes
  <2> HIDE DEF refuse
  <2>2. Upholds(s, refuse(rest)) /\ Registry(refuse(rest), NoMap)
        BY <2>1, CalmUpholds DEF Upholds
  <2> QED BY <2>1, <2>2 DEF Calm
<1> HIDE DEF refuse
<1>4. ASSUME id \in DOMAIN s.active
      PROVE  Upholds(s, admit_active_messages(t, id, owned))
  <2> DEFINE u == admit_active_messages(t, id, owned)
  <2>1. Upholds(t, u) BY <1>2, <1>3, <1>4, AdmitRegistry
  <2> HIDE DEF u
  <2>2. Upholds(s, t) BY <1>3
  <2>3. Upholds(s, u) BY <2>1, <2>2, UpholdsTrans
  <2> QED BY <2>3 DEF u
<1>5. Upholds(s, parked)
  <2>1. DOMAIN parked = Fields /\ \A f \in Fields \ {"spawn_ready"} : parked[f] = t[f]
        BY <1>3 DEF Fields
  <2> HIDE DEF parked
  <2>2. Calm(t, parked)
    <3> HIDE DEF t
    <3> QED BY <2>1 DEF Calm, Values, Held, Fields
  <2>3. Calm(s, t) BY <1>3
  <2>4. Calm(s, parked) BY <2>2, <2>3, CalmTrans
  <2> QED BY <2>4, CalmUpholds
<1>6. ASSUME id \in DOMAIN s.completed, s.completed[id].req.workflow = None
      PROVE  LET u == wake_completed_child(w, id, chosen)
             IN  Registry(u, NoMap) /\ Spares(s, u)
  <2>1. Shaped(w) BY <1>3 DEF Shaped
  <2>2. /\ Registry(w, NoMap) /\ id \in DOMAIN w.completed
        /\ w.completed[id].req.workflow = None
        BY <1>3, <1>6
  <2> DEFINE u == wake_completed_child(w, id, chosen)
  <2>3. Registry(u, NoMap) /\ Spares(w, u) BY <2>1, <2>2, WakeRegistry
  <2>4. Calm(s, w) BY <1>3
  <2> HIDE DEF u, w
  <2>5. Spares(s, u) BY <2>3, <2>4, CalmSpares
  <2> QED BY <2>3, <2>5 DEF u, w
<1>7. \A u : Upholds(s, u) => Registry(u, NoMap) /\ Spares(s, u)
      BY UpholdsSpares DEF Upholds
<1>8. Upholds(s, refuse(msgs)) BY <1>3
<1> HIDE DEF t, w, parked
<1> QED BY <1>1, <1>4, <1>5, <1>6, <1>7, <1>8

LEMMA TerminalPublishedRegistry ==
  ASSUME NEW s, Registry(s, NoMap), Shaped(s), IsFiniteSet(s.pending_wakes), NEW id
  PROVE  LET u == handle_terminal_published(s, id)
         IN  Registry(u, NoMap) /\ Spares(s, u)
<1> DEFINE parked == {m \in s.pending_wakes : m.id = id}
           u == [s EXCEPT !.pending_wakes = @ \ parked]
<1>0. DOMAIN s = Fields BY DEF Registry, Maps
<1>1. \/ handle_terminal_published(s, id) = s
      \/ handle_terminal_published(s, id) = reject_pending_wakes_for_ids(s, {id})
      \/ handle_terminal_published(s, id) = handle_send_active_message(u, id, parked)
      BY DEF handle_terminal_published
<1>2. IsFiniteSet(parked)
  <2>1. parked \in SUBSET s.pending_wakes OBVIOUS
  <2> QED BY <2>1, FS_Subset
<1> HIDE DEF parked
<1>3. DOMAIN u = Fields /\ \A f \in Fields \ {"pending_wakes"} : u[f] = s[f]
      BY <1>0 DEF Fields
<1> HIDE DEF u
<1>4. Calm(s, u) BY <1>3 DEF Calm, Values, Held, Fields
<1>5. Registry(u, NoMap) BY <1>4, CalmRegistry
<1>6. Shaped(u) BY <1>4 DEF Calm, Shaped
<1> DEFINE v == handle_send_active_message(u, id, parked)
<1>7. Registry(v, NoMap) /\ Spares(s, v)
  <2>1. Registry(v, NoMap) /\ Spares(u, v) BY <1>2, <1>5, <1>6, SendRegistry
  <2> HIDE DEF v
  <2> QED BY <1>4, <2>1, CalmSpares
<1>8. Upholds(s, reject_pending_wakes_for_ids(s, {id}))
  <2>1. Calm(s, reject_pending_wakes_for_ids(s, {id})) BY <1>0, RejectPendingWakesCalm
  <2> QED BY <2>1, CalmUpholds
<1>9. \A w : Upholds(s, w) => Registry(w, NoMap) /\ Spares(s, w)
      BY UpholdsSpares DEF Upholds
<1>10. Upholds(s, s) BY UpholdsSelf
<1> HIDE DEF v
<1> QED BY <1>1, <1>7, <1>8, <1>9, <1>10 DEF v

----------------------------------------------------------------------------
(* Sweeps and cancellation.                                                *)

(* Records of one kind of live children.                                   *)
Kinds == {QueuedSpawn, PendingChild, ActiveRow}

(* One flag of a record.                                                   *)
LEMMA CancelledRow ==
  ASSUME NEW R \in Kinds, NEW r \in R, NEW b \in BOOLEAN
  PROVE  LET w == [r EXCEPT !.cancelled = b]
         IN  /\ w \in R /\ w.req = r.req /\ w.reply = r.reply /\ w.wake = r.wake
             /\ R = QueuedSpawn => w.queued_at = r.queued_at
<1>1. CASE R = QueuedSpawn BY <1>1 DEF QueuedSpawn
<1>2. CASE R = PendingChild /\ R # QueuedSpawn BY <1>2 DEF PendingChild
<1>3. CASE R = ActiveRow /\ R # QueuedSpawn BY <1>3 DEF ActiveRow
<1> QED BY <1>1, <1>2, <1>3 DEF Kinds

LEMMA ReplyRow ==
  ASSUME NEW R \in Kinds, NEW r \in R, NEW b \in BOOLEAN
  PROVE  LET w == [r EXCEPT !.reply = b]
         IN  /\ w \in R /\ w.req = r.req /\ (w.reply <=> b) /\ w.wake = r.wake
             /\ R = QueuedSpawn => w.queued_at = r.queued_at
<1>1. CASE R = QueuedSpawn BY <1>1 DEF QueuedSpawn
<1>2. CASE R = PendingChild /\ R # QueuedSpawn BY <1>2 DEF PendingChild
<1>3. CASE R = ActiveRow /\ R # QueuedSpawn BY <1>3 DEF ActiveRow
<1> QED BY <1>1, <1>2, <1>3 DEF Kinds

LEMMA DeadlineRow ==
  ASSUME NEW R \in Kinds, NEW r \in R, NEW b \in BOOLEAN
  PROVE  LET w == [r EXCEPT !.deadline = b]
         IN  /\ w \in R /\ w.req = r.req /\ w.reply = r.reply /\ w.wake = r.wake
             /\ R = QueuedSpawn => w.queued_at = r.queued_at
<1>1. CASE R = QueuedSpawn BY <1>1 DEF QueuedSpawn
<1>2. CASE R = PendingChild /\ R # QueuedSpawn BY <1>2 DEF PendingChild
<1>3. CASE R = ActiveRow /\ R # QueuedSpawn BY <1>3 DEF ActiveRow
<1> QED BY <1>1, <1>2, <1>3 DEF Kinds

LEMMA MutedRow ==
  ASSUME NEW R \in Kinds, NEW r \in R, NEW b \in BOOLEAN
  PROVE  LET w == [r EXCEPT !.req.surface = b]
         IN  /\ w \in R /\ w.req.workflow = r.req.workflow /\ w.reply = r.reply
             /\ w.wake = r.wake
             /\ R = QueuedSpawn => w.queued_at = r.queued_at
<1> DEFINE q == [r.req EXCEPT !.surface = b]
           v == [r EXCEPT !.req = q]
<1>1. r.req \in Request
  <2>1. CASE R = QueuedSpawn BY <2>1 DEF QueuedSpawn
  <2>2. CASE R = PendingChild BY <2>2 DEF PendingChild
  <2>3. CASE R = ActiveRow BY <2>3 DEF ActiveRow
  <2> QED BY <2>1, <2>2, <2>3 DEF Kinds
<1>2. q \in Request /\ q.workflow = r.req.workflow BY <1>1 DEF Request
<1>3. [r EXCEPT !.req.surface = b] = v OBVIOUS
<1> HIDE DEF q
<1>4. R = QueuedSpawn =>
        /\ v \in R /\ v.req = q /\ v.reply = r.reply /\ v.wake = r.wake
        /\ v.queued_at = r.queued_at
      BY <1>2 DEF QueuedSpawn
<1>5. R = PendingChild =>
        v \in R /\ v.req = q /\ v.reply = r.reply /\ v.wake = r.wake
      BY <1>2 DEF PendingChild
<1>6. R = ActiveRow =>
        v \in R /\ v.req = q /\ v.reply = r.reply /\ v.wake = r.wake
      BY <1>2 DEF ActiveRow
<1> HIDE DEF v
<1>7. v \in R /\ v.req = q /\ v.reply = r.reply /\ v.wake = r.wake
      BY <1>4, <1>5, <1>6 DEF Kinds
<1> QED BY <1>2, <1>3, <1>4, <1>7

(* A caller gives up its place in a pending or active record.              *)
LEMMA DetachedRow ==
  ASSUME NEW R \in {PendingChild, ActiveRow}, NEW r \in R
  PROVE  LET w == [r EXCEPT !.reply = FALSE, !.handle_only = TRUE, !.deadline = FALSE]
         IN  w \in R /\ w.req = r.req /\ ~w.reply /\ w.wake = r.wake
<1> DEFINE a == [r EXCEPT !.reply = FALSE]
           b == [a EXCEPT !.handle_only = TRUE]
           w == [b EXCEPT !.deadline = FALSE]
<1>1. a \in R /\ a.req = r.req /\ ~a.reply /\ a.wake = r.wake BY ReplyRow DEF Kinds
<1> HIDE DEF a
<1>2. b \in R /\ b.req = a.req /\ b.reply = a.reply /\ b.wake = a.wake
  <2>1. CASE R = PendingChild BY <1>1, <2>1 DEF PendingChild
  <2>2. CASE R = ActiveRow /\ R # PendingChild BY <1>1, <2>2 DEF ActiveRow
  <2> QED BY <2>1, <2>2
<1> HIDE DEF b
<1>3. w \in R /\ w.req = b.req /\ w.reply = b.reply /\ w.wake = b.wake
      BY <1>2, DeadlineRow DEF Kinds
<1> HIDE DEF w
<1>4. w = [r EXCEPT !.reply = FALSE, !.handle_only = TRUE, !.deadline = FALSE]
      BY DEF a, b, w
<1>5. w \in R /\ w.req = r.req /\ ~w.reply /\ w.wake = r.wake BY <1>1, <1>2, <1>3
<1> QED BY <1>4, <1>5

(* The flags of a whole map.                                               *)
LEMMA MarkedRows ==
  ASSUME NEW R \in Kinds, NEW f, MapOf(f, R), NEW g, DOMAIN g = DOMAIN f,
         \A x \in DOMAIN f : \E b \in BOOLEAN : g[x] = [f[x] EXCEPT !.cancelled = b]
  PROVE  /\ SameRows(f, g) /\ SameWakes(f, g)
         /\ MapOf(g, R) /\ Replying(g) = Replying(f)
         /\ R = QueuedSpawn => \A x \in DOMAIN f : g[x].queued_at = f[x].queued_at
<1>2. ASSUME NEW x \in DOMAIN f
      PROVE  /\ g[x] \in R /\ g[x].req = f[x].req /\ g[x].reply = f[x].reply
             /\ g[x].wake = f[x].wake
             /\ R = QueuedSpawn => g[x].queued_at = f[x].queued_at
  <2> DEFINE r == f[x]
  <2>1. r \in R BY DEF MapOf
  <2>2. PICK b \in BOOLEAN : g[x] = [r EXCEPT !.cancelled = b] OBVIOUS
  <2> HIDE DEF r
  <2>4. /\ g[x] \in R /\ g[x].req = r.req /\ g[x].reply = r.reply
        /\ g[x].wake = r.wake
        /\ R = QueuedSpawn => g[x].queued_at = r.queued_at
        BY <2>1, <2>2, CancelledRow
  <2> QED BY <2>4 DEF r
<1>3. SameRows(f, g) /\ SameWakes(f, g) BY <1>2 DEF SameRows, SameWakes
<1>4. MapOf(g, R) BY <1>2 DEF MapOf
<1>5. Replying(g) = Replying(f) BY <1>2 DEF Replying
<1>6. R = QueuedSpawn => \A x \in DOMAIN f : g[x].queued_at = f[x].queued_at BY <1>2
<1> QED BY <1>3, <1>4, <1>5, <1>6

MutedTo(r, w) == \E b \in BOOLEAN : w = [r EXCEPT !.req.surface = b]

LEMMA MutedRows ==
  ASSUME NEW R \in Kinds, NEW f, MapOf(f, R), NEW g, DOMAIN g = DOMAIN f,
         \A x \in DOMAIN f : MutedTo(f[x], g[x])
  PROVE  /\ SameRows(f, g) /\ SameWakes(f, g)
         /\ MapOf(g, R) /\ Replying(g) = Replying(f)
         /\ R = QueuedSpawn => \A x \in DOMAIN f : g[x].queued_at = f[x].queued_at
<1>2. ASSUME NEW x \in DOMAIN f
      PROVE  /\ g[x] \in R /\ g[x].req.workflow = f[x].req.workflow
             /\ g[x].reply = f[x].reply /\ g[x].wake = f[x].wake
             /\ R = QueuedSpawn => g[x].queued_at = f[x].queued_at
  <2> DEFINE r == f[x]
  <2>1. r \in R BY DEF MapOf
  <2>2. PICK b \in BOOLEAN : g[x] = [r EXCEPT !.req.surface = b] BY DEF MutedTo
  <2> HIDE DEF r
  <2>4. /\ g[x] \in R /\ g[x].req.workflow = r.req.workflow
        /\ g[x].reply = r.reply /\ g[x].wake = r.wake
        /\ R = QueuedSpawn => g[x].queued_at = r.queued_at
        BY <2>1, <2>2, MutedRow
  <2> QED BY <2>4 DEF r
<1>3. SameRows(f, g) /\ SameWakes(f, g) BY <1>2 DEF SameRows, SameWakes
<1>4. MapOf(g, R) BY <1>2 DEF MapOf
<1>5. Replying(g) = Replying(f) BY <1>2 DEF Replying
<1>6. R = QueuedSpawn => \A x \in DOMAIN f : g[x].queued_at = f[x].queued_at BY <1>2
<1> QED BY <1>3, <1>4, <1>5, <1>6

LEMMA BackgroundRows ==
  ASSUME NEW s, NEW R \in {PendingChild, ActiveRow}, NEW f, MapOf(f, R)
  PROVE  LET g == background_if_caller_gone(s, f)
         IN  /\ SameRows(f, g) /\ SameWakes(f, g)
             /\ MapOf(g, R)
             /\ \A x \in Replying(f) : s.caller[x] # "gone" => x \in Replying(g)
<1> DEFINE g == background_if_caller_gone(s, f)
<1>1. DOMAIN g = DOMAIN f BY DEF background_if_caller_gone
<1>2. ASSUME NEW x \in DOMAIN f
      PROVE  /\ g[x] \in R /\ g[x].req = f[x].req /\ (g[x].reply => f[x].reply)
             /\ g[x].wake = f[x].wake
             /\ s.caller[x] # "gone" => g[x] = f[x]
  <2> DEFINE r == f[x]
             half == [r EXCEPT !.reply = FALSE]
             cancelled == [r EXCEPT !.reply = FALSE, !.cancelled = TRUE]
             freed == [r EXCEPT !.reply = FALSE, !.handle_only = TRUE, !.deadline = FALSE]
  <2>1. /\ g[x] = r \/ g[x] = cancelled \/ g[x] = freed
        /\ s.caller[x] # "gone" => g[x] = r
        BY DEF background_if_caller_gone
  <2>2. r \in R BY DEF MapOf
  <2> HIDE DEF g, r
  <2>3. half \in R /\ half.req = r.req /\ ~half.reply /\ half.wake = r.wake
        BY <2>2, ReplyRow DEF Kinds
  <2>4. cancelled = [half EXCEPT !.cancelled = TRUE] OBVIOUS
  <2> HIDE DEF half, cancelled
  <2>5. /\ cancelled \in R /\ cancelled.req = half.req /\ cancelled.reply = half.reply
        /\ cancelled.wake = half.wake
        BY <2>3, <2>4, CancelledRow DEF Kinds
  <2>6. freed \in R /\ freed.req = r.req /\ ~freed.reply /\ freed.wake = r.wake
        BY <2>2, DetachedRow
  <2> HIDE DEF freed
  <2> QED BY <2>1, <2>2, <2>3, <2>5, <2>6 DEF r
<1> HIDE DEF g
<1>3. SameRows(f, g) /\ SameWakes(f, g) BY <1>1, <1>2 DEF SameRows, SameWakes
<1>4. MapOf(g, R) BY <1>1, <1>2 DEF MapOf
<1>5. \A x \in Replying(f) : s.caller[x] # "gone" => x \in Replying(g)
      BY <1>1, <1>2 DEF Replying
<1> QED BY <1>3, <1>4, <1>5 DEF g

(* The records of a map, the child's one without its caller.               *)
Detached(f, id) ==
  [x \in DOMAIN f |-> IF x # id THEN f[x] ELSE
     [f[x] EXCEPT !.reply = FALSE, !.handle_only = TRUE, !.deadline = FALSE]]

LEMMA DetachedRows ==
  ASSUME NEW id, NEW R \in {PendingChild, ActiveRow}, NEW f, MapOf(f, R)
  PROVE  /\ SameRows(f, Detached(f, id)) /\ SameWakes(f, Detached(f, id))
         /\ MapOf(Detached(f, id), R)
         /\ \A x \in Replying(f) : x # id => x \in Replying(Detached(f, id))
<1> DEFINE g == Detached(f, id)
<1>1. DOMAIN g = DOMAIN f BY DEF Detached
<1>2. ASSUME NEW x \in DOMAIN f
      PROVE  /\ g[x] \in R /\ g[x].req = f[x].req /\ (g[x].reply => f[x].reply)
             /\ g[x].wake = f[x].wake
             /\ x # id => g[x] = f[x]
  <2> DEFINE r == f[x]
             freed == [r EXCEPT !.reply = FALSE, !.handle_only = TRUE, !.deadline = FALSE]
  <2>1. (g[x] = r \/ g[x] = freed) /\ (x # id => g[x] = r) BY DEF Detached
  <2>2. r \in R BY DEF MapOf
  <2> HIDE DEF g, r
  <2>6. freed \in R /\ freed.req = r.req /\ ~freed.reply /\ freed.wake = r.wake
        BY <2>2, DetachedRow
  <2> HIDE DEF freed
  <2> QED BY <2>1, <2>2, <2>6 DEF r
<1> HIDE DEF g
<1>3. SameRows(f, g) /\ SameWakes(f, g) BY <1>1, <1>2 DEF SameRows, SameWakes
<1>4. MapOf(g, R) BY <1>1, <1>2 DEF MapOf
<1>5. \A x \in Replying(f) : x # id => x \in Replying(g)
      BY <1>1, <1>2 DEF Replying
<1> QED BY <1>3, <1>4, <1>5 DEF g

(* Queue entries that lose their caller, or their deadline, unless stays.  *)
UnattendedTo(r, w, stays) ==
  \E a, d \in BOOLEAN :
    /\ w = [r EXCEPT !.reply = a, !.deadline = d]
    /\ a => r.reply
    /\ r.reply /\ stays => a

LEMMA UnattendedRow ==
  ASSUME NEW r \in QueuedSpawn, NEW w, NEW stays, UnattendedTo(r, w, stays)
  PROVE  /\ w \in QueuedSpawn /\ w.req = r.req
         /\ w.reply => r.reply
         /\ r.reply /\ stays => w.reply
         /\ w.wake = r.wake /\ w.queued_at = r.queued_at
<1>1. PICK a, d \in BOOLEAN :
        /\ w = [r EXCEPT !.reply = a, !.deadline = d]
        /\ a => r.reply
        /\ r.reply /\ stays => a
      BY DEF UnattendedTo
<1> DEFINE h == [r EXCEPT !.reply = a]
<1>2. w = [h EXCEPT !.deadline = d] BY <1>1
<1>3. /\ h \in QueuedSpawn /\ h.req = r.req /\ h.reply = a
      /\ h.wake = r.wake /\ h.queued_at = r.queued_at
      BY DEF QueuedSpawn
<1> HIDE DEF h
<1>4. /\ w \in QueuedSpawn /\ w.req = h.req /\ w.reply = h.reply
      /\ w.wake = h.wake /\ w.queued_at = h.queued_at
      BY <1>2, <1>3 DEF QueuedSpawn
<1>5. (a => r.reply) /\ (r.reply /\ stays => a) BY <1>1
<1> QED BY <1>3, <1>4, <1>5

LEMMA UnattendedRows ==
  ASSUME NEW f, MapOf(f, QueuedSpawn), NEW g, DOMAIN g = DOMAIN f, NEW S,
         \A x \in DOMAIN f : UnattendedTo(f[x], g[x], x \in S)
  PROVE  /\ SameRows(f, g) /\ SameWakes(f, g)
         /\ MapOf(g, QueuedSpawn)
         /\ \A x \in Replying(f) : x \in S => x \in Replying(g)
         /\ \A x \in DOMAIN f : g[x].queued_at = f[x].queued_at
<1>2. ASSUME NEW x \in DOMAIN f
      PROVE  /\ g[x] \in QueuedSpawn /\ g[x].req = f[x].req
             /\ g[x].reply => f[x].reply
             /\ f[x].reply /\ x \in S => g[x].reply
             /\ g[x].wake = f[x].wake /\ g[x].queued_at = f[x].queued_at
  <2>1. f[x] \in QueuedSpawn BY DEF MapOf
  <2> DEFINE stays == x \in S
  <2>2. UnattendedTo(f[x], g[x], stays) OBVIOUS
  <2> HIDE DEF stays
  <2>3. /\ g[x] \in QueuedSpawn /\ g[x].req = f[x].req
        /\ g[x].reply => f[x].reply
        /\ f[x].reply /\ stays => g[x].reply
        /\ g[x].wake = f[x].wake /\ g[x].queued_at = f[x].queued_at
        BY <2>1, <2>2, UnattendedRow
  <2> QED BY <2>3 DEF stays
<1>3. SameRows(f, g) /\ SameWakes(f, g) BY <1>2 DEF SameRows, SameWakes
<1>4. MapOf(g, QueuedSpawn) BY <1>2 DEF MapOf
<1>5. \A x \in Replying(f) : x \in S => x \in Replying(g) BY <1>2 DEF Replying
<1> QED BY <1>2, <1>3, <1>4, <1>5

(* The sweep of abandoned callers.                                         *)
LEMMA ReapRegistry ==
  ASSUME NEW s, Registry(s, NoMap)
  PROVE  Upholds(s, reap_abandoned_callers(s))
<1> DEFINE abandoned(id) == s.queued[id].reply /\ s.caller[id] = "gone"
           kept == [id \in DOMAIN s.queued |->
                      [s.queued[id] EXCEPT !.reply = @ /\ ~abandoned(id),
                                           !.deadline = @ /\ ~abandoned(id)]]
           pending == background_if_caller_gone(s, s.pending)
           active == background_if_caller_gone(s, s.active)
           swept == [s EXCEPT !.pending = pending, !.active = active, !.queued = kept]
           ids == {id \in DOMAIN s.queued : s.queued[id].cancelled}
<1>1. reap_abandoned_callers(s) = remove_queued(swept, ids)
      BY DEF reap_abandoned_callers
<1>2. /\ MapOf(s.queued, QueuedSpawn) /\ MapOf(s.pending, PendingChild)
      /\ MapOf(s.active, ActiveRow) /\ DOMAIN s = Fields
      BY DEF Registry, Maps
<1>3. /\ SameRows(s.pending, pending) /\ SameWakes(s.pending, pending)
      /\ MapOf(pending, PendingChild)
      /\ \A x \in Replying(s.pending) : s.caller[x] # "gone" => x \in Replying(pending)
      BY <1>2, BackgroundRows
<1>4. /\ SameRows(s.active, active) /\ SameWakes(s.active, active)
      /\ MapOf(active, ActiveRow)
      /\ \A x \in Replying(s.active) : s.caller[x] # "gone" => x \in Replying(active)
      BY <1>2, BackgroundRows
<1>5. /\ SameRows(s.queued, kept) /\ SameWakes(s.queued, kept)
      /\ MapOf(kept, QueuedSpawn)
      /\ \A x \in Replying(s.queued) : s.caller[x] # "gone" => x \in Replying(kept)
      /\ \A x \in DOMAIN s.queued : kept[x].queued_at = s.queued[x].queued_at
  <2> DEFINE S == {x \in DOMAIN s.queued : s.caller[x] # "gone"}
  <2>1. DOMAIN kept = DOMAIN s.queued OBVIOUS
  <2>2. \A x \in DOMAIN s.queued : UnattendedTo(s.queued[x], kept[x], x \in S)
    <3> TAKE x \in DOMAIN s.queued
    <3> DEFINE r == s.queued[x]
               stays == x \in S
               a == r.reply /\ ~abandoned(x)
               d == r.deadline /\ ~abandoned(x)
    <3>1. a \in BOOLEAN /\ d \in BOOLEAN OBVIOUS
    <3>2. kept[x] = [r EXCEPT !.reply = a, !.deadline = d] OBVIOUS
    <3>3. (a => r.reply) /\ (r.reply /\ stays => a) OBVIOUS
    <3> HIDE DEF kept, a, d, stays, r
    <3>4. UnattendedTo(r, kept[x], stays) BY <3>1, <3>2, <3>3 DEF UnattendedTo
    <3> QED BY <3>4 DEF r, stays
  <2> HIDE DEF kept
  <2>4. /\ SameRows(s.queued, kept) /\ SameWakes(s.queued, kept)
        /\ MapOf(kept, QueuedSpawn)
        /\ \A x \in Replying(s.queued) : x \in S => x \in Replying(kept)
        /\ \A x \in DOMAIN s.queued : kept[x].queued_at = s.queued[x].queued_at
    <3> HIDE DEF S
    <3> QED BY <1>2, <2>1, <2>2, UnattendedRows
  <2> QED BY <2>4 DEF Replying
<1> HIDE DEF pending, active, kept
<1>6. /\ DOMAIN swept = Fields
      /\ swept.queued = kept /\ swept.pending = pending /\ swept.active = active
      /\ \A f \in Fields \ {"queued", "pending", "active"} : swept[f] = s[f]
      BY <1>2 DEF Fields
<1> HIDE DEF swept
<1>7. Beside(s, swept) /\ swept.caller = s.caller
      BY <1>6 DEF Beside, Values, Held, Fields
<1>8. Upholds(s, swept) BY <1>3, <1>4, <1>5, <1>6, <1>7, RowsRegistry
<1> DEFINE t == remove_queued(swept, ids)
<1>9. Upholds(swept, t) BY <1>8, RemoveQueuedRegistry DEF Upholds
<1> HIDE DEF t
<1>10. Upholds(s, t) BY <1>8, <1>9, UpholdsTrans
<1> QED BY <1>1, <1>10 DEF t

LEMMA Marking ==
  ASSUME NEW R \in Kinds, NEW f, MapOf(f, R), NEW ids,
         \A x \in DOMAIN f : f[x].cancelled \in BOOLEAN
  PROVE  LET g == [id \in DOMAIN f |-> [f[id] EXCEPT !.cancelled = @ \/ id \in ids]]
         IN  SameRows(f, g) /\ SameWakes(f, g) /\ MapOf(g, R) /\ Replying(g) = Replying(f)
<1> DEFINE g == [id \in DOMAIN f |-> [f[id] EXCEPT !.cancelled = @ \/ id \in ids]]
<1>1. DOMAIN g = DOMAIN f OBVIOUS
<1>2. \A x \in DOMAIN f : \E b \in BOOLEAN : g[x] = [f[x] EXCEPT !.cancelled = b]
  <2> TAKE x \in DOMAIN f
  <2> DEFINE b == f[x].cancelled \/ x \in ids
  <2>1. b \in BOOLEAN OBVIOUS
  <2>2. g[x] = [f[x] EXCEPT !.cancelled = b] OBVIOUS
  <2> HIDE DEF g, b
  <2> QED BY <2>1, <2>2
<1> HIDE DEF g
<1> QED BY <1>1, <1>2, MarkedRows DEF g

(* The children of a session that goes away, muted.                        *)
Muted(f, p) ==
  [id \in DOMAIN f |-> [f[id] EXCEPT !.req.surface = @ /\ f[id].req.session # p]]

LEMMA Muting ==
  ASSUME NEW R \in Kinds, NEW f, MapOf(f, R), NEW p
  PROVE  /\ SameRows(f, Muted(f, p)) /\ SameWakes(f, Muted(f, p))
         /\ MapOf(Muted(f, p), R)
         /\ Replying(Muted(f, p)) = Replying(f)
         /\ R = QueuedSpawn =>
              \A x \in DOMAIN f : Muted(f, p)[x].queued_at = f[x].queued_at
<1> DEFINE g == Muted(f, p)
<1>1. DOMAIN g = DOMAIN f BY DEF Muted
<1>2. \A x \in DOMAIN f : MutedTo(f[x], g[x])
  <2> TAKE x \in DOMAIN f
  <2> DEFINE b == f[x].req.surface /\ f[x].req.session # p
  <2>1. b \in BOOLEAN OBVIOUS
  <2>2. g[x] = [f[x] EXCEPT !.req.surface = b] BY DEF Muted
  <2> HIDE DEF g, b
  <2> QED BY <2>1, <2>2 DEF MutedTo
<1> HIDE DEF g
<1>3. /\ SameRows(f, g) /\ SameWakes(f, g)
      /\ MapOf(g, R) /\ Replying(g) = Replying(f)
      /\ R = QueuedSpawn => \A x \in DOMAIN f : g[x].queued_at = f[x].queued_at
      BY <1>1, <1>2, MutedRows
<1> QED BY <1>3 DEF g

(* Cancelling marks the children and refuses what waits for those that     *)
(* have not started.                                                       *)
LEMMA CancelRegistry ==
  ASSUME NEW s, NEW ids, NEW entries, Registry(s, NoMap)
  PROVE  /\ Upholds(s, cancel_children(s, ids))
         /\ Upholds(s, remove_queued(cancel_children(s, ids), entries))
<1> DEFINE marked(f) == [id \in DOMAIN f |-> [f[id] EXCEPT !.cancelled = @ \/ id \in ids]]
           active == marked(s.active)
           pending == marked(s.pending)
           t == [s EXCEPT !.active = active, !.pending = pending]
           gone == ids \cap DOMAIN s.pending
           u == reject_spawn_ready_ids(t, gone)
<1>1. cancel_children(s, ids) = u BY DEF cancel_children
<1>2. MapOf(s.pending, PendingChild) /\ MapOf(s.active, ActiveRow) /\ DOMAIN s = Fields
      /\ MapOf(s.queued, QueuedSpawn)
      BY DEF Registry, Maps
<1>3. /\ SameRows(s.pending, pending) /\ SameWakes(s.pending, pending)
      /\ MapOf(pending, PendingChild)
      /\ Replying(pending) = Replying(s.pending)
  <2>1. \A x \in DOMAIN s.pending : s.pending[x].cancelled \in BOOLEAN
        BY <1>2 DEF MapOf, PendingChild
  <2>2. PendingChild \in Kinds BY DEF Kinds
  <2>3. MapOf(s.pending, PendingChild) BY <1>2
  <2> QED BY ONLY <2>3, <2>1, <2>2, Marking
<1>4. /\ SameRows(s.active, active) /\ SameWakes(s.active, active)
      /\ MapOf(active, ActiveRow)
      /\ Replying(active) = Replying(s.active)
  <2>1. \A x \in DOMAIN s.active : s.active[x].cancelled \in BOOLEAN
        BY <1>2 DEF MapOf, ActiveRow
  <2>2. ActiveRow \in Kinds BY DEF Kinds
  <2>3. MapOf(s.active, ActiveRow) BY <1>2
  <2> QED BY ONLY <2>3, <2>1, <2>2, Marking
<1> HIDE DEF active, pending, gone
<1>5. /\ DOMAIN t = Fields /\ t.pending = pending /\ t.active = active
      /\ \A f \in Fields \ {"pending", "active"} : t[f] = s[f]
      BY <1>2 DEF Fields
<1> HIDE DEF t
<1>6. Beside(s, t) /\ t.caller = s.caller /\ t.queued = s.queued
      BY <1>5 DEF Beside, Values, Held, Fields
<1>7. Upholds(s, t) BY <1>2, <1>3, <1>4, <1>5, <1>6, SelfRows, RowsRegistry
<1>8. Calm(t, u) BY <1>5, RejectSpawnReadyCalm
<1> DEFINE v == remove_queued(u, entries)
<1> HIDE DEF u
<1>9. Upholds(t, u) BY <1>7, <1>8, CalmUpholds DEF Upholds
<1>10. Upholds(u, v) BY <1>9, RemoveQueuedRegistry DEF Upholds
<1> HIDE DEF v
<1>11. Upholds(s, u) BY <1>7, <1>9, UpholdsTrans
<1>12. Upholds(s, v) BY <1>10, <1>11, UpholdsTrans
<1> QED BY <1>1, <1>11, <1>12 DEF v

(* The parked wakes of a session that stops are refused.                   *)
LEMMA RejectSessionCalm ==
  ASSUME NEW s, DOMAIN s = Fields, NEW p
  PROVE  Calm(s, reject_pending_wakes_for_session(s, p))
BY RejectPendingWakesCalm DEF reject_pending_wakes_for_session

LEMMA CancelSessionRegistry ==
  ASSUME NEW s, NEW p \in Sessions, Registry(s, NoMap)
  PROVE  Upholds(s, cancel_parent_session(s, p))
<1> DEFINE hit(map) == {id \in InSession(map, p) : map[id].req.workflow = None}
           blocked == [s EXCEPT !.spawn_blocked_sessions = @ \cup {p}]
           live == hit(s.active) \cup hit(s.pending)
           entries == hit(s.queued)
           ended == remove_queued(cancel_children(blocked, live), entries)
<1>1. cancel_parent_session(s, p) = reject_pending_wakes_for_session(ended, p)
      BY DEF cancel_parent_session
<1>2. /\ DOMAIN blocked = Fields
      /\ blocked.spawn_blocked_sessions = s.spawn_blocked_sessions \cup {p}
      /\ \A f \in Fields \ {"spawn_blocked_sessions"} : blocked[f] = s[f]
      BY DEF Registry, Maps, Fields
<1> HIDE DEF blocked, live, entries
<1>3. Calm(s, blocked) BY <1>2 DEF Calm, Values, Held, Fields
<1>4. Upholds(s, blocked) BY <1>3, CalmUpholds
<1>5. Upholds(blocked, ended) BY <1>4, CancelRegistry DEF Upholds
<1> HIDE DEF ended
<1>6. DOMAIN ended = Fields BY <1>5 DEF Upholds, Registry, Maps
<1> DEFINE t == reject_pending_wakes_for_session(ended, p)
<1>7. Calm(ended, t) BY <1>6, RejectSessionCalm
<1> HIDE DEF t
<1>8. Upholds(ended, t) BY <1>5, <1>7, CalmUpholds DEF Upholds
<1>9. Upholds(s, ended) BY <1>4, <1>5, UpholdsTrans
<1>10. Upholds(s, t) BY <1>8, <1>9, UpholdsTrans
<1> QED BY <1>1, <1>10 DEF t

(* Close and delete.                                                       *)
LEMMA TeardownRegistry ==
  ASSUME NEW s, NEW p \in Sessions, NEW b, Registry(s, NoMap)
  PROVE  Upholds(s, handle_teardown_session(s, p, b))
<1> DEFINE quiet == [s EXCEPT !.pending_completions =
                       purge_completions_for_spawner(@, {p})]
           refused == reject_pending_wakes_for_session(quiet, p)
           active == Muted(refused.active, p)
           pending == Muted(refused.pending, p)
           queued == Muted(refused.queued, p)
           silent == [refused EXCEPT !.active = active, !.pending = pending,
                                     !.queued = queued]
           live == InSession(quiet.active, p) \cup InSession(quiet.pending, p)
           entries == InSession(quiet.queued, p)
           torn == remove_queued(cancel_children(silent, live), entries)
           drain == begin_teardown_drain(torn, p)
<1>1. \/ handle_teardown_session(s, p, b) = drain
      \/ handle_teardown_session(s, p, b) = torn
      BY DEF handle_teardown_session, teardown_session_children, Muted
<1>2. /\ DOMAIN quiet = Fields
      /\ \A f \in Fields \ {"pending_completions"} : quiet[f] = s[f]
      BY DEF Registry, Maps, Fields
<1> HIDE DEF quiet, live, entries
<1>3. Calm(s, quiet) BY <1>2 DEF Calm, Values, Held, Fields
<1>4. Upholds(s, refused) /\ Registry(refused, NoMap)
  <2>1. Calm(quiet, refused) BY <1>2, RejectSessionCalm
  <2> HIDE DEF refused
  <2>2. Calm(s, refused) BY <1>3, <2>1, CalmTrans
  <2> QED BY <2>2, CalmUpholds DEF Upholds
<1> HIDE DEF refused
<1>5. /\ MapOf(refused.queued, QueuedSpawn) /\ MapOf(refused.pending, PendingChild)
      /\ MapOf(refused.active, ActiveRow) /\ DOMAIN refused = Fields
      BY <1>4 DEF Registry, Maps
<1>6. QueuedSpawn \in Kinds /\ PendingChild \in Kinds /\ ActiveRow \in Kinds BY DEF Kinds
<1>7. /\ SameRows(refused.pending, pending) /\ SameWakes(refused.pending, pending)
      /\ MapOf(pending, PendingChild)
      /\ Replying(pending) = Replying(refused.pending)
      BY ONLY <1>5, <1>6, Muting
<1>8. /\ SameRows(refused.active, active) /\ SameWakes(refused.active, active)
      /\ MapOf(active, ActiveRow)
      /\ Replying(active) = Replying(refused.active)
      BY ONLY <1>5, <1>6, Muting
<1>9. /\ SameRows(refused.queued, queued) /\ SameWakes(refused.queued, queued)
      /\ MapOf(queued, QueuedSpawn)
      /\ Replying(queued) = Replying(refused.queued)
      /\ \A x \in DOMAIN refused.queued : queued[x].queued_at = refused.queued[x].queued_at
      BY ONLY <1>5, <1>6, Muting
<1> HIDE DEF active, pending, queued
<1>10. /\ DOMAIN silent = Fields
       /\ silent.active = active /\ silent.pending = pending /\ silent.queued = queued
       /\ \A f \in Fields \ {"active", "pending", "queued"} : silent[f] = refused[f]
       BY <1>5 DEF Fields
<1> HIDE DEF silent
<1>11. Beside(refused, silent) /\ silent.caller = refused.caller
       BY <1>10 DEF Beside, Values, Held, Fields
<1>12. Upholds(refused, silent)
       BY <1>4, <1>7, <1>8, <1>9, <1>10, <1>11, RowsRegistry
<1>13. Upholds(s, torn)
  <2>1. Upholds(silent, torn) BY <1>12, CancelRegistry DEF Upholds
  <2> HIDE DEF torn
  <2>2. Upholds(s, silent) BY <1>4, <1>12, UpholdsTrans
  <2> QED BY <2>1, <2>2, UpholdsTrans
<1> HIDE DEF torn
<1>14. Upholds(s, drain)
  <2>1. /\ DOMAIN drain = Fields
        /\ drain.spawn_blocked_sessions = torn.spawn_blocked_sessions \cup {p}
        /\ drain.teardown_drains = torn.teardown_drains \cup {p}
        /\ \A f \in Fields \ {"spawn_blocked_sessions", "teardown_drains"} :
             drain[f] = torn[f]
        BY <1>13 DEF begin_teardown_drain, Upholds, Registry, Maps, Fields
  <2> HIDE DEF drain
  <2>2. Calm(torn, drain) BY <2>1 DEF Calm, Values, Held, Fields
  <2>3. Upholds(torn, drain) BY <1>13, <2>2, CalmUpholds DEF Upholds
  <2> QED BY <1>13, <2>3, UpholdsTrans
<1> QED BY <1>1, <1>13, <1>14

(* Completed records that are dropped go with their node.                  *)
LEMMA DropRegistry ==
  ASSUME NEW s, Registry(s, NoMap), NEW E, E \subseteq DOMAIN s.completed,
         NEW t, DOMAIN t = Fields,
         \A f \in Fields \ {"completed", "completed_order", "graph"} : t[f] = s[f],
         t.completed = Without(s.completed, E), t.graph = Without(s.graph, E),
         Ordered(t)
  PROVE  Registry(t, NoMap)
<1>1. /\ DOMAIN t.completed = DOMAIN s.completed \ E
      /\ \A x \in DOMAIN s.completed \ E : t.completed[x] = s.completed[x]
      /\ DOMAIN t.graph = DOMAIN s.graph \ E
      /\ \A x \in DOMAIN s.graph \ E : t.graph[x] = s.graph[x]
  <2>1. \A f : /\ DOMAIN Without(f, E) = DOMAIN f \ E
               /\ \A x \in DOMAIN f \ E : Without(f, E)[x] = f[x]
        BY WithoutFacts
  <2> QED BY <2>1
<1>2. /\ t.queued = s.queued /\ t.pending = s.pending /\ t.active = s.active
      /\ t.next_completion_age = s.next_completion_age
      /\ t.waiters = s.waiters /\ t.progress = s.progress
      /\ t.query = s.query /\ t.caller = s.caller
      /\ t.workflow_cancel_waiters = s.workflow_cancel_waiters
      BY DEF Fields
<1>3. Apart(s, {}) BY EmptyMap DEF Registry
<1>4. Apart(t, DOMAIN NoMap)
  <2>1. Held(t) BY <1>3 DEF Apart, Held, Fields
  <2> QED BY <1>1, <1>2, <1>3, <2>1, EmptyMap DEF Apart
<1>5. Maps(t)
  <2>1. MapOf(t.completed, CompletedChild) BY <1>1 DEF Registry, Maps, MapOf
  <2> QED BY <1>2, <2>1 DEF Registry, Maps, Distinct
<1>6. Values(t) BY DEF Registry, Values, Fields
<1>7. Nodes(t, NoMap)
  <2>1. MapOf(t.graph, SpawnNode) BY <1>1 DEF Registry, Nodes, MapOf
  <2>2. DOMAIN s.graph = Live(s) \cup DOMAIN s.completed
        BY EmptyMap DEF Registry, Nodes
  <2>3. Live(t) = Live(s) /\ Live(s) \cap DOMAIN s.completed = {}
        BY <1>2, <1>3 DEF Live, Apart
  <2>4. DOMAIN t.graph = Live(t) \cup DOMAIN t.completed \cup DOMAIN NoMap
        BY <1>1, <2>2, <2>3, EmptyMap
  <2> QED BY <2>1, <2>4 DEF Nodes
<1>8. Attended(t, NoMap) BY <1>2 DEF Registry, Attended, Live
<1>9. Awaited(t, NoMap) BY <1>2 DEF Registry, Awaited
<1>10. \A x, a : HasAge(t, NoMap, x, a) => HasAge(s, NoMap, x, a)
       BY <1>1, <1>2 DEF HasAge
<1>11. Dated(t, NoMap) BY <1>2, <1>10 DEF Registry, Dated
<1>12. Transit(NoMap) BY DEF Registry
<1> QED BY <1>4, <1>5, <1>6, <1>7, <1>8, <1>9, <1>11, <1>12 DEF Registry

(* Every parked drain has a child to wait for.                             *)
Drains(s) ==
  \A w \in s.drain_waiters : live_turn_blocking_ids(s, w.session, w.prompt) # {}

(* Of s's completed records, t has MaxCompleted and those that it has not  *)
(* are the oldest.                                                         *)
Evicts(s, t) ==
  /\ t.queued = s.queued /\ t.pending = s.pending /\ t.active = s.active
  /\ t.next_completion_age = s.next_completion_age
  /\ \A id \in DOMAIN t.completed :
       id \in DOMAIN s.completed /\ t.completed[id] = s.completed[id]
  /\ \A id \in DOMAIN s.completed : id \notin DOMAIN t.completed =>
       /\ Cardinality(DOMAIN t.completed) = MaxCompleted
       /\ \A x \in DOMAIN t.completed : t.completed[x].age > s.completed[id].age

(* The end of the iteration: the drains that are over are resolved, and    *)
(* the oldest records go.                                                  *)
LEMMA AfterArmRegistry ==
  ASSUME NEW s, Registry(s, NoMap)
  PROVE  /\ Registry(AfterArm(s), NoMap)
         /\ Len(AfterArm(s).completed_order) <= MaxCompleted
         /\ Drains(AfterArm(s))
         /\ Evicts(s, AfterArm(s))
<1> DEFINE t == resolve_drain_waiters(s)
           order == t.completed_order
           excess == Cardinality(DOMAIN t.completed) - MaxCompleted
           evicted == {order[i] : i \in 1 .. excess}
           told == reject_pending_wakes_for_ids(t, evicted)
           u == [told EXCEPT
                   !.completed = Without(@, evicted),
                   !.completed_order = SubSeq(@, excess + 1, Len(@)),
                   !.graph = Without(@, evicted)]
<1>1. AfterArm(s) = IF excess <= 0 THEN t ELSE u
      BY DEF AfterArm, evict_completed_overflow
<1>2. /\ DOMAIN t = Fields
      /\ \A f \in Fields \ {"drain_waiters"} : t[f] = s[f]
      /\ t.drain_waiters = {w \in s.drain_waiters :
                              live_turn_blocking_ids(s, w.session, w.prompt) # {}}
      BY DEF resolve_drain_waiters, Registry, Maps, Fields
<1> HIDE DEF t
<1>3. Registry(t, NoMap)
  <2>1. Calm(s, t) BY <1>2 DEF Calm, Values, Held, Fields
  <2> QED BY <2>1, CalmRegistry
<1>4. Drains(t)
  <2>1. \A p, q : live_turn_blocking_ids(t, p, q) = live_turn_blocking_ids(s, p, q)
        BY <1>2 DEF live_turn_blocking_ids, Fields
  <2> QED BY <1>2, <2>1 DEF Drains
<1>5. /\ t.queued = s.queued /\ t.pending = s.pending /\ t.active = s.active
       /\ t.next_completion_age = s.next_completion_age /\ t.completed = s.completed
       BY <1>2 DEF Fields
<1> DEFINE T == DOMAIN t.completed
           at == Ages(t.completed)
<1>6. order \in Seq(T) /\ ToSet(order) = T /\ Sorted(order, at)
      BY <1>3 DEF Registry, Ordered
<1>7. at \in [T -> Nat]
  <2>1. \A x \in T : t.completed[x].age \in Nat
        BY <1>3 DEF Registry, Maps, MapOf, CompletedChild
  <2> QED BY <2>1 DEF Ages
<1> HIDE DEF T, at
<1>8. Cardinality(T) = Len(order) /\ Len(order) \in Nat
      BY <1>6, <1>7, SortedFacts
<1>9. MaxCompleted \in Nat BY ConstantsAssumption
<1>10. excess = Len(order) - MaxCompleted BY <1>8 DEF T
<1> HIDE DEF excess
<1>11. CASE excess <= 0
  <2>1. Evicts(s, t) BY <1>5 DEF Evicts
  <2> QED BY <1>1, <1>3, <1>4, <1>8, <1>9, <1>10, <1>11, <2>1
<1>12. CASE ~(excess <= 0)
  <2>1. excess \in 0 .. Len(order) BY <1>8, <1>9, <1>10, <1>12
  <2>2. Calm(t, told) BY <1>2, RejectPendingWakesCalm
  <2>3. evicted \subseteq T
    <3>1. \A i \in 1 .. excess : order[i] \in T BY <1>6, <2>1
    <3> QED BY <3>1
  <2> DEFINE rest == SubSeq(order, excess + 1, Len(order))
  <2>4. /\ rest \in Seq(T) /\ Len(rest) = Len(order) - excess
        /\ ToSet(rest) = T \ evicted /\ Sorted(rest, at)
    <3>1. /\ SubSeq(order, excess + 1, Len(order)) \in Seq(T)
          /\ Len(SubSeq(order, excess + 1, Len(order))) = Len(order) - excess
          /\ ToSet(SubSeq(order, excess + 1, Len(order)))
               = ToSet(order) \ {order[i] : i \in 1 .. excess}
          /\ Sorted(SubSeq(order, excess + 1, Len(order)), at)
          BY <1>6, <1>7, <2>1, SuffixFacts
    <3> QED BY <1>6, <3>1
  <2>5. /\ DOMAIN told = Fields
        /\ told.completed = t.completed /\ told.graph = t.graph
        /\ told.completed_order = order
        BY <2>2 DEF Calm
  <2>6. told.queued = t.queued /\ told.pending = t.pending /\ told.active = t.active
        BY <2>2 DEF Calm
  <2>7. told.drain_waiters = t.drain_waiters
        BY <1>2 DEF reject_pending_wakes_for_ids, Answer, Fields
  <2>8. Registry(told, NoMap) BY <1>3, <2>2, CalmRegistry
  <2> HIDE DEF told, evicted, rest, order
  <2>9. /\ DOMAIN u = Fields
        /\ \A f \in Fields \ {"completed", "completed_order", "graph"} : u[f] = told[f]
        /\ u.completed = Without(told.completed, evicted)
        /\ u.graph = Without(told.graph, evicted)
        /\ u.completed_order = rest
        BY <2>5 DEF Fields, rest
  <2> HIDE DEF u
  <2>10. DOMAIN u.completed = T \ evicted
         /\ \A x \in T \ evicted : u.completed[x] = t.completed[x]
    <3>1. /\ DOMAIN Without(t.completed, evicted) = DOMAIN t.completed \ evicted
          /\ \A x \in DOMAIN t.completed \ evicted :
               Without(t.completed, evicted)[x] = t.completed[x]
          BY WithoutFacts
    <3> QED BY <2>5, <2>9, <3>1 DEF T
  <2>11. Ordered(u)
    <3>1. \A x \in ToSet(rest) : at[x] = Ages(u.completed)[x]
          BY <2>4, <2>10 DEF Ages, at, T
    <3>2. Sorted(rest, Ages(u.completed)) BY <2>4, <3>1, SortedSame
    <3>3. rest \in Seq(T \ evicted)
      <4>1. ToSet(rest) \subseteq T \ evicted BY <2>4
      <4> QED BY <2>4, <4>1, SeqOver
    <3> QED BY <2>4, <2>9, <2>10, <3>2, <3>3 DEF Ordered
  <2>12. Registry(u, NoMap)
         BY <2>3, <2>5, <2>8, <2>9, <2>11, DropRegistry DEF T
  <2>13. Len(u.completed_order) <= MaxCompleted
         BY <1>8, <1>9, <1>10, <2>4, <2>9
  <2>14. Drains(u)
    <3>1. /\ u.queued = t.queued /\ u.pending = t.pending /\ u.active = t.active
          /\ u.drain_waiters = t.drain_waiters
          BY <2>6, <2>7, <2>9 DEF Fields
    <3>2. \A p, q : live_turn_blocking_ids(u, p, q) = live_turn_blocking_ids(t, p, q)
          BY <3>1 DEF live_turn_blocking_ids
    <3> QED BY <1>4, <3>1, <3>2 DEF Drains
  <2>15. \A x \in evicted, y \in T \ evicted : at[x] < at[y]
    <3> TAKE x \in evicted, y \in T \ evicted
    <3>1. PICK i \in 1 .. excess : x = order[i] BY DEF evicted
    <3>2. PICK j \in 1 .. Len(order) : y = order[j]
      <4>1. DOMAIN order = 1 .. Len(order) BY <1>6, LenProperties
      <4> QED BY <1>6, <4>1 DEF ToSet
    <3>3. j \notin 1 .. excess BY <3>2 DEF evicted
    <3>4. i \in 1 .. Len(order) /\ i < j BY <1>8, <2>1, <3>3
    <3> QED BY <1>6, <3>1, <3>2, <3>4 DEF Sorted
  <2>16. Cardinality(T \ evicted) = MaxCompleted
    <3>1. Cardinality(ToSet(rest)) = Len(rest) BY <1>7, <2>4, SortedFacts
    <3> QED BY <1>8, <1>9, <1>10, <2>4, <3>1
  <2>17. Evicts(s, u)
    <3>1. /\ u.queued = s.queued /\ u.pending = s.pending /\ u.active = s.active
          /\ u.next_completion_age = s.next_completion_age
          BY <1>5, <2>2, <2>6, <2>9 DEF Calm, Fields
    <3>2. \A x \in T : at[x] = s.completed[x].age BY <1>5 DEF at, Ages, T
    <3>3. \A x \in T \ evicted : u.completed[x] = s.completed[x] BY <1>5, <2>10
    <3>4. T = DOMAIN s.completed BY <1>5 DEF T
    <3>5. ASSUME NEW id \in DOMAIN s.completed, id \notin DOMAIN u.completed
          PROVE  \A x \in DOMAIN u.completed : u.completed[x].age > s.completed[id].age
      <4> TAKE x \in DOMAIN u.completed
      <4>1. id \in evicted /\ x \in T \ evicted BY <2>10, <3>4, <3>5
      <4>2. at[id] < at[x] BY <2>15, <4>1
      <4>3. at[id] \in Nat /\ at[x] \in Nat BY <1>7, <3>4, <4>1
      <4>4. at[id] = s.completed[id].age /\ at[x] = u.completed[x].age
            BY <3>2, <3>3, <3>4, <4>1
      <4> QED BY <4>2, <4>3, <4>4
    <3> QED BY <2>10, <2>16, <3>1, <3>3, <3>4, <3>5 DEF Evicts
  <2> QED BY <1>1, <1>12, <2>12, <2>13, <2>14, <2>17
<1> QED BY <1>11, <1>12

----------------------------------------------------------------------------
(* Spawning.                                                               *)

(* A new child has its node and its caller listens, before it has a home.  *)
LEMMA PlaceRegistry ==
  ASSUME NEW s, Registry(s, NoMap), NEW id \in Ids, ~Known(s, id),
         NEW node \in SpawnNode,
         NEW T, DOMAIN T = {id}, T[id].req \in Request,
         T[id].reply \in BOOLEAN, T[id].reply, T[id].wake = None,
         NEW t, DOMAIN t = Fields,
         \A f \in Fields \ {"graph", "caller"} : t[f] = s[f],
         t.graph = Put(s.graph, id, node),
         t.caller \in [Ids -> Channels],
         \A x \in Ids : x # id => t.caller[x] = s.caller[x]
  PROVE  Registry(t, T) /\ Lasts(s, NoMap, t, T)
<1>1. /\ DOMAIN t.graph = DOMAIN s.graph \cup {id} /\ t.graph[id] = node
      /\ \A x \in DOMAIN s.graph : x # id => t.graph[x] = s.graph[x]
      BY DEF Put
<1>2. /\ t.queued = s.queued /\ t.pending = s.pending /\ t.active = s.active
      /\ t.completed = s.completed /\ t.completed_order = s.completed_order
      /\ t.next_completion_age = s.next_completion_age
      /\ t.waiters = s.waiters /\ t.progress = s.progress
      /\ t.query = s.query
      /\ t.workflow_cancel_waiters = s.workflow_cancel_waiters
      BY DEF Fields
<1>5. Apart(t, DOMAIN T)
  <2>1. Held(t) BY DEF Registry, Apart, Held, Fields
  <2>2. Apart(s, {}) BY EmptyMap DEF Registry
  <2> QED BY <1>2, <2>1, <2>2 DEF Apart, Known
<1>6. Transit(T) BY DEF Transit, Quiet
<1>7. Maps(t) BY <1>2 DEF Registry, Maps, Distinct
<1>8. Values(t) BY DEF Registry, Values, Fields
<1>9. Nodes(t, T)
  <2>1. MapOf(t.graph, SpawnNode) BY <1>1 DEF Registry, Nodes, MapOf
  <2> QED BY <1>1, <1>2, <2>1, EmptyMap DEF Registry, Nodes, Live
<1>10. Attended(t, T)
  <2>1. Replying(NoMap) = {} BY EmptyMap DEF Replying
  <2>2. id \in Replying(T) BY DEF Replying
  <2>3. \A x \in Ids : t.caller[x] = "listening" => x = id \/ s.caller[x] = "listening"
        OBVIOUS
  <2>4. \A x \in Ids : t.caller[x] = "listening" =>
          \/ x \in Replying(t.queued) \/ x \in Replying(t.pending)
          \/ x \in Replying(t.active) \/ x \in Replying(T)
        BY <1>2, <2>1, <2>2, <2>3 DEF Registry, Attended
  <2>5. \A w \in t.waiters : w.id \in Live(t) \cup DOMAIN T
        BY <1>2, EmptyMap DEF Registry, Attended, Live
  <2>6. \A q \in Queries : t.query[q] = "listening" =>
          \E w \in t.waiters \cup t.progress : w.query = q
        BY <1>2 DEF Registry, Attended
  <2> QED BY <2>4, <2>5, <2>6 DEF Attended
<1>11. Awaited(t, T)
  <2>1. \A r : OfRun(NoMap, r) = {} BY EmptyMap DEF OfRun
  <2> QED BY <1>2, <2>1 DEF Registry, Awaited
<1>12. \A x, a : HasAge(t, T, x, a) => HasAge(s, NoMap, x, a)
       BY <1>2 DEF HasAge, Displaces
<1>13. Dated(t, T) BY <1>2, <1>12 DEF Registry, Dated
<1>14. Ordered(t) BY <1>2 DEF Registry, Ordered
<1>15. \A x, a : HasAge(s, NoMap, x, a) => HasAge(t, T, x, a)
       BY <1>2, EmptyMap DEF HasAge, Displaces
<1>16. Lasts(s, NoMap, t, T) BY <1>2, <1>15, MovesLast
<1> QED BY <1>5, <1>6, <1>7, <1>8, <1>9, <1>10, <1>11, <1>13, <1>14, <1>16 DEF Registry

(* A node under the node of a spawner, or under the root.                  *)
LEMMA NodeType ==
  ASSUME NEW s, Registry(s, NoMap), NEW ingress \in Request, NEW req \in Request
  PROVE  insert_node(s, ingress, req) \in SpawnNode
<1> DEFINE root == req.session
           p == ingress.session
           chain == s.graph[p].chain
           longer == Append(chain, p)
           b == ingress.surface
<1>1. root \in Sess /\ b \in BOOLEAN BY DEF Request
<1>2. insert_node(s, ingress, req) =
        IF p \in DOMAIN s.active
        THEN [root |-> root, chain |-> longer, surface |-> b]
        ELSE [root |-> root, chain |-> << >>, surface |-> FALSE]
      BY DEF insert_node
<1>3. ASSUME p \in DOMAIN s.active PROVE longer \in Seq(Ids)
  <2>1. p \in Ids BY <1>3 DEF Registry, Maps, MapOf
  <2>2. s.graph[p] \in SpawnNode BY <1>3 DEF Registry, Nodes, MapOf, Live
  <2>3. chain \in Seq(Ids) BY <2>2 DEF SpawnNode
  <2> HIDE DEF chain
  <2> QED BY <2>1, <2>3
<1> HIDE DEF root, p, longer, b
<1> QED BY <1>1, <1>2, <1>3 DEF SpawnNode

LEMMA SpawnRegistry ==
  ASSUME NEW s, Registry(s, NoMap), Shaped(s), NEW id \in Ids, NEW ingress \in Request
  PROVE  Upholds(s, handle_spawn(s, id, ingress))
<1> DEFINE req == reparent_nested_spawn(s, ingress)
           at == next_queued_at(s)
           due == req.mode = "foreground"
           entry == [req |-> req, cancelled |-> FALSE, reply |-> TRUE,
                     deadline |-> due, wake |-> None, queued_at |-> at]
           node == insert_node(s, ingress, req)
           placed == [s EXCEPT !.graph = Put(@, id, node),
                               !.caller[id] = "listening"]
           one == [x \in {id} |-> entry]
           never == [req |-> req, reply |-> TRUE, address |-> FALSE, started |-> FALSE]
           recs == [x \in {id} |-> never]
           filed == file_completions(placed, recs, <<id>>)
           started == start_children(placed, one)
           queued == [placed EXCEPT !.queued = Put(@, id, entry)]
<1>1. \/ handle_spawn(s, id, ingress) = s
      \/ /\ ~Known(s, id)
         /\ \/ handle_spawn(s, id, ingress) = started
            \/ /\ req.workflow = None
               /\ handle_spawn(s, id, ingress) = queued
            \/ handle_spawn(s, id, ingress) = start_queued_within_capacity(filed)
      BY DEF handle_spawn, SpawnRefused, admit
<1>2. CASE handle_spawn(s, id, ingress) = s BY <1>2, UpholdsSelf
<1>3. ASSUME ~Known(s, id)
      PROVE  /\ Upholds(s, started)
             /\ req.workflow = None => Upholds(s, queued)
             /\ Upholds(s, start_queued_within_capacity(filed))
  <2>1. req \in Request BY ReparentRequest
  <2>2. node \in SpawnNode BY <2>1, NodeType
  <2>3. at \in Nat /\ \A x \in DOMAIN s.queued : s.queued[x].queued_at < at BY NextTime
  <2>4. due \in BOOLEAN OBVIOUS
  <2> HIDE DEF node, at, req, due
  <2>5. /\ DOMAIN placed = Fields
        /\ placed.graph = Put(s.graph, id, node)
        /\ placed.caller = [s.caller EXCEPT ![id] = "listening"]
        /\ \A f \in Fields \ {"graph", "caller"} : placed[f] = s[f]
        BY DEF Registry, Maps, Fields
  <2> HIDE DEF placed
  <2>6. /\ entry \in QueuedSpawn /\ entry.req = req /\ entry.reply \in BOOLEAN
        /\ entry.reply /\ entry.wake = None /\ entry.queued_at = at
        /\ entry.deadline \in BOOLEAN
        BY <2>1, <2>3, <2>4 DEF QueuedSpawn
  <2>7. DOMAIN one = {id} /\ one[id] = entry OBVIOUS
  <2>8. /\ DOMAIN recs = {id} /\ recs[id].req = req /\ recs[id].reply = TRUE
        /\ recs[id].address \in BOOLEAN /\ recs[id].started \in BOOLEAN
        OBVIOUS
  <2>9. entry.reply = TRUE OBVIOUS
  <2> HIDE DEF entry, one, recs
  <2>10. Registry(placed, one) /\ Lasts(s, NoMap, placed, one)
    <3>1. /\ one[id].req \in Request /\ one[id].reply \in BOOLEAN
          /\ one[id].reply /\ one[id].wake = None
          BY <2>1, <2>6, <2>7
    <3>2. /\ placed.caller \in [Ids -> Channels]
          /\ \A x \in Ids : x # id => placed.caller[x] = s.caller[x]
      <4>1. s.caller \in [Ids -> Channels] BY DEF Registry, Values
      <4> QED BY <2>5, <4>1 DEF Channels
    <3>3. /\ DOMAIN placed = Fields /\ placed.graph = Put(s.graph, id, node)
          /\ \A f \in Fields \ {"graph", "caller"} : placed[f] = s[f]
          BY <2>5
    <3>4. DOMAIN one = {id} BY <2>7
    <3> QED BY <1>3, <2>2, <3>1, <3>2, <3>3, <3>4, PlaceRegistry
  <2> DEFINE U == Without(one, {id})
  <2>11. \A t : Registry(t, U) /\ Lasts(placed, one, t, U) => Upholds(s, t)
    <3> SUFFICES ASSUME NEW t, Registry(t, U), Lasts(placed, one, t, U)
                 PROVE  Upholds(s, t)
        OBVIOUS
    <3>1. Registry(t, NoMap) /\ Lasts(t, U, t, NoMap) BY <2>7, ArrivedAll
    <3> HIDE DEF U
    <3>2. Lasts(placed, one, t, NoMap) BY <3>1, LastsTrans
    <3>3. Lasts(s, NoMap, t, NoMap) BY <2>10, <3>2, LastsTrans
    <3> QED BY <3>1, <3>3 DEF Upholds
  <2>12. Upholds(s, started)
    <3>1. Registry(started, U) /\ Lasts(placed, one, started, U)
          BY <2>6, <2>7, <2>10, StartChildrenRegistry
    <3> HIDE DEF started, U
    <3> QED BY <2>11, <3>1
  <2>13. ASSUME req.workflow = None PROVE Upholds(s, queued)
    <3>1. placed.queued = s.queued BY <2>5 DEF Fields
    <3>2. \A x \in DOMAIN placed.queued : placed.queued[x].queued_at # entry.queued_at
      <4>1. \A x \in DOMAIN s.queued : s.queued[x].queued_at \in Nat
            BY DEF Registry, Maps, MapOf, QueuedSpawn
      <4> QED BY <2>3, <2>6, <3>1, <4>1
    <3>3. /\ id \in DOMAIN one /\ entry.req = one[id].req /\ entry.reply = one[id].reply
          /\ entry.wake = one[id].wake /\ entry.req.workflow = None
          BY <2>6, <2>7, <2>13
    <3>4. Registry(queued, U) /\ Lasts(placed, one, queued, U)
          BY <2>6, <2>10, <3>2, <3>3, EnqueueRegistry
    <3> HIDE DEF queued, U
    <3> QED BY <2>11, <3>4
  <2> DEFINE t == start_queued_within_capacity(filed)
  <2>14. Upholds(s, t)
    <3>1. Lists(<<id>>, DOMAIN recs) BY <2>8, OneList
    <3>2. \A x \in DOMAIN recs : /\ recs[x].req = one[x].req
                                 /\ recs[x].reply = one[x].reply
                                 /\ recs[x].address \in BOOLEAN
                                 /\ recs[x].started \in BOOLEAN
          BY <2>6, <2>7, <2>8, <2>9
    <3>3. Registry(filed, U) /\ Lasts(placed, one, filed, U)
          BY <2>7, <2>8, <2>10, <3>1, <3>2, FileRegistry
    <3> HIDE DEF filed, U
    <3>4. Upholds(s, filed) BY <2>11, <3>3
    <3>5. Upholds(filed, t) BY <3>4, StartQueuedRegistry DEF Upholds
    <3> HIDE DEF t
    <3> QED BY <3>4, <3>5, UpholdsTrans
  <2> QED BY <2>12, <2>13, <2>14
<1> HIDE DEF started, queued, filed, req
<1> QED BY <1>1, <1>2, <1>3

----------------------------------------------------------------------------
(* The steps.                                                              *)

(* Between two iterations no child is in transit.                          *)
Kempt(s) ==
  /\ Registry(s, NoMap)
  /\ Len(s.completed_order) <= MaxCompleted
  /\ Drains(s)

RegistryInv == MessageInv /\ Kempt(co)

(* What RecordsKept says of a step from s to t.                            *)
Recorded(s, t) ==
  \A id \in Ids :
    /\ id \in DOMAIN s.completed /\ id \notin DOMAIN t.completed =>
         \/ waking(t, id) = s.completed[id]
         \/ Cardinality({x \in DOMAIN t.completed :
                           t.completed[x].age > s.completed[id].age})
              = MaxCompleted
    /\ waking(s, id) # None /\ id \notin Live(t) /\ id \notin DOMAIN t.completed =>
         t.next_completion_age - waking(s, id).age > MaxCompleted

(* Completed records that are younger than b take up the window's ages.    *)
LEMMA YoungerRecords ==
  ASSUME NEW s, Registry(s, NoMap), NEW D, D \subseteq DOMAIN s.completed,
         NEW b \in Nat, b < s.next_completion_age,
         \A x \in D : s.completed[x].age > b
  PROVE  s.next_completion_age - b > Cardinality(D)
<1> DEFINE n == s.next_completion_age
           f == [x \in D |-> s.completed[x].age]
           I == b + 1 .. n - 1
<1>1. n \in Nat BY DEF Registry, Values
<1>2. \A x \in D : s.completed[x].age \in Nat
      BY DEF Registry, Maps, MapOf, CompletedChild
<1>3. \A x \in D : HasAge(s, NoMap, x, s.completed[x].age) BY DEF HasAge
<1>4. \A x \in D : s.completed[x].age < n BY <1>3 DEF Registry, Dated
<1>5. \A x, y \in D : s.completed[x].age = s.completed[y].age => x = y
      BY <1>3 DEF Registry, Dated
<1>6. \A x \in D : s.completed[x].age \in I
  <2> HIDE DEF n
  <2> QED BY <1>1, <1>2, <1>4
<1>7. f \in Injection(D, I) BY <1>5, <1>6 DEF Injection, IsInjective
<1>8. b + 1 \in Int /\ n - 1 \in Int /\ b < n BY <1>1
<1> HIDE DEF n, f
<1>9. IsFiniteSet(I) /\ Cardinality(I) = IF b + 1 > n - 1 THEN 0 ELSE n - 1 - (b + 1) + 1
      BY <1>8, FS_Interval
<1> HIDE DEF I
<1>10. IsFiniteSet(D) /\ Cardinality(D) <= Cardinality(I) BY <1>7, <1>9, FS_Injection
<1>11. Cardinality(D) \in Nat BY <1>10, FS_CardinalityType
<1> QED BY <1>1, <1>8, <1>9, <1>10, <1>11 DEF n

(* Sparing the records and evicting the oldest keeps what RecordsKept says.*)
LEMMA EvictsRecorded ==
  ASSUME NEW s, Registry(s, NoMap), NEW u, Registry(u, NoMap), Spares(s, u),
         NEW t, Evicts(u, t)
  PROVE  Recorded(s, t)
<1>1. Live(t) = Live(u) /\ \A id : waking(t, id) = waking(u, id)
      BY DEF Evicts, Live, waking
<1>2. ASSUME NEW id \in DOMAIN s.completed, id \notin DOMAIN t.completed
      PROVE  \/ waking(t, id) = s.completed[id]
             \/ Cardinality({x \in DOMAIN t.completed :
                               t.completed[x].age > s.completed[id].age})
                  = MaxCompleted
  <2>1. CASE waking(u, id) = s.completed[id] BY <1>1, <2>1
  <2>2. CASE id \in DOMAIN u.completed /\ u.completed[id].age = s.completed[id].age
    <3> DEFINE Y == {x \in DOMAIN t.completed : t.completed[x].age > s.completed[id].age}
    <3>1. Cardinality(DOMAIN t.completed) = MaxCompleted
          /\ \A x \in DOMAIN t.completed : t.completed[x].age > u.completed[id].age
          BY <1>2, <2>2 DEF Evicts
    <3>2. Y = DOMAIN t.completed BY <2>2, <3>1
    <3> HIDE DEF Y
    <3> QED BY <3>1, <3>2 DEF Y
  <2> QED BY <1>2, <2>1, <2>2 DEF Spares
<1>3. ASSUME NEW id, waking(s, id) # None, id \notin Live(t), id \notin DOMAIN t.completed
      PROVE  t.next_completion_age - waking(s, id).age > MaxCompleted
  <2> DEFINE a == waking(s, id).age
             n == u.next_completion_age
  <2>1. a \in Nat BY <1>3, WakingAge DEF CompletedChild
  <2>2. n \in Nat /\ MaxCompleted \in Nat /\ t.next_completion_age = n
        BY ConstantsAssumption DEF Registry, Values, Evicts
  <2>3. \/ Outdated(u, a)
        \/ id \in DOMAIN u.completed /\ u.completed[id].age >= a
        BY <1>1, <1>3 DEF Spares
  <2>4. CASE Outdated(u, a) BY <2>2, <2>4 DEF Outdated
  <2>5. CASE id \in DOMAIN u.completed /\ u.completed[id].age >= a
    <3> DEFINE b == u.completed[id].age
    <3>1. b \in Nat BY <2>5 DEF Registry, Maps, MapOf, CompletedChild
    <3>2. HasAge(u, NoMap, id, b) BY <2>5 DEF HasAge
    <3>3. b < n BY <3>2 DEF Registry, Dated
    <3> DEFINE D == DOMAIN t.completed
    <3>4. /\ Cardinality(D) = MaxCompleted /\ D \subseteq DOMAIN u.completed
          /\ \A x \in D : u.completed[x].age > b
          BY <1>3, <2>5 DEF Evicts
    <3> HIDE DEF b, D
    <3>5. n - b > Cardinality(D) BY <3>1, <3>3, <3>4, YoungerRecords
    <3>6. b >= a BY <2>5 DEF b
    <3> HIDE DEF a, n
    <3>7. n - a > MaxCompleted BY <2>1, <2>2, <3>1, <3>4, <3>5, <3>6
    <3> QED BY <2>2, <3>7 DEF a
  <2> QED BY <2>3, <2>4, <2>5
<1> QED BY <1>2, <1>3 DEF Recorded

(* No child loses its home.                                                *)
LEMMA HomesRecorded ==
  ASSUME NEW s, NEW t, DOMAIN s.completed \subseteq DOMAIN t.completed,
         Live(s) \subseteq Live(t)
  PROVE  Recorded(s, t)
<1>1. \A id : waking(s, id) # None => id \in Live(s) BY DEF waking, Live
<1> QED BY <1>1 DEF Recorded

(* What a step leads to.                                                   *)
Iterates(t) == Kempt(t) /\ Recorded(co, t)

LEMMA StepSpares ==
  ASSUME NEW s, RegistryInv, Registry(s, NoMap), Spares(co, s), Step(s)
  PROVE  Iterates(co')
<1>1. Registry(co, NoMap) BY DEF RegistryInv, Kempt
<1>2. Kempt(co') /\ Evicts(s, co') BY AfterArmRegistry DEF Step, Kempt
<1>3. Recorded(co, co') BY <1>1, <1>2, EvictsRecorded
<1> QED BY <1>2, <1>3 DEF Iterates

LEMMA StepUpholds ==
  ASSUME NEW s, RegistryInv, Upholds(co, s), Step(s)
  PROVE  Iterates(co')
<1>1. Spares(co, s) /\ Registry(s, NoMap)
      BY UpholdsSpares DEF RegistryInv, Kempt, Upholds
<1> QED BY <1>1, StepSpares

(* One method after another.                                               *)
LEMMA StepAfter ==
  ASSUME NEW s, NEW t, RegistryInv, Upholds(co, s), Upholds(s, t), Step(t)
  PROVE  Iterates(co')
BY UpholdsTrans, StepUpholds

LEMMA StepCalm ==
  ASSUME NEW s, NEW t, RegistryInv, Upholds(co, s), Calm(s, t), Step(t)
  PROVE  Iterates(co')
<1>1. Upholds(s, t) BY CalmUpholds DEF Upholds
<1> QED BY <1>1, StepAfter

(* A start that commits drops the record it has displaced.                 *)
LEMMA CommitSpares ==
  ASSUME NEW s, NEW t, NEW u, Registry(s, NoMap), Registry(t, NoMap), Upholds(t, u),
         t.completed = s.completed, NEW id \in Live(u),
         \A x : x # id => waking(t, x) = waking(s, x)
  PROVE  Registry(u, NoMap) /\ Spares(s, u)
<1>1. Spares(t, u) /\ Registry(u, NoMap) /\ Lasts(t, NoMap, u, NoMap)
      BY UpholdsSpares DEF Upholds
<1> QED BY <1>1 DEF Spares, Lasts

LEMMA CommandedRegistry ==
  ASSUME RegistryInv
  PROVE  /\ Upholds(co, Commanded) /\ Registry(Commanded, NoMap)
         /\ Shaped(Commanded) /\ DOMAIN Commanded = Fields
<1>1. MessageInv /\ Registry(co, NoMap) BY DEF RegistryInv, Kempt
<1>2. Shaped(Commanded) /\ DOMAIN Commanded = Fields
      BY <1>1, CommandedMail DEF Sound
<1> QED BY <1>1, <1>2, ReapRegistry DEF Commanded, Upholds

(* Messages are finitely many.                                             *)
LEMMA MailFinite ==
  ASSUME MessageInv
  PROVE  IsFiniteSet(co.pending_wakes) /\ IsFiniteSet(co.spawn_ready)
<1>1. Post(co, {}) BY DEF MessageInv, Mail
<1>2. /\ Once(co.pending_wakes) /\ MsgsOf(co.pending_wakes) \subseteq Messages
      /\ Once(co.spawn_ready) /\ MsgsOf(co.spawn_ready) \subseteq Messages
      BY <1>1 DEF Post, MsgsOf, Sends, Parks
<1> QED BY <1>2, OnceFinite

(* Only the blocking queries change: whoever asks is parked.               *)
LEMMA AskRegistry ==
  ASSUME NEW s, Registry(s, NoMap), NEW t, DOMAIN t = Fields,
         \A f \in Fields \ {"waiters", "progress", "query"} : t[f] = s[f],
         t.waiters \subseteq [query : Queries, id : Ids],
         t.progress \subseteq [query : Queries, id : Ids],
         t.query \in [Queries -> Channels],
         \A w \in t.waiters : w.id \in Live(s),
         \A q \in Queries : t.query[q] = "listening" =>
           \E w \in t.waiters \cup t.progress : w.query = q
  PROVE  Upholds(s, t)
<1>1. /\ t.queued = s.queued /\ t.pending = s.pending /\ t.active = s.active
      /\ t.completed = s.completed /\ t.completed_order = s.completed_order
      /\ t.next_completion_age = s.next_completion_age
      /\ t.graph = s.graph /\ t.caller = s.caller
      /\ t.workflow_cancel_waiters = s.workflow_cancel_waiters
      BY DEF Fields
<1>2. Apart(t, DOMAIN NoMap)
  <2>1. Held(t) BY DEF Registry, Apart, Held, Fields
  <2> QED BY <1>1, <2>1 DEF Registry, Apart
<1>3. Maps(t) BY <1>1 DEF Registry, Maps, Distinct
<1>4. Values(t) BY DEF Registry, Values, Fields
<1>5. Nodes(t, NoMap) BY <1>1 DEF Registry, Nodes, Live
<1>6. Attended(t, NoMap) BY <1>1 DEF Registry, Attended, Live
<1>7. Awaited(t, NoMap) BY <1>1 DEF Registry, Awaited
<1>8. \A x, a : HasAge(t, NoMap, x, a) => HasAge(s, NoMap, x, a)
      BY <1>1 DEF HasAge
<1>9. Dated(t, NoMap) BY <1>1, <1>8 DEF Registry, Dated
<1>10. Ordered(t) BY <1>1 DEF Registry, Ordered
<1>11. Transit(NoMap) BY DEF Registry
<1>12. Registry(t, NoMap)
       BY <1>2, <1>3, <1>4, <1>5, <1>6, <1>7, <1>9, <1>10, <1>11 DEF Registry
<1>13. \A x, a : HasAge(s, NoMap, x, a) => HasAge(t, NoMap, x, a)
       BY <1>1 DEF HasAge
<1>14. Lasts(s, NoMap, t, NoMap) BY <1>1, <1>13, MovesLast
<1> QED BY <1>12, <1>14 DEF Upholds

(* A query that need not wait is answered, another one is parked on a live *)
(* child.                                                                  *)
LEMMA QueryRegistry ==
  ASSUME RegistryInv, NEW q \in Queries, NEW id \in Ids, NEW from, Query(q, id, from)
  PROVE  Iterates(co')
<1> DEFINE s == Commanded
           w == [query |-> q, id |-> id]
           parked == [s EXCEPT !.query[q] = "listening", !.waiters = @ \cup {w}]
           told == [s EXCEPT !.query[q] = "answered"]
<1>1. \/ Step(told)
      \/ /\ Step(parked)
         /\ \/ id \in DOMAIN s.active \/ id \in DOMAIN s.pending
            \/ id \in DOMAIN s.queued
      BY DEF Query
<1>2. Upholds(co, s) /\ Registry(s, NoMap) /\ DOMAIN s = Fields BY CommandedRegistry
<1> HIDE DEF s
<1>3. w \in [query : Queries, id : Ids] /\ w.query = q /\ w.id = id OBVIOUS
<1> HIDE DEF w
<1>4. /\ s.query \in [Queries -> Channels]
      /\ s.waiters \subseteq [query : Queries, id : Ids]
      /\ s.progress \subseteq [query : Queries, id : Ids]
      /\ \A v \in s.waiters : v.id \in Live(s)
      /\ \A p \in Queries : s.query[p] = "listening" =>
           \E v \in s.waiters \cup s.progress : v.query = p
      BY <1>2, EmptyMap DEF Registry, Values, Attended
<1>5. ASSUME id \in Live(s) PROVE Upholds(s, parked)
  <2>1. /\ DOMAIN parked = Fields
        /\ \A f \in Fields \ {"waiters", "progress", "query"} : parked[f] = s[f]
        /\ parked.waiters = s.waiters \cup {w} /\ parked.progress = s.progress
        /\ parked.query = [s.query EXCEPT ![q] = "listening"]
        BY <1>2 DEF Fields
  <2> HIDE DEF parked
  <2>2. /\ parked.query \in [Queries -> Channels] /\ parked.query[q] = "listening"
        /\ \A p \in Queries : p # q => parked.query[p] = s.query[p]
        BY <1>4, <2>1 DEF Channels
  <2>3. \A p \in Queries : parked.query[p] = "listening" =>
          \E v \in parked.waiters \cup parked.progress : v.query = p
        BY <1>3, <1>4, <2>1, <2>2
  <2>4. \A v \in parked.waiters : v.id \in Live(s) BY <1>3, <1>4, <1>5, <2>1
  <2>5. /\ parked.waiters \subseteq [query : Queries, id : Ids]
        /\ parked.progress \subseteq [query : Queries, id : Ids]
        BY <1>3, <1>4, <2>1
  <2> QED BY <1>2, <2>1, <2>2, <2>3, <2>4, <2>5, AskRegistry
<1>6. Upholds(s, told)
  <2>1. /\ DOMAIN told = Fields
        /\ \A f \in Fields \ {"waiters", "progress", "query"} : told[f] = s[f]
        /\ told.waiters = s.waiters /\ told.progress = s.progress
        /\ told.query = [s.query EXCEPT ![q] = "answered"]
        BY <1>2 DEF Fields
  <2> HIDE DEF told
  <2>2. /\ told.query \in [Queries -> Channels] /\ told.query[q] # "listening"
        /\ \A p \in Queries : p # q => told.query[p] = s.query[p]
        BY <1>4, <2>1 DEF Channels
  <2>3. \A p \in Queries : told.query[p] = "listening" =>
          \E v \in told.waiters \cup told.progress : v.query = p
        BY <1>4, <2>1, <2>2
  <2> QED BY <1>2, <1>4, <2>1, <2>2, <2>3, AskRegistry
<1> HIDE DEF parked, told
<1> QED BY <1>1, <1>2, <1>5, <1>6, StepAfter DEF Live

(* The requester of a workflow's cancellation waits for the children that  *)
(* are left.                                                               *)
LEMMA CancelWorkflowRegistry ==
  ASSUME RegistryInv, NEW r \in Runs, NEW p, CancelWorkflow(r, p)
  PROVE  Iterates(co')
<1> DEFINE s == cancel_workflow_children(Commanded, r, p)
           t == [s EXCEPT !.workflow_cancel_waiters = @ \cup {r}]
<1>1. Step(s) \/ (workflow_outstanding(s, r) # {} /\ Step(t)) BY DEF CancelWorkflow
<1>2. Upholds(co, s) /\ Registry(s, NoMap)
  <2> DEFINE c == Commanded
  <2>1. Upholds(co, c) /\ Registry(c, NoMap) BY CommandedRegistry
  <2> HIDE DEF c
  <2>2. Upholds(c, cancel_workflow_children(c, r, p))
        BY <2>1, CancelRegistry DEF cancel_workflow_children
  <2>3. Upholds(co, cancel_workflow_children(c, r, p)) BY <2>1, <2>2, UpholdsTrans
  <2> QED BY <2>3 DEF c, Upholds
<1> HIDE DEF s
<1>3. ASSUME workflow_outstanding(s, r) # {} PROVE Upholds(s, t)
  <2>1. /\ DOMAIN t = Fields
        /\ \A f \in Fields \ {"workflow_cancel_waiters"} : t[f] = s[f]
        /\ t.workflow_cancel_waiters = s.workflow_cancel_waiters \cup {r}
        BY <1>2 DEF Registry, Maps, Fields
  <2> HIDE DEF t
  <2>2. /\ t.queued = s.queued /\ t.pending = s.pending /\ t.active = s.active
        /\ t.completed = s.completed /\ t.completed_order = s.completed_order
        /\ t.next_completion_age = s.next_completion_age
        /\ t.graph = s.graph /\ t.caller = s.caller
        /\ t.waiters = s.waiters /\ t.progress = s.progress /\ t.query = s.query
        BY <2>1 DEF Fields
  <2>3. Apart(t, DOMAIN NoMap)
    <3>1. Held(t) BY <1>2, <2>1 DEF Registry, Apart, Held, Fields
    <3> QED BY <1>2, <2>1, <2>2, <3>1 DEF Registry, Apart
  <2>4. Maps(t) BY <1>2, <2>1, <2>2 DEF Registry, Maps, Distinct
  <2>5. Values(t) BY <1>2, <2>1 DEF Registry, Values, Fields
  <2>6. Nodes(t, NoMap) BY <1>2, <2>2 DEF Registry, Nodes, Live
  <2>7. Attended(t, NoMap) BY <1>2, <2>2 DEF Registry, Attended, Live
  <2>8. Awaited(t, NoMap)
        BY <1>2, <1>3, <2>1, <2>2 DEF Registry, Awaited, workflow_outstanding
  <2>9. \A x, a : HasAge(t, NoMap, x, a) => HasAge(s, NoMap, x, a)
        BY <2>2 DEF HasAge
  <2>10. Dated(t, NoMap) BY <1>2, <2>2, <2>9 DEF Registry, Dated
  <2>11. Ordered(t) BY <1>2, <2>2 DEF Registry, Ordered
  <2>12. Transit(NoMap) BY <1>2 DEF Registry
  <2>13. Registry(t, NoMap)
         BY <2>3, <2>4, <2>5, <2>6, <2>7, <2>8, <2>10, <2>11, <2>12 DEF Registry
  <2>14. \A x, a : HasAge(s, NoMap, x, a) => HasAge(t, NoMap, x, a)
         BY <2>2 DEF HasAge
  <2>15. Lasts(s, NoMap, t, NoMap) BY <1>2, <2>2, <2>14, MovesLast
  <2> QED BY <2>13, <2>15 DEF Upholds
<1> HIDE DEF t
<1> QED BY <1>1, <1>2, <1>3, StepAfter, StepUpholds

(* The commands.                                                           *)
LEMMA CommandRegistry ==
  ASSUME RegistryInv, Command
  PROVE  Iterates(co')
<1> DEFINE s == Commanded
<1>0. /\ Upholds(co, s) /\ Registry(s, NoMap)
      /\ Shaped(s) /\ DOMAIN s = Fields
      BY CommandedRegistry
<1> HIDE DEF s
<1>1. ASSUME NEW id \in Ids, NEW ingress \in Offers, Spawn(id, ingress)
      PROVE  Iterates(co')
  <2>1. ingress \in Request BY ConstantsAssumption
  <2>2. Upholds(s, handle_spawn(s, id, ingress)) BY <1>0, <2>1, SpawnRegistry
  <2>3. Step(handle_spawn(s, id, ingress)) BY <1>1 DEF Spawn, s
  <2> QED BY <1>0, <2>2, <2>3, StepAfter
<1>2. ASSUME NEW q \in Queries, NEW id \in Ids, NEW from \in Senders \cup {None},
             Query(q, id, from)
      PROVE  Iterates(co')
      BY <1>2, QueryRegistry
<1>3. ASSUME NEW id \in Ids, NEW from \in Senders \cup {None}, CancelOne(id, from)
      PROVE  Iterates(co')
  <2> DEFINE t == remove_queued(cancel_children(s, {id}), {id})
  <2>1. Step(s) \/ Step(t) BY <1>3 DEF CancelOne, cancel_one, s
  <2>2. Upholds(s, t) BY <1>0, CancelRegistry
  <2> HIDE DEF t
  <2> QED BY <1>0, <2>1, <2>2, StepAfter, StepUpholds
<1>4. ASSUME NEW prompt \in Prompts, NEW p \in Sessions \cup {None},
             CancelPrompt(prompt, p)
      PROVE  Iterates(co')
  <2>1. Upholds(s, cancel_parent_prompt(s, prompt, p))
        BY <1>0, CancelRegistry DEF cancel_parent_prompt
  <2>2. Step(cancel_parent_prompt(s, prompt, p)) BY <1>4 DEF CancelPrompt, s
  <2> QED BY <1>0, <2>1, <2>2, StepAfter
<1>5. ASSUME NEW p \in Sessions, CancelSession(p)
      PROVE  Iterates(co')
  <2>1. Upholds(s, cancel_parent_session(s, p)) BY <1>0, CancelSessionRegistry
  <2>2. Step(cancel_parent_session(s, p)) BY <1>5 DEF CancelSession, s
  <2> QED BY <1>0, <2>1, <2>2, StepAfter
<1>6. ASSUME NEW r \in Runs, NEW p \in Sessions \cup {None}, CancelWorkflow(r, p)
      PROVE  Iterates(co')
      BY <1>6, CancelWorkflowRegistry
<1>7. ASSUME NEW p \in Sessions, NEW b \in BOOLEAN, TeardownSession(p, b)
      PROVE  Iterates(co')
  <2>1. Upholds(s, handle_teardown_session(s, p, b)) BY <1>0, TeardownRegistry
  <2>2. Step(handle_teardown_session(s, p, b)) BY <1>7 DEF TeardownSession, s
  <2> QED BY <1>0, <2>1, <2>2, StepAfter
<1>8. ASSUME NEW p \in Sessions, OpenSpawnAdmission(p)
      PROVE  Iterates(co')
  <2> DEFINE open == IF p \in s.teardown_drains THEN s.spawn_blocked_sessions
                     ELSE s.spawn_blocked_sessions \ {p}
             t == [s EXCEPT !.spawn_blocked_sessions = open]
  <2>1. Step(t) BY <1>8 DEF OpenSpawnAdmission, s
  <2>2. /\ DOMAIN t = Fields /\ t.spawn_blocked_sessions = open
        /\ \A f \in Fields \ {"spawn_blocked_sessions"} : t[f] = s[f]
        BY <1>0 DEF Fields
  <2>3. open \subseteq s.spawn_blocked_sessions
        /\ (s.teardown_drains \subseteq s.spawn_blocked_sessions =>
              s.teardown_drains \subseteq open)
        OBVIOUS
  <2> HIDE DEF t, open
  <2>4. Calm(s, t) BY <2>2, <2>3 DEF Calm, Values, Held, Fields
  <2> QED BY <1>0, <2>1, <2>4, StepCalm
<1>9. ASSUME NEW p \in Sessions, NEW prompt \in Prompts, WaitPromptDrained(p, prompt)
      PROVE  Iterates(co')
  <2> DEFINE w == [session |-> p, prompt |-> prompt]
             t == [s EXCEPT !.drain_waiters = @ \cup {w}]
  <2>1. Step(s) \/ Step(t) BY <1>9 DEF WaitPromptDrained, s
  <2>2. w \in [session : Sessions, prompt : Prompts] OBVIOUS
  <2> HIDE DEF w
  <2>3. /\ DOMAIN t = Fields /\ t.drain_waiters = s.drain_waiters \cup {w}
        /\ \A f \in Fields \ {"drain_waiters"} : t[f] = s[f]
        BY <1>0 DEF Fields
  <2> HIDE DEF t
  <2>4. Calm(s, t) BY <2>2, <2>3 DEF Calm, Values, Held, Fields
  <2> QED BY <1>0, <2>1, <2>4, StepCalm, StepUpholds
<1>10. ASSUME NEW p \in Sess, Completions(p)
       PROVE  Iterates(co')
  <2> DEFINE t == [s EXCEPT !.pending_completions =
                     purge_completions_for_spawner(@, {p})]
  <2>1. Step(t) BY <1>10 DEF Completions, s
  <2>2. /\ DOMAIN t = Fields
        /\ \A f \in Fields \ {"pending_completions"} : t[f] = s[f]
        BY <1>0 DEF Fields
  <2> HIDE DEF t
  <2>3. Calm(s, t) BY <2>2 DEF Calm, Values, Held, Fields
  <2> QED BY <1>0, <2>1, <2>3, StepCalm
<1>11. ASSUME NEW m \in Messages, NEW id \in Ids, NEW sender \in Senders,
              NEW source \in Sources, SendActiveMessage(m, id, sender, source)
       PROVE  Iterates(co')
  <2> DEFINE t == [co EXCEPT !.outcome[m] = "waiting"]
             msg == [msg |-> m, id |-> id, sender |-> sender, source |-> source]
             u == handle_send_active_message(t, id, {msg})
  <2>1. Registry(co, NoMap) /\ Shaped(co) /\ DOMAIN co = Fields
        BY DEF RegistryInv, Kempt, MessageInv, LimitInv, Ready, Sound, Shaped
  <2>2. Step(u) BY <1>11 DEF SendActiveMessage
  <2>3. /\ DOMAIN t = Fields
        /\ \A f \in Fields \ {"outcome"} : t[f] = co[f]
        /\ t.outcome = [co.outcome EXCEPT ![m] = "waiting"]
        BY <2>1 DEF Fields
  <2> HIDE DEF t, msg
  <2>4. Calm(co, t)
    <3>1. Values(co) => t.outcome \in [Messages -> Outcomes]
          BY <2>3 DEF Values, Outcomes
    <3> QED BY <2>3, <3>1 DEF Calm, Values, Held, Fields
  <2>5. Registry(t, NoMap) BY <2>1, <2>4, CalmRegistry
  <2>6. Shaped(t) BY <2>1, <2>3 DEF Shaped, Fields
  <2>7. IsFiniteSet({msg}) BY FS_Singleton
  <2>8. Registry(u, NoMap) /\ Spares(t, u) BY <2>5, <2>6, <2>7, SendRegistry
  <2> HIDE DEF u
  <2>9. Spares(co, u) BY <2>4, <2>8, CalmSpares
  <2> QED BY <2>2, <2>8, <2>9, StepSpares
<1> QED BY <1>1, <1>2, <1>3, <1>4, <1>5, <1>6, <1>7, <1>8, <1>9, <1>10, <1>11
        DEF Command

(* A child that starts keeps its caller, and its displaced record if the   *)
(* host defers the start.                                                  *)
LEMMA StartedRegistry ==
  ASSUME RegistryInv, NEW id \in Ids, NEW definition_background \in BOOLEAN,
         NEW defer \in BOOLEAN, Started(id, definition_background, defer)
  PROVE  Iterates(co')
<1> DEFINE child == co.pending[id]
           rec == [req |-> child.req, cancelled |-> FALSE, reply |-> child.reply,
                   deadline |-> child.deadline, handle_only |-> child.handle_only,
                   definition_background |-> definition_background,
                   generation |-> co.next_generation, finalizing |-> FALSE,
                   in_flight |-> 0, clean |-> TRUE, reporter_waits |-> FALSE,
                   wake |-> IF defer THEN child.wake ELSE None]
           t == [co EXCEPT !.pending = Without(@, {id}), !.next_generation = @ + 1,
                           !.active = Put(@, id, rec)]
           left == [co EXCEPT !.active = Without(@, {id}), !.pending = Without(@, {id})]
           T == [x \in {id} |-> child]
<1>1. /\ id \in DOMAIN co.pending
      /\ \/ Step(reject_spawn_ready_ids(co, {id}))
         \/ Step(t)
         \/ Step(admit_spawn_ready_messages(t, id))
      BY DEF Started
<1>2. Registry(co, NoMap) /\ DOMAIN co = Fields BY DEF RegistryInv, Kempt, Registry, Maps
<1>3. /\ id \notin DOMAIN co.active /\ child \in PendingChild
      /\ co.next_generation \in Nat
      BY <1>1, <1>2 DEF Registry, Apart, Maps, MapOf, Values
<1>4. Registry(left, T)
  <2> DEFINE which == IF id \in DOMAIN co.active THEN co.active[id] ELSE co.pending[id]
  <2>1. child = which BY <1>3
  <2> HIDE DEF child
  <2> QED BY <1>1, <1>2, <2>1, LeaveRegistry
<1>5. id \in DOMAIN T /\ T[id] = child /\ DOMAIN T \subseteq {id} OBVIOUS
<1>6. /\ rec \in ActiveRow /\ rec.req = child.req /\ rec.reply = child.reply
      /\ (rec.wake # None => rec.wake = child.wake)
  <2> DEFINE wake == IF defer THEN child.wake ELSE None
  <2>1. wake \in CompletedChild \cup {None} /\ (wake # None => wake = child.wake)
        BY <1>3 DEF PendingChild
  <2>2. rec.wake = wake OBVIOUS
  <2>3. /\ child.req \in Request /\ child.reply \in BOOLEAN
        /\ child.deadline \in BOOLEAN /\ child.handle_only \in BOOLEAN
        BY <1>3 DEF PendingChild
  <2> HIDE DEF wake, child
  <2>4. rec \in ActiveRow BY <1>3, <2>1, <2>3 DEF ActiveRow, wake
  <2> QED BY <2>1, <2>2, <2>4
<1>7. /\ DOMAIN t = Fields
      /\ \A f \in Fields \ {"active", "next_generation", "pending"} : t[f] = co[f]
      /\ t.active = Put(co.active, id, rec)
      /\ t.pending = Without(co.pending, {id})
      /\ t.next_generation = co.next_generation + 1
      BY <1>2 DEF Fields
<1>8. /\ DOMAIN left = Fields
      /\ \A f \in Fields \ {"active", "pending"} : left[f] = co[f]
      /\ left.active = Without(co.active, {id})
      /\ left.pending = Without(co.pending, {id})
      BY <1>2 DEF Fields
<1> HIDE DEF t, left, T, rec, child
<1>9. Put(left.active, id, rec) = Put(co.active, id, rec)
  <2> DEFINE f == Without(co.active, {id})
  <2>1. /\ DOMAIN f = DOMAIN co.active \ {id}
        /\ \A x \in DOMAIN co.active \ {id} : f[x] = co.active[x]
        BY WithoutFacts
  <2> HIDE DEF f
  <2>2. DOMAIN f = DOMAIN co.active /\ \A x \in DOMAIN co.active : f[x] = co.active[x]
        BY <1>3, <2>1
  <2>3. Put(f, id, rec) = Put(co.active, id, rec) BY <2>2 DEF Put
  <2> QED BY <1>8, <2>3 DEF f
<1>10. Registry(t, NoMap)
  <2>1. \A f \in Fields \ {"active", "next_generation"} : t[f] = left[f]
        BY <1>7, <1>8
  <2>2. t.active = Put(left.active, id, rec) BY <1>7, <1>9
  <2>3. t.next_generation \in Nat BY <1>3, <1>7
  <2>4. Registry(t, Without(T, {id}))
        BY <1>4, <1>5, <1>6, <1>7, <2>1, <2>2, <2>3, ActivateRegistry
  <2> QED BY <1>5, <2>4, ArrivedAll
<1>11. id \in DOMAIN t.active BY <1>7 DEF Put
<1>12. IsFiniteSet(t.spawn_ready)
  <2>1. t.spawn_ready = co.spawn_ready BY <1>7 DEF Fields
  <2> QED BY <2>1, MailFinite DEF RegistryInv
<1>13. /\ t.completed = co.completed
       /\ \A x : x # id => waking(t, x) = waking(co, x)
  <2>1. t.queued = co.queued /\ t.completed = co.completed BY <1>7 DEF Fields
  <2>2. /\ DOMAIN t.pending = DOMAIN co.pending \ {id}
        /\ \A x \in DOMAIN co.pending \ {id} : t.pending[x] = co.pending[x]
    <3>1. LET g == Without(co.pending, {id})
          IN  /\ DOMAIN g = DOMAIN co.pending \ {id}
              /\ \A x \in DOMAIN co.pending \ {id} : g[x] = co.pending[x]
          BY WithoutFacts
    <3> QED BY <1>7, <3>1
  <2>3. /\ DOMAIN t.active = DOMAIN co.active \cup {id}
        /\ \A x \in DOMAIN co.active : x # id => t.active[x] = co.active[x]
        BY <1>7 DEF Put
  <2> QED BY <2>1, <2>2, <2>3 DEF waking
<1>14. Registry(t, NoMap) /\ Spares(co, t)
       BY <1>2, <1>10, <1>11, <1>13, UpholdsSelf, CommitSpares DEF Live
<1>15. LET u == admit_spawn_ready_messages(t, id)
       IN  Registry(u, NoMap) /\ Spares(co, u)
  <2> DEFINE u == admit_spawn_ready_messages(t, id)
  <2>1. Upholds(t, u) BY <1>10, <1>11, <1>12, AdmitSpawnReadyRegistry
  <2>2. id \in Live(u) BY <1>7, <1>11, AdmitSpawnReadySame DEF SameHomes, Live
  <2> HIDE DEF u
  <2>3. Registry(u, NoMap) /\ Spares(co, u)
        BY <1>2, <1>10, <1>13, <2>1, <2>2, CommitSpares
  <2> QED BY <2>3 DEF u
<1>16. Calm(co, reject_spawn_ready_ids(co, {id})) BY <1>2, RejectSpawnReadyCalm
<1> QED BY <1>1, <1>2, <1>14, <1>15, <1>16, UpholdsSelf, StepSpares, StepCalm

(* A deferred start that is given up mutes and cancels its child.          *)
LEMMA AbortedRow ==
  ASSUME NEW r \in ActiveRow
  PROVE  LET w == [r EXCEPT !.req.surface = FALSE, !.cancelled = TRUE,
                            !.finalizing = TRUE]
         IN  /\ w \in ActiveRow /\ w.req.workflow = r.req.workflow
             /\ w.reply = r.reply /\ w.wake = r.wake
<1> DEFINE a == [r EXCEPT !.req.surface = FALSE]
           b == [a EXCEPT !.cancelled = TRUE]
           w == [b EXCEPT !.finalizing = TRUE]
<1>1. /\ a \in ActiveRow /\ a.req.workflow = r.req.workflow
      /\ a.reply = r.reply /\ a.wake = r.wake
      BY MutedRow DEF Kinds
<1>2. w = [r EXCEPT !.req.surface = FALSE, !.cancelled = TRUE, !.finalizing = TRUE]
      OBVIOUS
<1> HIDE DEF a
<1>3. /\ b \in ActiveRow /\ b.req = a.req /\ b.reply = a.reply /\ b.wake = a.wake
      BY <1>1, CancelledRow DEF Kinds
<1> HIDE DEF b
<1>4. /\ w \in ActiveRow /\ w.req = b.req /\ w.reply = b.reply /\ w.wake = b.wake
      BY <1>3 DEF ActiveRow
<1> HIDE DEF w
<1>5. /\ w \in ActiveRow /\ w.req.workflow = r.req.workflow
      /\ w.reply = r.reply /\ w.wake = r.wake
      BY <1>1, <1>3, <1>4
<1> QED BY <1>2, <1>5

LEMMA SettleRegistry ==
  ASSUME RegistryInv, NEW id \in Ids, NEW is_committed,
         SettleDeferredStart(id, is_committed)
  PROVE  Iterates(co')
<1> DEFINE child == co.active[id]
           kept == [child EXCEPT !.wake = None]
           ended == [child EXCEPT !.req.surface = FALSE, !.cancelled = TRUE,
                                  !.finalizing = TRUE]
           committed == [co EXCEPT !.active[id].wake = None]
           aborted == [co EXCEPT !.active[id].req.surface = FALSE,
                                 !.active[id].cancelled = TRUE,
                                 !.active[id].finalizing = TRUE]
<1>1. /\ id \in DOMAIN co.active
      /\ \/ Step(admit_spawn_ready_messages(committed, id))
         \/ Step(reject_spawn_ready_ids(aborted, {id}))
      BY DEF SettleDeferredStart
<1>2. Registry(co, NoMap) /\ DOMAIN co = Fields BY DEF RegistryInv, Kempt, Registry, Maps
<1>3. child \in ActiveRow BY <1>1, <1>2 DEF Registry, Maps, MapOf
<1>4. /\ Registry(committed, NoMap) /\ id \in DOMAIN committed.active
      /\ committed.spawn_ready = co.spawn_ready
      /\ committed.completed = co.completed
      /\ \A x : x # id => waking(committed, x) = waking(co, x)
  <2>1. /\ DOMAIN committed = Fields
        /\ \A f \in Fields \ {"active"} : committed[f] = co[f]
        /\ committed.active = [co.active EXCEPT ![id] = kept]
        BY <1>1, <1>2 DEF Fields
  <2>2. /\ kept \in ActiveRow /\ kept.req = child.req /\ kept.reply = child.reply
        /\ kept.wake = None
        BY <1>3 DEF ActiveRow
  <2> HIDE DEF committed, kept
  <2>3. Beside(co, committed) BY <2>1 DEF Beside, Held, Values, Fields
  <2>4. /\ committed.queued = co.queued /\ committed.pending = co.pending
        /\ committed.caller = co.caller /\ committed.spawn_ready = co.spawn_ready
        /\ committed.completed = co.completed
        BY <2>1 DEF Fields
  <2>5. DOMAIN committed.active = DOMAIN co.active BY <2>1
  <2>6. \A x : x # id => waking(committed, x) = waking(co, x)
        BY <2>1, <2>4, <2>5 DEF waking
  <2>7. Registry(committed, NoMap)
        BY <1>1, <1>2, <2>1, <2>2, <2>3, <2>4, ActiveRegistry
  <2> QED BY <1>1, <2>4, <2>5, <2>6, <2>7
<1>5. Upholds(co, aborted) /\ Registry(aborted, NoMap) /\ DOMAIN aborted = Fields
  <2>1. /\ DOMAIN aborted = Fields
        /\ \A f \in Fields \ {"active"} : aborted[f] = co[f]
        BY <1>2 DEF Fields
  <2>2. aborted.active = [co.active EXCEPT ![id] = ended]
        BY <1>1, <1>2 DEF Fields
  <2>3. /\ ended \in ActiveRow /\ ended.req.workflow = child.req.workflow
        /\ ended.reply = child.reply /\ ended.wake = child.wake
        BY <1>3, AbortedRow
  <2> HIDE DEF aborted, ended
  <2>4. Beside(co, aborted) BY <2>1 DEF Beside, Held, Values, Fields
  <2>5. /\ aborted.queued = co.queued /\ aborted.pending = co.pending
        /\ aborted.caller = co.caller
        BY <2>1 DEF Fields
  <2>6. Upholds(co, aborted)
        BY <1>1, <1>2, <2>1, <2>2, <2>3, <2>4, <2>5, ActiveRegistry
  <2> QED BY <2>1, <2>6 DEF Upholds
<1> HIDE DEF committed, aborted
<1>6. LET u == admit_spawn_ready_messages(committed, id)
      IN  Registry(u, NoMap) /\ Spares(co, u)
  <2> DEFINE u == admit_spawn_ready_messages(committed, id)
  <2>1. IsFiniteSet(committed.spawn_ready) BY <1>4, MailFinite DEF RegistryInv
  <2>2. Upholds(committed, u) BY <1>4, <2>1, AdmitSpawnReadyRegistry
  <2>3. id \in Live(u)
    <3>1. DOMAIN committed = Fields BY <1>4 DEF Registry, Maps
    <3> QED BY <1>4, <3>1, AdmitSpawnReadySame DEF SameHomes, Live
  <2> HIDE DEF u
  <2>4. Registry(u, NoMap) /\ Spares(co, u)
        BY <1>2, <1>4, <2>2, <2>3, CommitSpares
  <2> QED BY <2>4 DEF u
<1>7. Calm(aborted, reject_spawn_ready_ids(aborted, {id}))
      BY <1>5, RejectSpawnReadyCalm
<1> QED BY <1>1, <1>5, <1>6, <1>7, StepSpares, StepCalm

LEMMA FinalizingRegistry ==
  ASSUME RegistryInv, NEW id \in Ids, Finalizing(id)
  PROVE  Iterates(co')
<1> DEFINE child == co.active[id]
           waits == child.in_flight > 0
           half == [child EXCEPT !.finalizing = TRUE]
           w == [half EXCEPT !.reporter_waits = waits]
           t == [co EXCEPT !.active[id].finalizing = TRUE,
                           !.active[id].reporter_waits = co.active[id].in_flight > 0]
<1>1. id \in DOMAIN co.active /\ Step(t) BY DEF Finalizing
<1>2. Registry(co, NoMap) /\ DOMAIN co = Fields BY DEF RegistryInv, Kempt, Registry, Maps
<1>3. child \in ActiveRow BY <1>1, <1>2 DEF Registry, Maps, MapOf
<1>4. /\ DOMAIN t = Fields
      /\ \A f \in Fields \ {"active"} : t[f] = co[f]
      BY <1>2 DEF Fields
<1>5. t.active = [co.active EXCEPT ![id] = w] BY <1>1, <1>2 DEF Fields
<1>6. waits \in BOOLEAN OBVIOUS
<1> HIDE DEF t, waits
<1>7. /\ half \in ActiveRow /\ half.req = child.req /\ half.reply = child.reply
      /\ half.wake = child.wake
      BY <1>3 DEF ActiveRow
<1> HIDE DEF half
<1>8. w \in ActiveRow /\ w.req = half.req /\ w.reply = half.reply /\ w.wake = half.wake
      BY <1>6, <1>7 DEF ActiveRow
<1> HIDE DEF w
<1>9. Beside(co, t) BY <1>4 DEF Beside, Held, Values, Fields
<1>10. t.queued = co.queued /\ t.pending = co.pending /\ t.caller = co.caller
       BY <1>4 DEF Fields
<1>11. Upholds(co, t)
       BY <1>1, <1>2, <1>5, <1>7, <1>8, <1>9, <1>10, ActiveRegistry
<1> QED BY <1>1, <1>11, StepUpholds

(* The host's reports.                                                     *)
LEMMA HostReportRegistry ==
  ASSUME RegistryInv, HostReport
  PROVE  Iterates(co')
<1>0. /\ Registry(co, NoMap) /\ DOMAIN co = Fields /\ Shaped(co)
      BY DEF RegistryInv, Kempt, Registry, Maps, MessageInv, LimitInv, Ready, Sound
<1>1. ASSUME NEW id \in Ids, NEW b \in BOOLEAN, NEW defer \in BOOLEAN,
             Started(id, b, defer)
      PROVE  Iterates(co')
      BY <1>1, StartedRegistry
<1>2. ASSUME NEW id \in Ids, NEW ok \in BOOLEAN, SettleDeferredStart(id, ok)
      PROVE  Iterates(co')
      BY <1>2, SettleRegistry
<1>3. ASSUME NEW id \in Ids, Finalizing(id)
      PROVE  Iterates(co')
      BY <1>3, FinalizingRegistry
<1>4. ASSUME NEW id \in Ids, NEW success \in BOOLEAN, RunEnded(id, success)
      PROVE  Iterates(co')
  <2> DEFINE t == [co EXCEPT !.runs = @ \ {id}]
  <2>1. Step(begin_terminalization(t, id, success)) BY <1>4 DEF RunEnded
  <2>2. /\ DOMAIN t = Fields /\ t.runs = co.runs \ {id}
        /\ \A f \in Fields \ {"runs"} : t[f] = co[f]
        BY <1>0 DEF Fields
  <2> HIDE DEF t
  <2>3. Calm(co, t) BY <2>2 DEF Calm, Values, Held, Fields
  <2>4. Registry(t, NoMap) BY <1>0, <2>3, CalmRegistry
  <2>5. Upholds(t, begin_terminalization(t, id, success))
        BY <2>4, TerminalizationRegistry
  <2>6. Upholds(co, t) BY <1>0, <2>3, CalmUpholds
  <2> QED BY <2>1, <2>5, <2>6, StepAfter
<1>5. ASSUME NEW f \in co.active_messages, NEW how \in {"Accepted", "Refused", "Uncertain"},
             ActiveMessageEnded(f, how)
      PROVE  Iterates(co')
  <2>1. how \in Outcomes BY DEF Outcomes
  <2>2. Upholds(co, finish_active_message(co, f, how))
        BY <1>0, <2>1, FinishMessageRegistry
  <2> QED BY <1>5, <2>2, StepUpholds DEF ActiveMessageEnded
<1>6. ASSUME NEW w \in co.progress, ProgressEnded(w)
      PROVE  Iterates(co')
  <2> DEFINE asked == w.query
             told == IF co.query[asked] = "listening" THEN "answered" ELSE co.query[asked]
             t == [co EXCEPT !.progress = @ \ {w}, !.query[asked] = told]
  <2>1. Step(t) BY <1>6 DEF ProgressEnded
  <2>2. /\ co.progress \subseteq [query : Queries, id : Ids]
        /\ co.waiters \subseteq [query : Queries, id : Ids]
        /\ co.query \in [Queries -> Channels]
        /\ \A v \in co.waiters : v.id \in Live(co)
        /\ \A q \in Queries : co.query[q] = "listening" =>
             \E v \in co.waiters \cup co.progress : v.query = q
        BY <1>0, EmptyMap DEF Registry, Values, Attended
  <2>3. asked \in Queries BY <2>2
  <2>4. told \in Channels /\ told # "listening" BY <2>2, <2>3 DEF Channels
  <2>5. /\ DOMAIN t = Fields
        /\ \A f \in Fields \ {"waiters", "progress", "query"} : t[f] = co[f]
        /\ t.waiters = co.waiters /\ t.progress = co.progress \ {w}
        /\ t.query = [co.query EXCEPT ![asked] = told]
        BY <1>0 DEF Fields
  <2> HIDE DEF t, told
  <2>6. /\ t.query \in [Queries -> Channels] /\ t.query[asked] # "listening"
        /\ \A q \in Queries : q # asked => t.query[q] = co.query[q]
        BY <2>2, <2>3, <2>4, <2>5
  <2>7. \A q \in Queries : t.query[q] = "listening" =>
          \E v \in t.waiters \cup t.progress : v.query = q
        BY <2>2, <2>5, <2>6
  <2>8. /\ t.progress \subseteq [query : Queries, id : Ids]
        /\ t.waiters \subseteq [query : Queries, id : Ids]
        /\ \A v \in t.waiters : v.id \in Live(co)
        BY <2>2, <2>5
  <2>9. Upholds(co, t) BY <1>0, <2>5, <2>6, <2>7, <2>8, AskRegistry
  <2> QED BY <2>1, <2>9, StepUpholds
<1>7. ASSUME NEW p \in co.publications, TerminalPublished(p)
      PROVE  Iterates(co')
  <2> DEFINE t == [co EXCEPT !.publications = @ \ {p}]
  <2>1. Step(handle_terminal_published(t, p.id)) BY <1>7 DEF TerminalPublished
  <2>2. /\ DOMAIN t = Fields /\ t.publications = co.publications \ {p}
        /\ \A f \in Fields \ {"publications"} : t[f] = co[f]
        BY <1>0 DEF Fields
  <2> HIDE DEF t
  <2>3. Calm(co, t) BY <2>2 DEF Calm, Values, Held, Fields
  <2>4. Registry(t, NoMap) BY <1>0, <2>3, CalmRegistry
  <2>5. Shaped(t) BY <1>0, <2>3 DEF Calm, Shaped
  <2>6. IsFiniteSet(t.pending_wakes)
    <3>1. t.pending_wakes = co.pending_wakes BY <2>2 DEF Fields
    <3> QED BY <3>1, MailFinite DEF RegistryInv
  <2> DEFINE u == handle_terminal_published(t, p.id)
  <2>7. Registry(u, NoMap) /\ Spares(t, u)
        BY <2>4, <2>5, <2>6, TerminalPublishedRegistry
  <2> HIDE DEF u
  <2>8. Spares(co, u) BY <2>3, <2>7, CalmSpares
  <2> QED BY <2>1, <2>7, <2>8, StepSpares DEF u
<1> QED BY <1>1, <1>2, <1>3, <1>4, <1>5, <1>6, <1>7 DEF HostReport

(* The queue entries, the child's one without its caller.                  *)
Unanswered(f, id) ==
  [x \in DOMAIN f |-> IF x # id THEN f[x] ELSE
     [f[x] EXCEPT !.reply = FALSE, !.deadline = FALSE]]

(* A caller whose deadline has passed is answered, and loses its place.    *)
LEMMA ForegroundRegistry ==
  ASSUME NEW s, Registry(s, NoMap), NEW id \in Ids,
         NEW told, told = IF s.caller[id] = "listening" THEN "answered" ELSE s.caller[id]
  PROVE  Upholds(s, [s EXCEPT !.pending = Detached(@, id), !.active = Detached(@, id),
                              !.queued = Unanswered(@, id), !.caller[id] = told])
<1> DEFINE pending == Detached(s.pending, id)
           active == Detached(s.active, id)
           queued == Unanswered(s.queued, id)
           t == [s EXCEPT !.pending = Detached(@, id), !.active = Detached(@, id),
                          !.queued = Unanswered(@, id), !.caller[id] = told]
<1>1. /\ MapOf(s.queued, QueuedSpawn) /\ MapOf(s.pending, PendingChild)
      /\ MapOf(s.active, ActiveRow) /\ DOMAIN s = Fields
      /\ s.caller \in [Ids -> Channels]
      BY DEF Registry, Maps, Values
<1>2. /\ SameRows(s.pending, pending) /\ SameWakes(s.pending, pending)
      /\ MapOf(pending, PendingChild)
      /\ \A x \in Replying(s.pending) : x # id => x \in Replying(pending)
      BY <1>1, DetachedRows
<1>3. /\ SameRows(s.active, active) /\ SameWakes(s.active, active)
      /\ MapOf(active, ActiveRow)
      /\ \A x \in Replying(s.active) : x # id => x \in Replying(active)
      BY <1>1, DetachedRows
<1>4. /\ SameRows(s.queued, queued) /\ SameWakes(s.queued, queued)
      /\ MapOf(queued, QueuedSpawn)
      /\ \A x \in Replying(s.queued) : x # id => x \in Replying(queued)
      /\ \A x \in DOMAIN s.queued : queued[x].queued_at = s.queued[x].queued_at
  <2> DEFINE S == {x \in DOMAIN s.queued : x # id}
  <2>1. DOMAIN queued = DOMAIN s.queued BY DEF Unanswered
  <2>2. \A x \in DOMAIN s.queued : UnattendedTo(s.queued[x], queued[x], x \in S)
    <3> TAKE x \in DOMAIN s.queued
    <3> DEFINE r == s.queued[x]
               stays == x \in S
               a == r.reply /\ x # id
               d == r.deadline /\ x # id
    <3>1. r \in QueuedSpawn BY <1>1 DEF MapOf
    <3>2. a \in BOOLEAN /\ d \in BOOLEAN OBVIOUS
    <3>3. queued[x] = [r EXCEPT !.reply = a, !.deadline = d]
      <4>1. CASE x = id
        <5>1. a = FALSE /\ d = FALSE BY <4>1
        <5>2. queued[x] = [r EXCEPT !.reply = FALSE, !.deadline = FALSE]
              BY <4>1 DEF Unanswered
        <5> HIDE DEF a, d, r
        <5> QED BY <5>1, <5>2
      <4>2. CASE x # id
        <5>1. queued[x] = r BY <4>2 DEF Unanswered
        <5>2. a = r.reply /\ d = r.deadline BY <3>1, <4>2 DEF QueuedSpawn
        <5>3. [r EXCEPT !.reply = r.reply, !.deadline = r.deadline] = r
              BY <3>1 DEF QueuedSpawn
        <5> HIDE DEF a, d, r
        <5> QED BY <5>1, <5>2, <5>3
      <4> QED BY <4>1, <4>2
    <3>4. (a => r.reply) /\ (r.reply /\ stays => a) OBVIOUS
    <3> HIDE DEF a, d, stays, r
    <3>5. UnattendedTo(r, queued[x], stays) BY <3>2, <3>3, <3>4 DEF UnattendedTo
    <3> QED BY <3>5 DEF r, stays
  <2> HIDE DEF queued
  <2>3. /\ SameRows(s.queued, queued) /\ SameWakes(s.queued, queued)
        /\ MapOf(queued, QueuedSpawn)
        /\ \A x \in Replying(s.queued) : x \in S => x \in Replying(queued)
        /\ \A x \in DOMAIN s.queued : queued[x].queued_at = s.queued[x].queued_at
    <3> HIDE DEF S
    <3> QED BY <1>1, <2>1, <2>2, UnattendedRows
  <2> QED BY <2>3 DEF Replying
<1>5. told \in Channels /\ told # "listening" BY <1>1 DEF Channels
<1>6. /\ DOMAIN t = Fields
      /\ t.queued = queued /\ t.pending = pending /\ t.active = active
      /\ t.caller = [s.caller EXCEPT ![id] = told]
      /\ \A f \in Fields \ {"queued", "pending", "active", "caller"} : t[f] = s[f]
      BY <1>1 DEF Fields
<1> HIDE DEF t, pending, active, queued
<1>7. /\ t.caller \in [Ids -> Channels] /\ t.caller[id] # "listening"
      /\ \A x \in Ids : x # id => t.caller[x] = s.caller[x]
      BY <1>1, <1>5, <1>6
<1>8. Beside(s, t) BY <1>6, <1>7 DEF Beside, Values, Held, Fields
<1>9. Upholds(s, t)
  <2>1. \A x \in Ids : t.caller[x] = "listening" =>
           /\ s.caller[x] = "listening"
           /\ x \in Replying(s.queued) => x \in Replying(t.queued)
           /\ x \in Replying(s.pending) => x \in Replying(t.pending)
           /\ x \in Replying(s.active) => x \in Replying(t.active)
    <3> SUFFICES ASSUME NEW x \in Ids, t.caller[x] = "listening"
                 PROVE  /\ s.caller[x] = "listening"
                        /\ x \in Replying(s.queued) => x \in Replying(queued)
                        /\ x \in Replying(s.pending) => x \in Replying(pending)
                        /\ x \in Replying(s.active) => x \in Replying(active)
        BY <1>6
    <3>1. x # id BY <1>7
    <3> QED BY <1>2, <1>3, <1>4, <1>7, <3>1
  <2>2. /\ SameRows(s.queued, t.queued) /\ SameWakes(s.queued, t.queued)
        /\ MapOf(t.queued, QueuedSpawn)
        /\ SameRows(s.pending, t.pending) /\ SameWakes(s.pending, t.pending)
        /\ MapOf(t.pending, PendingChild)
        /\ SameRows(s.active, t.active) /\ SameWakes(s.active, t.active)
        /\ MapOf(t.active, ActiveRow)
        /\ \A x \in DOMAIN s.queued : t.queued[x].queued_at = s.queued[x].queued_at
        BY ONLY <1>2, <1>3, <1>4, <1>6
  <2> QED BY ONLY Registry(s, NoMap), <1>8, <2>1, <2>2, RowsRegistry
<1> QED BY ONLY <1>9 DEF t

(* The deadlines.                                                          *)
LEMMA DeadlineRegistry ==
  ASSUME RegistryInv, Deadline
  PROVE  Iterates(co')
<1> DEFINE s == Commanded
<1>0. Upholds(co, s) /\ Registry(s, NoMap) /\ DOMAIN s = Fields BY CommandedRegistry
<1> HIDE DEF s
<1>1. ASSUME ReapAbandonedCallers PROVE Iterates(co')
      BY <1>0, <1>1, StepUpholds DEF ReapAbandonedCallers, s
<1>2. ASSUME NEW id \in Ids, ForegroundDeadline(id) PROVE Iterates(co')
  <2> DEFINE detached(map) == [x \in DOMAIN map |-> IF x # id THEN map[x] ELSE
        [map[x] EXCEPT !.reply = FALSE, !.handle_only = TRUE, !.deadline = FALSE]]
             pending == detached(s.pending)
             active == detached(s.active)
             queued == [x \in DOMAIN s.queued |-> IF x # id THEN s.queued[x] ELSE
                          [s.queued[x] EXCEPT !.reply = FALSE, !.deadline = FALSE]]
             told == IF s.caller[id] = "listening" THEN "answered" ELSE s.caller[id]
             t == [s EXCEPT !.pending = pending, !.active = active, !.queued = queued,
                            !.caller[id] = told]
             u == [s EXCEPT !.pending = Detached(@, id), !.active = Detached(@, id),
                            !.queued = Unanswered(@, id), !.caller[id] = told]
  <2>1. Step(t) \/ Step(s) BY <1>0, <1>2 DEF ForegroundDeadline, s, Fields
  <2>2. t = u BY DEF Detached, Unanswered
  <2>3. Upholds(s, u) BY <1>0, ForegroundRegistry
  <2> HIDE DEF t, u
  <2> QED BY <1>0, <2>1, <2>2, <2>3, StepAfter, StepUpholds
<1>3. ASSUME NEW m \in co.spawn_ready, SpawnReadyDeadline(m) PROVE Iterates(co')
  <2> DEFINE t == [s EXCEPT !.spawn_ready = @ \ {m}]
             u == Answer(t, {m.msg}, "Refused")
  <2>1. Step(s) \/ Step(u) BY <1>3 DEF SpawnReadyDeadline, s
  <2>2. DOMAIN t = Fields /\ \A f \in Fields \ {"spawn_ready"} : t[f] = s[f]
        BY <1>0 DEF Fields
  <2> HIDE DEF t
  <2>3. Calm(s, t) BY <2>2 DEF Calm, Values, Held, Fields
  <2>4. Calm(t, u) BY <2>2, AnswerCalm DEF Outcomes
  <2> HIDE DEF u
  <2>5. Calm(s, u) BY <2>3, <2>4, CalmTrans
  <2> QED BY <1>0, <2>1, <2>5, StepUpholds, StepCalm
<1>4. ASSUME NEW p \in co.teardown_drains, TeardownDeadline(p) PROVE Iterates(co')
  <2> DEFINE t == clear_teardown_drain(s, {p} \cap s.teardown_drains)
  <2>1. Step(t) BY <1>4 DEF TeardownDeadline, s
  <2>2. Calm(s, t) BY <1>0, TeardownDrainCalm
  <2> HIDE DEF t
  <2> QED BY <1>0, <2>1, <2>2, StepCalm
<1>5. ASSUME NEW w \in co.waiters, WaiterDeadline(w) PROVE Iterates(co')
  <2> DEFINE asked == w.query
             t == [s EXCEPT !.waiters = @ \ {w}]
             u == [t EXCEPT !.progress = @ \cup {w}]
             v == [t EXCEPT !.query[asked] = "answered"]
  <2>1. \/ Step(s)
        \/ w \in s.waiters /\ s.query[asked] = "gone" /\ Step(t)
        \/ w \in s.waiters /\ Step(u)
        \/ w \in s.waiters /\ Step(v)
        BY <1>5 DEF WaiterDeadline, s
  <2>2. /\ s.progress \subseteq [query : Queries, id : Ids]
        /\ s.waiters \subseteq [query : Queries, id : Ids]
        /\ s.query \in [Queries -> Channels]
        /\ \A x \in s.waiters : x.id \in Live(s)
        /\ \A q \in Queries : s.query[q] = "listening" =>
             \E x \in s.waiters \cup s.progress : x.query = q
        BY <1>0, EmptyMap DEF Registry, Values, Attended
  <2>3. /\ DOMAIN t = Fields /\ \A f \in Fields \ {"waiters"} : t[f] = s[f]
        /\ t.waiters = s.waiters \ {w}
        BY <1>0 DEF Fields
  <2>4. /\ DOMAIN u = Fields
        /\ \A f \in Fields \ {"waiters", "progress"} : u[f] = s[f]
        /\ u.waiters = s.waiters \ {w} /\ u.progress = s.progress \cup {w}
        BY <1>0 DEF Fields
  <2>5. /\ DOMAIN v = Fields
        /\ \A f \in Fields \ {"waiters", "query"} : v[f] = s[f]
        /\ v.waiters = s.waiters \ {w}
        /\ v.query = [s.query EXCEPT ![asked] = "answered"]
        BY <1>0 DEF Fields
  <2> HIDE DEF t, u, v
  <2>6. ASSUME w \in s.waiters, s.query[asked] = "gone" PROVE Upholds(s, t)
    <3>1. t.progress = s.progress /\ t.query = s.query BY <2>3 DEF Fields
    <3>2. \A q \in Queries : t.query[q] = "listening" =>
            \E x \in t.waiters \cup t.progress : x.query = q
      <4> SUFFICES ASSUME NEW q \in Queries, s.query[q] = "listening"
                   PROVE  \E x \in (s.waiters \ {w}) \cup s.progress : x.query = q
          BY <2>3, <3>1
      <4>1. q # asked BY <2>6
      <4>2. PICK x \in s.waiters \cup s.progress : x.query = q BY <2>2
      <4>3. x # w BY <4>1, <4>2
      <4> QED BY <4>2, <4>3
    <3> QED BY <1>0, <2>2, <2>3, <3>1, <3>2, AskRegistry
  <2>7. ASSUME w \in s.waiters PROVE Upholds(s, u)
    <3>1. u.query = s.query BY <2>4 DEF Fields
    <3>2. u.waiters \cup u.progress = s.waiters \cup s.progress BY <2>4, <2>7
    <3>3. \A q \in Queries : u.query[q] = "listening" =>
            \E x \in u.waiters \cup u.progress : x.query = q
          BY <2>2, <3>1, <3>2
    <3>4. /\ u.progress \subseteq [query : Queries, id : Ids]
          /\ u.waiters \subseteq [query : Queries, id : Ids]
          /\ \A x \in u.waiters : x.id \in Live(s)
          BY <2>2, <2>4, <2>7
    <3> QED BY <1>0, <2>2, <2>4, <3>1, <3>3, <3>4, AskRegistry
  <2>8. ASSUME w \in s.waiters PROVE Upholds(s, v)
    <3>1. v.progress = s.progress BY <2>5 DEF Fields
    <3>2. asked \in Queries BY <2>2, <2>8
    <3>3. /\ v.query \in [Queries -> Channels] /\ v.query[asked] # "listening"
          /\ \A q \in Queries : q # asked => v.query[q] = s.query[q]
          BY <2>2, <2>5, <3>2 DEF Channels
    <3>4. \A q \in Queries : v.query[q] = "listening" =>
            \E x \in v.waiters \cup v.progress : x.query = q
      <4> SUFFICES ASSUME NEW q \in Queries, v.query[q] = "listening"
                   PROVE  \E x \in (s.waiters \ {w}) \cup s.progress : x.query = q
          BY <2>5, <3>1
      <4>1. q # asked /\ s.query[q] = "listening" BY <3>3
      <4>2. PICK x \in s.waiters \cup s.progress : x.query = q BY <2>2, <4>1
      <4>3. x # w BY <4>1, <4>2
      <4> QED BY <4>2, <4>3
    <3>5. /\ v.waiters \subseteq [query : Queries, id : Ids]
          /\ \A x \in v.waiters : x.id \in Live(s)
          BY <2>2, <2>5
    <3> HIDE DEF asked
    <3> QED BY <1>0, <2>2, <2>5, <3>1, <3>3, <3>4, <3>5, AskRegistry
  <2> QED BY <1>0, <2>1, <2>6, <2>7, <2>8, StepAfter, StepUpholds
<1> QED BY <1>1, <1>2, <1>3, <1>4, <1>5 DEF Deadline

(* The records of a map after the holder of the child's token cancels it.  *)
TokenMarked(f, id) == [x \in DOMAIN f |-> [f[x] EXCEPT !.cancelled = @ \/ x = id]]

LEMMA TokenMarkedRows ==
  ASSUME NEW R \in Kinds, NEW f, MapOf(f, R), NEW id
  PROVE  /\ SameRows(f, TokenMarked(f, id)) /\ SameWakes(f, TokenMarked(f, id))
         /\ MapOf(TokenMarked(f, id), R)
         /\ Replying(TokenMarked(f, id)) = Replying(f)
         /\ R = QueuedSpawn =>
              \A x \in DOMAIN f : TokenMarked(f, id)[x].queued_at = f[x].queued_at
         /\ \A x \in DOMAIN f : /\ TokenMarked(f, id)[x].req = f[x].req
                                /\ TokenMarked(f, id)[x].reply = f[x].reply
         /\ R \in {PendingChild, ActiveRow} => \A x \in DOMAIN f :
              TokenMarked(f, id)[x].handle_only = f[x].handle_only
         /\ R = ActiveRow => \A x \in DOMAIN f :
              TokenMarked(f, id)[x].definition_background = f[x].definition_background
<1> DEFINE g == TokenMarked(f, id)
<1>1. DOMAIN g = DOMAIN f BY DEF TokenMarked
<1>2. ASSUME NEW x \in DOMAIN f
      PROVE  /\ \E b \in BOOLEAN : g[x] = [f[x] EXCEPT !.cancelled = b]
             /\ g[x].req = f[x].req /\ g[x].reply = f[x].reply
             /\ R = QueuedSpawn => g[x].queued_at = f[x].queued_at
             /\ R \in {PendingChild, ActiveRow} => g[x].handle_only = f[x].handle_only
             /\ R = ActiveRow => g[x].definition_background = f[x].definition_background
  <2> DEFINE r == f[x]
             b == r.cancelled \/ x = id
             w == [r EXCEPT !.cancelled = b]
  <2>1. r \in R BY DEF MapOf
  <2>2. b \in BOOLEAN OBVIOUS
  <2>3. g[x] = w BY DEF TokenMarked
  <2> HIDE DEF g, b, r
  <2>4. w.req = r.req /\ w.reply = r.reply BY <2>1, <2>2, CancelledRow
  <2>8. R = QueuedSpawn => w.queued_at = r.queued_at BY <2>1 DEF QueuedSpawn
  <2>5. R \in {PendingChild, ActiveRow} => w.handle_only = r.handle_only
    <3>1. CASE R = PendingChild BY <2>1, <3>1 DEF PendingChild
    <3>2. CASE R = ActiveRow BY <2>1, <3>2 DEF ActiveRow
    <3> QED BY <3>1, <3>2
  <2>6. R = ActiveRow => w.definition_background = r.definition_background
        BY <2>1 DEF ActiveRow
  <2>7. \E c \in BOOLEAN : g[x] = [r EXCEPT !.cancelled = c] BY <2>2, <2>3
  <2> HIDE DEF w
  <2> QED BY <2>3, <2>4, <2>5, <2>6, <2>7, <2>8 DEF r
<1> HIDE DEF g
<1>3. \A x \in DOMAIN f : \E b \in BOOLEAN : g[x] = [f[x] EXCEPT !.cancelled = b]
      BY <1>2
<1>5. SameRows(f, g) /\ SameWakes(f, g) /\ MapOf(g, R) /\ Replying(g) = Replying(f)
      BY <1>1, <1>3, MarkedRows
<1>6. R = QueuedSpawn => \A x \in DOMAIN f : g[x].queued_at = f[x].queued_at
      BY <1>2
<1>4. /\ \A x \in DOMAIN f : g[x].req = f[x].req /\ g[x].reply = f[x].reply
      /\ R \in {PendingChild, ActiveRow} =>
           \A x \in DOMAIN f : g[x].handle_only = f[x].handle_only
      /\ R = ActiveRow =>
           \A x \in DOMAIN f : g[x].definition_background = f[x].definition_background
      BY <1>2
<1> QED BY <1>4, <1>5, <1>6 DEF g

(* Cancelling a token changes nothing but the marks.                       *)
LEMMA TokenRegistry ==
  ASSUME RegistryInv, NEW id \in Ids, TokenCancelled(id)
  PROVE  Iterates(co')
<1> DEFINE queued == TokenMarked(co.queued, id)
           pending == TokenMarked(co.pending, id)
           active == TokenMarked(co.active, id)
<1>1. co' = [co EXCEPT !.queued = queued, !.pending = pending, !.active = active]
      BY DEF TokenCancelled, TokenMarked
<1>2. /\ Registry(co, NoMap) /\ DOMAIN co = Fields
      /\ MapOf(co.queued, QueuedSpawn) /\ MapOf(co.pending, PendingChild)
      /\ MapOf(co.active, ActiveRow)
      BY DEF RegistryInv, Kempt, Registry, Maps
<1>3. /\ SameRows(co.queued, queued) /\ SameWakes(co.queued, queued)
      /\ MapOf(queued, QueuedSpawn)
      /\ Replying(queued) = Replying(co.queued)
      /\ \A x \in DOMAIN co.queued : queued[x].queued_at = co.queued[x].queued_at
      /\ \A x \in DOMAIN co.queued : /\ queued[x].req = co.queued[x].req
                                     /\ queued[x].reply = co.queued[x].reply
      BY <1>2, TokenMarkedRows DEF Kinds
<1>4. /\ SameRows(co.pending, pending) /\ SameWakes(co.pending, pending)
      /\ MapOf(pending, PendingChild)
      /\ Replying(pending) = Replying(co.pending)
      /\ \A x \in DOMAIN co.pending : pending[x].req = co.pending[x].req
      /\ \A x \in DOMAIN co.pending : pending[x].handle_only = co.pending[x].handle_only
      BY <1>2, TokenMarkedRows DEF Kinds
<1>5. /\ SameRows(co.active, active) /\ SameWakes(co.active, active)
      /\ MapOf(active, ActiveRow)
      /\ Replying(active) = Replying(co.active)
      /\ \A x \in DOMAIN co.active : active[x].req = co.active[x].req
      /\ \A x \in DOMAIN co.active : active[x].handle_only = co.active[x].handle_only
      /\ \A x \in DOMAIN co.active :
           active[x].definition_background = co.active[x].definition_background
      BY <1>2, TokenMarkedRows DEF Kinds
<1> HIDE DEF queued, pending, active
<1>6. /\ DOMAIN co' = Fields
      /\ co'.queued = queued /\ co'.pending = pending /\ co'.active = active
      /\ \A f \in Fields \ {"queued", "pending", "active"} : co'[f] = co[f]
      BY <1>1, <1>2 DEF Fields
<1>7. Beside(co, co') /\ co'.caller = co.caller
      BY <1>6 DEF Beside, Values, Held, Fields
<1>8. Registry(co', NoMap)
      BY <1>2, <1>3, <1>4, <1>5, <1>6, <1>7, RowsRegistry
<1>9. co'.completed_order = co.completed_order /\ co'.drain_waiters = co.drain_waiters
      BY <1>6 DEF Fields
<1>10. \A p, q : live_turn_blocking_ids(co', p, q) = live_turn_blocking_ids(co, p, q)
  <2>1. /\ DOMAIN co'.queued = DOMAIN co.queued /\ DOMAIN co'.pending = DOMAIN co.pending
        /\ DOMAIN co'.active = DOMAIN co.active
        BY <1>3, <1>4, <1>5, <1>6 DEF SameRows
  <2> QED BY <1>3, <1>4, <1>5, <1>6, <2>1 DEF live_turn_blocking_ids
<1>11. Drains(co')
  <2>1. Drains(co) BY DEF RegistryInv, Kempt
  <2> QED BY <1>9, <1>10, <2>1 DEF Drains
<1>12. Len(co'.completed_order) <= MaxCompleted BY <1>9 DEF RegistryInv, Kempt
<1>13. Recorded(co, co')
  <2>1. co'.completed = co.completed BY <1>6 DEF Fields
  <2>2. Live(co') = Live(co) BY <1>3, <1>4, <1>5, <1>6 DEF Live, SameRows
  <2> QED BY <2>1, <2>2, HomesRecorded
<1> QED BY <1>8, <1>11, <1>12, <1>13 DEF Iterates, Kempt

(* The flag and the stage of a publication.                                *)
LEMMA PublishedRegistry ==
  ASSUME RegistryInv, NEW t, DOMAIN t = Fields,
         \A f \in Fields \ {"publications", "completed"} : t[f] = co[f],
         DOMAIN t.completed = DOMAIN co.completed,
         \A x \in DOMAIN co.completed : /\ t.completed[x] \in CompletedChild
                                        /\ t.completed[x].age = co.completed[x].age,
         t.publications \subseteq
           [id : Ids, age : Nat, stage : {"presenting", "stored", "sent"}]
  PROVE  Iterates(t)
<1>1. Registry(co, NoMap) BY DEF RegistryInv, Kempt
<1>2. /\ t.queued = co.queued /\ t.pending = co.pending /\ t.active = co.active
      /\ t.completed_order = co.completed_order
      /\ t.next_completion_age = co.next_completion_age
      /\ t.graph = co.graph /\ t.waiters = co.waiters /\ t.progress = co.progress
      /\ t.query = co.query /\ t.caller = co.caller
      /\ t.drain_waiters = co.drain_waiters
      /\ t.workflow_cancel_waiters = co.workflow_cancel_waiters
      BY DEF Fields
<1>3. Apart(t, DOMAIN NoMap)
  <2>1. Held(t) BY <1>1 DEF Registry, Apart, Held, Fields
  <2> QED BY <1>1, <1>2, <2>1 DEF Registry, Apart
<1>4. Maps(t)
  <2>1. MapOf(t.completed, CompletedChild) BY <1>1 DEF Registry, Maps, MapOf
  <2> QED BY <1>1, <1>2, <2>1 DEF Registry, Maps, Distinct
<1>5. Values(t) BY <1>1 DEF Registry, Values, Fields
<1>6. Nodes(t, NoMap) BY <1>1, <1>2 DEF Registry, Nodes, Live
<1>7. Attended(t, NoMap) BY <1>1, <1>2 DEF Registry, Attended, Live
<1>8. Awaited(t, NoMap) BY <1>1, <1>2 DEF Registry, Awaited
<1>9. \A x, a : HasAge(t, NoMap, x, a) => HasAge(co, NoMap, x, a)
      BY <1>2 DEF HasAge
<1>10. Dated(t, NoMap) BY <1>1, <1>2, <1>9 DEF Registry, Dated
<1>11. Ordered(t)
  <2>1. Ages(t.completed) = Ages(co.completed) BY DEF Ages
  <2> QED BY <1>1, <1>2, <2>1 DEF Registry, Ordered
<1>12. Transit(NoMap) BY <1>1 DEF Registry
<1>13. Registry(t, NoMap)
       BY <1>3, <1>4, <1>5, <1>6, <1>7, <1>8, <1>10, <1>11, <1>12 DEF Registry
<1>14. \A p, q : live_turn_blocking_ids(t, p, q) = live_turn_blocking_ids(co, p, q)
       BY <1>2 DEF live_turn_blocking_ids
<1>15. Drains(t) BY <1>2, <1>14 DEF RegistryInv, Kempt, Drains
<1>16. Len(t.completed_order) <= MaxCompleted BY <1>2 DEF RegistryInv, Kempt
<1>17. Recorded(co, t)
  <2>1. Live(t) = Live(co) BY <1>2 DEF Live
  <2> QED BY <2>1, HomesRecorded
<1> QED BY <1>13, <1>15, <1>16, <1>17 DEF Iterates, Kempt

(* The environment leaves no one waiting.                                  *)
LEMMA EnvironmentRegistry ==
  ASSUME RegistryInv, Environment
  PROVE  Iterates(co')
<1>0. Registry(co, NoMap) /\ DOMAIN co = Fields
      BY DEF RegistryInv, Kempt, Registry, Maps
<1>1. ASSUME NEW t, Registry(t, NoMap), DOMAIN t = Fields,
             \A f \in Fields \ {"query", "caller", "publications"} : t[f] = co[f]
      PROVE  Iterates(t)
  <2>1. /\ t.queued = co.queued /\ t.pending = co.pending /\ t.active = co.active
        /\ t.completed_order = co.completed_order
        /\ t.drain_waiters = co.drain_waiters /\ t.completed = co.completed
        BY <1>1 DEF Fields
  <2>2. \A p, q : live_turn_blocking_ids(t, p, q) = live_turn_blocking_ids(co, p, q)
        BY <2>1 DEF live_turn_blocking_ids
  <2>3. Kempt(t) BY <1>1, <2>1, <2>2 DEF RegistryInv, Kempt, Drains
  <2>4. Live(t) = Live(co) BY <2>1 DEF Live
  <2>5. Recorded(co, t) BY <2>1, <2>4, HomesRecorded
  <2> QED BY <2>3, <2>5 DEF Iterates
<1>2. ASSUME NEW id \in Ids, CallerGone(id) PROVE Iterates(co')
  <2> DEFINE t == [co EXCEPT !.caller[id] = "gone"]
  <2>1. co' = t BY <1>2 DEF CallerGone
  <2>2. /\ DOMAIN t = Fields /\ \A f \in Fields \ {"caller"} : t[f] = co[f]
        /\ t.caller = [co.caller EXCEPT ![id] = "gone"]
        BY <1>0 DEF Fields
  <2> HIDE DEF t
  <2>3. co.caller \in [Ids -> Channels] BY <1>0 DEF Registry, Values
  <2>4. /\ t.caller \in [Ids -> Channels] /\ t.caller[id] # "listening"
        /\ \A x \in Ids : x # id => t.caller[x] = co.caller[x]
        BY <2>2, <2>3 DEF Channels
  <2>5. t.queued = co.queued /\ t.pending = co.pending /\ t.active = co.active
        BY <2>2 DEF Fields
  <2>6. Beside(co, t) BY <2>2, <2>4 DEF Beside, Values, Held, Fields
  <2>7. /\ MapOf(co.queued, QueuedSpawn) /\ MapOf(co.pending, PendingChild)
        /\ MapOf(co.active, ActiveRow)
        BY <1>0 DEF Registry, Maps
  <2>8. Registry(t, NoMap)
        BY <1>0, <2>4, <2>5, <2>6, <2>7, SelfRows, RowsRegistry
  <2> QED BY <1>1, <2>1, <2>2, <2>8
<1>3. ASSUME NEW q \in Queries, QueryGone(q) PROVE Iterates(co')
  <2> DEFINE t == [co EXCEPT !.query[q] = "gone"]
  <2>1. co' = t BY <1>3 DEF QueryGone
  <2>2. /\ DOMAIN t = Fields /\ \A f \in Fields \ {"query"} : t[f] = co[f]
        /\ t.query = [co.query EXCEPT ![q] = "gone"]
        BY <1>0 DEF Fields
  <2> HIDE DEF t
  <2>3. /\ co.progress \subseteq [query : Queries, id : Ids]
        /\ co.waiters \subseteq [query : Queries, id : Ids]
        /\ co.query \in [Queries -> Channels]
        /\ \A x \in co.waiters : x.id \in Live(co)
        /\ \A p \in Queries : co.query[p] = "listening" =>
             \E x \in co.waiters \cup co.progress : x.query = p
        BY <1>0, EmptyMap DEF Registry, Values, Attended
  <2>4. /\ t.query \in [Queries -> Channels] /\ t.query[q] # "listening"
        /\ \A p \in Queries : p # q => t.query[p] = co.query[p]
        BY <2>2, <2>3 DEF Channels
  <2>5. t.waiters = co.waiters /\ t.progress = co.progress BY <2>2 DEF Fields
  <2>6. \A p \in Queries : t.query[p] = "listening" =>
          \E x \in t.waiters \cup t.progress : x.query = p
        BY <2>3, <2>4, <2>5
  <2>7. Registry(t, NoMap) BY <1>0, <2>2, <2>3, <2>4, <2>5, <2>6, AskRegistry
        DEF Upholds
  <2> QED BY <1>1, <2>1, <2>2, <2>7
<1>4. ASSUME NEW id \in Ids, TokenCancelled(id) PROVE Iterates(co')
      BY <1>4, TokenRegistry
<1> DEFINE Stages == {"presenting", "stored", "sent"}
           Pubs == [id : Ids, age : Nat, stage : Stages]
<1>5. co.publications \subseteq Pubs BY <1>0 DEF Registry, Values
<1>6. \A p \in Pubs, stage \in Stages : [p EXCEPT !.stage = stage] \in Pubs OBVIOUS
<1>7. ASSUME NEW p \in co.publications, HostStoresPublished(p) PROVE Iterates(co')
  <2> DEFINE q == [p EXCEPT !.stage = "stored"]
             completed == [id \in DOMAIN co.completed |->
               [co.completed[id] EXCEPT
                  !.published = @ \/ (p.id = id /\ p.age = co.completed[id].age)]]
             t == [co EXCEPT !.publications = (@ \ {p}) \cup {q}, !.completed = completed]
  <2>1. co' = t BY <1>7 DEF HostStoresPublished
  <2>2. q \in Pubs BY <1>5, <1>6
  <2>3. DOMAIN completed = DOMAIN co.completed OBVIOUS
  <2>4. ASSUME NEW x \in DOMAIN co.completed
        PROVE  completed[x] \in CompletedChild /\ completed[x].age = co.completed[x].age
    <3> DEFINE r == co.completed[x]
               b == r.published \/ (p.id = x /\ p.age = r.age)
               w == [r EXCEPT !.published = b]
    <3>1. r \in CompletedChild BY <1>0 DEF Registry, Maps, MapOf
    <3>2. b \in BOOLEAN OBVIOUS
    <3>3. completed[x] = w OBVIOUS
    <3> HIDE DEF completed, b, r
    <3>4. w \in CompletedChild /\ w.age = r.age BY <3>1, <3>2 DEF CompletedChild
    <3> HIDE DEF w
    <3> QED BY <3>3, <3>4 DEF r
  <2> HIDE DEF q, completed
  <2>5. /\ DOMAIN t = Fields
        /\ \A f \in Fields \ {"publications", "completed"} : t[f] = co[f]
        /\ t.completed = completed /\ t.publications = (co.publications \ {p}) \cup {q}
        BY <1>0 DEF Fields
  <2> HIDE DEF t
  <2>6. t.publications \subseteq Pubs BY <1>5, <2>2, <2>5
  <2> QED BY <2>1, <2>3, <2>4, <2>5, <2>6, PublishedRegistry
<1>8. ASSUME NEW p \in co.publications, HostSendsPublished(p) PROVE Iterates(co')
  <2> DEFINE q == [p EXCEPT !.stage = "sent"]
             t == [co EXCEPT !.publications = (@ \ {p}) \cup {q}]
  <2>1. co' = t BY <1>8 DEF HostSendsPublished
  <2>2. q \in Pubs BY <1>5, <1>6
  <2> HIDE DEF q
  <2>3. /\ DOMAIN t = Fields
        /\ \A f \in Fields \ {"publications"} : t[f] = co[f]
        /\ t.publications = (co.publications \ {p}) \cup {q}
        BY <1>0 DEF Fields
  <2> HIDE DEF t
  <2>4. t.publications \subseteq Pubs BY <1>5, <2>2, <2>3
  <2>5. t.completed = co.completed BY <2>3 DEF Fields
  <2>6. \A x \in DOMAIN co.completed : co.completed[x] \in CompletedChild
        BY <1>0 DEF Registry, Maps, MapOf
  <2> QED BY <2>1, <2>3, <2>4, <2>5, <2>6, PublishedRegistry
<1> QED BY <1>2, <1>3, <1>4, <1>7, <1>8 DEF Environment

----------------------------------------------------------------------------
(* The theorems.                                                           *)

(* The coordinator starts with no child and no one waiting.                *)
LEMMA InitRegistry == Init => RegistryInv
<1> SUFFICES ASSUME Init PROVE RegistryInv OBVIOUS
<1>1. DOMAIN NoMap = {} BY EmptyMap
<1>2. /\ DOMAIN co = Fields
      /\ co.queued = NoMap /\ co.pending = NoMap /\ co.active = NoMap
      /\ co.completed = NoMap /\ co.terminal_outputs = NoMap
      /\ co.graph = NoMap /\ co.completed_order = << >>
      /\ co.next_completion_age = 0 /\ co.next_generation = 0
      /\ co.waiters = {} /\ co.progress = {} /\ co.drain_waiters = {}
      /\ co.workflow_cancel_waiters = {} /\ co.teardown_drains = {}
      /\ co.spawn_blocked_sessions = {} /\ co.runs = {} /\ co.publications = {}
      /\ co.caller = [id \in Ids |-> "none"]
      /\ co.query = [q \in Queries |-> "none"]
      /\ co.outcome = [m \in Messages |-> "none"]
      BY DEF Init, Fields
<1>3. Apart(co, DOMAIN NoMap) BY <1>1, <1>2 DEF Apart, Held
<1>4. Transit(NoMap) BY <1>1 DEF Transit, Quiet
<1>5. Maps(co) BY <1>1, <1>2 DEF Maps, MapOf, Quiet, Distinct
<1>6. Values(co) BY <1>1, <1>2 DEF Values, MapOf, Channels, Outcomes
<1>7. Nodes(co, NoMap) BY <1>1, <1>2 DEF Nodes, MapOf, Live
<1>8. Attended(co, NoMap) BY <1>2 DEF Attended
<1>9. Awaited(co, NoMap) BY <1>2 DEF Awaited
<1>10. Dated(co, NoMap) BY <1>1, <1>2 DEF Dated, HasAge, Displaces
<1>11. Ordered(co) BY <1>1, <1>2 DEF Ordered, Sorted, ToSet
<1>12. Len(co.completed_order) <= MaxCompleted
  <2>1. Len(co.completed_order) = 0 BY <1>2
  <2> QED BY <2>1, ConstantsAssumption
<1>13. Drains(co) BY <1>2 DEF Drains
<1>14. Registry(co, NoMap)
       BY <1>3, <1>4, <1>5, <1>6, <1>7, <1>8, <1>9, <1>10, <1>11 DEF Registry
<1> QED BY <1>12, <1>13, <1>14, InitMail DEF RegistryInv, Kempt

(* Between any two iterations of the loop the maps, the spawn graph and    *)
(* the retention queue agree, and whoever waits has something to wait for. *)
THEOREM RegistryInductive == Spec => []RegistryInv
<1>1. ASSUME RegistryInv, [Next]_vars PROVE RegistryInv'
  <2>1. CASE Next
    <3>1. MessageInv BY <1>1 DEF RegistryInv
    <3>2. LimitInv' BY <2>1, <3>1, NextKept DEF MessageInv
    <3>3. Mail(co', {}, {})
      <4>1. CASE Command BY <3>1, <4>1, CommandMail
      <4>2. CASE HostReport BY <3>1, <4>2, HostReportMail
      <4>3. CASE Deadline BY <3>1, <4>3, DeadlineMail
      <4>4. CASE Environment BY <3>1, <4>4, EnvironmentMail
      <4> QED BY <2>1, <4>1, <4>2, <4>3, <4>4 DEF Next
    <3>4. Kempt(co')
      <4>1. CASE Command BY <1>1, <4>1, CommandRegistry DEF Iterates
      <4>2. CASE HostReport BY <1>1, <4>2, HostReportRegistry DEF Iterates
      <4>3. CASE Deadline BY <1>1, <4>3, DeadlineRegistry DEF Iterates
      <4>4. CASE Environment BY <1>1, <4>4, EnvironmentRegistry DEF Iterates
      <4> QED BY <2>1, <4>1, <4>2, <4>3, <4>4 DEF Next
    <3> QED BY <3>2, <3>3, <3>4 DEF RegistryInv, MessageInv
  <2>2. CASE UNCHANGED vars
    <3>1. co' = co BY <2>2 DEF vars
    <3>2. LimitInv' BY <1>1, <3>1 DEF RegistryInv, MessageInv, LimitInv, IInv
    <3>3. Mail(co', {}, {}) BY <1>1, <3>1 DEF RegistryInv, MessageInv
    <3>4. Kempt(co') BY <1>1, <3>1 DEF RegistryInv
    <3> QED BY <3>2, <3>3, <3>4 DEF RegistryInv, MessageInv
  <2> QED BY <1>1, <2>1, <2>2
<1> QED BY <1>1, InitRegistry, PTL DEF Spec

(* Every field of the actor keeps its type: the maps hold records of their *)
(* kind under ids of children, a channel is in one of its four states, and *)
(* in_flight, a usize that finish_active_message decrements, never goes    *)
(* below zero.                                                             *)
THEOREM TypeCorrect == Spec => []TypeOK
<1>1. ASSUME RegistryInv PROVE TypeOK
  <2>1. Registry(co, NoMap) /\ Mail(co, {}, {})
        BY <1>1 DEF RegistryInv, Kempt, MessageInv
  <2>2. MapOf(co.active, ActiveChild)
    <3>1. MapOf(co.active, ActiveRow) BY <2>1 DEF Registry, Maps
    <3>2. ASSUME NEW id \in DOMAIN co.active PROVE co.active[id] \in ActiveChild
      <4> DEFINE r == co.active[id]
      <4>1. r \in ActiveRow BY <3>1 DEF MapOf
      <4>2. r.in_flight \in Nat BY <2>1 DEF Mail, Flight, Counts
      <4> HIDE DEF r
      <4>3. r \in ActiveChild BY <4>1, <4>2 DEF ActiveRow, ActiveChild
      <4> QED BY <4>3 DEF r
    <3> QED BY <3>1, <3>2 DEF MapOf
  <2>3. /\ MapOf(co.queued, QueuedSpawn) /\ MapOf(co.pending, PendingChild)
        /\ MapOf(co.completed, CompletedChild) /\ MapOf(co.graph, SpawnNode)
        BY <2>1 DEF Registry, Maps, Nodes
  <2>4. /\ MapOf(co.terminal_outputs, BOOLEAN)
        /\ co.next_completion_age \in Nat /\ co.next_generation \in Nat
        /\ co.waiters \subseteq [query : Queries, id : Ids]
        /\ co.progress \subseteq [query : Queries, id : Ids]
        /\ co.drain_waiters \subseteq [session : Sessions, prompt : Prompts]
        /\ co.workflow_cancel_waiters \subseteq Runs
        /\ co.teardown_drains \subseteq Sessions
        /\ co.spawn_blocked_sessions \subseteq Sessions
        /\ co.runs \subseteq Ids
        /\ co.publications \subseteq
             [id : Ids, age : Nat, stage : {"presenting", "stored", "sent"}]
        /\ co.caller \in [Ids -> {"none", "listening", "answered", "gone"}]
        /\ co.query \in [Queries -> {"none", "listening", "answered", "gone"}]
        /\ co.outcome \in
             [Messages -> {"none", "waiting", "Accepted", "Refused", "Uncertain"}]
        BY <2>1 DEF Registry, Values, Channels, Outcomes
  <2>5. /\ co.pending_wakes \subseteq
             [msg : Messages, id : Ids, sender : Senders, source : Sources]
        /\ co.active_messages \subseteq [msg : Messages, id : Ids, generation : Nat]
        BY <2>1 DEF Mail, Post, Sends, Flights
  <2>6. co.spawn_ready \subseteq
          [msg : Messages, id : Ids, sender : Senders, source : Sources, initial : BOOLEAN]
        BY <2>1 DEF Mail, Post, Parks
  <2> QED BY <2>2, <2>3, <2>4, <2>5, <2>6 DEF TypeOK
<1> QED BY <1>1, RegistryInductive, PTL

(* The spawn graph has a node for exactly the children that have a home,   *)
(* whichever way they came to it or left it: spawn, wake, restored record, *)
(* eviction.                                                               *)
THEOREM GraphMatchesAlways == Spec => []GraphMatches
<1>1. RegistryInv => GraphMatches
      BY EmptyMap DEF RegistryInv, Kempt, Registry, Nodes, GraphMatches
<1> QED BY <1>1, RegistryInductive, PTL

(* completed_order lists each completed record once and in the order of    *)
(* the completion ages, within MAX_COMPLETED_ENTRIES, so that what         *)
(* evict_completed_overflow pops is the oldest record, also after a failed *)
(* wake has put an old one back by a binary search on the ages.            *)
THEOREM RetentionOrderedAlways == Spec => []RetentionOrdered
<1>1. ASSUME RegistryInv PROVE RetentionOrdered
  <2> DEFINE order == co.completed_order
             at == Ages(co.completed)
  <2>1. Ordered(co) /\ Len(order) <= MaxCompleted
        BY <1>1 DEF RegistryInv, Kempt, Registry
  <2>2. /\ order \in Seq(DOMAIN co.completed)
        /\ ToSet(order) = DOMAIN co.completed /\ Sorted(order, at)
        BY <2>1 DEF Ordered
  <2>3. ASSUME NEW i \in DOMAIN order, NEW j \in DOMAIN order, i < j
        PROVE  co.completed[order[i]].age < co.completed[order[j]].age
    <3>1. order[i] \in DOMAIN co.completed /\ order[j] \in DOMAIN co.completed
          BY <2>2
    <3>2. at[order[i]] < at[order[j]] BY <2>2, <2>3 DEF Sorted
    <3> QED BY <3>1, <3>2 DEF Ages
  <2> QED BY <2>1, <2>2, <2>3 DEF RetentionOrdered
<1> QED BY <1>1, RegistryInductive, PTL

(* A blocking query that listens is parked on a live child or has its      *)
(* progress answer under way, and a spawn caller that listens belongs to a *)
(* live child that still holds its reply channel: no finish, cancel, sweep *)
(* or wake drops a channel unanswered.                                     *)
THEOREM CallersAccountedAlways == Spec => []CallersAccounted
<1>1. RegistryInv => CallersAccounted
      BY EmptyMap
      DEF RegistryInv, Kempt, Registry, Attended, Replying, CallersAccounted
<1> QED BY <1>1, RegistryInductive, PTL

(* A parked prompt drain has a turn-blocking child to wait for, and a      *)
(* parked workflow cancel an outstanding child of its run: the iteration   *)
(* that takes the last one away resolves the waiter.                       *)
THEOREM DrainsJustifiedAlways == Spec => []DrainsJustified
<1>1. ASSUME RegistryInv PROVE DrainsJustified
  <2>1. \A r : OfRun(NoMap, r) = {} BY EmptyMap DEF OfRun
  <2> QED BY <1>1, <2>1
          DEF RegistryInv, Kempt, Registry, Awaited, Drains, workflow_outstanding,
              DrainsJustified
<1> QED BY <1>1, RegistryInductive, PTL

(* A completed record leaves the retention map only for a wake of its      *)
(* child, or because MAX_COMPLETED younger ones are kept; and the record a *)
(* wake has displaced is not lost when the wake ends: the child is live,   *)
(* has a completed record, or MAX_COMPLETED other completions have come    *)
(* since (wake_completed_child, restore_displaced_completion,              *)
(* evict_completed_overflow).                                              *)
THEOREM RecordsKeptAlways == Spec => RecordsKept
<1> DEFINE Body ==
      \A id \in Ids :
        /\ id \in DOMAIN co.completed /\ id \notin DOMAIN co'.completed =>
             \/ waking(co', id) = co.completed[id]
             \/ Cardinality({x \in DOMAIN co'.completed :
                               co'.completed[x].age > co.completed[id].age})
                  = MaxCompleted
        /\ waking(co, id) # None /\ id \notin Live(co') /\ id \notin DOMAIN co'.completed =>
             co'.next_completion_age - waking(co, id).age > MaxCompleted
<1>1. ASSUME RegistryInv, [Next]_vars PROVE [Body]_vars
  <2>1. ASSUME Next PROVE Iterates(co')
    <3>1. CASE Command BY <1>1, <3>1, CommandRegistry
    <3>2. CASE HostReport BY <1>1, <3>2, HostReportRegistry
    <3>3. CASE Deadline BY <1>1, <3>3, DeadlineRegistry
    <3>4. CASE Environment BY <1>1, <3>4, EnvironmentRegistry
    <3> QED BY <2>1, <3>1, <3>2, <3>3, <3>4 DEF Next
  <2>2. ASSUME Next PROVE Body BY <2>1, <2>2 DEF Iterates, Recorded
  <2> HIDE DEF Body
  <2> QED BY <1>1, <2>2
<1>2. RegistryInv /\ [Next]_vars => [Body]_vars BY <1>1
<1> QED BY <1>2, RegistryInductive, PTL DEF Spec, RecordsKept

=============================================================================
