------------------------ MODULE SessionSequenceProofs ------------------------
(***************************************************************************)
(* What the sequence operators of SessionTurns return, for sequences of any *)
(* length: which elements they keep, that they repeat none, and what they   *)
(* leave at the front.                                                      *)
(***************************************************************************)
EXTENDS SessionTurns, SequenceTheorems, FiniteSetTheorems, TLAPS

-----------------------------------------------------------------------------
\* Every non-empty set of natural numbers has a least element.  The inductions
\* below look at a least counterexample.
LEMMA LeastElement ==
    ASSUME NEW T, T \subseteq Nat, T # {}
    PROVE  \E x \in T : \A y \in T : x =< y
<1> DEFINE R == OpToRel(<, Nat)
<1>1. \E x \in T : \A y \in T : ~ (<<y, x>> \in R)
  BY WFMin, NatLessThanWellFounded
<1>2. \A x, y \in Nat : y < x => <<y, x>> \in R
  BY DEF OpToRel
<1> HIDE DEF R
<1>3. PICK x \in T : \A y \in T : ~ (<<y, x>> \in R) BY <1>1
<1>4. ASSUME NEW y \in T PROVE x =< y
  <2>1. <<y, x>> \notin R BY <1>3
  <2>2. x \in Nat /\ y \in Nat OBVIOUS
  <2>3. ~ (y < x) BY <1>2, <2>1, <2>2
  <2> QED BY <2>2, <2>3
<1> QED BY <1>4

\* Drop is a recursive function, which exists: one defined below m extends to m.
LEMMA DropUnfolds ==
    ASSUME NEW T, NEW s \in Seq(T), NEW S
    PROVE  \E f : /\ f[0] = <<>>
                  /\ \A k \in 1 .. Len(s) :
                       f[k] = IF s[k] \in S THEN f[k - 1]
                              ELSE Append(f[k - 1], s[k])
                  /\ Drop(s, S) = f[Len(s)]
<1>1. Len(s) \in Nat OBVIOUS
<1> DEFINE Def(f, k) == IF k = 0 THEN <<>>
                        ELSE IF s[k] \in S THEN f[k - 1]
                             ELSE Append(f[k - 1], s[k])
<1>2. \E f : f = [k \in 0 .. Len(s) |-> Def(f, k)]
  <2> DEFINE Exists(m) == \E f : f = [k \in 0 .. m |-> Def(f, k)]
             Bad == {m \in Nat : ~ Exists(m)}
  <2>1. SUFFICES ASSUME Bad # {} PROVE FALSE
    <3>1. Bad = {} => Exists(Len(s)) BY <1>1
    <3> QED BY <3>1
  <2>2. PICK m \in Bad : \A k \in Bad : m =< k
    <3>1. Bad \subseteq Nat OBVIOUS
    <3> HIDE DEF Bad
    <3> QED BY <2>1, <3>1, LeastElement
  <2>3. m \in Nat /\ ~ Exists(m) BY <2>2
  <2>4. CASE m = 0
    <3> DEFINE g == [k \in 0 .. 0 |-> <<>>]
    <3>1. \A k \in 0 .. 0 : Def(g, k) = <<>> OBVIOUS
    <3> HIDE DEF Def
    <3>2. g = [k \in 0 .. 0 |-> Def(g, k)] BY <3>1
    <3>3. Exists(0) BY <3>2
    <3> QED BY <2>3, <2>4, <3>3
  <2>5. CASE m # 0
    <3>1. m - 1 \in Nat /\ ~ (m =< m - 1) BY <2>3, <2>5
    <3>2. Exists(m - 1) BY <2>2, <3>1
    <3>3. PICK f : f = [k \in 0 .. m - 1 |-> Def(f, k)] BY <3>2
    <3> DEFINE g == [k \in 0 .. m |-> IF k = m THEN Def(f, m) ELSE f[k]]
    <3>4. \A k \in 0 .. m : k # 0 => k - 1 \in 0 .. m /\ k - 1 # m BY <2>3
    <3>5. \A k \in 0 .. m : k # 0 => g[k - 1] = f[k - 1] BY <3>4
    <3>6. \A k \in 0 .. m : Def(g, k) = Def(f, k) BY <3>5
    <3>7. \A k \in 0 .. m : k # m => k \in 0 .. m - 1 BY <2>3
    <3>8. \A k \in 0 .. m : g[k] = Def(f, k)
      <4> HIDE DEF Def
      <4>1. \A k \in 0 .. m - 1 : f[k] = Def(f, k) BY <3>3
      <4> QED BY <3>7, <4>1
    <3>9. DOMAIN g = 0 .. m /\ g = [k \in DOMAIN g |-> g[k]] OBVIOUS
    <3> HIDE DEF g, Def
    <3>10. g = [k \in 0 .. m |-> Def(g, k)] BY <3>6, <3>8, <3>9
    <3>11. Exists(m) BY <3>10
    <3> QED BY <2>3, <3>11
  <2> QED BY <2>4, <2>5
<1>3. PICK f : f = [k \in 0 .. Len(s) |-> Def(f, k)] /\ Drop(s, S) = f[Len(s)]
  BY <1>2 DEF Drop
<1>4. \A k \in 0 .. Len(s) : f[k] = Def(f, k)
  <2> HIDE DEF Def
  <2> QED BY <1>3
<1>5. 0 \in 0 .. Len(s) /\ \A k \in 1 .. Len(s) : k \in 0 .. Len(s) /\ k # 0
  BY <1>1
<1> QED BY <1>3, <1>4, <1>5

\* A sequence with one more element.
LEMMA AppendFacts ==
    ASSUME NEW T, NEW s \in Seq(T), NEW e \in T
    PROVE  /\ Append(s, e) \in Seq(T)
           /\ Append(s, e) # <<>>
           /\ Len(Append(s, e)) = Len(s) + 1
           /\ ToSet(Append(s, e)) = ToSet(s) \cup {e}
           /\ s # <<>> => Head(Append(s, e)) = Head(s)
           /\ s = <<>> => Head(Append(s, e)) = e
           /\ IsInjective(s) /\ e \notin ToSet(s) => IsInjective(Append(s, e))
<1> DEFINE a == Append(s, e)
           n == Len(s)
<1>1. /\ a \in Seq(T) /\ a # <<>> /\ Len(a) = n + 1 /\ n \in Nat
      /\ DOMAIN a = 1 .. n + 1 /\ DOMAIN s = 1 .. n
      /\ \A i \in 1 .. n : a[i] = s[i]
      /\ a[n + 1] = e
  BY AppendProperties, LenProperties
<1>2. s # <<>> => Head(a) = Head(s)
  <2>1. s # <<>> => n # 0 BY EmptySeq
  <2> QED BY <1>1, <2>1
<1>h. s = <<>> => Head(a) = e BY HeadTailAppend
<1> HIDE DEF a, n
<1>3. ToSet(a) = ToSet(s) \cup {e}
  <2>1. ASSUME NEW x \in ToSet(a) PROVE x \in ToSet(s) \cup {e}
    <3>1. PICK i \in DOMAIN a : x = a[i] BY <2>1 DEF ToSet
    <3>2. i = n + 1 \/ i \in 1 .. n BY <1>1, <3>1
    <3> QED BY <1>1, <3>1, <3>2 DEF ToSet
  <2>2. ASSUME NEW x \in ToSet(s) PROVE x \in ToSet(a)
    <3>1. PICK i \in DOMAIN s : x = s[i] BY <2>2 DEF ToSet
    <3>2. i \in DOMAIN a /\ x = a[i] BY <1>1, <3>1
    <3> QED BY <3>2 DEF ToSet
  <2>3. e \in ToSet(a)
    <3>1. n + 1 \in DOMAIN a BY <1>1
    <3> QED BY <1>1, <3>1 DEF ToSet
  <2> QED BY <2>1, <2>2, <2>3
<1>4. ASSUME IsInjective(s), e \notin ToSet(s) PROVE IsInjective(a)
  <2>1. \A i \in 1 .. n : s[i] # e BY <1>1, <1>4 DEF ToSet
  <2>2. \A i \in DOMAIN a : i = n + 1 \/ i \in 1 .. n BY <1>1
  <2>3. \A i, j \in 1 .. n : s[i] = s[j] => i = j BY <1>1, <1>4 DEF IsInjective
  <2> QED BY <1>1, <2>1, <2>2, <2>3 DEF IsInjective
<1> QED BY <1>1, <1>2, <1>h, <1>3, <1>4 DEF a, n

\* Drop removes exactly the elements of S, repeats none, and leaves a front that
\* is not in S at the front.
LEMMA DropFacts ==
    ASSUME NEW T, NEW s \in Seq(T), NEW S
    PROVE  /\ Drop(s, S) \in Seq(T)
           /\ Len(Drop(s, S)) =< Len(s)
           /\ ToSet(Drop(s, S)) = ToSet(s) \ S
           /\ s # <<>> /\ Head(s) \notin S =>
                Drop(s, S) # <<>> /\ Head(Drop(s, S)) = Head(s)
           /\ IsInjective(s) => IsInjective(Drop(s, S))
<1> DEFINE n == Len(s)
<1>1. n \in Nat /\ DOMAIN s = 1 .. n /\ \A i \in 1 .. n : s[i] \in T
  BY LenProperties, ElementOfSeq
<1>2. PICK f : /\ f[0] = <<>>
               /\ \A k \in 1 .. n : f[k] = IF s[k] \in S THEN f[k - 1]
                                           ELSE Append(f[k - 1], s[k])
               /\ Drop(s, S) = f[n]
  BY DropUnfolds
<1>h. s # <<>> => n # 0 /\ Head(s) = s[1] BY EmptySeq
<1> HIDE DEF n
<1> DEFINE Good(k) ==
             /\ f[k] \in Seq(T) /\ Len(f[k]) =< k
             /\ ToSet(f[k]) = {s[i] : i \in 1 .. k} \ S
             /\ k # 0 /\ s[1] \notin S => f[k] # <<>> /\ Head(f[k]) = s[1]
             /\ IsInjective(s) => IsInjective(f[k])
           Bad == {k \in 0 .. n : ~ Good(k)}
<1>3. Bad = {}
  <2>1. SUFFICES ASSUME Bad # {} PROVE FALSE
    OBVIOUS
  <2>2. PICK k \in Bad : \A j \in Bad : k =< j
    <3>1. Bad \subseteq Nat BY <1>1
    <3> HIDE DEF Bad
    <3> QED BY <2>1, <3>1, LeastElement
  <2>3. k \in 0 .. n /\ ~ Good(k) /\ k \in Nat BY <1>1, <2>2
  <2>4. CASE k = 0
    <3>1. f[0] \in Seq(T) /\ Len(f[0]) = 0 /\ DOMAIN f[0] = {} BY <1>2
    <3>2. ToSet(f[0]) = {s[i] : i \in 1 .. 0} \ S BY <3>1 DEF ToSet
    <3>3. IsInjective(f[0]) BY <3>1 DEF IsInjective
    <3>4. Good(0) BY <3>1, <3>2, <3>3
    <3> QED BY <2>3, <2>4, <3>4
  <2>5. CASE k # 0
    <3>1. k - 1 \in 0 .. n /\ k \in 1 .. n /\ ~ (k =< k - 1) BY <1>1, <2>3, <2>5
    <3>2. Good(k - 1) BY <2>2, <3>1
    <3>3. 1 .. k = (1 .. k - 1) \cup {k} BY <2>3, <2>5
    <3>4. {s[i] : i \in 1 .. k} = {s[i] : i \in 1 .. k - 1} \cup {s[k]}
      BY <3>3
    <3>5. /\ f[k - 1] \in Seq(T) /\ Len(f[k - 1]) =< k - 1
          /\ Len(f[k - 1]) \in Nat
          /\ ToSet(f[k - 1]) = {s[i] : i \in 1 .. k - 1} \ S
          /\ k - 1 # 0 /\ s[1] \notin S => /\ f[k - 1] # <<>>
                                           /\ Head(f[k - 1]) = s[1]
          /\ IsInjective(s) => IsInjective(f[k - 1])
      BY <3>2, LenProperties
    <3>6. CASE s[k] \in S
      <4>1. f[k] = f[k - 1] BY <1>2, <3>1, <3>6
      <4>2. k - 1 = 0 => s[1] \in S BY <3>1, <3>6
      <4>3. {s[i] : i \in 1 .. k} \ S = {s[i] : i \in 1 .. k - 1} \ S
        BY <3>4, <3>6
      <4>4. Len(f[k]) =< k BY <3>1, <3>5, <4>1
      <4> QED BY <2>3, <3>5, <4>1, <4>2, <4>3, <4>4
    <3>7. CASE s[k] \notin S
      <4> DEFINE g == f[k - 1]
                 e == s[k]
      <4>1. f[k] = Append(g, e) /\ e \in T BY <1>1, <1>2, <3>1, <3>7
      <4>2. /\ Append(g, e) \in Seq(T) /\ Append(g, e) # <<>>
            /\ Len(Append(g, e)) = Len(g) + 1
            /\ ToSet(Append(g, e)) = ToSet(g) \cup {e}
            /\ g # <<>> => Head(Append(g, e)) = Head(g)
            /\ g = <<>> => Head(Append(g, e)) = e
            /\ IsInjective(g) /\ e \notin ToSet(g) => IsInjective(Append(g, e))
        <5>1. g \in Seq(T) /\ e \in T BY <3>5, <4>1
        <5> HIDE DEF g, e
        <5> QED BY <5>1, AppendFacts
      <4>3. Len(f[k]) =< k BY <3>1, <3>5, <4>1, <4>2
      <4>4. ToSet(f[k]) = {s[i] : i \in 1 .. k} \ S
        BY <3>4, <3>5, <3>7, <4>1, <4>2
      <4>5. s[1] \notin S => Head(f[k]) = s[1]
        <5>1. CASE k - 1 = 0
          <6>1. k = 1 /\ g = <<>> BY <1>2, <3>1, <5>1
          <6> QED BY <4>1, <4>2, <6>1
        <5>2. CASE k - 1 # 0 BY <3>5, <4>1, <4>2, <5>2
        <5> QED BY <5>1, <5>2
      <4>6. ASSUME IsInjective(s) PROVE IsInjective(f[k])
        <5>1. \A i \in 1 .. k - 1 : i \in DOMAIN s /\ k \in DOMAIN s /\ i # k
          BY <1>1, <3>1
        <5>2. \A i \in 1 .. k - 1 : s[i] # e BY <4>6, <5>1 DEF IsInjective
        <5>3. e \notin ToSet(g) BY <3>5, <5>2
        <5> QED BY <3>5, <4>1, <4>2, <4>6, <5>3
      <4> QED BY <2>3, <4>1, <4>2, <4>3, <4>4, <4>5, <4>6
    <3> QED BY <3>6, <3>7
  <2> QED BY <2>4, <2>5
<1>4. Good(n)
  <2>1. n \in 0 .. n BY <1>1
  <2> QED BY <1>3, <2>1
<1>5. ToSet(s) = {s[i] : i \in 1 .. n} BY <1>1 DEF ToSet
<1> QED BY <1>2, <1>4, <1>5, <1>h DEF n

\* Two sequences one after the other.
LEMMA ConcatFacts ==
    ASSUME NEW T, NEW s \in Seq(T), NEW t \in Seq(T)
    PROVE  /\ s \o t \in Seq(T)
           /\ ToSet(s \o t) = ToSet(s) \cup ToSet(t)
           /\ s # <<>> => s \o t # <<>> /\ Head(s \o t) = Head(s)
           /\ s \o t = <<>> => s = <<>> /\ t = <<>>
           /\ IsInjective(s) /\ IsInjective(t) /\ ToSet(s) \cap ToSet(t) = {} =>
                IsInjective(s \o t)
<1> DEFINE c == s \o t
           m == Len(s)
           n == Len(t)
<1>1. /\ m \in Nat /\ n \in Nat /\ DOMAIN s = 1 .. m /\ DOMAIN t = 1 .. n
      /\ c \in Seq(T) /\ DOMAIN c = 1 .. m + n
      /\ \A i \in 1 .. m + n : c[i] = IF i =< m THEN s[i] ELSE t[i - m]
  BY ConcatProperties, LenProperties
<1>2. /\ s # <<>> => m # 0 /\ Head(s) = s[1]
      /\ c # <<>> => Head(c) = c[1]
      /\ c = <<>> => s = <<>> /\ t = <<>>
  <2>1. c = <<>> => s = <<>> /\ t = <<>> BY ConcatEqualIffEmpty
  <2>2. s # <<>> => m # 0 /\ Head(s) = s[1] BY EmptySeq
  <2>3. c # <<>> => Head(c) = c[1] BY <1>1, EmptySeq
  <2> QED BY <2>1, <2>2, <2>3
<1> HIDE DEF c, m, n
<1>3. s # <<>> => c # <<>> /\ Head(c) = Head(s)
  <2> SUFFICES ASSUME s # <<>> PROVE c # <<>> /\ Head(c) = Head(s)
    OBVIOUS
  <2>1. 1 \in 1 .. m + n /\ 1 =< m BY <1>1, <1>2
  <2>2. c[1] = s[1] BY <1>1, <2>1
  <2> QED BY <1>2, <2>2
<1>4. \A i \in 1 .. m + n : i \in 1 .. m \/ i - m \in 1 .. n BY <1>1
<1>5. ToSet(c) = ToSet(s) \cup ToSet(t)
  <2>1. ASSUME NEW x \in ToSet(c) PROVE x \in ToSet(s) \cup ToSet(t)
    <3>1. PICK i \in 1 .. m + n : x = c[i] BY <1>1, <2>1 DEF ToSet
    <3>2. CASE i =< m
      <4>1. i \in 1 .. m /\ x = s[i] BY <1>1, <3>1, <3>2
      <4> QED BY <1>1, <4>1 DEF ToSet
    <3>3. CASE ~ (i =< m)
      <4>1. i - m \in 1 .. n /\ x = t[i - m] BY <1>1, <3>1, <3>3
      <4> QED BY <1>1, <4>1 DEF ToSet
    <3> QED BY <3>2, <3>3
  <2>2. ASSUME NEW x \in ToSet(s) PROVE x \in ToSet(c)
    <3>1. PICK i \in 1 .. m : x = s[i] BY <1>1, <2>2 DEF ToSet
    <3>2. i \in 1 .. m + n /\ i =< m BY <1>1, <3>1
    <3>3. c[i] = x BY <1>1, <3>1, <3>2
    <3> QED BY <1>1, <3>2, <3>3 DEF ToSet
  <2>3. ASSUME NEW x \in ToSet(t) PROVE x \in ToSet(c)
    <3>1. PICK i \in 1 .. n : x = t[i] BY <1>1, <2>3 DEF ToSet
    <3>2. i + m \in 1 .. m + n /\ ~ (i + m =< m) /\ (i + m) - m = i BY <1>1, <3>1
    <3>3. c[i + m] = x BY <1>1, <3>1, <3>2
    <3> QED BY <1>1, <3>2, <3>3 DEF ToSet
  <2> QED BY <2>1, <2>2, <2>3
<1>6. ASSUME IsInjective(s), IsInjective(t), ToSet(s) \cap ToSet(t) = {}
      PROVE  IsInjective(c)
  <2> SUFFICES ASSUME NEW i \in 1 .. m + n, NEW j \in 1 .. m + n, c[i] = c[j]
               PROVE  i = j
    BY <1>1 DEF IsInjective
  <2>1. \A k, l \in 1 .. m : s[k] = s[l] => k = l BY <1>1, <1>6 DEF IsInjective
  <2>2. \A k, l \in 1 .. n : t[k] = t[l] => k = l BY <1>1, <1>6 DEF IsInjective
  <2>3. \A k \in 1 .. m, l \in 1 .. n : s[k] # t[l]
    <3>1. \A k \in 1 .. m : s[k] \in ToSet(s) BY <1>1 DEF ToSet
    <3>2. \A l \in 1 .. n : t[l] \in ToSet(t) BY <1>1 DEF ToSet
    <3> QED BY <1>6, <3>1, <3>2
  <2>4. CASE i =< m /\ j =< m
    <3>1. i \in 1 .. m /\ j \in 1 .. m BY <1>1, <2>4
    <3> QED BY <1>1, <2>1, <2>4, <3>1
  <2>5. CASE ~ (i =< m) /\ ~ (j =< m)
    <3>1. i - m \in 1 .. n /\ j - m \in 1 .. n BY <1>1, <2>5
    <3>2. i - m = j - m BY <1>1, <2>2, <2>5, <3>1
    <3> QED BY <1>1, <3>2
  <2>6. CASE i =< m /\ ~ (j =< m)
    <3>1. i \in 1 .. m /\ j - m \in 1 .. n BY <1>1, <2>6
    <3> QED BY <1>1, <2>3, <2>6, <3>1
  <2>7. CASE ~ (i =< m) /\ j =< m
    <3>1. j \in 1 .. m /\ i - m \in 1 .. n BY <1>1, <2>7
    <3> QED BY <1>1, <2>3, <2>7, <3>1
  <2> QED BY <2>4, <2>5, <2>6, <2>7
<1> QED BY <1>1, <1>2, <1>3, <1>5, <1>6 DEF c

\* A part of a sequence.
LEMMA SubSeqFacts ==
    ASSUME NEW T, NEW s \in Seq(T), NEW m \in 1 .. Len(s) + 1, NEW n \in 0 .. Len(s)
    PROVE  /\ SubSeq(s, m, n) \in Seq(T)
           /\ ToSet(SubSeq(s, m, n)) = {s[i] : i \in m .. n}
           /\ IsInjective(s) => IsInjective(SubSeq(s, m, n))
           /\ m = 1 /\ n # 0 => /\ SubSeq(s, m, n) # <<>>
                                /\ Head(SubSeq(s, m, n)) = Head(s)
<1> DEFINE a == SubSeq(s, m, n)
           l == IF m =< n THEN n - m + 1 ELSE 0
<1>1. Len(s) \in Nat /\ DOMAIN s = 1 .. Len(s) /\ \A i \in 1 .. Len(s) : s[i] \in T
  BY LenProperties, ElementOfSeq
<1>2. m \in Int /\ n \in Int /\ \A i \in m .. n : i \in 1 .. Len(s) BY <1>1
<1>3. /\ a \in Seq(T) /\ Len(a) = l
      /\ \A i \in 1 .. n - m + 1 : a[i] = s[m + i - 1]
  <2>1. \A i \in m .. n : s[i] \in T BY <1>1, <1>2
  <2> QED BY <1>2, <2>1, SubSeqProperties
<1>4. DOMAIN a = 1 .. l BY <1>3, LenProperties
<1>5. \A i \in 1 .. l : /\ m + i - 1 \in m .. n /\ m + i - 1 \in DOMAIN s
                        /\ a[i] = s[m + i - 1]
  <2>1. \A i \in 1 .. l : i \in 1 .. n - m + 1 /\ m + i - 1 \in m .. n BY <1>2
  <2> HIDE DEF a, l
  <2> QED BY <1>1, <1>2, <1>3, <2>1
<1>6. \A i \in m .. n : i - m + 1 \in 1 .. l /\ m + (i - m + 1) - 1 = i BY <1>2
<1>n. l \in Nat /\ (n # 0 /\ m = 1 => l # 0) BY <1>2
<1>e. a = <<>> => l = 0 BY <1>3
<1>hd. a # <<>> => Head(a) = a[1] BY <1>3
<1>hs. s # <<>> => Head(s) = s[1] BY <1>1
<1> HIDE DEF a, l
<1>7. ToSet(a) = {s[i] : i \in m .. n}
  <2>1. ASSUME NEW x \in ToSet(a) PROVE x \in {s[i] : i \in m .. n}
    BY <1>4, <1>5, <2>1 DEF ToSet
  <2>2. ASSUME NEW i \in m .. n PROVE s[i] \in ToSet(a)
    <3>1. a[i - m + 1] = s[i] BY <1>5, <1>6
    <3> QED BY <1>4, <1>6, <3>1 DEF ToSet
  <2> QED BY <2>1, <2>2
<1>8. ASSUME IsInjective(s) PROVE IsInjective(a)
  <2> SUFFICES ASSUME NEW i \in 1 .. l, NEW j \in 1 .. l, a[i] = a[j] PROVE i = j
    BY <1>4 DEF IsInjective
  <2>1. m + i - 1 = m + j - 1 BY <1>5, <1>8 DEF IsInjective
  <2> QED BY <1>2, <1>n, <2>1
<1>9. ASSUME m = 1, n # 0 PROVE a # <<>> /\ Head(a) = Head(s)
  <2>1. a # <<>> BY <1>n, <1>e, <1>9
  <2>2. 1 \in 1 .. l BY <1>n, <1>9
  <2>3. m + 1 - 1 = 1 BY <1>9
  <2>4. a[1] = s[1] BY <1>5, <2>2, <2>3
  <2>5. s # <<>> BY <1>1, <1>9
  <2> QED BY <1>hd, <1>hs, <2>1, <2>4, <2>5
<1> QED BY <1>3, <1>7, <1>8, <1>9 DEF a

\* Sequence e inserted into q before position i.
Inserted(q, i, e) == SubSeq(q, 1, i - 1) \o e \o SubSeq(q, i, Len(q))

LEMMA InsertedFacts ==
    ASSUME NEW T, NEW q \in Seq(T), NEW e \in Seq(T), NEW i \in 1 .. Len(q) + 1
    PROVE  /\ Inserted(q, i, e) \in Seq(T)
           /\ ToSet(Inserted(q, i, e)) = ToSet(q) \cup ToSet(e)
           /\ IsInjective(q) /\ IsInjective(e) /\ ToSet(q) \cap ToSet(e) = {} =>
                IsInjective(Inserted(q, i, e))
           /\ i # 1 => /\ Inserted(q, i, e) # <<>>
                       /\ Head(Inserted(q, i, e)) = Head(q)
<1> DEFINE c == Inserted(q, i, e)
           a == SubSeq(q, 1, i - 1)
           b == SubSeq(q, i, Len(q))
<1>1. Len(q) \in Nat /\ DOMAIN q = 1 .. Len(q) BY LenProperties
<1>2. i - 1 \in 0 .. Len(q) /\ 1 \in 1 .. Len(q) + 1 /\ Len(q) \in 0 .. Len(q)
      /\ (i # 1 => i - 1 # 0)
      /\ DOMAIN q = (1 .. i - 1) \cup (i .. Len(q))
      /\ \A k \in 1 .. i - 1, l \in i .. Len(q) : k # l
  BY <1>1
<1>3. /\ a \in Seq(T) /\ ToSet(a) = {q[k] : k \in 1 .. i - 1}
      /\ IsInjective(q) => IsInjective(a)
      /\ i # 1 => a # <<>> /\ Head(a) = Head(q)
  <2> DEFINE n == i - 1
  <2>1. n \in 0 .. Len(q) /\ 1 \in 1 .. Len(q) + 1 /\ (i # 1 => n # 0) BY <1>2
  <2> HIDE DEF n
  <2>2. /\ SubSeq(q, 1, n) \in Seq(T)
        /\ ToSet(SubSeq(q, 1, n)) = {q[k] : k \in 1 .. n}
        /\ IsInjective(q) => IsInjective(SubSeq(q, 1, n))
        /\ n # 0 => SubSeq(q, 1, n) # <<>> /\ Head(SubSeq(q, 1, n)) = Head(q)
    BY <2>1, SubSeqFacts
  <2> QED BY <2>1, <2>2 DEF n
<1>4. /\ b \in Seq(T) /\ ToSet(b) = {q[k] : k \in i .. Len(q)}
      /\ IsInjective(q) => IsInjective(b)
  BY <1>2, SubSeqFacts
<1> HIDE DEF a, b
<1>5. ToSet(q) = ToSet(a) \cup ToSet(b) BY <1>2, <1>3, <1>4 DEF ToSet
<1>6. IsInjective(q) => ToSet(a) \cap ToSet(b) = {}
  BY <1>2, <1>3, <1>4 DEF IsInjective
<1> DEFINE d == a \o e
<1>7. /\ d \in Seq(T) /\ ToSet(d) = ToSet(a) \cup ToSet(e)
      /\ a # <<>> => d # <<>> /\ Head(d) = Head(a)
      /\ IsInjective(a) /\ IsInjective(e) /\ ToSet(a) \cap ToSet(e) = {} =>
           IsInjective(d)
  BY <1>3, ConcatFacts
<1> HIDE DEF d
<1>8. /\ d \o b \in Seq(T) /\ ToSet(d \o b) = ToSet(d) \cup ToSet(b)
      /\ d # <<>> => d \o b # <<>> /\ Head(d \o b) = Head(d)
      /\ IsInjective(d) /\ IsInjective(b) /\ ToSet(d) \cap ToSet(b) = {} =>
           IsInjective(d \o b)
  <2>1. d \in Seq(T) /\ b \in Seq(T) BY <1>4, <1>7
  <2> QED BY ONLY <2>1, ConcatFacts
<1>9. c = d \o b BY DEF a, b, d, Inserted
<1> HIDE DEF c
<1>10. ASSUME IsInjective(q), IsInjective(e), ToSet(q) \cap ToSet(e) = {}
       PROVE  IsInjective(c)
  <2>1. ToSet(a) \cap ToSet(e) = {} /\ ToSet(d) \cap ToSet(b) = {}
    BY <1>5, <1>6, <1>7, <1>10
  <2> QED BY <1>3, <1>4, <1>7, <1>8, <1>9, <1>10, <2>1
<1> QED BY <1>3, <1>5, <1>7, <1>8, <1>9, <1>10 DEF c

LEMMA SingletonFacts ==
    ASSUME NEW T, NEW x \in T
    PROVE  <<x>> \in Seq(T) /\ ToSet(<<x>>) = {x} /\ IsInjective(<<x>>)
<1>1. <<x>> \in Seq(T) /\ Len(<<x>>) = 1 /\ <<x>>[1] = x OBVIOUS
<1>2. DOMAIN <<x>> = {1} BY <1>1
<1> QED BY <1>1, <1>2 DEF ToSet, IsInjective

LEMMA EmptyFacts ==
    ToSet(<<>>) = {} /\ IsInjective(<<>>) /\ EntryIds(<<>>) = <<>>
<1>1. DOMAIN <<>> = {} /\ Len(<<>>) = 0 OBVIOUS
<1>2. EntryIds(<<>>) = <<>>
  <2>1. EntryIds(<<>>) = [k \in 1 .. 0 |-> <<>>[k].id] BY <1>1 DEF EntryIds
  <2>2. [k \in 1 .. 0 |-> <<>>[k].id] = <<>> OBVIOUS
  <2> QED BY <2>1, <2>2
<1> QED BY <1>1, <1>2 DEF ToSet, IsInjective

\* A row that runs next goes behind the running front, a send-now row also behind
\* the send-now rows before it: never in front of the running row.
LEMMA InsertIndexFacts ==
    ASSUME NEW T, NEW s \in Seq(T)
    PROVE  /\ InsertIndex(s) \in 1 .. Len(s) + 1
           /\ send_now_insert_index(s) \in InsertIndex(s) .. Len(s) + 1
           /\ s # <<>> /\ Running /\ Head(s) = task.prompt =>
                InsertIndex(s) # 1 /\ send_now_insert_index(s) # 1
<1>1. Len(s) \in Nat /\ (s # <<>> => Len(s) # 0) BY EmptySeq, LenProperties
<1>2. InsertIndex(s) \in 1 .. Len(s) + 1 BY <1>1 DEF InsertIndex
<1> DEFINE i == InsertIndex(s)
           n == Len(s) + 1
           ends == {k \in i .. n : k = n \/ s[k] \notin sendNow}
           behind == {k \in i .. n :
                        /\ \A j \in i .. k - 1 : s[j] \in sendNow
                        /\ k = n \/ s[k] \notin sendNow}
<1>3. n \in Nat /\ i \in 1 .. n BY <1>1, <1>2
<1>4. s # <<>> /\ Running /\ Head(s) = task.prompt => i = 2 BY DEF InsertIndex
<1>d. send_now_insert_index(s) = CHOOSE k \in behind : TRUE
  BY DEF send_now_insert_index
<1> HIDE DEF i, n
<1>5. \E k \in ends : \A j \in ends : k =< j
  <2>1. n \in ends /\ ends \subseteq Nat BY <1>3
  <2> HIDE DEF ends
  <2> QED BY <2>1, LeastElement
<1>6. PICK k \in ends : \A j \in ends : k =< j BY <1>5
<1>7. k \in behind
  <2>1. k \in i .. n /\ (k = n \/ s[k] \notin sendNow) BY <1>6
  <2>2. ASSUME NEW j \in i .. k - 1 PROVE s[j] \in sendNow
    <3>1. j \in i .. n /\ ~ (k =< j) BY <1>3, <2>1
    <3> QED BY <1>6, <3>1
  <2> QED BY <2>1, <2>2
<1>8. send_now_insert_index(s) \in behind
  <2> HIDE DEF behind
  <2> QED BY <1>d, <1>7
<1>9. send_now_insert_index(s) \in i .. n BY <1>8
<1>10. i = 2 => send_now_insert_index(s) # 1 BY <1>3, <1>9
<1> QED BY <1>2, <1>4, <1>9, <1>10 DEF i, n

\* The ids of the buffered texts.
LEMMA EntryIdsFacts ==
    ASSUME NEW b \in Seq(Entries)
    PROVE  /\ EntryIds(b) \in Seq(Ids) /\ Len(EntryIds(b)) = Len(b)
           /\ \A k \in 1 .. Len(b) : EntryIds(b)[k] = b[k].id
           /\ b # <<>> => EntryIds(b) # <<>>
<1>1. Len(b) \in Nat /\ \A k \in 1 .. Len(b) : b[k] \in Entries
  BY LenProperties, ElementOfSeq
<1>2. \A k \in 1 .. Len(b) : b[k].id \in Ids BY <1>1 DEF Entries
<1>3. EntryIds(b) = [k \in 1 .. Len(b) |-> b[k].id] BY DEF EntryIds
<1>4. EntryIds(b) \in Seq(Ids) /\ Len(EntryIds(b)) = Len(b) BY <1>1, <1>2, <1>3
<1>5. b # <<>> => Len(b) # 0 BY EmptySeq
<1> QED BY <1>3, <1>4, <1>5

LEMMA EntryIdsConcat ==
    ASSUME NEW b \in Seq(Entries), NEW c \in Seq(Entries)
    PROVE  /\ b \o c \in Seq(Entries)
           /\ EntryIds(b \o c) = EntryIds(b) \o EntryIds(c)
<1> DEFINE m == Len(b)
           n == Len(c)
           d == b \o c
           e == EntryIds(b) \o EntryIds(c)
<1>1. /\ m \in Nat /\ n \in Nat /\ d \in Seq(Entries) /\ Len(d) = m + n
      /\ \A i \in 1 .. m + n : d[i] = IF i =< m THEN b[i] ELSE c[i - m]
  BY ConcatProperties, LenProperties
<1>2. /\ EntryIds(b) \in Seq(Ids) /\ Len(EntryIds(b)) = m
      /\ \A i \in 1 .. m : EntryIds(b)[i] = b[i].id
      /\ EntryIds(c) \in Seq(Ids) /\ Len(EntryIds(c)) = n
      /\ \A i \in 1 .. n : EntryIds(c)[i] = c[i].id
  BY EntryIdsFacts
<1>3. /\ e \in Seq(Ids) /\ Len(e) = m + n
      /\ \A i \in 1 .. m + n :
           e[i] = IF i =< m THEN EntryIds(b)[i] ELSE EntryIds(c)[i - m]
  <2> DEFINE x == EntryIds(b)
             y == EntryIds(c)
  <2>1. x \in Seq(Ids) /\ Len(x) = m /\ y \in Seq(Ids) /\ Len(y) = n BY <1>2
  <2> HIDE DEF x, y, m, n
  <2>2. /\ x \o y \in Seq(Ids) /\ Len(x \o y) = m + n
        /\ \A i \in 1 .. m + n : (x \o y)[i] = IF i =< m THEN x[i] ELSE y[i - m]
    BY <2>1, ConcatProperties
  <2> QED BY <2>2 DEF x, y
<1>4. /\ EntryIds(d) \in Seq(Ids) /\ Len(EntryIds(d)) = m + n
      /\ \A i \in 1 .. m + n : EntryIds(d)[i] = d[i].id
  BY <1>1, EntryIdsFacts
<1> HIDE DEF d, e, m, n
<1>5. ASSUME NEW i \in 1 .. m + n PROVE EntryIds(d)[i] = e[i]
  <2>1. CASE i =< m
    <3>1. i \in 1 .. m BY <1>1, <2>1
    <3>2. d[i] = b[i] BY <1>1, <2>1
    <3>3. e[i] = EntryIds(b)[i] BY <1>3, <2>1
    <3>4. EntryIds(b)[i] = b[i].id BY <1>2, <3>1
    <3>5. EntryIds(d)[i] = d[i].id BY <1>4
    <3> QED BY <3>2, <3>3, <3>4, <3>5
  <2>2. CASE ~ (i =< m)
    <3>1. i - m \in 1 .. n BY <1>1, <2>2
    <3>2. d[i] = c[i - m] BY <1>1, <2>2
    <3>3. e[i] = EntryIds(c)[i - m] BY <1>3, <2>2
    <3>4. EntryIds(c)[i - m] = c[i - m].id BY <1>2, <3>1
    <3>5. EntryIds(d)[i] = d[i].id BY <1>4
    <3> QED BY <3>2, <3>3, <3>4, <3>5
  <2> QED BY <2>1, <2>2
<1>6. EntryIds(d) = e BY <1>1, <1>3, <1>4, <1>5, SeqEqual
<1> QED BY <1>1, <1>6 DEF d, e

\* Promoted rows become entries under their ids.
LEMMA PromotedEntries ==
    ASSUME NEW s \in Seq(Ids), epoch \in Nat
    PROVE  /\ [k \in 1 .. Len(s) |-> Entry(s[k])] \in Seq(Entries)
           /\ EntryIds([k \in 1 .. Len(s) |-> Entry(s[k])]) = s
<1> DEFINE e == [k \in 1 .. Len(s) |-> Entry(s[k])]
<1>1. Len(s) \in Nat /\ \A k \in 1 .. Len(s) : s[k] \in Ids
  BY LenProperties, ElementOfSeq
<1>2. \A k \in 1 .. Len(s) : Entry(s[k]) \in Entries /\ Entry(s[k]).id = s[k]
  BY <1>1 DEF Entry, Entries
<1>3. e \in Seq(Entries) /\ Len(e) = Len(s) /\ \A k \in 1 .. Len(s) : e[k].id = s[k]
  <2> HIDE DEF Entry
  <2> QED BY <1>1, <1>2
<1> HIDE DEF e
<1>4. /\ EntryIds(e) \in Seq(Ids) /\ Len(EntryIds(e)) = Len(s)
      /\ \A k \in 1 .. Len(s) : EntryIds(e)[k] = s[k]
  BY <1>3, EntryIdsFacts
<1>5. EntryIds(e) = s BY <1>4, SeqEqual
<1> QED BY <1>3, <1>5 DEF e

\* One row inserted into q before position i.
LEMMA InsertAtFacts ==
    ASSUME NEW T, NEW q \in Seq(T), NEW x \in T, NEW i \in 1 .. Len(q) + 1
    PROVE  /\ InsertAt(q, i, x) \in Seq(T)
           /\ ToSet(InsertAt(q, i, x)) = ToSet(q) \cup {x}
           /\ IsInjective(q) /\ x \notin ToSet(q) => IsInjective(InsertAt(q, i, x))
           /\ i # 1 => /\ InsertAt(q, i, x) # <<>>
                       /\ Head(InsertAt(q, i, x)) = Head(q)
<1> DEFINE e == <<x>>
<1>1. e \in Seq(T) /\ ToSet(e) = {x} /\ IsInjective(e) BY SingletonFacts
<1>2. InsertAt(q, i, x) = Inserted(q, i, e) BY DEF InsertAt, Inserted
<1> HIDE DEF e
<1>3. /\ Inserted(q, i, e) \in Seq(T)
      /\ ToSet(Inserted(q, i, e)) = ToSet(q) \cup ToSet(e)
      /\ IsInjective(q) /\ IsInjective(e) /\ ToSet(q) \cap ToSet(e) = {} =>
           IsInjective(Inserted(q, i, e))
      /\ i # 1 => Inserted(q, i, e) # <<>> /\ Head(Inserted(q, i, e)) = Head(q)
  BY <1>1, InsertedFacts
<1> QED BY <1>1, <1>2, <1>3

\* A non-empty sequence is its head and what is behind it.
LEMMA TailFacts ==
    ASSUME NEW T, NEW s \in Seq(T), s # <<>>
    PROVE  /\ Tail(s) \in Seq(T) /\ ToSet(Tail(s)) \subseteq ToSet(s)
           /\ Head(s) \in T /\ Head(s) \in ToSet(s)
<1>1. /\ Tail(s) \in Seq(T) /\ Head(s) \in T /\ Head(s) = s[1]
      /\ Len(s) \in Nat /\ Len(s) # 0 /\ DOMAIN s = 1 .. Len(s)
      /\ Len(Tail(s)) = Len(s) - 1
      /\ \A k \in 1 .. Len(Tail(s)) : Tail(s)[k] = s[k + 1]
  BY HeadTailProperties, EmptySeq, LenProperties
<1> DEFINE t == Tail(s)
<1> HIDE DEF t
<1>2. DOMAIN t = 1 .. Len(s) - 1 BY <1>1, LenProperties DEF t
<1>3. \A k \in 1 .. Len(s) - 1 : t[k] = s[k + 1] /\ k + 1 \in DOMAIN s
  BY <1>1 DEF t
<1>4. ToSet(t) \subseteq ToSet(s) BY <1>2, <1>3 DEF ToSet
<1>5. 1 \in DOMAIN s BY <1>1
<1> QED BY <1>1, <1>4, <1>5 DEF t, ToSet

\* Rows at the positions in free trade places.
Permuted(q, s, n, free, move) ==
  /\ DOMAIN s = 1 .. n /\ DOMAIN q = 1 .. n
  /\ \A k \in 1 .. n : q[k] = IF k \in free THEN s[move[k]] ELSE s[k]

LEMMA PermutedFacts ==
    ASSUME NEW n \in Nat, NEW free, free \subseteq 1 .. n,
           NEW move \in Injection(free, free),
           NEW s, NEW q, Permuted(q, s, n, free, move)
    PROVE  /\ ToSet(q) = ToSet(s)
           /\ IsInjective(s) => IsInjective(q)
<1> USE DEF Permuted
<1>0. move \in [free -> free] /\ \A j, k \in free : move[j] = move[k] => j = k
  BY DEF Injection, IsInjective
<1>1. \A k \in free : \E j \in free : move[j] = k
  <2>1. 1 \in Int /\ n \in Int OBVIOUS
  <2>2. IsFiniteSet(1 .. n) BY <2>1, FS_Interval
  <2>3. IsFiniteSet(free) BY <2>2, FS_Subset
  <2>4. move \in Surjection(free, free) BY <2>3, FS_Injection
  <2> QED BY <2>4 DEF Surjection
<1>2. \A k \in free : move[k] \in free BY <1>0
<1>3. ToSet(q) = ToSet(s)
  <2>1. ASSUME NEW k \in 1 .. n PROVE q[k] \in ToSet(s)
    <3>1. k \in free => move[k] \in 1 .. n BY <1>2
    <3> QED BY <3>1 DEF ToSet
  <2>2. ASSUME NEW k \in 1 .. n PROVE s[k] \in ToSet(q)
    <3>1. CASE k \in free
      <4>1. PICK j \in free : move[j] = k BY <1>1, <3>1
      <4>2. j \in 1 .. n /\ q[j] = s[k] BY <4>1
      <4> QED BY <4>2 DEF ToSet
    <3>2. CASE k \notin free
      <4>1. q[k] = s[k] BY <3>2
      <4> QED BY <4>1 DEF ToSet
    <3> QED BY <3>1, <3>2
  <2> QED BY <2>1, <2>2 DEF ToSet
<1>4. ASSUME IsInjective(s) PROVE IsInjective(q)
  <2> SUFFICES ASSUME NEW j \in 1 .. n, NEW k \in 1 .. n, q[j] = q[k] PROVE j = k
    BY DEF IsInjective
  <2>1. \A a, b \in 1 .. n : s[a] = s[b] => a = b BY <1>4 DEF IsInjective
  <2>2. j \in free => move[j] \in free /\ move[j] \in 1 .. n BY <1>2
  <2>3. k \in free => move[k] \in free /\ move[k] \in 1 .. n BY <1>2
  <2>4. CASE j \in free /\ k \in free BY <1>0, <2>1, <2>2, <2>3, <2>4
  <2>5. CASE j \in free /\ k \notin free BY <2>1, <2>2, <2>5
  <2>6. CASE j \notin free /\ k \in free BY <2>1, <2>3, <2>6
  <2>7. CASE j \notin free /\ k \notin free BY <2>1, <2>7
  <2> QED BY <2>4, <2>5, <2>6, <2>7
<1> QED BY <1>3, <1>4

\* A reorder permutes the editable rows: no row is lost or repeated, and the
\* running front keeps its place.
LEMMA ReorderFacts ==
    ASSUME queue \in Seq(Ids), handle_reorder_queue
    PROVE  /\ queue' \in Seq(Ids) /\ ToSet(queue') = ToSet(queue)
           /\ IsInjective(queue) => IsInjective(queue')
           /\ queue # <<>> /\ Head(queue) = task.prompt =>
                queue' # <<>> /\ Head(queue') = Head(queue)
<1> DEFINE n == Len(queue)
           free == {k \in 1 .. n : is_queue_editable(queue[k]) /\ queue[k] # task.prompt}
           q == queue'
<1>1. /\ n \in Nat /\ DOMAIN queue = 1 .. n /\ \A k \in 1 .. n : queue[k] \in Ids
      /\ queue # <<>> => n # 0 /\ Head(queue) = queue[1]
  BY LenProperties, ElementOfSeq, EmptySeq
<1>2. free \subseteq 1 .. n /\ \A k \in free : queue[k] # task.prompt OBVIOUS
<1>3. PICK move \in [free -> free] :
        /\ \A j, k \in free : move[j] = move[k] => j = k
        /\ q = [k \in 1 .. n |-> IF k \in free THEN queue[move[k]] ELSE queue[k]]
  BY DEF handle_reorder_queue
<1> HIDE DEF n, free, q
<1>4. /\ DOMAIN q = 1 .. n
      /\ \A k \in 1 .. n : q[k] = IF k \in free THEN queue[move[k]] ELSE queue[k]
  BY <1>3
<1>5. \A k \in 1 .. n : q[k] \in Ids
  <2>1. \A k \in free : move[k] \in 1 .. n BY <1>2
  <2> QED BY <1>1, <1>4, <2>1
<1>6. q \in Seq(Ids) /\ Len(q) = n
  <2>1. q \in [1 .. n -> Ids] BY <1>3, <1>4, <1>5
  <2> QED BY <1>1, <2>1, SeqDef, LenProperties
<1>7. ToSet(q) = ToSet(queue) /\ (IsInjective(queue) => IsInjective(q))
  <2>1. move \in Injection(free, free) BY <1>3 DEF Injection, IsInjective
  <2>2. Permuted(q, queue, n, free, move) BY <1>1, <1>4 DEF Permuted
  <2> QED BY ONLY <1>1, <1>2, <2>1, <2>2, PermutedFacts
<1>8. ASSUME queue # <<>>, Head(queue) = task.prompt
      PROVE  q # <<>> /\ Head(q) = Head(queue)
  <2>1. 1 \in 1 .. n /\ 1 \notin free BY <1>1, <1>2, <1>8
  <2>2. q[1] = queue[1] BY <1>4, <2>1
  <2>3. q # <<>> /\ Head(q) = q[1] BY <1>1, <1>6, <1>8, EmptySeq
  <2> QED BY <1>1, <1>8, <2>2, <2>3
<1> QED BY <1>6, <1>7, <1>8 DEF q

\* What a turn's end hands on: the pending messages of S, unless the session goes.
LEMMA FallbacksFacts ==
    ASSUME slots \in Seq(Messages), NEW S, NEW cause
    PROVE  /\ Fallbacks(S, cause) \in Seq(Messages)
           /\ ToSet(Fallbacks(S, cause)) =
                IF cause \in {"completion", "soft_cancel", "rewind"}
                  THEN {m \in ToSet(slots) \cap S : slot[m].state = "pending"} ELSE {}
           /\ IsInjective(slots) => IsInjective(Fallbacks(S, cause))
<1> DEFINE stays == {m \in ToSet(slots) : m \notin S \/ slot[m].state # "pending"}
<1>1. Fallbacks(S, cause) = IF cause \in {"completion", "soft_cancel", "rewind"}
                              THEN Drop(slots, stays) ELSE <<>>
  BY DEF Fallbacks
<1>2. ToSet(slots) \ stays = {m \in ToSet(slots) \cap S : slot[m].state = "pending"}
  OBVIOUS
<1> HIDE DEF stays
<1>3. /\ Drop(slots, stays) \in Seq(Messages)
      /\ ToSet(Drop(slots, stays)) = ToSet(slots) \ stays
      /\ IsInjective(slots) => IsInjective(Drop(slots, stays))
  BY DropFacts
<1>4. <<>> \in Seq(Messages) OBVIOUS
<1> QED BY <1>1, <1>2, <1>3, <1>4, EmptyFacts

\* Only reported wakes are taken off the front, and what is then at the front is
\* not reported.
LEMMA StaleFrontFacts ==
    ASSUME queue \in Seq(Ids), IsInjective(queue)
    PROVE  /\ StaleFront \subseteq reported /\ StaleFront \subseteq ToSet(queue)
           /\ Drop(queue, StaleFront) # <<>> =>
                Head(Drop(queue, StaleFront)) \notin reported
<1> DEFINE live == {k \in 1 .. Len(queue) : queue[k] \notin reported}
           behind == {j \in 1 .. Len(queue) : \A l \in live : j < l}
<1>1. Len(queue) \in Nat /\ DOMAIN queue = 1 .. Len(queue) BY LenProperties
<1>2. StaleFront = IF live = {} THEN ToSet(queue) ELSE {queue[k] : k \in behind}
  BY DEF StaleFront
<1>3. CASE live = {}
  <2>1. ToSet(queue) \subseteq reported BY <1>1, <1>3 DEF ToSet
  <2>2. StaleFront = ToSet(queue) BY <1>2, <1>3
  <2>3. ToSet(Drop(queue, StaleFront)) = {} /\ Drop(queue, StaleFront) \in Seq(Ids)
    BY <2>2, DropFacts
  <2>4. Drop(queue, StaleFront) = <<>> BY <2>3, TailFacts
  <2> QED BY <2>1, <2>2, <2>4
<1>4. CASE live # {}
  <2>1. live \subseteq Nat BY <1>1
  <2>2. PICK n \in live : \A l \in live : n =< l
    <3> HIDE DEF live
    <3> QED BY <1>4, <2>1, LeastElement
  <2>3. StaleFront = {queue[k] : k \in behind} BY <1>2, <1>4
  <2>4. \A k \in behind : k \in 1 .. Len(queue) /\ k < n /\ queue[k] \in reported
    <3>1. ASSUME NEW k \in behind PROVE queue[k] \in reported
      <4>1. k \in 1 .. Len(queue) /\ k \in Nat /\ ~ (k < k) BY <1>1
      <4>2. k \notin live BY <4>1
      <4> QED BY <4>1, <4>2
    <3> QED BY <3>1
  <2>5. \A k \in 1 .. n - 1 : k \in behind
    <3> SUFFICES ASSUME NEW k \in 1 .. n - 1, NEW l \in live
                 PROVE  k \in 1 .. Len(queue) /\ k < l
      OBVIOUS
    <3>1. n \in 1 .. Len(queue) /\ l \in 1 .. Len(queue) /\ n =< l BY <2>2
    <3> QED BY <1>1, <3>1
  <2>6. n \in 1 .. Len(queue) /\ queue[n] \notin reported BY <2>2
  <2> HIDE DEF live, behind
  <2>7. StaleFront \subseteq reported /\ StaleFront \subseteq ToSet(queue)
    BY <1>1, <2>3, <2>4 DEF ToSet
  <2>8. PICK f : /\ f[0] = <<>>
                 /\ \A k \in 1 .. Len(queue) :
                      f[k] = IF queue[k] \in StaleFront THEN f[k - 1]
                             ELSE Append(f[k - 1], queue[k])
                 /\ Drop(queue, StaleFront) = f[Len(queue)]
    BY DropUnfolds
  <2> DEFINE Good(k) == IF k < n THEN f[k] = <<>>
                        ELSE /\ f[k] \in Seq(Ids) /\ f[k] # <<>>
                             /\ Head(f[k]) = queue[n]
             Bad == {k \in 0 .. Len(queue) : ~ Good(k)}
  <2>9. Bad = {}
    <3>1. SUFFICES ASSUME Bad # {} PROVE FALSE OBVIOUS
    <3>2. PICK k \in Bad : \A j \in Bad : k =< j
      <4>1. Bad \subseteq Nat BY <1>1
      <4> HIDE DEF Bad
      <4> QED BY <3>1, <4>1, LeastElement
    <3>3. k \in 0 .. Len(queue) /\ ~ Good(k) /\ k \in Nat /\ n \in Nat /\ n # 0
      BY <1>1, <2>6, <3>2
    <3>4. k # 0
      <4>1. Good(0) BY <2>8, <3>3
      <4> QED BY <3>3, <4>1
    <3>5. k - 1 \in 0 .. Len(queue) /\ k \in 1 .. Len(queue) /\ ~ (k =< k - 1)
      BY <1>1, <3>3, <3>4
    <3>6. Good(k - 1) BY <3>2, <3>5
    <3>7. queue[k] \in Ids BY <3>5, ElementOfSeq
    <3>8. f[k] = IF queue[k] \in StaleFront THEN f[k - 1]
                 ELSE Append(f[k - 1], queue[k])
      BY <2>8, <3>5
    <3>9. CASE k < n
      <4>1. k \in 1 .. n - 1 /\ k - 1 < n BY <3>3, <3>5, <3>9
      <4>2. queue[k] \in StaleFront BY <2>3, <2>5, <4>1
      <4>3. f[k - 1] = <<>> BY <3>6, <4>1
      <4> QED BY <3>3, <3>8, <3>9, <4>2, <4>3
    <3>10. CASE k = n
      <4>1. k - 1 < n /\ ~ (k < n) BY <3>3, <3>10
      <4>2. f[k - 1] = <<>> BY <3>6, <4>1
      <4>3. queue[k] \notin StaleFront BY <2>6, <2>7, <3>10
      <4>4. f[k] = <<queue[k]>> BY <3>8, <4>2, <4>3
      <4>5. f[k] \in Seq(Ids) /\ f[k] # <<>> /\ Head(f[k]) = queue[k]
        BY <3>7, <4>4
      <4> QED BY <3>3, <3>10, <4>1, <4>5
    <3>11. CASE ~ (k < n) /\ k # n
      <4>1. ~ (k - 1 < n) BY <3>3, <3>11
      <4>2. f[k - 1] \in Seq(Ids) /\ f[k - 1] # <<>> /\ Head(f[k - 1]) = queue[n]
        BY <3>6, <4>1
      <4> DEFINE g == f[k - 1]
      <4>3. /\ Append(g, queue[k]) \in Seq(Ids) /\ Append(g, queue[k]) # <<>>
            /\ Head(Append(g, queue[k])) = Head(g)
        <5>1. g \in Seq(Ids) /\ g # <<>> BY <4>2
        <5> HIDE DEF g
        <5> QED BY <3>7, <5>1, AppendFacts
      <4>4. f[k] \in Seq(Ids) /\ f[k] # <<>> /\ Head(f[k]) = queue[n]
        BY <3>8, <4>2, <4>3
      <4> QED BY <3>3, <3>11, <4>4
    <3> QED BY <3>9, <3>10, <3>11
  <2>10. Good(Len(queue)) /\ ~ (Len(queue) < n)
    <3>1. Len(queue) \in 0 .. Len(queue) /\ ~ (Len(queue) < n) BY <1>1, <2>6
    <3> QED BY <2>9, <3>1
  <2> QED BY <2>6, <2>7, <2>8, <2>10
<1> QED BY <1>3, <1>4

\* The prompts merged into a turn are plain ones behind its own.
LEMMA FollowersFacts ==
    ASSUME NEW q \in Seq(Ids), NEW held
    PROVE  /\ Followers(q, held) \subseteq ToSet(q) \cap Prompts
           /\ Followers(q, held) \cap fallback = {}
           /\ q # <<>> /\ IsInjective(q) => Head(q) \notin Followers(q, held)
<1> DEFINE F == {j \in 2 .. Len(q) :
                   \A l \in 2 .. j : is_queue_editable(q[l]) /\ q[l] \notin held}
<1>1. Len(q) \in Nat /\ DOMAIN q = 1 .. Len(q) /\ (q # <<>> => Head(q) = q[1])
  BY LenProperties, EmptySeq
<1>2. \/ Followers(q, held) = {}
      \/ Followers(q, held) = {q[k] : k \in F}
  BY DEF Followers
<1>3. \A k \in F : k \in 1 .. Len(q) /\ 1 \in 1 .. Len(q) /\ k # 1
                   /\ is_queue_editable(q[k])
  <2> SUFFICES ASSUME NEW k \in F
               PROVE  k \in 1 .. Len(q) /\ 1 \in 1 .. Len(q) /\ k # 1
                      /\ is_queue_editable(q[k])
    OBVIOUS
  <2>1. k \in 2 .. Len(q) BY DEF F
  <2>2. k \in 2 .. k BY <1>1, <2>1
  <2>3. is_queue_editable(q[k]) BY <2>2
  <2> QED BY <1>1, <2>1, <2>3
<1> HIDE DEF F
<1>4. \A k \in F : q[k] \in ToSet(q) \cap Prompts /\ q[k] \notin fallback
  BY <1>1, <1>3 DEF ToSet, is_queue_editable
<1>5. IsInjective(q) => \A k \in F : q[k] # q[1]
  BY <1>1, <1>3 DEF IsInjective
<1> QED BY <1>1, <1>2, <1>4, <1>5

\* The rows promoted into the running turn are queued prompts, not its own.
LEMMA PromotedFacts ==
    ASSUME queue \in Seq(Ids)
    PROVE  /\ promote_queued_as_interjections \in Seq(Ids)
           /\ ToSet(promote_queued_as_interjections) \subseteq ToSet(queue) \cap Prompts
           /\ task.prompt \notin ToSet(promote_queued_as_interjections)
           /\ ToSet(promote_queued_as_interjections) \cap fallback = {}
           /\ IsInjective(queue) => IsInjective(promote_queued_as_interjections)
<1> DEFINE S == {r \in ToSet(queue) :
                   r = task.prompt \/ is_preemptible_runtime_wake(r)}
           rows == Drop(queue, S)
           stops == {k \in 1 .. Len(rows) :
                       \/ ~ is_queue_editable(rows[k])
                       \/ rows[k] \in sendNow
                       \/ holds[rows[k]] # "none"}
           n == IF stops = {} THEN Len(rows)
                ELSE (CHOOSE k \in stops : \A j \in stops : k <= j) - 1
           moved == promote_queued_as_interjections
<1>1. moved = <<>> \/ moved = SubSeq(rows, 1, n)
  BY DEF promote_queued_as_interjections
<1>2. task.prompt \notin ToSet(queue) \ S OBVIOUS
<1> HIDE DEF moved, S
<1>3. /\ rows \in Seq(Ids) /\ ToSet(rows) = ToSet(queue) \ S
      /\ IsInjective(queue) => IsInjective(rows)
  BY DropFacts
<1> HIDE DEF rows
<1>4. /\ Len(rows) \in Nat /\ DOMAIN rows = 1 .. Len(rows)
      /\ 1 \in 1 .. Len(rows) + 1
  BY <1>3, LenProperties
<1>5. n \in 0 .. Len(rows) /\ \A k \in 1 .. n : k \in 1 .. Len(rows) /\ k \notin stops
  <2>1. CASE stops = {} BY <1>4, <2>1
  <2>2. CASE stops # {}
    <3> DEFINE c == CHOOSE k \in stops : \A j \in stops : k =< j
    <3>1. stops \subseteq Nat BY <1>4
    <3>2. c \in stops /\ \A j \in stops : c =< j
      <4> HIDE DEF stops
      <4>1. \E k \in stops : \A j \in stops : k =< j BY <2>2, <3>1, LeastElement
      <4> QED BY <4>1
    <3>3. n = c - 1 BY <2>2
    <3>4. c \in 1 .. Len(rows) BY <3>2
    <3> HIDE DEF c, n, stops
    <3>5. n \in 0 .. Len(rows) BY <1>4, <3>3, <3>4
    <3>6. \A k \in 1 .. n : k \in 1 .. Len(rows) /\ ~ (c =< k) BY <1>4, <3>3, <3>4
    <3> QED BY <3>2, <3>5, <3>6
  <2> QED BY <2>1, <2>2
<1>6. \A k \in 1 .. n : k \in DOMAIN rows /\ rows[k] \in Prompts \ fallback
  <2>1. \A k \in 1 .. n : is_queue_editable(rows[k])
    <3> HIDE DEF n
    <3> QED BY <1>5
  <2> HIDE DEF n, stops
  <2> QED BY <1>4, <1>5, <2>1 DEF is_queue_editable
<1> HIDE DEF n, stops
<1>7. /\ SubSeq(rows, 1, n) \in Seq(Ids)
      /\ ToSet(SubSeq(rows, 1, n)) = {rows[k] : k \in 1 .. n}
      /\ IsInjective(rows) => IsInjective(SubSeq(rows, 1, n))
  BY <1>3, <1>4, <1>5, SubSeqFacts
<1>8. {rows[k] : k \in 1 .. n} \subseteq (ToSet(queue) \ S) \cap (Prompts \ fallback)
  BY <1>3, <1>6 DEF ToSet
<1>9. <<>> \in Seq(Ids) OBVIOUS
<1>10. CASE moved = <<>> BY <1>9, <1>10, EmptyFacts DEF moved
<1>11. CASE moved = SubSeq(rows, 1, n)
  BY <1>2, <1>3, <1>7, <1>8, <1>11 DEF moved
<1> QED BY <1>1, <1>10, <1>11
=============================================================================
