------------------------ MODULE SubagentLimitProofs ------------------------
(***************************************************************************)
(* Theorems about the coordinator's limit and its queue, for any children, *)
(* sessions, messages and limits: a session never runs more children than  *)
(* it may, an entry waits only while its session is full, entries start in *)
(* the order they came, and nothing starts for a session that is stopped.  *)
(***************************************************************************)
EXTENDS SubagentCoordinatorProofs, FiniteSetTheorems, NaturalsInduction

----------------------------------------------------------------------------
(* Counting.                                                               *)

(* A non-empty set of natural numbers has a least element.                 *)
LEMMA LeastElement ==
  ASSUME NEW T, T \subseteq Nat, T # {}
  PROVE  \E x \in T : \A y \in T : x =< y
<1> DEFINE R == OpToRel(<, Nat)
<1>1. \E x \in T : \A y \in T : ~ (<<y, x>> \in R)
      BY WFMin, NatLessThanWellFounded
<1>2. \A x, y \in Nat : y < x => <<y, x>> \in R BY DEF OpToRel
<1> HIDE DEF R
<1>3. PICK x \in T : \A y \in T : ~ (<<y, x>> \in R) BY <1>1
<1>4. ASSUME NEW y \in T PROVE x =< y
  <2>1. <<y, x>> \notin R BY <1>3
  <2>2. x \in Nat /\ y \in Nat OBVIOUS
  <2>3. ~ (y < x) BY <1>2, <2>1, <2>2
  <2> QED BY <2>2, <2>3
<1> QED BY <1>3, <1>4

(* The entries of L that are ahead of x.                                   *)
Ahead(L, at, x) == {y \in L : at[y] < at[x]}

(* Those that find one of max slots behind n others, the earlier first.    *)
Fitting(L, at, n, max) == {x \in L : n + Cardinality(Ahead(L, at, x)) < max}

LEMMA AheadFacts ==
  ASSUME NEW L, IsFiniteSet(L), NEW at \in [L -> Nat], NEW x \in L
  PROVE  /\ IsFiniteSet(Ahead(L, at, x)) /\ Ahead(L, at, x) \subseteq L
         /\ Cardinality(Ahead(L, at, x)) \in Nat
         /\ \A y \in L : at[x] < at[y] =>
              Cardinality(Ahead(L, at, x)) < Cardinality(Ahead(L, at, y))
<1>1. \A y \in L : Ahead(L, at, y) \in SUBSET L BY DEF Ahead
<1>2. \A y \in L : IsFiniteSet(Ahead(L, at, y)) BY <1>1, FS_Subset
<1>3. \A y \in L : Cardinality(Ahead(L, at, y)) \in Nat BY <1>2, FS_CardinalityType
<1>4. ASSUME NEW y \in L, at[x] < at[y]
      PROVE  Cardinality(Ahead(L, at, x)) < Cardinality(Ahead(L, at, y))
  <2> DEFINE A == Ahead(L, at, x)
             B == Ahead(L, at, y)
  <2>1. x \notin A /\ A \cup {x} \in SUBSET B BY <1>4 DEF Ahead
  <2>2. Cardinality(A \cup {x}) = Cardinality(A) + 1 BY <1>2, <2>1, FS_AddElement
  <2>3. Cardinality(A \cup {x}) <= Cardinality(B)
    <3>1. IsFiniteSet(B) BY <1>2
    <3> HIDE DEF A, B
    <3> QED BY <2>1, <3>1, FS_Subset
  <2>4. Cardinality(A) \in Nat /\ Cardinality(B) \in Nat BY <1>3
  <2> HIDE DEF A, B
  <2>5. Cardinality(A) < Cardinality(B) BY <2>2, <2>3, <2>4
  <2> QED BY <2>5 DEF A, B
<1> QED BY <1>1, <1>2, <1>3, <1>4

(* What fits behind n others keeps within the limit.                       *)
LEMMA FittingCount ==
  ASSUME NEW L, IsFiniteSet(L), NEW at \in [L -> Nat],
         \A x, y \in L : at[x] = at[y] => x = y,
         NEW max \in Nat, NEW n \in Nat, n <= max
  PROVE  /\ IsFiniteSet(Fitting(L, at, n, max))
         /\ n + Cardinality(Fitting(L, at, n, max)) <= max
<1> DEFINE F == Fitting(L, at, n, max)
           c(x) == Cardinality(Ahead(L, at, x))
           left == {k \in Nat : \E x \in F : k = max - c(x)}
<1>1. CASE F = {}
  <2>1. IsFiniteSet(F) /\ Cardinality(F) = 0 BY <1>1, FS_EmptySet
  <2> HIDE DEF F
  <2>2. IsFiniteSet(F) /\ n + Cardinality(F) <= max BY <2>1
  <2> QED BY <2>2 DEF F
<1>2. CASE F # {}
  <2>1. \A x \in F : x \in L /\ c(x) \in Nat /\ n + c(x) < max
        BY AheadFacts DEF Fitting
  <2>2. left \subseteq Nat /\ left # {}
    <3>1. PICK x \in F : TRUE BY <1>2
    <3> HIDE DEF F
    <3>2. c(x) \in Nat /\ n + c(x) < max BY <2>1, <3>1
    <3>3. max - c(x) \in Nat BY <3>2
    <3>4. max - c(x) \in left BY <3>1, <3>3
    <3> QED BY <3>4
  <2> HIDE DEF left
  <2>3. PICK k \in left : \A j \in left : k =< j BY <2>2, LeastElement
  <2>4. PICK m \in F : k = max - c(m) BY <2>3 DEF left
  <2>5. \A x \in F : c(x) <= c(m)
    <3> SUFFICES ASSUME NEW x \in F PROVE c(x) <= c(m) OBVIOUS
    <3>1. max - c(x) \in left BY <2>1 DEF left
    <3>2. k =< max - c(x) BY <2>3, <3>1
    <3> QED BY <2>1, <2>4, <3>2
  <2>6. F \subseteq Ahead(L, at, m) \cup {m}
    <3> SUFFICES ASSUME NEW x \in F, x # m PROVE x \in Ahead(L, at, m) OBVIOUS
    <3>1. ~ (at[m] < at[x]) BY <2>1, <2>5, AheadFacts
    <3>2. at[m] \in Nat /\ at[x] \in Nat /\ at[m] # at[x] BY <2>1
    <3>3. at[x] < at[m] BY <3>1, <3>2
    <3>4. x \in L BY <2>1
    <3> QED BY <3>3, <3>4 DEF Ahead
  <2> DEFINE A == Ahead(L, at, m)
  <2>7. IsFiniteSet(A) BY <2>1, AheadFacts
  <2> HIDE DEF A, F
  <2>8. /\ IsFiniteSet(A \cup {m}) /\ Cardinality(A \cup {m}) <= Cardinality(A) + 1
    <3>1. Cardinality(A) \in Nat BY <2>7, FS_CardinalityType
    <3>2. /\ IsFiniteSet(A \cup {m})
          /\ Cardinality(A \cup {m}) = IF m \in A THEN Cardinality(A) ELSE Cardinality(A) + 1
          BY <2>7, FS_AddElement
    <3> QED BY <3>1, <3>2
  <2>9. IsFiniteSet(F) /\ Cardinality(F) <= Cardinality(A \cup {m})
        BY <2>6, <2>8, FS_Subset DEF A
  <2>10. /\ Cardinality(F) \in Nat /\ Cardinality(A) \in Nat
         /\ Cardinality(A \cup {m}) \in Nat
         BY <2>7, <2>8, <2>9, FS_CardinalityType
  <2>11. n + Cardinality(A) < max BY <2>1, <2>4 DEF A
  <2>12. n + Cardinality(F) <= max BY <2>8, <2>9, <2>10, <2>11
  <2> QED BY <2>9, <2>12 DEF F
<1> QED BY <1>1, <1>2

(* What fits behind the children of R keeps within the limit.              *)
LEMMA FittingLimited ==
  ASSUME NEW L, IsFiniteSet(L), NEW at \in [L -> Nat],
         \A x, y \in L : at[x] = at[y] => x = y,
         NEW R, IsFiniteSet(R), Cardinality(R) <= MaxConcurrent
  PROVE  Cardinality(R \cup Fitting(L, at, Cardinality(R), MaxConcurrent)) <= MaxConcurrent
<1> DEFINE n == Cardinality(R)
           F == Fitting(L, at, n, MaxConcurrent)
<1>1. MaxConcurrent \in Nat /\ n \in Nat BY ConstantsAssumption, FS_CardinalityType
<1> HIDE DEF n
<1>2. IsFiniteSet(F) /\ n + Cardinality(F) <= MaxConcurrent
      BY <1>1, FittingCount DEF n
<1> HIDE DEF F
<1>3. Cardinality(R \cap F) \in Nat
  <2>1. R \cap F \in SUBSET F OBVIOUS
  <2> QED BY <1>2, <2>1, FS_Subset, FS_CardinalityType
<1>4. Cardinality(R \cup F) = n + Cardinality(F) - Cardinality(R \cap F)
      BY <1>2, FS_Union DEF n
<1>5. Cardinality(F) \in Nat BY <1>2, FS_CardinalityType
<1>6. Cardinality(R \cup F) <= MaxConcurrent BY <1>1, <1>2, <1>3, <1>4, <1>5
<1> QED BY <1>6 DEF F, n

(* An entry that does not fit stays behind a full session.                 *)
LEMMA FittingFull ==
  ASSUME NEW L, IsFiniteSet(L), NEW at \in [L -> Nat],
         NEW R, IsFiniteSet(R), R \cap L = {},
         NEW x \in L, x \notin Fitting(L, at, Cardinality(R), MaxConcurrent)
  PROVE  ~ has_capacity(Cardinality(R \cup Fitting(L, at, Cardinality(R), MaxConcurrent)))
<1> DEFINE n == Cardinality(R)
           F == Fitting(L, at, n, MaxConcurrent)
           c(y) == Cardinality(Ahead(L, at, y))
           waiting == {k \in Nat : \E y \in L \ F : k = c(y)}
<1>1. MaxConcurrent \in Nat /\ n \in Nat BY ConstantsAssumption, FS_CardinalityType
<1>2. \A y \in L : c(y) \in Nat BY AheadFacts
<1>3. waiting \subseteq Nat /\ waiting # {} BY <1>2
<1> HIDE DEF waiting
<1>4. PICK k \in waiting : \A j \in waiting : k =< j BY <1>3, LeastElement
<1>5. PICK z \in L \ F : k = c(z) BY <1>4 DEF waiting
<1>6. Ahead(L, at, z) \subseteq F
  <2> SUFFICES ASSUME NEW y \in Ahead(L, at, z), y \notin F PROVE FALSE OBVIOUS
  <2>1. y \in L /\ at[y] < at[z] BY DEF Ahead
  <2>2. c(y) < c(z) BY <2>1, AheadFacts
  <2>3. c(y) \in waiting BY <1>2, <2>1 DEF waiting
  <2>4. k =< c(y) BY <1>4, <2>3
  <2> QED BY <1>2, <1>5, <2>1, <2>2, <2>4
<1> DEFINE A == Ahead(L, at, z)
<1>7. IsFiniteSet(A) /\ A \subseteq L BY AheadFacts
<1>8. ~ (n + Cardinality(A) < MaxConcurrent) BY DEF Fitting
<1>9. F \in SUBSET L BY DEF Fitting
<1>10. IsFiniteSet(F) BY <1>9, FS_Subset
<1>11. A \subseteq F BY <1>6
<1> HIDE DEF A, F
<1>12. Cardinality(R \cup A) = n + Cardinality(A)
  <2>1. R \cap A = {} BY <1>7
  <2>2. Cardinality(R \cap A) = 0 BY <2>1, FS_EmptySet
  <2>3. Cardinality(R \cup A) = n + Cardinality(A) - Cardinality(R \cap A)
        BY <1>7, FS_Union
  <2>4. Cardinality(A) \in Nat BY <1>7, FS_CardinalityType
  <2> HIDE DEF n
  <2> QED BY <1>1, <2>2, <2>3, <2>4
<1>13. Cardinality(R \cup A) <= Cardinality(R \cup F)
  <2>1. IsFiniteSet(R \cup F) BY <1>10, FS_Union
  <2>2. R \cup A \in SUBSET (R \cup F) BY <1>11
  <2> QED BY <2>1, <2>2, FS_Subset
<1>14. Cardinality(A) \in Nat /\ Cardinality(R \cup F) \in Nat
       BY <1>7, <1>10, FS_Union, FS_CardinalityType
<1> HIDE DEF n
<1>15. ~ (Cardinality(R \cup F) < MaxConcurrent) BY <1>1, <1>8, <1>12, <1>13, <1>14
<1> QED BY <1>15 DEF has_capacity, F, n

----------------------------------------------------------------------------
(* What a method may do to the queue and to the children that run.         *)

HasReq(r) == "req" \in DOMAIN r /\ r.req \in Request

(* A record in a wake is one a completed child had.                        *)
Displaced(r) == "wake" \in DOMAIN r /\ (r.wake # None => HasReq(r.wake))

Entry(r) ==
  /\ HasReq(r) /\ Displaced(r)
  /\ {"cancelled", "queued_at"} \subseteq DOMAIN r
  /\ r.queued_at \in Nat
  /\ r.req.workflow = None
  /\ r.wake # None => ~r.cancelled

(* The records have what the limit and the queue look at; no workflow      *)
(* child is queued, and nothing cancels a wake that is.                    *)
Shaped(s) ==
  /\ DOMAIN s = Fields
  /\ \A id \in DOMAIN s.queued : id \in Ids /\ Entry(s.queued[id])
  /\ \A id \in DOMAIN s.pending :
       id \in Ids /\ HasReq(s.pending[id]) /\ Displaced(s.pending[id])
  /\ \A id \in DOMAIN s.active :
       id \in Ids /\ HasReq(s.active[id]) /\ Displaced(s.active[id])
  /\ \A id \in DOMAIN s.completed : id \in Ids /\ HasReq(s.completed[id])

(* No two entries came at the same time.                                   *)
Distinct(s) ==
  \A x, y \in DOMAIN s.queued : s.queued[x].queued_at = s.queued[y].queued_at => x = y

Limited(s) == \A p : session_running_count(s, p) <= MaxConcurrent

Sound(s) == Shaped(s) /\ Distinct(s) /\ Limited(s)

(* Every entry waits for a full session.                                   *)
Full(s) ==
  \A id \in DOMAIN s.queued :
    ~has_capacity(session_running_count(s, s.queued[id].req.session))

(* The run futures are those of the children whose output is not held.     *)
Polled(s) ==
  /\ s.runs = DOMAIN s.pending \cup (DOMAIN s.active \ DOMAIN s.terminal_outputs)
  /\ DOMAIN s.terminal_outputs \subseteq DOMAIN s.active

SameEntry(s, t, x) ==
  /\ x \in DOMAIN s.queued
  /\ t.queued[x].req.session = s.queued[x].req.session
  /\ t.queued[x].queued_at = s.queued[x].queued_at

(* x is to start before y.                                                 *)
Before(s, x, y) ==
  /\ s.queued[x].req.session = s.queued[y].req.session
  /\ s.queued[x].queued_at < s.queued[y].queued_at

(* t has the same children running and no new entry.                       *)
Load(s, t) ==
  /\ Shaped(t)
  /\ \A x \in DOMAIN t.queued : SameEntry(s, t, x)
  /\ \A p : session_running(t, p) = session_running(s, p)
  /\ DOMAIN t.pending = DOMAIN s.pending
  /\ DOMAIN t.active = DOMAIN s.active
  /\ t.runs = s.runs
  /\ DOMAIN t.terminal_outputs = DOMAIN s.terminal_outputs
  /\ t.spawn_blocked_sessions \subseteq s.spawn_blocked_sessions

(* From s to t only the children of N came in, none of them for a session  *)
(* of B, and what started was queued and started in order.                 *)
Moves(s, t, N, B) ==
  /\ \A x \in DOMAIN t.queued :
       IF x \in N THEN t.queued[x].req.session \notin B ELSE SameEntry(s, t, x)
  /\ \A p : \A x \in session_running(t, p) :
       \/ x \in session_running(s, p)
       \/ x \in InSession(s.queued, p)
       \/ x \in N /\ p \notin B
  /\ DOMAIN t.pending \subseteq DOMAIN s.pending \cup DOMAIN s.queued \cup N
  /\ \A x, y \in DOMAIN s.queued \ N :
       Before(s, x, y) /\ y \in DOMAIN t.pending \ DOMAIN s.pending =>
         x \notin DOMAIN t.queued

(* What every method does that neither spawns nor wakes nor stops.         *)
Carries(s, t) ==
  /\ Sound(t)
  /\ Moves(s, t, {}, {})
  /\ t.spawn_blocked_sessions \subseteq s.spawn_blocked_sessions
  /\ Full(s) => Full(t)

Goes(s, t) == Carries(s, t) /\ (Polled(s) => Polled(t))

(* The children a session runs are finitely many.                          *)
LEMMA RunningFinite ==
  ASSUME NEW s, Shaped(s), NEW p
  PROVE  /\ IsFiniteSet(session_running(s, p))
         /\ session_running_count(s, p) \in Nat
<1>1. session_running(s, p) \in SUBSET Ids BY DEF Shaped, session_running, InSession
<1>2. IsFiniteSet(session_running(s, p)) BY <1>1, ConstantsAssumption, FS_Subset
<1> QED BY <1>2, FS_CardinalityType DEF session_running_count

(* With fewer children the limit still holds.                              *)
LEMMA FewerLimited ==
  ASSUME NEW s, NEW t, Shaped(s), Limited(s), Shaped(t),
         \A p : session_running(t, p) \subseteq session_running(s, p)
  PROVE  Limited(t)
<1> SUFFICES ASSUME NEW p PROVE session_running_count(t, p) <= MaxConcurrent
    BY DEF Limited
<1>1. session_running(t, p) \in SUBSET session_running(s, p) OBVIOUS
<1>2. session_running_count(t, p) <= session_running_count(s, p)
      BY <1>1, RunningFinite, FS_Subset DEF session_running_count
<1>3. session_running_count(s, p) <= MaxConcurrent BY DEF Limited
<1> QED BY <1>2, <1>3, RunningFinite, ConstantsAssumption

LEMMA MovesTrans ==
  ASSUME NEW s, NEW t, NEW u, NEW M, NEW N, NEW B, Moves(s, t, M, B), Moves(t, u, N, B)
  PROVE  Moves(s, u, M \cup N, B)
<1> DEFINE K == M \cup N
<1>1. ASSUME NEW x \in DOMAIN u.queued
      PROVE  IF x \in K THEN u.queued[x].req.session \notin B ELSE SameEntry(s, u, x)
      BY <1>1 DEF Moves, SameEntry
<1>2. ASSUME NEW p, NEW x \in session_running(u, p)
      PROVE  \/ x \in session_running(s, p)
             \/ x \in InSession(s.queued, p)
             \/ x \in K /\ p \notin B
  <2>1. \/ x \in session_running(t, p)
        \/ x \in InSession(t.queued, p)
        \/ x \in N /\ p \notin B
        BY <1>2 DEF Moves
  <2>2. CASE x \in session_running(t, p) BY <2>2 DEF Moves
  <2>3. CASE x \in InSession(t.queued, p)
    <3>1. x \in DOMAIN t.queued /\ t.queued[x].req.session = p BY <2>3 DEF InSession
    <3>2. CASE x \in M BY <3>1, <3>2 DEF Moves
    <3>3. CASE x \notin M
      <4>1. SameEntry(s, t, x) BY <3>1, <3>3 DEF Moves
      <4> QED BY <3>1, <4>1 DEF SameEntry, InSession
    <3> QED BY <3>2, <3>3
  <2> QED BY <2>1, <2>2, <2>3
<1>3. DOMAIN u.pending \subseteq DOMAIN s.pending \cup DOMAIN s.queued \cup K
  <2>1. DOMAIN t.queued \subseteq DOMAIN s.queued \cup M BY DEF Moves, SameEntry
  <2> QED BY <2>1 DEF Moves
<1>4. ASSUME NEW x \in DOMAIN s.queued \ K, NEW y \in DOMAIN s.queued \ K,
             Before(s, x, y), y \in DOMAIN u.pending \ DOMAIN s.pending,
             x \in DOMAIN u.queued
      PROVE  FALSE
  <2>1. SameEntry(t, u, x) BY <1>4 DEF Moves
  <2>2. SameEntry(s, t, x) BY <1>4, <2>1 DEF Moves, SameEntry
  <2>3. x \in DOMAIN t.queued BY <2>1 DEF SameEntry
  <2>4. CASE y \in DOMAIN t.pending BY <1>4, <2>3, <2>4 DEF Moves
  <2>5. CASE y \notin DOMAIN t.pending
    <3>1. y \in DOMAIN t.queued BY <1>4, <2>5 DEF Moves
    <3>2. SameEntry(s, t, y) BY <1>4, <3>1 DEF Moves
    <3>3. Before(t, x, y) BY <1>4, <2>2, <3>2 DEF Before, SameEntry
    <3> QED BY <1>4, <2>3, <2>5, <3>1, <3>3 DEF Moves
  <2> QED BY <2>4, <2>5
<1> QED BY <1>1, <1>2, <1>3, <1>4 DEF Moves

LEMMA CarriesTrans ==
  ASSUME NEW s, NEW t, NEW u, Carries(s, t), Carries(t, u)
  PROVE  Carries(s, u)
<1>1. Moves(s, u, {} \cup {}, {}) BY MovesTrans DEF Carries
<1>2. {} \cup {} = {} OBVIOUS
<1>3. Moves(s, u, {}, {}) BY <1>1, <1>2
<1> QED BY <1>3 DEF Carries

LEMMA GoesTrans ==
  ASSUME NEW s, NEW t, NEW u, Goes(s, t), Goes(t, u)
  PROVE  Goes(s, u)
BY CarriesTrans DEF Goes

LEMMA LoadTrans ==
  ASSUME NEW s, NEW t, NEW u, Load(s, t), Load(t, u)
  PROVE  Load(s, u)
BY DEF Load, SameEntry

(* Entries that stay keep their distinct times.                            *)
LEMMA SameDistinct ==
  ASSUME NEW s, NEW t, Distinct(s), \A x \in DOMAIN t.queued : SameEntry(s, t, x)
  PROVE  Distinct(t)
BY DEF Distinct, SameEntry

LEMMA LoadGoes ==
  ASSUME NEW s, NEW t, Sound(s), Load(s, t)
  PROVE  Goes(s, t)
<1>1. Limited(t)
  <2>1. \A p : session_running(t, p) \subseteq session_running(s, p) BY DEF Load
  <2> QED BY <2>1, FewerLimited DEF Sound, Load
<1>2. Distinct(t) BY SameDistinct DEF Sound, Load
<1>3. Moves(s, t, {}, {}) BY DEF Moves, Load
<1>4. Full(s) => Full(t)
  <2> SUFFICES ASSUME Full(s), NEW id \in DOMAIN t.queued
               PROVE  ~has_capacity(session_running_count(t, t.queued[id].req.session))
      BY DEF Full
  <2>1. SameEntry(s, t, id) BY DEF Load
  <2>2. session_running_count(t, t.queued[id].req.session)
          = session_running_count(s, s.queued[id].req.session)
        BY <2>1 DEF SameEntry, Load, session_running_count
  <2> QED BY <2>1, <2>2 DEF Full, SameEntry
<1>5. Polled(s) => Polled(t) BY DEF Polled, Load
<1> QED BY <1>1, <1>2, <1>3, <1>4, <1>5 DEF Goes, Carries, Sound, Load

----------------------------------------------------------------------------
(* Methods that touch neither the queue nor the children that run.         *)

(* t differs from s in none of the fields the limit looks at, except that  *)
(* admission may have been reopened.                                       *)
Alike(s, t) ==
  /\ DOMAIN t = Fields
  /\ t.queued = s.queued /\ t.pending = s.pending /\ t.active = s.active
  /\ t.completed = s.completed
  /\ t.runs = s.runs /\ t.terminal_outputs = s.terminal_outputs
  /\ t.spawn_blocked_sessions \subseteq s.spawn_blocked_sessions

LEMMA AlikeLoad ==
  ASSUME NEW s, NEW t, Shaped(s), Alike(s, t)
  PROVE  Load(s, t)
<1>1. Shaped(t) BY DEF Shaped, Alike
<1>2. \A p : session_running(t, p) = session_running(s, p)
      BY DEF session_running, InSession, Alike
<1> QED BY <1>1, <1>2 DEF Load, Alike, SameEntry

LEMMA AlikeTrans ==
  ASSUME NEW s, NEW t, NEW u, Alike(s, t), Alike(t, u)
  PROVE  Alike(s, u)
BY DEF Alike

LEMMA AnswerAlike ==
  ASSUME NEW s, NEW msgs, NEW how, DOMAIN s = Fields
  PROVE  Alike(s, Answer(s, msgs, how))
BY DEF Answer, Alike, Fields

LEMMA RejectSpawnReadyAlike ==
  ASSUME NEW s, NEW ids, DOMAIN s = Fields
  PROVE  Alike(s, reject_spawn_ready_ids(s, ids))
<1> DEFINE doomed == {m \in s.spawn_ready : m.id \in ids}
           t == [s EXCEPT !.spawn_ready = @ \ doomed]
<1>1. Alike(s, t) BY DEF Alike, Fields
<1> HIDE DEF t
<1>2. Alike(t, Answer(t, MsgsOf(doomed), "Refused")) BY <1>1, AnswerAlike DEF Alike
<1> QED BY <1>1, <1>2, AlikeTrans DEF reject_spawn_ready_ids, t

LEMMA RejectPendingWakesAlike ==
  ASSUME NEW s, NEW ids, DOMAIN s = Fields
  PROVE  Alike(s, reject_pending_wakes_for_ids(s, ids))
<1> DEFINE doomed == {m \in s.pending_wakes : m.id \in ids}
           t == [s EXCEPT !.pending_wakes = @ \ doomed]
<1>1. Alike(s, t) BY DEF Alike, Fields
<1> HIDE DEF t
<1>2. Alike(t, Answer(t, MsgsOf(doomed), "Refused")) BY <1>1, AnswerAlike DEF Alike
<1> QED BY <1>1, <1>2, AlikeTrans DEF reject_pending_wakes_for_ids, t

LEMMA ResolveWaitersAlike ==
  ASSUME NEW s, NEW ids, DOMAIN s = Fields
  PROVE  Alike(s, resolve_waiters(s, ids))
BY DEF resolve_waiters, Alike, Fields

LEMMA TeardownDrainAlike ==
  ASSUME NEW s, NEW ps, DOMAIN s = Fields
  PROVE  /\ Alike(s, clear_teardown_drain(s, ps))
         /\ Alike(s, resolve_teardown_drain_waiters(s, ps))
BY DEF resolve_teardown_drain_waiters, clear_teardown_drain, Alike, Fields

LEMMA WorkflowCancelAlike ==
  ASSUME NEW s, NEW rs, DOMAIN s = Fields
  PROVE  Alike(s, resolve_workflow_cancel_waiters(s, rs))
BY DEF resolve_workflow_cancel_waiters, Alike, Fields

(* A new map of completed records changes nothing that runs.               *)
LEMMA CompletedLoad ==
  ASSUME NEW s, NEW t, Shaped(s), DOMAIN t = Fields,
         t.queued = s.queued, t.pending = s.pending, t.active = s.active,
         t.runs = s.runs, t.terminal_outputs = s.terminal_outputs,
         t.spawn_blocked_sessions \subseteq s.spawn_blocked_sessions,
         \A id \in DOMAIN t.completed : id \in Ids /\ HasReq(t.completed[id])
  PROVE  Load(s, t)
<1>1. Shaped(t) BY DEF Shaped
<1>2. \A p : session_running(t, p) = session_running(s, p)
      BY DEF session_running, InSession
<1> QED BY <1>1, <1>2 DEF Load, SameEntry

(* Filing children that left as completed.                                 *)
LEMMA FileLoad ==
  ASSUME NEW s, NEW recs, NEW seq, Shaped(s),
         \A id \in DOMAIN recs : id \in Ids /\ recs[id].req \in Request
  PROVE  /\ Load(s, file_completions(s, recs, seq))
         /\ file_completions(s, recs, seq).queued = s.queued
         /\ file_completions(s, recs, seq).pending = s.pending
         /\ DOMAIN file_completions(s, recs, seq).completed
              = DOMAIN s.completed \cup DOMAIN recs
<1> DEFINE ids == DOMAIN recs
           age(id) == s.next_completion_age + IndexIn(seq, id) - 1
           buffered == buffer_completion(s, [id \in ids |-> recs[id].req], seq)
           w == resolve_waiters(s, ids)
           done == [id \in ids |->
                      [req |-> recs[id].req, age |-> age(id), published |-> FALSE,
                       address |-> recs[id].address, started |-> recs[id].started]]
           filed == [w EXCEPT
             !.caller = [id \in Ids |->
                           IF id \in ids /\ recs[id].reply /\ s.caller[id] = "listening"
                           THEN "answered" ELSE s.caller[id]],
             !.pending_completions = purge_completions_for_spawner(buffered, ids),
             !.completed = Overlay(@, done),
             !.completed_order = @ \o seq,
             !.next_completion_age = @ + Len(seq),
             !.publications = @ \cup
                {[id |-> id, age |-> age(id), stage |-> "presenting"] : id \in ids}]
           cancels == resolve_workflow_cancel_waiters(filed,
                        {recs[id].req.workflow : id \in ids})
           last == resolve_teardown_drain_waiters(cancels, {recs[id].req.session : id \in ids})
<1>1. Alike(s, w) BY ResolveWaitersAlike DEF Shaped
<1>2. DOMAIN done = ids /\ \A id \in ids : id \in Ids /\ HasReq(done[id]) BY DEF HasReq
<1> HIDE DEF w, done
<1>3. /\ DOMAIN filed = Fields
      /\ filed.queued = w.queued /\ filed.pending = w.pending /\ filed.active = w.active
      /\ filed.runs = w.runs /\ filed.terminal_outputs = w.terminal_outputs
      /\ filed.spawn_blocked_sessions = w.spawn_blocked_sessions
      /\ filed.completed = Overlay(w.completed, done)
      BY <1>1 DEF Alike, Fields
<1> HIDE DEF filed
<1>4. \A id \in DOMAIN filed.completed : id \in Ids /\ HasReq(filed.completed[id])
      BY <1>1, <1>2, <1>3 DEF Overlay, Alike, Shaped
<1>5. Load(s, filed) BY <1>1, <1>3, <1>4, CompletedLoad DEF Alike
<1>6. Alike(filed, cancels) BY <1>3, WorkflowCancelAlike
<1> HIDE DEF cancels
<1>7. Alike(cancels, last) BY <1>6, TeardownDrainAlike DEF Alike
<1>8. Alike(filed, last) BY <1>6, <1>7, AlikeTrans
<1>9. file_completions(s, recs, seq) = last
      BY DEF file_completions, last, cancels, filed, w, done
<1> HIDE DEF last
<1>10. Load(filed, last) BY <1>5, <1>8, AlikeLoad DEF Load
<1>11. Load(s, last) BY <1>5, <1>10, LoadTrans
<1>12. last.queued = s.queued /\ last.pending = s.pending
       BY <1>1, <1>3, <1>8 DEF Alike
<1>13. DOMAIN last.completed = DOMAIN s.completed \cup ids
       BY <1>1, <1>2, <1>3, <1>8 DEF Alike, Overlay
<1> QED BY <1>9, <1>11, <1>12, <1>13

(* Putting displaced records back.                                         *)
LEMMA RestoreLoad ==
  ASSUME NEW s, NEW displaced, NEW now, Shaped(s),
         \A id \in DOMAIN displaced : id \in Ids /\ HasReq(displaced[id])
  PROVE  /\ Load(s, restore_displaced_completion(s, displaced, now))
         /\ restore_displaced_completion(s, displaced, now).queued = s.queued
         /\ restore_displaced_completion(s, displaced, now).pending = s.pending
         /\ DOMAIN s.completed
              \subseteq DOMAIN restore_displaced_completion(s, displaced, now).completed
<1> DEFINE ids == DOMAIN displaced
           kept == {id \in ids : retained(displaced[id].age, now[id])}
           all == Overlay(s.completed, [id \in kept |-> displaced[id]])
           w == resolve_waiters(s, ids)
           t == [w EXCEPT !.completed = all,
                          !.completed_order = reinsert(@, all, kept),
                          !.graph = Without(@, ids \ kept)]
<1>1. Alike(s, w) BY ResolveWaitersAlike DEF Shaped
<1>2. restore_displaced_completion(s, displaced, now) = t
      BY DEF restore_displaced_completion
<1>3. kept \subseteq ids OBVIOUS
<1> HIDE DEF w, kept
<1>4. /\ \A id \in DOMAIN all : id \in Ids /\ HasReq(all[id])
      /\ DOMAIN s.completed \subseteq DOMAIN all
      BY <1>3 DEF Overlay, Shaped
<1> HIDE DEF all
<1>5. /\ DOMAIN t = Fields
      /\ t.queued = w.queued /\ t.pending = w.pending /\ t.active = w.active
      /\ t.runs = w.runs /\ t.terminal_outputs = w.terminal_outputs
      /\ t.spawn_blocked_sessions = w.spawn_blocked_sessions
      /\ t.completed = all
      BY <1>1 DEF Alike, Fields
<1> HIDE DEF t
<1>6. Load(s, t) BY <1>1, <1>4, <1>5, CompletedLoad DEF Alike
<1> QED BY <1>1, <1>2, <1>4, <1>5, <1>6 DEF Alike

(* Entries that left the queue and end without starting.                   *)
LEMMA FinishCancelledLoad ==
  ASSUME NEW s, NEW entries, Shaped(s),
         \A id \in DOMAIN entries : id \in Ids /\ Entry(entries[id])
  PROVE  /\ Load(s, finish_cancelled_queued(s, entries))
         /\ finish_cancelled_queued(s, entries).queued = s.queued
         /\ finish_cancelled_queued(s, entries).pending = s.pending
         /\ DOMAIN s.completed \cup {id \in DOMAIN entries : entries[id].wake = None}
              \subseteq DOMAIN finish_cancelled_queued(s, entries).completed
<1> DEFINE wakes == {id \in DOMAIN entries : entries[id].wake # None}
           spawns == DOMAIN entries \ wakes
           earlier(id) == {x \in spawns : entries[x].queued_at < entries[id].queued_at}
           displaced == [id \in wakes |-> entries[id].wake]
           now == [id \in wakes |-> s.next_completion_age + Cardinality(earlier(id))]
           restored == restore_displaced_completion(s, displaced, now)
           told == reject_spawn_ready_ids(restored, spawns)
           recs == [id \in spawns |->
                      [req |-> entries[id].req, reply |-> entries[id].reply,
                       address |-> FALSE, started |-> FALSE]]
           last == file_completions(told, recs, InArrivalOrder(entries, spawns))
<1>1. finish_cancelled_queued(s, entries) = last BY DEF finish_cancelled_queued
<1>2. /\ DOMAIN displaced = wakes /\ DOMAIN recs = spawns
      /\ \A id \in wakes : id \in Ids /\ HasReq(displaced[id])
      /\ \A id \in spawns : id \in Ids /\ recs[id].req \in Request
      BY DEF Entry, HasReq, Displaced
<1>3. spawns = {id \in DOMAIN entries : entries[id].wake = None} OBVIOUS
<1> HIDE DEF wakes, spawns, displaced, now, recs
<1>4. /\ Load(s, restored)
      /\ restored.queued = s.queued /\ restored.pending = s.pending
      /\ DOMAIN s.completed \subseteq DOMAIN restored.completed
      BY <1>2, RestoreLoad
<1> HIDE DEF restored
<1>5. Alike(restored, told) BY <1>4, RejectSpawnReadyAlike DEF Load, Shaped
<1>6. Load(s, told)
  <2>1. Shaped(restored) BY <1>4 DEF Load
  <2>2. Load(restored, told) BY <1>5, <2>1, AlikeLoad
  <2> QED BY <1>4, <2>2, LoadTrans
<1> HIDE DEF told
<1>7. /\ Load(told, last)
      /\ last.queued = told.queued /\ last.pending = told.pending
      /\ DOMAIN last.completed = DOMAIN told.completed \cup spawns
      BY <1>2, <1>6, FileLoad DEF Load
<1> HIDE DEF last
<1>8. Load(s, last) BY <1>6, <1>7, LoadTrans
<1> QED BY <1>1, <1>3, <1>4, <1>5, <1>7, <1>8 DEF Alike

----------------------------------------------------------------------------
(* Offering free slots to the queue.                                       *)

(* The children a session runs when those of recs have become pending.     *)
LEMMA StartRunning ==
  ASSUME NEW s, NEW recs, DOMAIN s = Fields
  PROVE  LET t == start_children(s, recs) IN
         /\ DOMAIN t = Fields
         /\ t.queued = s.queued /\ t.active = s.active /\ t.completed = s.completed
         /\ t.terminal_outputs = s.terminal_outputs
         /\ t.spawn_blocked_sessions = s.spawn_blocked_sessions
         /\ t.runs = s.runs \cup DOMAIN recs
         /\ DOMAIN t.pending = DOMAIN s.pending \cup DOMAIN recs
         /\ \A id \in DOMAIN recs :
              /\ t.pending[id].req = recs[id].req
              /\ t.pending[id].wake = recs[id].wake
              /\ {"req", "wake"} \subseteq DOMAIN t.pending[id]
         /\ \A id \in DOMAIN s.pending \ DOMAIN recs : t.pending[id] = s.pending[id]
<1> DEFINE fresh == [id \in DOMAIN recs |-> fresh_pending(recs[id])]
           t == [s EXCEPT !.pending = Overlay(@, fresh), !.runs = @ \cup DOMAIN recs]
<1>1. /\ DOMAIN fresh = DOMAIN recs
      /\ \A id \in DOMAIN recs : /\ fresh[id].req = recs[id].req
                                 /\ fresh[id].wake = recs[id].wake
                                 /\ {"req", "wake"} \subseteq DOMAIN fresh[id]
      BY DEF fresh_pending
<1> HIDE DEF fresh
<1>2. /\ DOMAIN t = Fields
      /\ t.queued = s.queued /\ t.active = s.active /\ t.completed = s.completed
      /\ t.terminal_outputs = s.terminal_outputs
      /\ t.spawn_blocked_sessions = s.spawn_blocked_sessions
      /\ t.runs = s.runs \cup DOMAIN recs
      /\ t.pending = Overlay(s.pending, fresh)
      BY DEF Fields
<1>3. start_children(s, recs) = t BY DEF start_children, fresh
<1> HIDE DEF t
<1>4. /\ DOMAIN t.pending = DOMAIN s.pending \cup DOMAIN recs
      /\ \A id \in DOMAIN recs : t.pending[id] = fresh[id]
      /\ \A id \in DOMAIN s.pending \ DOMAIN recs : t.pending[id] = s.pending[id]
      BY <1>1, <1>2 DEF Overlay
<1> QED BY <1>1, <1>2, <1>3, <1>4

(* The live entries of a session and their times.                          *)
LiveOf(s, p) == {x \in live_queued(s) : s.queued[x].req.session = p}
TimesOf(s, p) == [x \in LiveOf(s, p) |-> s.queued[x].queued_at]

LEMMA LiveFacts ==
  ASSUME NEW s, Shaped(s), Distinct(s), NEW p
  PROVE  /\ IsFiniteSet(LiveOf(s, p)) /\ LiveOf(s, p) \subseteq DOMAIN s.queued
         /\ TimesOf(s, p) \in [LiveOf(s, p) -> Nat]
         /\ \A x, y \in LiveOf(s, p) : TimesOf(s, p)[x] = TimesOf(s, p)[y] => x = y
         /\ \A x \in LiveOf(s, p) : Ahead(LiveOf(s, p), TimesOf(s, p), x) = queued_ahead(s, x)
<1>1. LiveOf(s, p) \in SUBSET Ids /\ LiveOf(s, p) \subseteq DOMAIN s.queued
      BY DEF LiveOf, live_queued, Shaped
<1>2. IsFiniteSet(LiveOf(s, p)) BY <1>1, ConstantsAssumption, FS_Subset
<1>3. \A x \in LiveOf(s, p) : s.queued[x].queued_at \in Nat BY <1>1 DEF Shaped, Entry
<1>4. TimesOf(s, p) \in [LiveOf(s, p) -> Nat] BY <1>3 DEF TimesOf
<1>5. \A x, y \in LiveOf(s, p) : TimesOf(s, p)[x] = TimesOf(s, p)[y] => x = y
      BY <1>1 DEF TimesOf, Distinct
<1>6. \A x \in LiveOf(s, p) : Ahead(LiveOf(s, p), TimesOf(s, p), x) = queued_ahead(s, x)
      BY DEF Ahead, TimesOf, LiveOf, queued_ahead
<1> QED BY <1>1, <1>2, <1>4, <1>5, <1>6

(* The entries that start.                                                 *)
Starting(s) ==
  {id \in live_queued(s) :
     has_capacity(session_running_count(s, s.queued[id].req.session)
                    + Cardinality(queued_ahead(s, id)))}

LEMMA StartingFits ==
  ASSUME NEW s, Shaped(s), Distinct(s), NEW p
  PROVE  {x \in Starting(s) : s.queued[x].req.session = p}
           = Fitting(LiveOf(s, p), TimesOf(s, p), Cardinality(session_running(s, p)),
                     MaxConcurrent)
<1>1. \A x \in LiveOf(s, p) : Ahead(LiveOf(s, p), TimesOf(s, p), x) = queued_ahead(s, x)
      BY LiveFacts
<1> QED BY <1>1 DEF Starting, Fitting, LiveOf, session_running_count, has_capacity

LEMMA StartQueuedGoes ==
  ASSUME NEW s, Sound(s), NEW X, Apart(s, X)
  PROVE  /\ Goes(s, start_queued_within_capacity(s))
         /\ Full(start_queued_within_capacity(s))
         /\ \A id : Known(s, id) => Known(start_queued_within_capacity(s), id)
<1> DEFINE live == live_queued(s)
           starting == Starting(s)
           cancelled == DOMAIN s.queued \ live
           out == [s EXCEPT !.queued = Without(@, starting \cup cancelled)]
           go == Restrict(s.queued, starting)
           end == Restrict(s.queued, cancelled)
           t == start_children(out, go)
           u == finish_cancelled_queued(t, end)
<1>1. start_queued_within_capacity(s) = u BY DEF start_queued_within_capacity, Starting
<1>2. live \subseteq DOMAIN s.queued /\ starting \subseteq live
      BY DEF live_queued, Starting
<1>3. \A id \in live : ~s.queued[id].cancelled BY DEF live_queued
<1>4. \A id \in cancelled : s.queued[id].cancelled BY DEF live_queued
<1> HIDE DEF live, starting
<1>5. /\ DOMAIN go = starting /\ \A id \in starting : go[id] = s.queued[id]
      /\ DOMAIN end = cancelled /\ \A id \in cancelled : end[id] = s.queued[id]
      BY <1>2 DEF Restrict
<1>6. /\ DOMAIN out = Fields
      /\ out.pending = s.pending /\ out.active = s.active /\ out.completed = s.completed
      /\ out.runs = s.runs /\ out.terminal_outputs = s.terminal_outputs
      /\ out.spawn_blocked_sessions = s.spawn_blocked_sessions
      /\ out.queued = Without(s.queued, starting \cup cancelled)
      BY DEF Sound, Shaped, Fields
<1>7. /\ DOMAIN out.queued = live \ starting
      /\ \A id \in live \ starting : out.queued[id] = s.queued[id]
      BY <1>2, <1>6 DEF Without
<1> HIDE DEF out, go, end
<1>8. /\ DOMAIN t = Fields
      /\ t.queued = out.queued /\ t.active = s.active /\ t.completed = s.completed
      /\ t.terminal_outputs = s.terminal_outputs
      /\ t.spawn_blocked_sessions = s.spawn_blocked_sessions
      /\ t.runs = s.runs \cup starting
      /\ DOMAIN t.pending = DOMAIN s.pending \cup starting
      /\ \A id \in starting : /\ t.pending[id].req = s.queued[id].req
                              /\ t.pending[id].wake = s.queued[id].wake
                              /\ {"req", "wake"} \subseteq DOMAIN t.pending[id]
      /\ \A id \in DOMAIN s.pending \ starting : t.pending[id] = s.pending[id]
      BY <1>5, <1>6, StartRunning
<1> HIDE DEF t
<1>9. DOMAIN s.pending \cap starting = {} /\ DOMAIN s.active \cap starting = {}
      BY <1>2 DEF Apart
<1>10. Shaped(t)
  <2>1. \A id \in DOMAIN t.queued : id \in Ids /\ Entry(t.queued[id])
        BY <1>2, <1>7, <1>8 DEF Sound, Shaped
  <2>2. \A id \in DOMAIN t.pending :
          id \in Ids /\ HasReq(t.pending[id]) /\ Displaced(t.pending[id])
    <3> SUFFICES ASSUME NEW id \in DOMAIN t.pending
                 PROVE  id \in Ids /\ HasReq(t.pending[id]) /\ Displaced(t.pending[id])
        OBVIOUS
    <3>1. CASE id \in starting
      <4>1. id \in Ids /\ HasReq(s.queued[id]) /\ Displaced(s.queued[id])
            BY <1>2, <3>1 DEF Sound, Shaped, Entry
      <4> QED BY <1>8, <3>1, <4>1 DEF HasReq, Displaced
    <3>2. CASE id \notin starting BY <1>8, <3>2 DEF Sound, Shaped
    <3> QED BY <3>1, <3>2
  <2>3. \A id \in DOMAIN t.active :
          id \in Ids /\ HasReq(t.active[id]) /\ Displaced(t.active[id])
        BY <1>8 DEF Sound, Shaped
  <2>4. \A id \in DOMAIN t.completed : id \in Ids /\ HasReq(t.completed[id]) BY <1>8 DEF Sound, Shaped
  <2> QED BY <1>8, <2>1, <2>2, <2>3, <2>4 DEF Shaped
<1>11. \A p : session_running(t, p)
                = session_running(s, p) \cup {x \in starting : s.queued[x].req.session = p}
  <2> SUFFICES ASSUME NEW p
               PROVE  session_running(t, p) = session_running(s, p)
                        \cup {x \in starting : s.queued[x].req.session = p}
      OBVIOUS
  <2>1. \A x \in starting : s.queued[x].req.workflow = None
        BY <1>2 DEF Sound, Shaped, Entry
  <2>2. \A x : x \in session_running(t, p) <=>
                 \/ /\ x \in DOMAIN t.pending /\ t.pending[x].req.session = p
                    /\ t.pending[x].req.workflow = None
                 \/ /\ x \in DOMAIN t.active /\ t.active[x].req.session = p
                    /\ t.active[x].req.workflow = None
        BY DEF session_running, InSession
  <2>3. \A x : x \in session_running(s, p) <=>
                 \/ /\ x \in DOMAIN s.pending /\ s.pending[x].req.session = p
                    /\ s.pending[x].req.workflow = None
                 \/ /\ x \in DOMAIN s.active /\ s.active[x].req.session = p
                    /\ s.active[x].req.workflow = None
        BY DEF session_running, InSession
  <2>4. ASSUME NEW x
        PROVE  x \in session_running(t, p) <=>
                 \/ x \in session_running(s, p)
                 \/ x \in starting /\ s.queued[x].req.session = p
    <3>1. CASE x \in starting BY <1>8, <1>9, <2>1, <2>2, <2>3, <3>1
    <3>2. CASE x \notin starting BY <1>8, <2>2, <2>3, <3>2
    <3> QED BY <3>1, <3>2
  <2> QED BY <2>4
<1>12. /\ Load(t, u) /\ u.queued = t.queued /\ u.pending = t.pending
       /\ DOMAIN t.completed \cup {id \in cancelled : s.queued[id].wake = None}
            \subseteq DOMAIN u.completed
  <2>1. \A id \in DOMAIN end : id \in Ids /\ Entry(end[id]) BY <1>5 DEF Sound, Shaped
  <2>2. {id \in DOMAIN end : end[id].wake = None}
          = {id \in cancelled : s.queued[id].wake = None} BY <1>5
  <2>3. /\ Load(t, u) /\ u.queued = t.queued /\ u.pending = t.pending
        /\ DOMAIN t.completed \cup {id \in DOMAIN end : end[id].wake = None}
             \subseteq DOMAIN u.completed
        BY <1>10, <2>1, FinishCancelledLoad
  <2> QED BY <2>2, <2>3
<1>13. Distinct(t)
  <2>1. \A x \in DOMAIN t.queued : SameEntry(s, t, x) BY <1>2, <1>7, <1>8 DEF SameEntry
  <2> QED BY <2>1, SameDistinct DEF Sound
<1>14. Limited(t)
  <2> SUFFICES ASSUME NEW p PROVE session_running_count(t, p) <= MaxConcurrent
      BY DEF Limited
  <2> DEFINE R == session_running(s, p)
             F == Fitting(LiveOf(s, p), TimesOf(s, p), Cardinality(R), MaxConcurrent)
  <2>1. session_running(t, p) = R \cup F BY <1>11, StartingFits DEF Sound, starting
  <2>2. IsFiniteSet(R) /\ Cardinality(R) <= MaxConcurrent
        BY RunningFinite DEF Sound, Limited, session_running_count
  <2>3. /\ IsFiniteSet(LiveOf(s, p)) /\ TimesOf(s, p) \in [LiveOf(s, p) -> Nat]
        /\ \A x, y \in LiveOf(s, p) : TimesOf(s, p)[x] = TimesOf(s, p)[y] => x = y
        BY LiveFacts DEF Sound
  <2> HIDE DEF R
  <2>4. Cardinality(R \cup F) <= MaxConcurrent BY <2>2, <2>3, FittingLimited
  <2> QED BY <2>1, <2>4 DEF session_running_count
<1>15. Sound(t) BY <1>10, <1>13, <1>14 DEF Sound
<1>16. Full(t)
  <2> SUFFICES ASSUME NEW x \in DOMAIN t.queued
               PROVE  ~has_capacity(session_running_count(t, t.queued[x].req.session))
      BY DEF Full
  <2> DEFINE p == s.queued[x].req.session
             R == session_running(s, p)
             F == Fitting(LiveOf(s, p), TimesOf(s, p), Cardinality(R), MaxConcurrent)
  <2>1. x \in live \ starting /\ t.queued[x].req.session = p BY <1>7, <1>8
  <2>2. session_running(t, p) = R \cup F BY <1>11, StartingFits DEF Sound, starting
  <2>3. x \in LiveOf(s, p) BY <2>1 DEF LiveOf, live
  <2>4. x \notin F
    <3>1. x \notin {y \in starting : s.queued[y].req.session = p} BY <2>1
    <3> QED BY <3>1, StartingFits DEF Sound, starting
  <2>5. IsFiniteSet(R) BY RunningFinite DEF Sound
  <2>6. R \cap LiveOf(s, p) = {}
    <3>1. R \subseteq DOMAIN s.pending \cup DOMAIN s.active
          BY DEF session_running, InSession
    <3>2. LiveOf(s, p) \subseteq DOMAIN s.queued BY DEF LiveOf, live_queued
    <3> QED BY <3>1, <3>2 DEF Apart
  <2>7. IsFiniteSet(LiveOf(s, p)) /\ TimesOf(s, p) \in [LiveOf(s, p) -> Nat]
        BY LiveFacts DEF Sound
  <2> HIDE DEF R, p
  <2>8. ~has_capacity(Cardinality(R \cup F)) BY <2>3, <2>4, <2>5, <2>6, <2>7, FittingFull
  <2> QED BY <2>1, <2>2, <2>8 DEF session_running_count
<1>17. Moves(s, t, {}, {})
  <2>1. \A x \in DOMAIN t.queued : SameEntry(s, t, x) BY <1>2, <1>7, <1>8 DEF SameEntry
  <2>2. \A p : \A x \in session_running(t, p) :
          x \in session_running(s, p) \/ x \in InSession(s.queued, p)
        BY <1>2, <1>11 DEF InSession
  <2>3. ASSUME NEW x \in DOMAIN s.queued, NEW y \in DOMAIN s.queued, Before(s, x, y),
               y \in DOMAIN t.pending \ DOMAIN s.pending, x \in DOMAIN t.queued
        PROVE  FALSE
    <3> DEFINE p == s.queued[y].req.session
    <3>1. y \in starting /\ x \in live \ starting BY <1>7, <1>8, <2>3
    <3>2. x \in LiveOf(s, p) /\ y \in LiveOf(s, p)
          BY <1>2, <2>3, <3>1 DEF LiveOf, live, Before
    <3>3. TimesOf(s, p)[x] < TimesOf(s, p)[y] BY <2>3, <3>2 DEF TimesOf, Before
    <3>4. /\ IsFiniteSet(LiveOf(s, p)) /\ TimesOf(s, p) \in [LiveOf(s, p) -> Nat]
          /\ queued_ahead(s, x) = Ahead(LiveOf(s, p), TimesOf(s, p), x)
          /\ queued_ahead(s, y) = Ahead(LiveOf(s, p), TimesOf(s, p), y)
          BY <3>2, LiveFacts DEF Sound
    <3>5. Cardinality(queued_ahead(s, x)) < Cardinality(queued_ahead(s, y))
          /\ Cardinality(queued_ahead(s, x)) \in Nat
          /\ Cardinality(queued_ahead(s, y)) \in Nat
          BY <3>2, <3>3, <3>4, AheadFacts
    <3>6. session_running_count(s, p) \in Nat BY RunningFinite DEF Sound
    <3>7. session_running_count(s, p) + Cardinality(queued_ahead(s, y)) < MaxConcurrent
          BY <3>1 DEF starting, Starting, has_capacity
    <3>8. ~ (session_running_count(s, p) + Cardinality(queued_ahead(s, x)) < MaxConcurrent)
          BY <2>3, <3>1 DEF starting, Starting, has_capacity, live, Before
    <3> QED BY <3>5, <3>6, <3>7, <3>8, ConstantsAssumption
  <2>4. DOMAIN t.pending \subseteq DOMAIN s.pending \cup DOMAIN s.queued BY <1>2, <1>8
  <2> QED BY <2>1, <2>2, <2>3, <2>4 DEF Moves
<1>18. Polled(s) => Polled(t) BY <1>8, <1>9 DEF Polled
<1>19. Goes(s, t) BY <1>8, <1>15, <1>16, <1>17, <1>18 DEF Goes, Carries
<1>20. Goes(t, u) BY <1>12, <1>15, LoadGoes
<1>21. Goes(s, u) BY <1>19, <1>20, GoesTrans
<1>22. Full(u) BY <1>16, <1>20 DEF Goes, Carries
<1>23. \A id : Known(s, id) => Known(u, id)
  <2>1. \A id \in DOMAIN s.queued : s.queued[id].wake = None \/ ~s.queued[id].cancelled
        BY DEF Sound, Shaped, Entry
  <2>2. \A id \in DOMAIN s.queued : Known(u, id)
        BY <1>3, <1>4, <1>7, <1>8, <1>12, <2>1 DEF Known
  <2>3. DOMAIN u.active = DOMAIN s.active BY <1>8, <1>12 DEF Load
  <2> QED BY <1>8, <1>12, <2>2, <2>3 DEF Known
<1> QED BY <1>1, <1>21, <1>22, <1>23

(* Entries removed by a cancellation or a sweep.                           *)
LEMMA RemoveQueuedGoes ==
  ASSUME NEW s, Sound(s), NEW X, Apart(s, X), NEW ids
  PROVE  /\ Goes(s, remove_queued(s, ids))
         /\ DOMAIN remove_queued(s, ids).queued \cap ids = {}
         /\ (\A id \in ids \cap DOMAIN s.queued : s.queued[id].wake = None) =>
              \A id : Known(s, id) => Known(remove_queued(s, ids), id)
<1> DEFINE gone == Restrict(s.queued, ids \cap DOMAIN s.queued)
           D == DOMAIN gone
           out == [s EXCEPT !.queued = Without(@, D)]
           told == reject_spawn_ready_ids(out, D)
           ended == finish_cancelled_queued(told, gone)
           last == start_queued_within_capacity(ended)
<1>1. remove_queued(s, ids) = IF \E id \in D : gone[id].wake = None THEN last ELSE ended
      BY DEF remove_queued
<1>2. D = ids \cap DOMAIN s.queued /\ \A id \in D : gone[id] = s.queued[id]
      BY DEF Restrict
<1>3. Apart(out, X \cup D) BY <1>2, DequeueApart
<1>4. SameHomes(out, told) BY <1>3, RejectSpawnReadySame DEF Apart
<1>5. Apart(told, X \cup D) BY <1>3, <1>4 DEF Apart, SameHomes
<1>6. Apart(ended, (X \cup D) \ D) BY <1>5, FinishCancelledApart
<1> HIDE DEF gone
<1>7. /\ DOMAIN out = Fields
      /\ out.pending = s.pending /\ out.active = s.active /\ out.completed = s.completed
      /\ out.runs = s.runs /\ out.terminal_outputs = s.terminal_outputs
      /\ out.spawn_blocked_sessions = s.spawn_blocked_sessions
      /\ out.queued = Without(s.queued, D)
      BY DEF Sound, Shaped, Fields
<1>8. /\ DOMAIN out.queued = DOMAIN s.queued \ D
      /\ \A id \in DOMAIN out.queued : out.queued[id] = s.queued[id]
      BY <1>7 DEF Without
<1> HIDE DEF out
<1>9. Load(s, out)
  <2>1. Shaped(out) BY <1>7, <1>8 DEF Sound, Shaped
  <2>2. \A p : session_running(out, p) = session_running(s, p)
        BY <1>7 DEF session_running, InSession
  <2>3. \A x \in DOMAIN out.queued : SameEntry(s, out, x) BY <1>8 DEF SameEntry
  <2> QED BY <1>7, <2>1, <2>2, <2>3 DEF Load
<1>10. Alike(out, told) BY <1>7, RejectSpawnReadyAlike
<1>11. Load(out, told) BY <1>9, <1>10, AlikeLoad DEF Load
<1>12. Load(s, told) BY <1>9, <1>11, LoadTrans
<1> HIDE DEF told
<1>13. /\ Load(told, ended) /\ ended.queued = told.queued
       /\ DOMAIN told.completed \cup {id \in D : gone[id].wake = None}
            \subseteq DOMAIN ended.completed
  <2>1. \A id \in DOMAIN gone : id \in Ids /\ Entry(gone[id]) BY <1>2 DEF Sound, Shaped
  <2>2. Shaped(told) BY <1>12 DEF Load
  <2> QED BY <2>1, <2>2, FinishCancelledLoad
<1>14. Load(s, ended) BY <1>12, <1>13, LoadTrans
<1>15. Goes(s, ended) BY <1>14, LoadGoes
<1> HIDE DEF ended
<1>16. /\ Goes(ended, last) /\ \A id : Known(ended, id) => Known(last, id)
       BY <1>6, <1>15, StartQueuedGoes DEF Goes, Carries
<1> HIDE DEF last
<1>17. Goes(s, last) BY <1>15, <1>16, GoesTrans
<1>18. DOMAIN ended.queued \cap ids = {} BY <1>2, <1>8, <1>10, <1>13 DEF Alike
<1>19. DOMAIN last.queued \subseteq DOMAIN ended.queued
       BY <1>16 DEF Goes, Carries, Moves, SameEntry
<1>20. ASSUME \A id \in ids \cap DOMAIN s.queued : s.queued[id].wake = None
       PROVE  \A id : Known(s, id) => Known(ended, id)
  <2>1. {id \in D : gone[id].wake = None} = D BY <1>2, <1>20
  <2>2. DOMAIN ended.completed = DOMAIN ended.completed \cup DOMAIN told.completed \cup D
        BY <1>13, <2>1
  <2>3. DOMAIN ended.queued = DOMAIN s.queued \ D BY <1>8, <1>10, <1>13 DEF Alike
  <2>4. told.completed = s.completed BY <1>7, <1>10 DEF Alike
  <2>5. DOMAIN ended.pending = DOMAIN s.pending /\ DOMAIN ended.active = DOMAIN s.active
        BY <1>14 DEF Load
  <2> QED BY <2>2, <2>3, <2>4, <2>5 DEF Known
<1> QED BY <1>1, <1>15, <1>16, <1>17, <1>18, <1>19, <1>20

----------------------------------------------------------------------------
(* The end of a child.                                                     *)

(* The run of id has ended, and its output is not held back.               *)
Ending(s, id) ==
  /\ s.runs = (DOMAIN s.pending \cup (DOMAIN s.active \ DOMAIN s.terminal_outputs)) \ {id}
  /\ DOMAIN s.terminal_outputs \subseteq DOMAIN s.active \ {id}

LEMMA FinishChildCarries ==
  ASSUME NEW s, NEW id, NEW success, Sound(s), Apart(s, {})
  PROVE  /\ Carries(s, finish_child(s, id, success))
         /\ Ending(s, id) => Polled(finish_child(s, id, success))
<1> DEFINE rejected == reject_spawn_ready_ids(s, {id})
           rec == IF id \in DOMAIN s.active THEN s.active[id] ELSE s.pending[id]
           left == [rejected EXCEPT !.active = Without(@, {id}),
                                    !.pending = Without(@, {id})]
           displaced == [x \in {id} |-> rec.wake]
           now == [x \in {id} |-> s.next_completion_age]
           restored == restore_displaced_completion(left, displaced, now)
           resumed == resolve_teardown_drain_waiters(restored, {rec.wake.req.session})
           recs == [x \in {id} |->
                      [req |-> rec.req, reply |-> rec.reply,
                       address |-> rec.req.workflow = None,
                       started |-> id \in DOMAIN s.active]]
           filed == file_completions(left, recs, <<id>>)
           middle == IF ~success /\ rec.wake # None THEN resumed ELSE filed
           last == start_queued_within_capacity(middle)
<1>1. finish_child(s, id, success) =
        IF id \notin DOMAIN s.active \cup DOMAIN s.pending THEN rejected ELSE last
      BY DEF finish_child
<1>2. Alike(s, rejected) BY RejectSpawnReadyAlike DEF Sound, Shaped
<1>3. SameHomes(s, rejected) BY RejectSpawnReadySame DEF Apart
<1>4. /\ DOMAIN displaced = {id} /\ displaced[id] = rec.wake
      /\ DOMAIN recs = {id} /\ recs[id].req = rec.req
      OBVIOUS
<1>5. CASE id \notin DOMAIN s.active \cup DOMAIN s.pending
  <2>1. Goes(s, rejected) BY <1>2, AlikeLoad, LoadGoes DEF Sound
  <2>2. Ending(s, id) => Polled(rejected) BY <1>2, <1>5 DEF Alike, Ending, Polled
  <2> QED BY <1>1, <1>5, <2>1, <2>2 DEF Goes
<1>6. CASE id \in DOMAIN s.active \cup DOMAIN s.pending
  <2>1. HasReq(rec) /\ Displaced(rec) /\ id \in Ids BY <1>6 DEF Sound, Shaped
  <2> HIDE DEF rejected, rec, displaced, now, recs
  <2>2. /\ DOMAIN left = Fields
        /\ left.queued = s.queued /\ left.completed = s.completed
        /\ left.active = Without(s.active, {id})
        /\ left.pending = Without(s.pending, {id})
        /\ left.runs = s.runs /\ left.terminal_outputs = s.terminal_outputs
        /\ left.spawn_blocked_sessions \subseteq s.spawn_blocked_sessions
        BY <1>2 DEF Alike, Fields
  <2>3. /\ DOMAIN left.active = DOMAIN s.active \ {id}
        /\ DOMAIN left.pending = DOMAIN s.pending \ {id}
        /\ \A x \in DOMAIN left.active : left.active[x] = s.active[x]
        /\ \A x \in DOMAIN left.pending : left.pending[x] = s.pending[x]
        BY <2>2 DEF Without
  <2>4. Apart(left, {id})
    <3>1. Held(left) BY <1>3 DEF Held, Fields, SameHomes, Apart
    <3> HIDE DEF left
    <3> QED BY <1>6, <2>2, <2>3, <3>1 DEF Apart
  <2> HIDE DEF left
  <2>5. Shaped(left) BY <2>2, <2>3 DEF Sound, Shaped
  <2>6. \A p : session_running(left, p) \subseteq session_running(s, p)
        BY <2>3 DEF session_running, InSession
  <2>7. Sound(left)
    <3>1. Limited(left) BY <2>5, <2>6, FewerLimited DEF Sound
    <3>2. Distinct(left) BY <2>2 DEF Sound, Distinct
    <3> QED BY <2>5, <3>1, <3>2 DEF Sound
  <2>8. Moves(s, left, {}, {}) BY <2>2, <2>3, <2>6 DEF Moves, SameEntry
  <2>9. Ending(s, id) => Polled(left) BY <2>2, <2>3 DEF Ending, Polled
  <2>10. Load(left, middle) /\ Apart(middle, {})
    <3>1. CASE ~success /\ rec.wake # None
      <4>1. \A x \in DOMAIN displaced : x \in Ids /\ HasReq(displaced[x])
            BY <1>4, <2>1, <3>1 DEF Displaced
      <4>2. Load(left, restored) BY <2>5, <4>1, RestoreLoad
      <4>3. Apart(restored, {}) BY <1>4, <2>4, RestoreApart
      <4> HIDE DEF restored
      <4>4. Alike(restored, resumed) BY <4>2, TeardownDrainAlike DEF Load, Shaped
      <4>5. Load(restored, resumed) BY <4>2, <4>4, AlikeLoad DEF Load
      <4>6. SameHomes(restored, resumed) BY <4>3, TeardownDrainSame DEF Apart
      <4>7. Apart(resumed, {}) BY <4>3, <4>6, SameApart
      <4> QED BY <3>1, <4>2, <4>5, <4>7, LoadTrans
    <3>2. CASE ~(~success /\ rec.wake # None)
      <4>1. Load(left, filed) BY <1>4, <2>1, <2>5, FileLoad DEF HasReq
      <4>2. Apart(filed, {}) BY <1>4, <2>4, FileApart
      <4> QED BY <3>2, <4>1, <4>2
    <3> QED BY <3>1, <3>2
  <2> HIDE DEF middle
  <2>11. Goes(left, middle) BY <2>7, <2>10, LoadGoes
  <2>12. Goes(middle, last) /\ Full(last)
         BY <2>10, <2>11, StartQueuedGoes DEF Goes, Carries
  <2> HIDE DEF last
  <2>13. Goes(left, last) BY <2>11, <2>12, GoesTrans
  <2>14. Moves(s, last, {}, {})
    <3>1. Moves(s, last, {} \cup {}, {}) BY <2>8, <2>13, MovesTrans DEF Goes, Carries
    <3>2. {} \cup {} = {} OBVIOUS
    <3> QED BY <3>1, <3>2
  <2>15. Carries(s, last) BY <2>2, <2>12, <2>13, <2>14 DEF Goes, Carries
  <2> QED BY <1>1, <1>6, <2>9, <2>13, <2>15 DEF Goes
<1> QED BY <1>5, <1>6

----------------------------------------------------------------------------
(* Methods that only write flags of records.                               *)

(* g has the records of f, with the same session and workflow run.         *)
SameReqs(f, g) ==
  /\ DOMAIN g = DOMAIN f
  /\ \A id \in DOMAIN f :
       /\ HasReq(g[id]) /\ Displaced(g[id])
       /\ g[id].req.session = f[id].req.session
       /\ g[id].req.workflow = f[id].req.workflow

SameEntries(f, g) ==
  /\ DOMAIN g = DOMAIN f
  /\ \A id \in DOMAIN f :
       /\ Entry(g[id])
       /\ g[id].req.session = f[id].req.session
       /\ g[id].queued_at = f[id].queued_at

LEMMA RecordsLoad ==
  ASSUME NEW s, NEW t, Shaped(s), DOMAIN t = Fields,
         SameEntries(s.queued, t.queued), SameReqs(s.pending, t.pending),
         SameReqs(s.active, t.active), t.completed = s.completed, t.runs = s.runs,
         DOMAIN t.terminal_outputs = DOMAIN s.terminal_outputs,
         t.spawn_blocked_sessions \subseteq s.spawn_blocked_sessions
  PROVE  Load(s, t)
<1>1. Shaped(t) BY DEF Shaped, SameEntries, SameReqs
<1>2. \A p : session_running(t, p) = session_running(s, p)
  <2> SUFFICES ASSUME NEW p PROVE session_running(t, p) = session_running(s, p) OBVIOUS
  <2>1. \A x : x \in DOMAIN t.pending <=> x \in DOMAIN s.pending BY DEF SameReqs
  <2>2. \A x : x \in DOMAIN t.active <=> x \in DOMAIN s.active BY DEF SameReqs
  <2> QED BY <2>1, <2>2 DEF session_running, InSession, SameReqs
<1>3. \A x \in DOMAIN t.queued : SameEntry(s, t, x) BY DEF SameEntries, SameEntry
<1> QED BY <1>1, <1>2, <1>3 DEF Load, SameReqs

(* The maps as they are have the same records.                             *)
LEMMA SameMaps ==
  ASSUME NEW s, Shaped(s)
  PROVE  /\ SameEntries(s.queued, s.queued)
         /\ SameReqs(s.pending, s.pending)
         /\ SameReqs(s.active, s.active)
BY DEF Shaped, SameEntries, SameReqs

(* A map of which one record changed in fields other than these.           *)
LEMMA OneRecord ==
  ASSUME NEW f, NEW g, NEW id, SameReqs(f, f), DOMAIN g = DOMAIN f,
         \A x \in DOMAIN f \ {id} : g[x] = f[x],
         id \in DOMAIN f => /\ HasReq(g[id]) /\ Displaced(g[id])
                            /\ g[id].req.session = f[id].req.session
                            /\ g[id].req.workflow = f[id].req.workflow
  PROVE  SameReqs(f, g)
BY DEF SameReqs

LEMMA TerminalizationCarries ==
  ASSUME NEW s, NEW id, NEW success, Sound(s), Apart(s, {})
  PROVE  /\ Carries(s, begin_terminalization(s, id, success))
         /\ Ending(s, id) => Polled(begin_terminalization(s, id, success))
<1> DEFINE child == s.active[id]
           closing == [s EXCEPT !.active[id].finalizing = TRUE]
           held == [closing EXCEPT !.terminal_outputs = Put(@, id, success)]
           ended == finish_terminalized_child(closing, id, success, child.clean)
<1>1. begin_terminalization(s, id, success)
        = CASE id \notin DOMAIN s.active -> finish_child(s, id, success)
            [] id \in DOMAIN s.active /\ child.in_flight = 0 -> ended
            [] OTHER -> held
      BY DEF begin_terminalization
<1>2. /\ Carries(s, finish_child(s, id, success))
      /\ Ending(s, id) => Polled(finish_child(s, id, success))
      BY FinishChildCarries
<1>3. SameHomes(s, closing) BY DEF Apart, SameHomes, Fields, Held
<1>4. Apart(closing, {}) BY <1>3, SameApart
<1>5. /\ DOMAIN closing = Fields
      /\ closing.queued = s.queued /\ closing.pending = s.pending
      /\ closing.completed = s.completed /\ closing.runs = s.runs
      /\ closing.terminal_outputs = s.terminal_outputs
      /\ closing.spawn_blocked_sessions = s.spawn_blocked_sessions
      /\ closing.active = [s.active EXCEPT ![id].finalizing = TRUE]
      BY DEF Sound, Shaped, Fields
<1> HIDE DEF closing
<1>6. SameReqs(s.active, closing.active)
  <2>1. SameReqs(s.active, s.active) BY SameMaps DEF Sound
  <2>2. /\ DOMAIN closing.active = DOMAIN s.active
        /\ \A x \in DOMAIN s.active \ {id} : closing.active[x] = s.active[x]
        /\ id \in DOMAIN s.active =>
             closing.active[id] = [s.active[id] EXCEPT !.finalizing = TRUE]
        BY <1>5
  <2>3. id \in DOMAIN s.active => HasReq(s.active[id]) /\ Displaced(s.active[id])
        BY DEF Sound, Shaped
  <2>4. id \in DOMAIN s.active =>
          /\ HasReq(closing.active[id]) /\ Displaced(closing.active[id])
          /\ closing.active[id].req.session = s.active[id].req.session
          /\ closing.active[id].req.workflow = s.active[id].req.workflow
        BY <2>2, <2>3 DEF HasReq, Displaced
  <2> QED BY <2>1, <2>2, <2>4, OneRecord
<1>7. Load(s, closing)
  <2>1. SameEntries(s.queued, s.queued) /\ SameReqs(s.pending, s.pending)
        BY SameMaps DEF Sound
  <2> QED BY <1>5, <1>6, <2>1, RecordsLoad DEF Sound
<1>8. Goes(s, closing) BY <1>7, LoadGoes
<1>9. /\ Carries(closing, ended) /\ (Ending(closing, id) => Polled(ended))
      BY <1>4, <1>8, FinishChildCarries DEF Goes, Carries, finish_terminalized_child
<1>10. Carries(s, ended) BY <1>8, <1>9, CarriesTrans DEF Goes
<1>11. Ending(s, id) => Ending(closing, id) BY <1>5, <1>6 DEF Ending, SameReqs
<1>12. /\ DOMAIN held = Fields
       /\ held.queued = closing.queued /\ held.pending = closing.pending
       /\ held.active = closing.active /\ held.completed = closing.completed
       /\ held.runs = closing.runs
       /\ held.spawn_blocked_sessions = closing.spawn_blocked_sessions
       /\ held.terminal_outputs = Put(closing.terminal_outputs, id, success)
       BY <1>5 DEF Fields
<1> HIDE DEF held, ended
<1>13. DOMAIN held.terminal_outputs = DOMAIN s.terminal_outputs \cup {id}
       BY <1>5, <1>12 DEF Put
<1>14. Carries(closing, held)
  <2>1. Shaped(held) BY <1>7, <1>12 DEF Load, Shaped
  <2>2. \A p : session_running(held, p) = session_running(closing, p)
        BY <1>12 DEF session_running, InSession
  <2>3. Sound(closing) BY <1>8 DEF Goes, Carries
  <2>4. Limited(held) BY <2>1, <2>2, <2>3, FewerLimited DEF Sound
  <2>5. Distinct(held) BY <1>12, <2>3 DEF Sound, Distinct
  <2>6. Moves(closing, held, {}, {}) BY <1>12, <2>2 DEF Moves, SameEntry
  <2>7. Full(closing) => Full(held)
        BY <1>12, <2>2 DEF Full, session_running_count
  <2> QED BY <1>12, <2>1, <2>4, <2>5, <2>6, <2>7 DEF Carries, Sound
<1>15. Carries(s, held) BY <1>8, <1>14, CarriesTrans DEF Goes
<1>16. id \in DOMAIN s.active /\ Ending(s, id) => Polled(held)
  <2> SUFFICES ASSUME id \in DOMAIN s.active, Ending(s, id) PROVE Polled(held) OBVIOUS
  <2>1. id \notin DOMAIN s.pending BY DEF Apart
  <2>2. DOMAIN held.active = DOMAIN s.active /\ DOMAIN held.pending = DOMAIN s.pending
        /\ held.runs = s.runs
        BY <1>5, <1>6, <1>12 DEF SameReqs
  <2> QED BY <1>13, <2>1, <2>2 DEF Ending, Polled
<1> QED BY <1>1, <1>2, <1>9, <1>10, <1>11, <1>15, <1>16

(* Admitting messages counts them at their child.                          *)
LEMMA AdmitMessagesLoad ==
  ASSUME NEW s, NEW id, NEW msgs, Shaped(s)
  PROVE  Load(s, admit_active_messages(s, id, msgs))
<1> DEFINE child == s.active[id]
           ahead(m) == {x \in msgs : x.msg < m.msg}
           taken == {m \in msgs : admissible(child, Cardinality(ahead(m)))}
           t == [s EXCEPT
                !.active[id] = begin_admissions(@, Cardinality(taken)),
                !.active_messages = @ \cup
                   {[msg |-> m.msg, id |-> id, generation |-> child.generation] : m \in taken}]
           u == Answer(t, MsgsOf(msgs \ taken), "Refused")
<1>1. admit_active_messages(s, id, msgs) = IF msgs = {} THEN s ELSE u
      BY DEF admit_active_messages
<1>2. Load(s, s) BY AlikeLoad DEF Shaped, Alike
<1>3. /\ DOMAIN t = Fields
      /\ t.queued = s.queued /\ t.pending = s.pending /\ t.completed = s.completed
      /\ t.runs = s.runs /\ t.terminal_outputs = s.terminal_outputs
      /\ t.spawn_blocked_sessions = s.spawn_blocked_sessions
      /\ t.active = [s.active EXCEPT ![id] = begin_admissions(@, Cardinality(taken))]
      BY DEF Shaped, Fields
<1> HIDE DEF t, taken
<1>4. SameReqs(s.active, t.active)
  <2>1. SameReqs(s.active, s.active) BY SameMaps
  <2>2. /\ DOMAIN t.active = DOMAIN s.active
        /\ \A x \in DOMAIN s.active \ {id} : t.active[x] = s.active[x]
        /\ id \in DOMAIN s.active =>
             t.active[id] = [s.active[id] EXCEPT !.in_flight = @ + Cardinality(taken)]
        BY <1>3 DEF begin_admissions
  <2>3. id \in DOMAIN s.active => HasReq(s.active[id]) /\ Displaced(s.active[id])
        BY DEF Shaped
  <2>4. id \in DOMAIN s.active =>
          /\ HasReq(t.active[id]) /\ Displaced(t.active[id])
          /\ t.active[id].req.session = s.active[id].req.session
          /\ t.active[id].req.workflow = s.active[id].req.workflow
        BY <2>2, <2>3 DEF HasReq, Displaced
  <2> QED BY <2>1, <2>2, <2>4, OneRecord
<1>5. Load(s, t)
  <2>1. SameEntries(s.queued, s.queued) /\ SameReqs(s.pending, s.pending) BY SameMaps
  <2> QED BY <1>3, <1>4, <2>1, RecordsLoad
<1>6. Alike(t, u) BY <1>3, AnswerAlike
<1>7. Load(t, u) BY <1>5, <1>6, AlikeLoad DEF Load
<1> QED BY <1>1, <1>2, <1>5, <1>7, LoadTrans

LEMMA AdmitSpawnReadyLoad ==
  ASSUME NEW s, NEW id, Shaped(s)
  PROVE  Load(s, admit_spawn_ready_messages(s, id))
<1> DEFINE parked == {m \in s.spawn_ready : m.id = id}
           initial == {m \in parked : m.initial}
           t == [s EXCEPT !.spawn_ready = @ \ parked]
           u == Answer(t, MsgsOf(initial), "Accepted")
<1>1. admit_spawn_ready_messages(s, id) = admit_active_messages(u, id, parked \ initial)
      BY DEF admit_spawn_ready_messages
<1>2. Alike(s, t) BY DEF Shaped, Alike, Fields
<1> HIDE DEF t
<1>3. Alike(t, u) BY <1>2, AnswerAlike DEF Alike
<1> HIDE DEF u
<1>4. Load(s, u) BY <1>2, <1>3, AlikeTrans, AlikeLoad
<1>5. Load(u, admit_active_messages(u, id, parked \ initial))
      BY <1>4, AdmitMessagesLoad DEF Load
<1> QED BY <1>1, <1>4, <1>5, LoadTrans

----------------------------------------------------------------------------
(* Methods that let a child in.                                            *)

(* Only the children of N came in, none for a session that is stopped.     *)
Joins(s, t, N) ==
  /\ Sound(t)
  /\ Moves(s, t, N, t.spawn_blocked_sessions)
  /\ t.spawn_blocked_sessions \subseteq s.spawn_blocked_sessions
  /\ Full(s) => Full(t)
  /\ Polled(s) => Polled(t)
  /\ N \cap DOMAIN s.queued = {}

LEMMA MovesLess ==
  ASSUME NEW s, NEW t, NEW N, NEW B, NEW C, Moves(s, t, N, B),
         C \subseteq B \/ N = {}
  PROVE  Moves(s, t, N, C)
BY DEF Moves

LEMMA GoesIsJoins ==
  ASSUME NEW s, NEW t, Goes(s, t)
  PROVE  Joins(s, t, {})
<1>1. Moves(s, t, {}, t.spawn_blocked_sessions) BY MovesLess DEF Goes, Carries
<1> QED BY <1>1 DEF Goes, Carries, Joins

LEMMA JoinsThenGoes ==
  ASSUME NEW s, NEW t, NEW u, NEW N, Joins(s, t, N), Goes(t, u)
  PROVE  Joins(s, u, N)
<1> DEFINE B == u.spawn_blocked_sessions
<1>1. B \subseteq t.spawn_blocked_sessions BY DEF Goes, Carries
<1>2. Moves(s, t, N, B) BY <1>1, MovesLess DEF Joins
<1>3. Moves(t, u, {}, B) BY MovesLess DEF Goes, Carries
<1>4. Moves(s, u, N \cup {}, B) BY <1>2, <1>3, MovesTrans
<1>5. N \cup {} = N OBVIOUS
<1>6. Moves(s, u, N, B) BY <1>4, <1>5
<1> QED BY <1>1, <1>6 DEF Goes, Carries, Joins

LEMMA GoesThenJoins ==
  ASSUME NEW s, NEW t, NEW u, NEW N, Goes(s, t), Joins(t, u, N),
         N \cap DOMAIN s.queued = {}
  PROVE  Joins(s, u, N)
<1> DEFINE B == u.spawn_blocked_sessions
<1>1. Moves(s, t, {}, B) BY MovesLess DEF Goes, Carries
<1>2. Moves(t, u, N, B) BY DEF Joins
<1>3. Moves(s, u, {} \cup N, B) BY <1>1, <1>2, MovesTrans
<1>4. {} \cup N = N OBVIOUS
<1>5. Moves(s, u, N, B) BY <1>3, <1>4
<1> QED BY <1>5 DEF Goes, Carries, Joins

(* One more child is pending, within its session's limit.                  *)
LEMMA OneStarts ==
  ASSUME NEW s, NEW t, NEW id \in Ids, Sound(s), Apart(s, {}),
         DOMAIN t = Fields, t.queued = s.queued, t.active = s.active,
         \A x \in DOMAIN t.completed : x \in Ids /\ HasReq(t.completed[x]),
         t.terminal_outputs = s.terminal_outputs,
         t.spawn_blocked_sessions = s.spawn_blocked_sessions,
         t.runs = s.runs \cup {id},
         DOMAIN t.pending = DOMAIN s.pending \cup {id},
         \A x \in DOMAIN s.pending \ {id} : t.pending[x] = s.pending[x],
         HasReq(t.pending[id]), Displaced(t.pending[id]),
         id \notin DOMAIN s.queued \cup DOMAIN s.pending \cup DOMAIN s.active,
         t.pending[id].req.workflow = None =>
           /\ t.pending[id].req.session \notin s.spawn_blocked_sessions
           /\ has_capacity(session_running_count(s, t.pending[id].req.session))
  PROVE  Joins(s, t, {id})
<1> DEFINE req == t.pending[id].req
<1>1. Shaped(t) BY DEF Sound, Shaped
<1>2. \A p : session_running(t, p)
               = IF req.workflow = None /\ req.session = p
                 THEN session_running(s, p) \cup {id} ELSE session_running(s, p)
  <2> SUFFICES ASSUME NEW p
               PROVE  session_running(t, p)
                        = IF req.workflow = None /\ req.session = p
                          THEN session_running(s, p) \cup {id} ELSE session_running(s, p)
      OBVIOUS
  <2>1. \A x : x \in session_running(t, p) <=>
                 \/ /\ x \in DOMAIN t.pending /\ t.pending[x].req.session = p
                    /\ t.pending[x].req.workflow = None
                 \/ /\ x \in DOMAIN t.active /\ t.active[x].req.session = p
                    /\ t.active[x].req.workflow = None
        BY DEF session_running, InSession
  <2>2. \A x : x \in session_running(s, p) <=>
                 \/ /\ x \in DOMAIN s.pending /\ s.pending[x].req.session = p
                    /\ s.pending[x].req.workflow = None
                 \/ /\ x \in DOMAIN s.active /\ s.active[x].req.session = p
                    /\ s.active[x].req.workflow = None
        BY DEF session_running, InSession
  <2>3. ASSUME NEW x
        PROVE  x \in session_running(t, p) <=>
                 \/ x \in session_running(s, p)
                 \/ x = id /\ req.workflow = None /\ req.session = p
    <3>1. CASE x = id BY <2>1, <2>2, <3>1
    <3>2. CASE x # id BY <2>1, <2>2, <3>2
    <3> QED BY <3>1, <3>2
  <2> QED BY <2>3
<1>3. \A p : session_running(s, p) \subseteq session_running(t, p) BY <1>2
<1>4. Limited(t)
  <2> SUFFICES ASSUME NEW p PROVE session_running_count(t, p) <= MaxConcurrent
      BY DEF Limited
  <2>1. session_running_count(s, p) <= MaxConcurrent BY DEF Sound, Limited
  <2>2. CASE req.workflow = None /\ req.session = p
    <3>1. session_running_count(s, p) < MaxConcurrent BY <2>2 DEF has_capacity
    <3>2. IsFiniteSet(session_running(s, p)) /\ session_running_count(s, p) \in Nat
          BY RunningFinite DEF Sound
    <3>3. session_running(t, p) = session_running(s, p) \cup {id} BY <1>2, <2>2
    <3>4. Cardinality(session_running(t, p)) <= session_running_count(s, p) + 1
      <4>1. Cardinality(session_running(s, p) \cup {id})
              = IF id \in session_running(s, p) THEN Cardinality(session_running(s, p))
                ELSE Cardinality(session_running(s, p)) + 1
            BY <3>2, FS_AddElement
      <4> QED BY <3>2, <3>3, <4>1 DEF session_running_count
    <3>5. session_running_count(t, p) \in Nat BY <1>1, RunningFinite
    <3> QED BY <3>1, <3>2, <3>4, <3>5, ConstantsAssumption DEF session_running_count
  <2>3. CASE ~(req.workflow = None /\ req.session = p)
        BY <1>2, <2>1, <2>3 DEF session_running_count
  <2> QED BY <2>2, <2>3
<1>5. Distinct(t) BY DEF Sound, Distinct
<1>6. Moves(s, t, {id}, s.spawn_blocked_sessions)
  <2>1. \A x \in DOMAIN t.queued : x \notin {id} /\ SameEntry(s, t, x) BY DEF SameEntry
  <2>2. \A p : \A x \in session_running(t, p) :
          \/ x \in session_running(s, p)
          \/ x \in {id} /\ p \notin s.spawn_blocked_sessions
        BY <1>2
  <2>3. \A x, y \in DOMAIN s.queued \ {id} :
          y \in DOMAIN t.pending \ DOMAIN s.pending => x \notin DOMAIN t.queued
        OBVIOUS
  <2> QED BY <2>1, <2>2, <2>3 DEF Moves
<1>7. Full(s) => Full(t)
  <2> SUFFICES ASSUME Full(s), NEW x \in DOMAIN t.queued
               PROVE  ~has_capacity(session_running_count(t, t.queued[x].req.session))
      BY DEF Full
  <2> DEFINE p == t.queued[x].req.session
  <2>1. ~has_capacity(session_running_count(s, p)) BY DEF Full
  <2>2. session_running(s, p) \in SUBSET session_running(t, p) BY <1>3
  <2>3. IsFiniteSet(session_running(t, p)) /\ session_running_count(t, p) \in Nat
        /\ session_running_count(s, p) \in Nat
        BY <1>1, RunningFinite DEF Sound
  <2>4. session_running_count(s, p) <= session_running_count(t, p)
        BY <2>2, <2>3, FS_Subset DEF session_running_count
  <2> HIDE DEF p
  <2>5. ~has_capacity(session_running_count(t, p))
        BY <2>1, <2>3, <2>4, ConstantsAssumption DEF has_capacity
  <2> QED BY <2>5 DEF p
<1>8. Polled(s) => Polled(t) BY DEF Polled
<1> QED BY <1>1, <1>4, <1>5, <1>6, <1>7, <1>8 DEF Joins, Sound

(* The queue's next time is behind every entry.                            *)
LEMMA NextTime ==
  ASSUME NEW s, Shaped(s)
  PROVE  /\ next_queued_at(s) \in Nat
         /\ \A x \in DOMAIN s.queued : s.queued[x].queued_at < next_queued_at(s)
<1> DEFINE L == DOMAIN s.queued
           at == [x \in L |-> s.queued[x].queued_at]
           S == {s.queued[id].queued_at : id \in DOMAIN s.queued}
           c(x) == Cardinality(Ahead(L, at, x))
           n == Cardinality(L)
           left == {k \in Nat : \E x \in L : k = n - c(x)}
<1>1. CASE L = {} BY <1>1 DEF next_queued_at
<1>2. CASE L # {}
  <2>1. L \in SUBSET Ids BY DEF Shaped
  <2>2. IsFiniteSet(L) BY <2>1, ConstantsAssumption, FS_Subset
  <2>3. at \in [L -> Nat] BY DEF Shaped, Entry
  <2> HIDE DEF at
  <2>4. n \in Nat BY <2>2, FS_CardinalityType
  <2>5. \A x \in L : c(x) \in Nat /\ c(x) <= n
    <3> SUFFICES ASSUME NEW x \in L PROVE c(x) \in Nat /\ c(x) <= n OBVIOUS
    <3>1. Ahead(L, at, x) \in SUBSET L BY DEF Ahead
    <3> QED BY <2>2, <2>3, <3>1, AheadFacts, FS_Subset
  <2> HIDE DEF n
  <2>6. left \subseteq Nat /\ left # {} BY <1>2, <2>4, <2>5
  <2> HIDE DEF left
  <2>7. PICK k \in left : \A j \in left : k =< j BY <2>6, LeastElement
  <2>8. PICK m \in L : k = n - c(m) BY <2>7 DEF left
  <2>9. \A x \in L : at[x] <= at[m]
    <3> SUFFICES ASSUME NEW x \in L, at[m] < at[x] PROVE FALSE BY <2>3
    <3>1. c(m) < c(x) BY <2>2, <2>3, AheadFacts
    <3>2. n - c(x) \in left BY <2>4, <2>5 DEF left
    <3>3. k =< n - c(x) BY <2>7, <3>2
    <3> QED BY <2>4, <2>5, <2>8, <3>1, <3>3
  <2>10. /\ S \subseteq Nat /\ at[m] \in S /\ \A y \in S : at[m] >= y
         BY <2>3, <2>9 DEF at
  <2>11. /\ Max(S) \in S /\ \A y \in S : Max(S) >= y
         BY <2>10 DEF Max
  <2>12. next_queued_at(s) = 1 + Max(S) BY <1>2 DEF next_queued_at
  <2>13. \A x \in L : s.queued[x].queued_at \in S OBVIOUS
  <2> DEFINE max == Max(S)
             next == next_queued_at(s)
  <2>14. S \subseteq Nat /\ max \in S /\ (\A y \in S : max >= y) /\ next = 1 + max
         BY <2>10, <2>11, <2>12
  <2> HIDE DEF S, max, next
  <2>15. next \in Nat /\ \A y \in S : y < next BY <2>14
  <2> QED BY <2>13, <2>15 DEF next
<1> QED BY <1>1, <1>2

(* One more entry waits for a full session.                                *)
LEMMA OneQueues ==
  ASSUME NEW s, NEW t, NEW id \in Ids, NEW entry, Sound(s), Apart(s, {}),
         DOMAIN t = Fields, t.queued = Put(s.queued, id, entry),
         t.pending = s.pending, t.active = s.active,
         \A x \in DOMAIN t.completed : x \in Ids /\ HasReq(t.completed[x]),
         t.terminal_outputs = s.terminal_outputs, t.runs = s.runs,
         t.spawn_blocked_sessions = s.spawn_blocked_sessions,
         Entry(entry), entry.queued_at = next_queued_at(s),
         id \notin DOMAIN s.queued \cup DOMAIN s.pending \cup DOMAIN s.active,
         entry.req.session \notin s.spawn_blocked_sessions,
         ~has_capacity(session_running_count(s, entry.req.session))
  PROVE  Joins(s, t, {id})
<1>1. /\ DOMAIN t.queued = DOMAIN s.queued \cup {id} /\ t.queued[id] = entry
      /\ \A x \in DOMAIN s.queued : t.queued[x] = s.queued[x]
      BY DEF Put
<1>2. Shaped(t) BY <1>1 DEF Sound, Shaped
<1>3. \A p : session_running(t, p) = session_running(s, p)
      BY DEF session_running, InSession
<1>4. Limited(t) BY <1>2, <1>3, FewerLimited DEF Sound
<1>5. Distinct(t)
  <2>1. /\ next_queued_at(s) \in Nat
        /\ \A x \in DOMAIN s.queued : s.queued[x].queued_at < next_queued_at(s)
        BY NextTime DEF Sound
  <2>2. \A x \in DOMAIN s.queued : s.queued[x].queued_at \in Nat
        BY DEF Sound, Shaped, Entry
  <2>3. \A x \in DOMAIN s.queued : s.queued[x].queued_at # next_queued_at(s)
        BY <2>1, <2>2
  <2> QED BY <1>1, <2>3 DEF Sound, Distinct
<1>6. Moves(s, t, {id}, s.spawn_blocked_sessions)
      BY <1>1, <1>3 DEF Moves, SameEntry
<1>7. Full(s) => Full(t) BY <1>1, <1>3 DEF Full, session_running_count
<1>8. Polled(s) => Polled(t) BY DEF Polled
<1> QED BY <1>2, <1>4, <1>5, <1>6, <1>7, <1>8 DEF Joins, Sound

----------------------------------------------------------------------------
(* The other methods.                                                      *)

(* An admission that ended may release the output of its child.            *)
LEMMA FinishMessageGoes ==
  ASSUME NEW s, NEW f, NEW how, Sound(s), Apart(s, {})
  PROVE  Goes(s, finish_active_message(s, f, how))
<1> DEFINE child == s.active[f.id]
           last == child.in_flight = 1 /\ child.finalizing
           clean == child.clean /\ how # "Uncertain"
           left == [s EXCEPT !.active_messages = @ \ {f}]
           answered == Answer(left, {f.msg}, how)
           settled == [answered EXCEPT
             !.active[f.id].in_flight = @ - 1,
             !.active[f.id].clean = clean,
             !.active[f.id].reporter_waits = @ /\ ~last]
           late == Answer(left, {f.msg}, IF how = "Accepted" THEN "Uncertain" ELSE how)
           released == [settled EXCEPT !.terminal_outputs = Without(@, {f.id})]
           ended == finish_terminalized_child(released, f.id, s.terminal_outputs[f.id], clean)
<1>1. \/ finish_active_message(s, f, how) = late
      \/ /\ finish_active_message(s, f, how) = ended
         /\ f.id \in DOMAIN s.active /\ f.id \in DOMAIN s.terminal_outputs
      \/ finish_active_message(s, f, how) = settled
      BY DEF finish_active_message
<1>2. Alike(s, left) BY DEF Sound, Shaped, Alike, Fields
<1>3. SameHomes(s, left) BY DEF Apart, SameHomes, Fields, Held
<1> HIDE DEF left
<1>4. Alike(left, late) /\ Alike(left, answered) BY <1>2, AnswerAlike DEF Alike
<1>5. Alike(s, late) /\ Alike(s, answered) BY <1>2, <1>4, AlikeTrans
<1>6. SameHomes(left, answered) BY <1>3, AnswerSame DEF SameHomes
<1>7. Apart(answered, {}) BY <1>3, <1>6, SameApart
<1> HIDE DEF late, answered, last, clean
<1>8. Goes(s, late) BY <1>5, AlikeLoad, LoadGoes DEF Sound
<1>9. /\ DOMAIN settled = Fields
      /\ settled.queued = s.queued /\ settled.pending = s.pending
      /\ settled.completed = s.completed /\ settled.runs = s.runs
      /\ settled.terminal_outputs = s.terminal_outputs
      /\ settled.spawn_blocked_sessions \subseteq s.spawn_blocked_sessions
      /\ settled.active = [s.active EXCEPT ![f.id].in_flight = @ - 1,
                                           ![f.id].clean = clean,
                                           ![f.id].reporter_waits = @ /\ ~last]
      BY <1>5 DEF Alike, Fields
<1>10. SameHomes(answered, settled) BY <1>7 DEF Apart, SameHomes, Fields, Held
<1>11. Apart(settled, {}) BY <1>7, <1>10, SameApart
<1> HIDE DEF settled
<1>12. SameReqs(s.active, settled.active)
  <2>1. SameReqs(s.active, s.active) BY SameMaps DEF Sound
  <2>2. /\ DOMAIN settled.active = DOMAIN s.active
        /\ \A x \in DOMAIN s.active \ {f.id} : settled.active[x] = s.active[x]
        /\ f.id \in DOMAIN s.active =>
             settled.active[f.id] = [s.active[f.id] EXCEPT !.in_flight = @ - 1,
                                       !.clean = clean, !.reporter_waits = @ /\ ~last]
        BY <1>9
  <2>3. f.id \in DOMAIN s.active => HasReq(s.active[f.id]) /\ Displaced(s.active[f.id])
        BY DEF Sound, Shaped
  <2>4. f.id \in DOMAIN s.active =>
          /\ HasReq(settled.active[f.id]) /\ Displaced(settled.active[f.id])
          /\ settled.active[f.id].req.session = s.active[f.id].req.session
          /\ settled.active[f.id].req.workflow = s.active[f.id].req.workflow
        BY <2>2, <2>3 DEF HasReq, Displaced
  <2> QED BY <2>1, <2>2, <2>4, OneRecord
<1>13. Load(s, settled)
  <2>1. SameEntries(s.queued, s.queued) /\ SameReqs(s.pending, s.pending)
        BY SameMaps DEF Sound
  <2> QED BY <1>9, <1>12, <2>1, RecordsLoad DEF Sound
<1>14. Goes(s, settled) BY <1>13, LoadGoes
<1>15. /\ DOMAIN released = Fields
       /\ released.queued = settled.queued /\ released.pending = settled.pending
       /\ released.active = settled.active /\ released.completed = settled.completed
       /\ released.runs = settled.runs
       /\ released.spawn_blocked_sessions = settled.spawn_blocked_sessions
       /\ released.terminal_outputs = Without(settled.terminal_outputs, {f.id})
       BY <1>9 DEF Fields
<1>16. SameHomes(settled, released) BY <1>11 DEF Apart, SameHomes, Fields, Held
<1>17. Apart(released, {}) BY <1>11, <1>16, SameApart
<1> HIDE DEF released
<1>18. DOMAIN released.terminal_outputs = DOMAIN s.terminal_outputs \ {f.id}
       BY <1>9, <1>15 DEF Without
<1>19. Carries(settled, released)
  <2>1. Shaped(released) BY <1>13, <1>15 DEF Load, Shaped
  <2>2. \A p : session_running(released, p) = session_running(settled, p)
        BY <1>15 DEF session_running, InSession
  <2>3. Sound(settled) BY <1>14 DEF Goes, Carries
  <2>4. Limited(released) BY <2>1, <2>2, <2>3, FewerLimited DEF Sound
  <2>5. Distinct(released) BY <1>15, <2>3 DEF Sound, Distinct
  <2>6. Moves(settled, released, {}, {}) BY <1>15, <2>2 DEF Moves, SameEntry
  <2>7. Full(settled) => Full(released)
        BY <1>15, <2>2 DEF Full, session_running_count
  <2> QED BY <1>15, <2>1, <2>4, <2>5, <2>6, <2>7 DEF Carries, Sound
<1>20. /\ Carries(released, ended) /\ (Ending(released, f.id) => Polled(ended))
       BY <1>17, <1>19, FinishChildCarries DEF Carries, finish_terminalized_child
<1>21. Carries(s, ended)
  <2>1. Carries(s, released) BY <1>14, <1>19, CarriesTrans DEF Goes
  <2> QED BY <1>20, <2>1, CarriesTrans
<1>22. ASSUME f.id \in DOMAIN s.active, f.id \in DOMAIN s.terminal_outputs, Polled(s)
       PROVE  Ending(released, f.id)
  <2>1. f.id \notin DOMAIN s.pending BY <1>22 DEF Apart
  <2>2. /\ released.runs = s.runs /\ DOMAIN released.pending = DOMAIN s.pending
        /\ DOMAIN released.active = DOMAIN s.active
        BY <1>9, <1>12, <1>15 DEF SameReqs
  <2> QED BY <1>18, <1>22, <2>1, <2>2 DEF Ending, Polled
<1> HIDE DEF ended
<1> QED BY <1>1, <1>8, <1>14, <1>20, <1>21, <1>22 DEF Goes

(* A map whose records changed in other fields only.                       *)
LEMMA SameRecords ==
  ASSUME NEW f, NEW g, SameReqs(f, f), DOMAIN g = DOMAIN f,
         \A x \in DOMAIN f : /\ DOMAIN g[x] = DOMAIN f[x]
                             /\ g[x].req = f[x].req /\ g[x].wake = f[x].wake
  PROVE  SameReqs(f, g)
BY DEF SameReqs, HasReq, Displaced

(* The end of an iteration only takes completed records away.              *)
LEMMA AfterArmLoad ==
  ASSUME NEW s, Shaped(s)
  PROVE  Load(s, AfterArm(s))
<1> DEFINE t == resolve_drain_waiters(s)
           excess == Cardinality(DOMAIN t.completed) - MaxCompleted
           evicted == {t.completed_order[i] : i \in 1 .. excess}
           told == reject_pending_wakes_for_ids(t, evicted)
           u == [told EXCEPT
                   !.completed = Without(@, evicted),
                   !.completed_order = SubSeq(@, excess + 1, Len(@)),
                   !.graph = Without(@, evicted)]
<1>1. Alike(s, t) BY DEF Shaped, Alike, Fields, resolve_drain_waiters
<1>2. AfterArm(s) = t \/ AfterArm(s) = u
      BY DEF AfterArm, evict_completed_overflow
<1> HIDE DEF t, evicted
<1>3. Alike(t, told) BY <1>1, RejectPendingWakesAlike DEF Alike
<1>4. Alike(s, told) BY <1>1, <1>3, AlikeTrans
<1> HIDE DEF told
<1>5. /\ DOMAIN u = Fields
      /\ u.queued = s.queued /\ u.pending = s.pending /\ u.active = s.active
      /\ u.runs = s.runs /\ u.terminal_outputs = s.terminal_outputs
      /\ u.spawn_blocked_sessions \subseteq s.spawn_blocked_sessions
      /\ u.completed = Without(s.completed, evicted)
      BY <1>4 DEF Alike, Fields
<1> HIDE DEF u
<1>6. \A x \in DOMAIN u.completed : x \in Ids /\ HasReq(u.completed[x])
      BY <1>5 DEF Without, Shaped
<1>7. Load(s, u) BY <1>5, <1>6, CompletedLoad
<1>8. Load(s, t) BY <1>1, AlikeLoad
<1> QED BY <1>2, <1>7, <1>8

(* A caller that went away changes no request.                             *)
LEMMA BackgroundSame ==
  ASSUME NEW s, NEW f, SameReqs(f, f)
  PROVE  SameReqs(f, background_if_caller_gone(s, f))
<1> DEFINE g == background_if_caller_gone(s, f)
<1>1. DOMAIN g = DOMAIN f BY DEF background_if_caller_gone
<1>2. ASSUME NEW x \in DOMAIN f
      PROVE  /\ DOMAIN g[x] = DOMAIN f[x]
             /\ g[x].req = f[x].req /\ g[x].wake = f[x].wake
  <2> DEFINE r == f[x]
             cancelled == [r EXCEPT !.reply = FALSE, !.cancelled = TRUE]
             freed == [r EXCEPT !.reply = FALSE, !.handle_only = TRUE, !.deadline = FALSE]
  <2>1. g[x] = r \/ g[x] = cancelled \/ g[x] = freed BY DEF background_if_caller_gone
  <2>2. {"req", "wake"} \subseteq DOMAIN r BY DEF SameReqs, HasReq, Displaced
  <2>3. /\ DOMAIN cancelled = DOMAIN r
        /\ cancelled.req = r.req /\ cancelled.wake = r.wake
        BY <2>2
  <2>4. DOMAIN freed = DOMAIN r /\ freed.req = r.req /\ freed.wake = r.wake BY <2>2
  <2> QED BY <2>1, <2>3, <2>4
<1> HIDE DEF g
<1>3. SameReqs(f, g) BY <1>1, <1>2, SameRecords
<1> QED BY <1>3 DEF g

(* Cancelling a record changes no request.                                 *)
LEMMA MarkSame ==
  ASSUME NEW f, NEW ids, SameReqs(f, f)
  PROVE  SameReqs(f, [id \in DOMAIN f |-> [f[id] EXCEPT !.cancelled = @ \/ id \in ids]])
<1> DEFINE g == [id \in DOMAIN f |-> [f[id] EXCEPT !.cancelled = @ \/ id \in ids]]
<1>1. DOMAIN g = DOMAIN f OBVIOUS
<1>2. ASSUME NEW x \in DOMAIN f
      PROVE  /\ DOMAIN g[x] = DOMAIN f[x]
             /\ g[x].req = f[x].req /\ g[x].wake = f[x].wake
  <2>1. {"req", "wake"} \subseteq DOMAIN f[x] BY DEF SameReqs, HasReq, Displaced
  <2> QED BY <2>1
<1> HIDE DEF g
<1>3. SameReqs(f, g) BY <1>1, <1>2, SameRecords
<1> QED BY <1>3 DEF g

(* The sweep of abandoned callers ends only cancelled entries, which are   *)
(* not wakes, so no child is forgotten.                                    *)
LEMMA ReapGoes ==
  ASSUME NEW s, Sound(s), Apart(s, {})
  PROVE  /\ Goes(s, reap_abandoned_callers(s))
         /\ \A id : Known(s, id) => Known(reap_abandoned_callers(s), id)
<1> DEFINE abandoned(id) == s.queued[id].reply /\ s.caller[id] = "gone"
           kept == [id \in DOMAIN s.queued |->
                      [s.queued[id] EXCEPT !.reply = @ /\ ~abandoned(id),
                                           !.deadline = @ /\ ~abandoned(id)]]
           pending == background_if_caller_gone(s, s.pending)
           active == background_if_caller_gone(s, s.active)
           swept == [s EXCEPT !.pending = pending, !.active = active, !.queued = kept]
           ids == {id \in DOMAIN s.queued : s.queued[id].cancelled}
<1>1. reap_abandoned_callers(s) = remove_queued(swept, ids)
      BY DEF reap_abandoned_callers
<1>2. SameHomes(s, swept)
      BY DEF Apart, SameHomes, Fields, Held, background_if_caller_gone
<1>3. Apart(swept, {}) BY <1>2, SameApart
<1> HIDE DEF pending, active, kept
<1>4. /\ DOMAIN swept = Fields
      /\ swept.pending = pending /\ swept.active = active /\ swept.queued = kept
      /\ swept.completed = s.completed /\ swept.runs = s.runs
      /\ swept.terminal_outputs = s.terminal_outputs
      /\ swept.spawn_blocked_sessions = s.spawn_blocked_sessions
      BY DEF Sound, Shaped, Fields
<1>5. SameReqs(s.pending, swept.pending) /\ SameReqs(s.active, swept.active)
      BY <1>4, SameMaps, BackgroundSame DEF Sound, pending, active
<1> HIDE DEF swept
<1>6. DOMAIN kept = DOMAIN s.queued
      /\ \A x \in DOMAIN s.queued :
           /\ DOMAIN kept[x] = DOMAIN s.queued[x]
           /\ kept[x].req = s.queued[x].req /\ kept[x].wake = s.queued[x].wake
           /\ kept[x].cancelled = s.queued[x].cancelled
           /\ kept[x].queued_at = s.queued[x].queued_at
  <2>1. DOMAIN kept = DOMAIN s.queued BY DEF kept
  <2>2. ASSUME NEW x \in DOMAIN s.queued
        PROVE  /\ DOMAIN kept[x] = DOMAIN s.queued[x]
               /\ kept[x].req = s.queued[x].req /\ kept[x].wake = s.queued[x].wake
               /\ kept[x].cancelled = s.queued[x].cancelled
               /\ kept[x].queued_at = s.queued[x].queued_at
    <3>1. {"req", "wake", "cancelled", "queued_at"} \subseteq DOMAIN s.queued[x]
          BY DEF Sound, Shaped, Entry, HasReq, Displaced
    <3> DEFINE r == s.queued[x]
               b == abandoned(x)
    <3>2. kept[x] = [r EXCEPT !.reply = @ /\ ~b, !.deadline = @ /\ ~b] BY DEF kept
    <3> HIDE DEF b, r, kept
    <3>3. /\ DOMAIN kept[x] = DOMAIN r
          /\ kept[x].req = r.req /\ kept[x].wake = r.wake
          /\ kept[x].cancelled = r.cancelled /\ kept[x].queued_at = r.queued_at
          BY <3>1, <3>2 DEF r
    <3> QED BY <3>3 DEF r
  <2> QED BY <2>1, <2>2
<1>7. SameEntries(s.queued, swept.queued)
      BY <1>4, <1>6 DEF SameEntries, Sound, Shaped, Entry, HasReq, Displaced
<1>8. Load(s, swept) BY <1>4, <1>5, <1>7, RecordsLoad DEF Sound
<1>9. Goes(s, swept) BY <1>8, LoadGoes
<1>10. \A id \in ids \cap DOMAIN swept.queued : swept.queued[id].wake = None
       BY <1>4, <1>6 DEF Sound, Shaped, Entry
<1>11. Sound(swept) BY <1>9 DEF Goes, Carries
<1> HIDE DEF ids
<1>12. /\ Goes(swept, remove_queued(swept, ids))
       /\ \A id : Known(swept, id) => Known(remove_queued(swept, ids), id)
       BY <1>3, <1>10, <1>11, RemoveQueuedGoes
<1>13. \A id : Known(s, id) => Known(swept, id) BY <1>2 DEF Known, SameHomes
<1> QED BY <1>1, <1>9, <1>12, <1>13, GoesTrans

(* Cancelling children leaves them running.                                *)
LEMMA CancelChildrenLoad ==
  ASSUME NEW s, NEW ids, Shaped(s)
  PROVE  /\ Load(s, cancel_children(s, ids))
         /\ cancel_children(s, ids).queued = s.queued
         /\ cancel_children(s, ids).spawn_blocked_sessions = s.spawn_blocked_sessions
<1> DEFINE marked(f) == [id \in DOMAIN f |-> [f[id] EXCEPT !.cancelled = @ \/ id \in ids]]
           active == marked(s.active)
           pending == marked(s.pending)
           t == [s EXCEPT !.active = active, !.pending = pending]
           u == reject_spawn_ready_ids(t, ids \cap DOMAIN s.pending)
<1>1. cancel_children(s, ids) = u BY DEF cancel_children
<1>0. SameReqs(s.pending, pending) /\ SameReqs(s.active, active)
  <2>1. SameReqs(s.pending, s.pending) /\ SameReqs(s.active, s.active) BY SameMaps
  <2> QED BY <2>1, MarkSame
<1> HIDE DEF active, pending
<1>2. /\ DOMAIN t = Fields
      /\ t.pending = pending /\ t.active = active
      /\ t.queued = s.queued /\ t.completed = s.completed /\ t.runs = s.runs
      /\ t.terminal_outputs = s.terminal_outputs
      /\ t.spawn_blocked_sessions = s.spawn_blocked_sessions
      BY DEF Shaped, Fields
<1>3. SameReqs(s.pending, t.pending) /\ SameReqs(s.active, t.active)
      BY <1>0, <1>2
<1>4. Load(s, t)
  <2>1. SameEntries(s.queued, s.queued) BY SameMaps
  <2> HIDE DEF t
  <2> QED BY <1>2, <1>3, <2>1, RecordsLoad
<1> HIDE DEF t
<1>5. Alike(t, u) BY <1>2, RejectSpawnReadyAlike
<1>6. u.spawn_blocked_sessions = t.spawn_blocked_sessions
  <2>1. DOMAIN t = Fields BY <1>2
  <2> QED BY <2>1 DEF reject_spawn_ready_ids, Answer, Fields
<1> HIDE DEF u
<1>7. Load(t, u) BY <1>4, <1>5, AlikeLoad DEF Load
<1>8. Load(s, u) BY <1>4, <1>7, LoadTrans
<1> QED BY <1>1, <1>2, <1>5, <1>6, <1>8 DEF Alike

(* Children cancelled and entries dequeued.                                *)
LEMMA CancelGoes ==
  ASSUME NEW s, NEW ids, NEW entries, Sound(s), Apart(s, {})
  PROVE  /\ Goes(s, cancel_children(s, ids))
         /\ Goes(s, remove_queued(cancel_children(s, ids), entries))
         /\ DOMAIN remove_queued(cancel_children(s, ids), entries).queued \cap entries = {}
<1> DEFINE t == cancel_children(s, ids)
<1>1. Apart(t, {}) BY CancelApart
<1>2. Goes(s, t) BY CancelChildrenLoad, LoadGoes DEF Sound
<1> HIDE DEF t
<1>3. Sound(t) BY <1>2 DEF Goes, Carries
<1>4. Goes(t, remove_queued(t, entries)) /\ DOMAIN remove_queued(t, entries).queued \cap entries = {}
      BY <1>1, <1>3, RemoveQueuedGoes
<1>5. Goes(s, remove_queued(t, entries)) BY <1>2, <1>4, GoesTrans
<1> QED BY <1>2, <1>4, <1>5 DEF t

----------------------------------------------------------------------------
(* Wakes and spawns.                                                       *)

(* A wake of a session that is not stopped starts within its limit or      *)
(* waits because it is full.                                               *)
LEMMA WakeJoins ==
  ASSUME NEW s, NEW id, NEW msgs, Sound(s), Apart(s, {}),
         id \in DOMAIN s.completed, s.completed[id].req.workflow = None
  PROVE  \E N : Joins(s, wake_completed_child(s, id, msgs), N)
<1> DEFINE old == s.completed[id]
           first == CHOOSE m \in msgs : \A x \in msgs : m.msg <= x.msg
           req == wake_request(old.req)
           decision == admit(s, req)
           moved == [s EXCEPT
             !.completed = Without(@, {id}),
             !.completed_order = retain(@, ToSet(@) \ {id}),
             !.spawn_ready = @ \cup {Park(first, TRUE)}
                               \cup {Park(m, FALSE) : m \in msgs \ {first}}]
           entry == [req |-> req, cancelled |-> FALSE, reply |-> FALSE,
                     deadline |-> FALSE, wake |-> old,
                     queued_at |-> next_queued_at(s)]
           one == [x \in {id} |-> entry]
           parked == [s EXCEPT !.pending_wakes = @ \cup msgs]
           refused == Answer(s, MsgsOf(msgs), "Refused")
           queued == [moved EXCEPT !.queued = Put(@, id, entry)]
           started == start_children(moved, one)
<1>1. wake_completed_child(s, id, msgs)
        = IF ~old.published THEN parked
          ELSE IF wake_refused(s, old.req, decision) THEN refused
          ELSE IF decision = "Start" THEN started ELSE queued
      BY DEF wake_completed_child
<1>2. Goes(s, parked) /\ Goes(s, refused)
  <2>1. Alike(s, parked) BY DEF Sound, Shaped, Alike, Fields
  <2>2. Alike(s, refused) BY AnswerAlike DEF Sound, Shaped
  <2> QED BY <2>1, <2>2, AlikeLoad, LoadGoes DEF Sound
<1>3. /\ HasReq(old) /\ req \in Request
      /\ req.session = old.req.session /\ req.workflow = None
  <2>1. HasReq(old) BY DEF Sound, Shaped
  <2>2. old.req \in Request BY <2>1 DEF HasReq
  <2> QED BY <2>1, <2>2 DEF wake_request, Request
<1>4. /\ DOMAIN moved = Fields
      /\ moved.queued = s.queued /\ moved.pending = s.pending /\ moved.active = s.active
      /\ moved.runs = s.runs /\ moved.terminal_outputs = s.terminal_outputs
      /\ moved.spawn_blocked_sessions = s.spawn_blocked_sessions
      /\ moved.completed = Without(s.completed, {id})
      BY DEF Sound, Shaped, Fields
<1> HIDE DEF moved, req
<1>5. \A x \in DOMAIN moved.completed : x \in Ids /\ HasReq(moved.completed[x])
      BY <1>4 DEF Without, Sound, Shaped
<1>6. /\ id \in Ids
      /\ id \notin DOMAIN s.queued \cup DOMAIN s.pending \cup DOMAIN s.active
      BY DEF Apart, Sound, Shaped
<1>7. next_queued_at(s) \in Nat BY NextTime DEF Sound
<1>8. /\ entry.req = req /\ entry.wake = old /\ entry.queued_at = next_queued_at(s)
      /\ Entry(entry)
      BY <1>3, <1>7 DEF Entry, HasReq, Displaced
<1> HIDE DEF entry
<1>9. DOMAIN one = {id} /\ one[id] = entry OBVIOUS
<1> HIDE DEF one, old
<1>10. CASE wake_completed_child(s, id, msgs) = parked BY <1>2, <1>10, GoesIsJoins
<1>11. CASE wake_completed_child(s, id, msgs) = refused BY <1>2, <1>11, GoesIsJoins
<1>12. CASE /\ wake_completed_child(s, id, msgs) = started
            /\ decision = "Start" /\ ~wake_refused(s, old.req, decision)
  <2>1. /\ DOMAIN started = Fields
        /\ started.queued = moved.queued /\ started.active = moved.active
        /\ started.completed = moved.completed
        /\ started.terminal_outputs = moved.terminal_outputs
        /\ started.spawn_blocked_sessions = moved.spawn_blocked_sessions
        /\ started.runs = moved.runs \cup {id}
        /\ DOMAIN started.pending = DOMAIN moved.pending \cup {id}
        /\ started.pending[id].req = req
        /\ started.pending[id].wake = old
        /\ {"req", "wake"} \subseteq DOMAIN started.pending[id]
        /\ \A x \in DOMAIN moved.pending \ {id} : started.pending[x] = moved.pending[x]
        BY <1>4, <1>8, <1>9, StartRunning
  <2>2. HasReq(started.pending[id]) /\ Displaced(started.pending[id])
        BY <1>3, <2>1 DEF HasReq, Displaced
  <2>3. has_capacity(session_running_count(s, req.session))
        BY <1>3, <1>12 DEF admit
  <2>4. req.session \notin s.spawn_blocked_sessions BY <1>3, <1>12 DEF wake_refused
  <2> HIDE DEF started
  <2>5. Joins(s, started, {id}) BY <1>4, <1>5, <1>6, <2>1, <2>2, <2>3, <2>4, OneStarts
  <2> QED BY <1>12, <2>5
<1>13. CASE /\ wake_completed_child(s, id, msgs) = queued
            /\ decision # "Start" /\ ~wake_refused(s, old.req, decision)
  <2>1. /\ DOMAIN queued = Fields
        /\ queued.queued = Put(moved.queued, id, entry)
        /\ queued.pending = moved.pending /\ queued.active = moved.active
        /\ queued.completed = moved.completed /\ queued.runs = moved.runs
        /\ queued.terminal_outputs = moved.terminal_outputs
        /\ queued.spawn_blocked_sessions = moved.spawn_blocked_sessions
        BY <1>4 DEF Fields
  <2>2. ~has_capacity(session_running_count(s, req.session)) BY <1>13 DEF admit
  <2>3. req.session \notin s.spawn_blocked_sessions BY <1>3, <1>13 DEF wake_refused
  <2> HIDE DEF queued
  <2>4. Joins(s, queued, {id}) BY <1>4, <1>5, <1>6, <1>8, <2>1, <2>2, <2>3, OneQueues
  <2> QED BY <1>13, <2>4
<1> HIDE DEF parked, refused, started, queued, decision
<1> QED BY <1>1, <1>10, <1>11, <1>12, <1>13

(* A message reaches an active child, waits, wakes a child or is refused.  *)
LEMMA SendJoins ==
  ASSUME NEW s, NEW id, NEW msgs, Sound(s), Apart(s, {})
  PROVE  \E N : Joins(s, handle_send_active_message(s, id, msgs), N)
<1> DEFINE owned == {m \in msgs : is_reachable_from(s, id, m.sender)}
           spawning(map) == /\ id \in DOMAIN map
                            /\ map[id].req.workflow = None /\ ~map[id].cancelled
           woken == {m \in owned : Addressable(s, m)}
           refuse(rest) == Answer(s, MsgsOf(rest), "Refused")
           parked == [refuse(msgs \ owned) EXCEPT
                        !.spawn_ready = @ \cup {Park(m, FALSE) : m \in owned}]
           admitted == admit_active_messages(refuse(msgs \ owned), id, owned)
           wake == wake_completed_child(refuse(msgs \ woken), id, woken)
<1>1. handle_send_active_message(s, id, msgs)
        = IF owned = {} THEN refuse(msgs)
          ELSE IF id \in DOMAIN s.active THEN admitted
          ELSE IF spawning(s.pending) \/ spawning(s.queued) THEN parked
          ELSE IF /\ id \in DOMAIN s.completed
                  /\ s.completed[id].req.workflow = None
                  /\ woken # {}
          THEN wake
          ELSE refuse(msgs)
      BY DEF handle_send_active_message
<1>2. \A rest : Alike(s, refuse(rest)) BY AnswerAlike DEF Sound, Shaped
<1>3. \A rest : SameHomes(s, refuse(rest)) BY AnswerSame DEF Apart
<1>4. \A rest : Apart(refuse(rest), {}) BY <1>3, SameApart
<1> HIDE DEF owned, woken, refuse
<1>5. \A rest : Load(s, refuse(rest)) BY <1>2, AlikeLoad DEF Sound
<1>6. \A rest : Goes(s, refuse(rest)) BY <1>5, LoadGoes
<1>7. Goes(s, admitted)
  <2>1. Load(refuse(msgs \ owned), admitted) BY <1>5, AdmitMessagesLoad DEF Load
  <2>2. Load(s, admitted) BY <1>5, <2>1, LoadTrans
  <2> QED BY <2>2, LoadGoes
<1>8. Goes(s, parked)
  <2>1. Alike(refuse(msgs \ owned), parked)
        BY <1>2 DEF Alike, Fields
  <2>2. Alike(s, parked) BY <1>2, <2>1, AlikeTrans
  <2> HIDE DEF parked
  <2> QED BY <2>2, AlikeLoad, LoadGoes DEF Sound
<1>9. ASSUME id \in DOMAIN s.completed, s.completed[id].req.workflow = None
      PROVE  \E N : Joins(s, wake, N)
  <2> DEFINE t == refuse(msgs \ woken)
  <2>1. Goes(s, t) /\ Apart(t, {}) /\ t.completed = s.completed /\ t.queued = s.queued
        BY <1>2, <1>4, <1>6 DEF Alike
  <2>2. wake = wake_completed_child(t, id, woken) OBVIOUS
  <2> HIDE DEF t, wake
  <2>3. Sound(t) BY <2>1 DEF Goes, Carries
  <2>4. PICK N : Joins(t, wake, N) BY <1>9, <2>1, <2>2, <2>3, WakeJoins
  <2>5. N \cap DOMAIN s.queued = {} BY <2>1, <2>4 DEF Joins
  <2>6. Joins(s, wake, N) BY <2>1, <2>4, <2>5, GoesThenJoins
  <2> QED BY <2>6
<1> HIDE DEF admitted, parked, wake
<1>10. /\ Joins(s, refuse(msgs), {}) /\ Joins(s, admitted, {}) /\ Joins(s, parked, {})
       BY <1>6, <1>7, <1>8, GoesIsJoins
<1> HIDE DEF spawning
<1> QED BY <1>1, <1>9, <1>10

(* A published completion lets its parked wakes go ahead or refuses them.  *)
LEMMA TerminalPublishedJoins ==
  ASSUME NEW s, NEW id, Sound(s), Apart(s, {})
  PROVE  \E N : Joins(s, handle_terminal_published(s, id), N)
<1> DEFINE parked == {m \in s.pending_wakes : m.id = id}
           t == [s EXCEPT !.pending_wakes = @ \ parked]
           refused == reject_pending_wakes_for_ids(s, {id})
           sent == handle_send_active_message(t, id, parked)
<1>1. \/ handle_terminal_published(s, id) = s
      \/ handle_terminal_published(s, id) = refused
      \/ handle_terminal_published(s, id) = sent
      BY DEF handle_terminal_published
<1>2. Alike(s, s) BY DEF Sound, Shaped, Alike
<1>3. Alike(s, refused) BY RejectPendingWakesAlike DEF Sound, Shaped
<1>4. Alike(s, t) BY DEF Sound, Shaped, Alike, Fields
<1>5. SameHomes(s, t) BY DEF Apart, SameHomes, Fields, Held
<1>6. Apart(t, {}) BY <1>5, SameApart
<1> HIDE DEF t, refused
<1>7. Goes(s, s) /\ Goes(s, refused) /\ Goes(s, t)
      BY <1>2, <1>3, <1>4, AlikeLoad, LoadGoes DEF Sound
<1>8. Joins(s, s, {}) /\ Joins(s, refused, {}) BY <1>7, GoesIsJoins
<1>9. \E N : Joins(s, sent, N)
  <2>1. Sound(t) BY <1>7 DEF Goes, Carries
  <2>2. PICK N : Joins(t, sent, N) BY <1>6, <2>1, SendJoins
  <2>3. N \cap DOMAIN s.queued = {} BY <1>4, <2>2 DEF Joins, Alike
  <2> HIDE DEF sent
  <2>4. Joins(s, sent, N) BY <1>7, <2>2, <2>3, GoesThenJoins
  <2> QED BY <2>4
<1> HIDE DEF sent
<1> QED BY <1>1, <1>8, <1>9

(* The request of a nested spawn is one, too.                              *)
LEMMA ReparentRequest ==
  ASSUME NEW s, Shaped(s), NEW ingress \in Request
  PROVE  reparent_nested_spawn(s, ingress) \in Request
<1> DEFINE spawner == s.active[ingress.session].req
           nested == [ingress EXCEPT
                        !.session = spawner.session, !.surface = FALSE,
                        !.workflow = IF @ = None THEN spawner.workflow ELSE @]
<1>1. reparent_nested_spawn(s, ingress)
        = IF ingress.session \notin DOMAIN s.active THEN ingress ELSE nested
      BY DEF reparent_nested_spawn
<1>2. ASSUME ingress.session \in DOMAIN s.active PROVE nested \in Request
  <2>1. spawner \in Request BY <1>2 DEF Shaped, HasReq
  <2> HIDE DEF spawner
  <2>2. spawner.session \in Sess /\ spawner.workflow \in Runs \cup {None}
        BY <2>1 DEF Request
  <2> QED BY <2>2 DEF Request
<1> QED BY <1>1, <1>2

(* A spawn that is not refused starts within its session's limit, waits    *)
(* because the session is full, or is filed as ended.                      *)
LEMMA SpawnJoins ==
  ASSUME NEW s, NEW id \in Ids, NEW ingress \in Request, Sound(s), Apart(s, {})
  PROVE  \E N : /\ Joins(s, handle_spawn(s, id, ingress), N)
                /\ \A x \in N : ~Known(s, x)
<1> DEFINE req == reparent_nested_spawn(s, ingress)
           entry == [req |-> req, cancelled |-> FALSE, reply |-> TRUE,
                     deadline |-> req.mode = "foreground", wake |-> None,
                     queued_at |-> next_queued_at(s)]
           placed == [s EXCEPT !.graph = Put(@, id, insert_node(s, ingress, req)),
                               !.caller[id] = "listening"]
           one == [x \in {id} |-> entry]
           never == [x \in {id} |-> [req |-> req, reply |-> TRUE, address |-> FALSE,
                                      started |-> FALSE]]
           filed == file_completions(placed, never, <<id>>)
           started == start_children(placed, one)
           queued == [placed EXCEPT !.queued = Put(@, id, entry)]
           failed == start_queued_within_capacity(filed)
<1>1. handle_spawn(s, id, ingress)
        = IF SpawnRefused(s, id, ingress, req) THEN s
          ELSE CASE admit(s, req) = "Start" -> started
                 [] admit(s, req) = "Enqueue" -> queued
                 [] OTHER -> failed
      BY DEF handle_spawn
<1>2. req \in Request BY ReparentRequest DEF Sound
<1>3. next_queued_at(s) \in Nat BY NextTime DEF Sound
<1> HIDE DEF req
<1>4. /\ entry.req = req /\ entry.wake = None /\ entry.queued_at = next_queued_at(s)
      /\ req.workflow = None => Entry(entry)
      BY <1>2, <1>3 DEF Entry, HasReq, Displaced
<1>5. /\ DOMAIN one = {id} /\ one[id] = entry
      /\ DOMAIN never = {id} /\ never[id].req = req
      OBVIOUS
<1> HIDE DEF entry, one, never
<1>6. Alike(s, placed) BY DEF Sound, Shaped, Alike, Fields
<1>7. SameHomes(s, placed) BY DEF Apart, SameHomes, Fields, Held
<1>8. placed.spawn_blocked_sessions = s.spawn_blocked_sessions
      BY DEF Sound, Shaped, Fields
<1> HIDE DEF placed
<1>9. CASE handle_spawn(s, id, ingress) = s
  <2>1. Alike(s, s) BY DEF Sound, Shaped, Alike
  <2>2. Goes(s, s) BY <2>1, AlikeLoad, LoadGoes DEF Sound
  <2>3. Joins(s, s, {}) BY <2>2, GoesIsJoins
  <2> QED BY <1>9, <2>3
<1>10. ASSUME ~SpawnRefused(s, id, ingress, req)
       PROVE  /\ ~Known(s, id)
              /\ id \notin DOMAIN s.queued \cup DOMAIN s.pending \cup DOMAIN s.active
              /\ req.workflow = None => req.session \notin s.spawn_blocked_sessions
       BY <1>10 DEF SpawnRefused, Known
<1>11. \A x \in DOMAIN s.completed : x \in Ids /\ HasReq(s.completed[x])
       BY DEF Sound, Shaped
<1>12. CASE /\ handle_spawn(s, id, ingress) = started
            /\ admit(s, req) = "Start" /\ ~SpawnRefused(s, id, ingress, req)
  <2>1. /\ DOMAIN started = Fields
        /\ started.queued = s.queued /\ started.active = s.active
        /\ started.completed = s.completed
        /\ started.terminal_outputs = s.terminal_outputs
        /\ started.spawn_blocked_sessions = s.spawn_blocked_sessions
        /\ started.runs = s.runs \cup {id}
        /\ DOMAIN started.pending = DOMAIN s.pending \cup {id}
        /\ started.pending[id].req = req
        /\ started.pending[id].wake = None
        /\ {"req", "wake"} \subseteq DOMAIN started.pending[id]
        /\ \A x \in DOMAIN s.pending \ {id} : started.pending[x] = s.pending[x]
        BY <1>4, <1>5, <1>6, <1>8, StartRunning DEF Alike
  <2>2. HasReq(started.pending[id]) /\ Displaced(started.pending[id])
        BY <1>2, <2>1 DEF HasReq, Displaced
  <2>3. req.workflow = None => has_capacity(session_running_count(s, req.session))
        BY <1>12 DEF admit
  <2> HIDE DEF started
  <2>4. Joins(s, started, {id})
        BY <1>10, <1>11, <1>12, <2>1, <2>2, <2>3, OneStarts
  <2> QED BY <1>10, <1>12, <2>4
<1>13. CASE /\ handle_spawn(s, id, ingress) = queued
            /\ admit(s, req) = "Enqueue" /\ ~SpawnRefused(s, id, ingress, req)
  <2>1. /\ DOMAIN queued = Fields
        /\ queued.queued = Put(s.queued, id, entry)
        /\ queued.pending = s.pending /\ queued.active = s.active
        /\ queued.completed = s.completed /\ queued.runs = s.runs
        /\ queued.terminal_outputs = s.terminal_outputs
        /\ queued.spawn_blocked_sessions = s.spawn_blocked_sessions
        BY <1>6, <1>8 DEF Alike, Fields
  <2>2. /\ req.workflow = None
        /\ ~has_capacity(session_running_count(s, req.session))
        BY <1>13 DEF admit
  <2> HIDE DEF queued
  <2>3. Joins(s, queued, {id})
        BY <1>4, <1>10, <1>11, <1>13, <2>1, <2>2, OneQueues
  <2> QED BY <1>10, <1>13, <2>3
<1>14. CASE handle_spawn(s, id, ingress) = failed /\ ~SpawnRefused(s, id, ingress, req)
  <2>1. Load(s, placed) BY <1>6, AlikeLoad DEF Sound
  <2>2. Load(placed, filed)
    <3>1. \A x \in DOMAIN never : x \in Ids /\ never[x].req \in Request BY <1>2, <1>5
    <3> QED BY <2>1, <3>1, FileLoad DEF Load
  <2>3. Apart(filed, {id} \ {id})
    <3>1. Apart(placed, {id}) BY <1>7, <1>10, <1>14 DEF Known, Apart, SameHomes
    <3> QED BY <1>5, <3>1, FileApart
  <2> HIDE DEF filed
  <2>4. Goes(s, filed) BY <2>1, <2>2, LoadTrans, LoadGoes
  <2>5. Goes(filed, failed) BY <2>3, <2>4, StartQueuedGoes DEF Goes, Carries
  <2> HIDE DEF failed
  <2>6. Goes(s, failed) BY <2>4, <2>5, GoesTrans
  <2>7. Joins(s, failed, {}) BY <2>6, GoesIsJoins
  <2> QED BY <1>14, <2>7
<1> HIDE DEF started, queued, failed
<1> QED BY <1>1, <1>9, <1>12, <1>13, <1>14

----------------------------------------------------------------------------
(* Steps.                                                                  *)

(* No entry waits for a session that is stopped or draining.               *)
Closed(s) ==
  \A x \in DOMAIN s.queued : s.queued[x].req.session \notin s.spawn_blocked_sessions

(* The state between two iterations.                                       *)
Ready(s) == Sound(s) /\ Full(s) /\ Polled(s) /\ Closed(s)

(* What a whole step does: only the children of N, which were not queued,  *)
(* came in, none of them for a session that stays stopped.                 *)
Kept(s, t) ==
  /\ Ready(t)
  /\ \E N : /\ Moves(s, t, N, s.spawn_blocked_sessions \cap t.spawn_blocked_sessions)
            /\ N \cap DOMAIN s.queued = {}

LEMMA JoinsKept ==
  ASSUME NEW s, NEW t, NEW N, Ready(s), Joins(s, t, N)
  PROVE  Kept(s, t)
<1> DEFINE B == s.spawn_blocked_sessions \cap t.spawn_blocked_sessions
<1>1. Moves(s, t, N, B) BY MovesLess DEF Joins
<1>2. Closed(t)
  <2> SUFFICES ASSUME NEW x \in DOMAIN t.queued
               PROVE  t.queued[x].req.session \notin t.spawn_blocked_sessions
      BY DEF Closed
  <2>1. CASE x \in N BY <2>1 DEF Joins, Moves
  <2>2. CASE x \notin N
    <3>1. SameEntry(s, t, x) BY <2>2 DEF Joins, Moves
    <3> QED BY <3>1 DEF SameEntry, Ready, Closed, Joins
  <2> QED BY <2>1, <2>2
<1> QED BY <1>1, <1>2 DEF Kept, Ready, Joins

(* A step that closes admission for p and leaves no entry of p.            *)
LEMMA StopKept ==
  ASSUME NEW s, NEW t, NEW u, NEW v, NEW p, Ready(s), Goes(s, t),
         DOMAIN u = Fields, u.queued = t.queued, u.pending = t.pending,
         u.active = t.active, u.completed = t.completed, u.runs = t.runs,
         u.terminal_outputs = t.terminal_outputs,
         u.spawn_blocked_sessions = t.spawn_blocked_sessions \cup {p},
         Sound(u) => Goes(u, v),
         \A x \in DOMAIN v.queued : s.queued[x].req.session # p
  PROVE  Kept(s, v)
<1> DEFINE B == s.spawn_blocked_sessions \cap v.spawn_blocked_sessions
<1>1. Sound(t) /\ Full(t) /\ Polled(t) /\ Moves(s, t, {}, {})
      BY DEF Ready, Goes, Carries
<1>2. \A q : session_running(u, q) = session_running(t, q)
      BY DEF session_running, InSession
<1>3. Sound(u)
  <2>1. Shaped(u) BY <1>1 DEF Sound, Shaped
  <2>2. Limited(u) BY <1>1, <1>2, <2>1, FewerLimited DEF Sound
  <2> QED BY <1>1, <2>1, <2>2 DEF Sound, Distinct
<1>4. Full(u) BY <1>1, <1>2 DEF Full, session_running_count
<1>5. Polled(u) BY <1>1 DEF Polled
<1>6. Goes(u, v) BY <1>3
<1>7. Moves(t, u, {}, {}) BY <1>2 DEF Moves, SameEntry
<1>8. Moves(s, v, {}, {})
  <2>1. {} \cup {} = {} OBVIOUS
  <2>2. Moves(s, u, {} \cup {}, {}) BY <1>1, <1>7, MovesTrans
  <2>3. Moves(s, u, {}, {}) BY <2>1, <2>2
  <2>4. Moves(s, v, {} \cup {}, {}) BY <1>6, <2>3, MovesTrans DEF Goes, Carries
  <2> QED BY <2>1, <2>4
<1>9. Moves(s, v, {}, B) BY <1>8, MovesLess
<1>10. Closed(v)
  <2> SUFFICES ASSUME NEW x \in DOMAIN v.queued
               PROVE  v.queued[x].req.session \notin v.spawn_blocked_sessions
      BY DEF Closed
  <2>1. SameEntry(s, v, x) BY <1>8 DEF Moves
  <2>2. v.spawn_blocked_sessions \subseteq s.spawn_blocked_sessions \cup {p}
        BY <1>6 DEF Goes, Carries
  <2> QED BY <2>1, <2>2 DEF SameEntry, Ready, Closed
<1> QED BY <1>4, <1>5, <1>6, <1>9, <1>10 DEF Kept, Ready, Goes, Carries

(* The inductive invariant.                                                *)
LimitInv == IInv /\ Ready(co)

(* The end of the iteration.                                               *)
LEMMA AfterArmGoes ==
  ASSUME NEW s, Sound(s)
  PROVE  Goes(s, AfterArm(s))
BY AfterArmLoad, LoadGoes DEF Sound

LEMMA StepJoins ==
  ASSUME LimitInv, NEW s, NEW N, Joins(co, s, N), Step(s)
  PROVE  Kept(co, co')
<1>1. Goes(s, AfterArm(s)) BY AfterArmGoes DEF Joins
<1>2. Joins(co, AfterArm(s), N) BY <1>1, JoinsThenGoes
<1>3. Kept(co, AfterArm(s)) BY <1>2, JoinsKept DEF LimitInv
<1> QED BY <1>3 DEF Step

LEMMA StepGoes ==
  ASSUME LimitInv, NEW s, Goes(co, s), Step(s)
  PROVE  Kept(co, co')
BY GoesIsJoins, StepJoins

LEMMA StepLoad ==
  ASSUME LimitInv, NEW s, NEW t, Goes(co, s), Load(s, t), Step(t)
  PROVE  Kept(co, co')
<1>1. Goes(s, t) BY LoadGoes DEF Goes, Carries
<1>2. Goes(co, t) BY <1>1, GoesTrans
<1> QED BY <1>2, StepGoes

LEMMA StepAlike ==
  ASSUME LimitInv, NEW s, NEW t, Goes(co, s), Alike(s, t), Step(t)
  PROVE  Kept(co, co')
<1>1. Load(s, t) BY AlikeLoad DEF Goes, Carries, Sound
<1> QED BY <1>1, StepLoad

(* The sweep before a command.                                             *)
LEMMA CommandedGoes ==
  ASSUME LimitInv
  PROVE  /\ Goes(co, Commanded) /\ Apart(Commanded, {}) /\ Sound(Commanded)
         /\ DOMAIN Commanded = Fields
         /\ \A id : Known(co, id) => Known(Commanded, id)
<1>1. /\ Goes(co, Commanded) /\ Apart(Commanded, {})
      /\ \A id : Known(co, id) => Known(Commanded, id)
      BY ReapGoes, CommandedApart DEF LimitInv, Ready, IInv, Commanded
<1> QED BY <1>1 DEF Goes, Carries, Apart

(* Nothing changes in a step from co to itself.                            *)
LEMMA SelfGoes ==
  ASSUME LimitInv
  PROVE  Goes(co, co) /\ Sound(co) /\ Apart(co, {}) /\ DOMAIN co = Fields
<1>1. Sound(co) /\ Apart(co, {}) /\ DOMAIN co = Fields
      BY DEF LimitInv, Ready, IInv, Apart
<1>2. Alike(co, co) BY <1>1 DEF Alike
<1> QED BY <1>1, <1>2, AlikeLoad, LoadGoes DEF Sound

(* Stop.                                                                   *)
LEMMA CancelSessionKept ==
  ASSUME LimitInv, NEW p \in Sessions, CancelSession(p)
  PROVE  Kept(co, co')
<1> DEFINE s == Commanded
<1>1. /\ Goes(co, s) /\ Apart(s, {}) /\ Sound(s) /\ DOMAIN s = Fields BY CommandedGoes
<1>2. Step(cancel_parent_session(s, p)) BY DEF CancelSession
<1> HIDE DEF s
<1> DEFINE hit(map) == {id \in InSession(map, p) : map[id].req.workflow = None}
           blocked == [s EXCEPT !.spawn_blocked_sessions = @ \cup {p}]
           live == hit(s.active) \cup hit(s.pending)
           entries == hit(s.queued)
           ended == remove_queued(cancel_children(blocked, live), entries)
           last == reject_pending_wakes_for_session(ended, p)
<1>3. cancel_parent_session(s, p) = last BY DEF cancel_parent_session
<1>4. SameHomes(s, blocked) BY <1>1 DEF Apart, SameHomes, Fields, Held
<1>5. Apart(blocked, {}) BY <1>1, <1>4, SameApart
<1>6. /\ DOMAIN blocked = Fields
      /\ blocked.queued = s.queued /\ blocked.pending = s.pending
      /\ blocked.active = s.active /\ blocked.completed = s.completed
      /\ blocked.runs = s.runs /\ blocked.terminal_outputs = s.terminal_outputs
      /\ blocked.spawn_blocked_sessions = s.spawn_blocked_sessions \cup {p}
      BY <1>1 DEF Fields
<1>7. \A x \in DOMAIN s.queued : s.queued[x].req.session = p => x \in entries
      BY <1>1 DEF InSession, Sound, Shaped, Entry
<1> HIDE DEF blocked, live, entries
<1>8. ASSUME Sound(blocked)
      PROVE  /\ Goes(blocked, AfterArm(last))
             /\ DOMAIN AfterArm(last).queued \cap entries = {}
  <2>1. Goes(blocked, ended) /\ DOMAIN ended.queued \cap entries = {}
        BY <1>5, <1>8, CancelGoes
  <2> HIDE DEF ended
  <2>2. Alike(ended, last)
        BY <2>1, RejectPendingWakesAlike
        DEF reject_pending_wakes_for_session, Goes, Carries, Sound, Shaped
  <2> HIDE DEF last
  <2>3. Goes(ended, last) BY <2>1, <2>2, AlikeLoad, LoadGoes DEF Goes, Carries, Sound
  <2>4. Goes(last, AfterArm(last)) BY <2>3, AfterArmGoes DEF Goes, Carries
  <2>5. Goes(ended, AfterArm(last)) BY <2>3, <2>4, GoesTrans
  <2>6. DOMAIN AfterArm(last).queued \subseteq DOMAIN ended.queued
        BY <2>5 DEF Goes, Carries, Moves, SameEntry
  <2> QED BY <2>1, <2>5, <2>6, GoesTrans
<1> HIDE DEF last
<1> DEFINE v == AfterArm(last)
<1>9. co' = v BY <1>2, <1>3 DEF Step
<1>10. Sound(blocked)
  <2>1. Shaped(blocked) BY <1>1, <1>6 DEF Sound, Shaped
  <2>2. \A q : session_running(blocked, q) = session_running(s, q)
        BY <1>6 DEF session_running, InSession
  <2>3. Limited(blocked) BY <1>1, <2>1, <2>2, FewerLimited DEF Sound
  <2> QED BY <1>1, <1>6, <2>1, <2>3 DEF Sound, Distinct
<1>11. Goes(blocked, v) /\ DOMAIN v.queued \cap entries = {} BY <1>8, <1>10
<1> HIDE DEF v
<1>12. \A x \in DOMAIN v.queued : co.queued[x].req.session # p
  <2> SUFFICES ASSUME NEW x \in DOMAIN v.queued PROVE co.queued[x].req.session # p OBVIOUS
  <2>1. SameEntry(blocked, v, x) BY <1>11 DEF Goes, Carries, Moves
  <2>2. x \in DOMAIN s.queued BY <1>6, <2>1 DEF SameEntry
  <2>3. SameEntry(co, s, x) BY <1>1, <2>2 DEF Goes, Carries, Moves
  <2>4. s.queued[x].req.session # p BY <1>7, <1>11, <2>2
  <2> QED BY <2>3, <2>4 DEF SameEntry
<1>13. Ready(co) BY DEF LimitInv
<1>14. Kept(co, v) BY <1>1, <1>6, <1>11, <1>12, <1>13, StopKept
<1> QED BY <1>9, <1>14

(* Muting the children of a session changes no session and no workflow.    *)
LEMMA MutedSame ==
  ASSUME NEW f, NEW p
  PROVE  LET g == [id \in DOMAIN f |->
                     [f[id] EXCEPT !.req.surface = @ /\ f[id].req.session # p]]
         IN  /\ SameReqs(f, f) => SameReqs(f, g)
             /\ SameEntries(f, f) => SameEntries(f, g)
<1> DEFINE mute(id) == f[id].req.surface /\ f[id].req.session # p
           g == [id \in DOMAIN f |->
                   [f[id] EXCEPT !.req.surface = @ /\ f[id].req.session # p]]
<1>1. DOMAIN g = DOMAIN f OBVIOUS
<1>2. ASSUME NEW x \in DOMAIN f, HasReq(f[x])
      PROVE  /\ DOMAIN g[x] = DOMAIN f[x] /\ HasReq(g[x])
             /\ g[x].req.session = f[x].req.session
             /\ g[x].req.workflow = f[x].req.workflow
             /\ \A k \in DOMAIN f[x] \ {"req"} : g[x][k] = f[x][k]
  <2> DEFINE b == mute(x)
             r == f[x]
             h == [r EXCEPT !.req.surface = b]
  <2>1. g[x] = h OBVIOUS
  <2>2. b \in BOOLEAN OBVIOUS
  <2>3. "req" \in DOMAIN r /\ r.req \in Request BY <1>2 DEF HasReq
  <2> HIDE DEF b, r, g
  <2>4. /\ DOMAIN h = DOMAIN r /\ h.req = [r.req EXCEPT !.surface = b]
        /\ \A k \in DOMAIN r \ {"req"} : h[k] = r[k]
        BY <2>3
  <2> HIDE DEF h
  <2>5. /\ [r.req EXCEPT !.surface = b] \in Request
        /\ [r.req EXCEPT !.surface = b].session = r.req.session
        /\ [r.req EXCEPT !.surface = b].workflow = r.req.workflow
        BY <2>2, <2>3 DEF Request
  <2>6. HasReq(h) BY <2>3, <2>4, <2>5 DEF HasReq
  <2> QED BY <2>1, <2>4, <2>5, <2>6 DEF r
<1> HIDE DEF g
<1>3. SameReqs(f, f) => SameReqs(f, g)
      BY <1>1, <1>2 DEF SameReqs, Displaced
<1>4. SameEntries(f, f) => SameEntries(f, g)
      BY <1>1, <1>2 DEF SameEntries, Entry, Displaced
<1> QED BY <1>3, <1>4 DEF g

(* Close and delete; a delete that begins to drain closes admission.       *)
LEMMA TeardownKept ==
  ASSUME LimitInv, NEW p \in Sessions, NEW b \in BOOLEAN, TeardownSession(p, b)
  PROVE  Kept(co, co')
<1> DEFINE s == Commanded
<1>1. /\ Goes(co, s) /\ Apart(s, {}) /\ Sound(s) /\ DOMAIN s = Fields BY CommandedGoes
<1>2. Step(handle_teardown_session(s, p, b)) BY DEF TeardownSession
<1> HIDE DEF s
<1> DEFINE quiet == [s EXCEPT !.pending_completions =
                       purge_completions_for_spawner(@, {p})]
           muted(map) == [id \in DOMAIN map |->
             [map[id] EXCEPT !.req.surface = @ /\ map[id].req.session # p]]
           refused == reject_pending_wakes_for_session(quiet, p)
           active == muted(refused.active)
           pending == muted(refused.pending)
           queued == muted(refused.queued)
           silent == [refused EXCEPT !.active = active, !.pending = pending,
                                     !.queued = queued]
           live == InSession(quiet.active, p) \cup InSession(quiet.pending, p)
           entries == InSession(quiet.queued, p)
           torn == remove_queued(cancel_children(silent, live), entries)
           drain == begin_teardown_drain(torn, p)
<1>3. \/ handle_teardown_session(s, p, b) = drain
      \/ handle_teardown_session(s, p, b) = torn
      BY DEF handle_teardown_session, teardown_session_children
<1>4. SameHomes(s, quiet) BY <1>1 DEF Apart, SameHomes, Fields, Held
<1>5. Alike(s, quiet) BY <1>1 DEF Alike, Fields
<1>6. Apart(quiet, {}) BY <1>1, <1>4, SameApart
<1>7. \A x \in DOMAIN s.queued : s.queued[x].req.session = p => x \in entries
      BY <1>5 DEF InSession, Alike
<1> HIDE DEF quiet, live, entries
<1>8. Apart(refused, {}) BY <1>6, RejectSessionWakesApart
<1>9. Alike(quiet, refused)
      BY <1>5, RejectPendingWakesAlike DEF reject_pending_wakes_for_session, Alike
<1>10. Load(s, refused) BY <1>1, <1>5, <1>9, AlikeTrans, AlikeLoad DEF Sound
<1>11. Shaped(refused) /\ DOMAIN refused = Fields BY <1>10 DEF Load, Shaped
<1> HIDE DEF refused
<1>12. /\ SameReqs(refused.active, active) /\ SameReqs(refused.pending, pending)
       /\ SameEntries(refused.queued, queued)
       BY <1>11, SameMaps, MutedSame
<1> HIDE DEF active, pending, queued
<1>13. /\ DOMAIN silent = Fields
       /\ silent.active = active /\ silent.pending = pending /\ silent.queued = queued
       /\ silent.completed = refused.completed /\ silent.runs = refused.runs
       /\ silent.terminal_outputs = refused.terminal_outputs
       /\ silent.spawn_blocked_sessions = refused.spawn_blocked_sessions
       /\ silent.teardown_drains = refused.teardown_drains
       BY <1>11 DEF Fields
<1> HIDE DEF silent
<1>14. Load(refused, silent) BY <1>11, <1>12, <1>13, RecordsLoad
<1>15. SameHomes(refused, silent)
       BY <1>12, <1>13 DEF SameHomes, SameReqs, SameEntries, Held
<1>16. Apart(silent, {}) BY <1>8, <1>15, SameApart
<1>17. Goes(co, silent)
  <2>1. Load(s, silent) BY <1>10, <1>14, LoadTrans
  <2>2. Goes(s, silent) BY <1>1, <2>1, LoadGoes
  <2> QED BY <1>1, <2>2, GoesTrans
<1>18. Goes(silent, torn) /\ DOMAIN torn.queued \cap entries = {}
       BY <1>16, <1>17, CancelGoes DEF Goes, Carries
<1> HIDE DEF torn
<1>19. Goes(co, torn) BY <1>17, <1>18, GoesTrans
<1>20. \A x \in DOMAIN torn.queued : co.queued[x].req.session # p
  <2> SUFFICES ASSUME NEW x \in DOMAIN torn.queued PROVE co.queued[x].req.session # p
      OBVIOUS
  <2>1. x \in DOMAIN silent.queued BY <1>18 DEF Goes, Carries, Moves, SameEntry
  <2>2. x \in DOMAIN s.queued
        BY <1>10, <1>14, <2>1 DEF Load, SameEntry
  <2>3. SameEntry(co, s, x) BY <1>1, <2>2 DEF Goes, Carries, Moves
  <2> QED BY <1>7, <1>18, <2>2, <2>3 DEF SameEntry
<1>21. CASE handle_teardown_session(s, p, b) = torn
       BY <1>2, <1>19, <1>21, StepGoes
<1>22. CASE handle_teardown_session(s, p, b) = drain
  <2>1. DOMAIN torn = Fields BY <1>19 DEF Goes, Carries, Sound, Shaped
  <2>2. /\ DOMAIN drain = Fields
        /\ drain.queued = torn.queued /\ drain.pending = torn.pending
        /\ drain.active = torn.active /\ drain.completed = torn.completed
        /\ drain.runs = torn.runs /\ drain.terminal_outputs = torn.terminal_outputs
        /\ drain.spawn_blocked_sessions = torn.spawn_blocked_sessions \cup {p}
        BY <2>1 DEF begin_teardown_drain, Fields
  <2> HIDE DEF drain
  <2> DEFINE v == AfterArm(drain)
  <2>3. co' = v BY <1>2, <1>22 DEF Step
  <2>4. Sound(drain) => Goes(drain, v) BY AfterArmGoes
  <2>5. Sound(drain)
    <3>1. Sound(torn) BY <1>19 DEF Goes, Carries
    <3>2. Shaped(drain) BY <2>2, <3>1 DEF Sound, Shaped
    <3>3. \A q : session_running(drain, q) = session_running(torn, q)
          BY <2>2 DEF session_running, InSession
    <3>4. Limited(drain) BY <3>1, <3>2, <3>3, FewerLimited DEF Sound
    <3> QED BY <2>2, <3>1, <3>2, <3>4 DEF Sound, Distinct
  <2> HIDE DEF v
  <2>6. DOMAIN v.queued \subseteq DOMAIN torn.queued
        BY <2>2, <2>4, <2>5 DEF Goes, Carries, Moves, SameEntry
  <2>7. \A x \in DOMAIN v.queued : co.queued[x].req.session # p BY <1>20, <2>6
  <2>8. Ready(co) BY DEF LimitInv
  <2>9. Kept(co, v) BY <1>19, <2>2, <2>4, <2>7, <2>8, StopKept
  <2> QED BY <2>3, <2>9
<1> QED BY <1>3, <1>21, <1>22

(* The commands.                                                           *)
LEMMA CommandKept ==
  ASSUME LimitInv, Command
  PROVE  Kept(co, co')
<1> DEFINE s == Commanded
<1>0. /\ Goes(co, s) /\ Apart(s, {}) /\ Sound(s) /\ DOMAIN s = Fields
      /\ \A id : Known(co, id) => Known(s, id)
      BY CommandedGoes
<1> HIDE DEF s
<1>1. ASSUME NEW id \in Ids, NEW ingress \in Offers, Spawn(id, ingress)
      PROVE  Kept(co, co')
  <2> DEFINE t == handle_spawn(s, id, ingress)
  <2>1. Step(t) BY <1>1 DEF Spawn, s
  <2>2. ingress \in Request BY ConstantsAssumption
  <2>3. PICK N : Joins(s, t, N) /\ \A x \in N : ~Known(s, x) BY <1>0, <2>2, SpawnJoins
  <2> HIDE DEF t
  <2>4. N \cap DOMAIN co.queued = {} BY <1>0, <2>3 DEF Known
  <2>5. Joins(co, t, N) BY <1>0, <2>3, <2>4, GoesThenJoins
  <2> QED BY <2>1, <2>5, StepJoins
<1>2. ASSUME NEW q \in Queries, NEW id \in Ids, NEW from \in Senders \cup {None},
             Query(q, id, from)
      PROVE  Kept(co, co')
  <2> DEFINE parked == [s EXCEPT !.query[q] = "listening",
                                 !.waiters = @ \cup {[query |-> q, id |-> id]}]
             told == [s EXCEPT !.query[q] = "answered"]
  <2>1. Alike(s, parked) /\ Alike(s, told) BY <1>0 DEF Alike, Fields
  <2>2. Step(parked) \/ Step(told) BY <1>2 DEF Query, s
  <2> HIDE DEF parked, told
  <2> QED BY <1>0, <2>1, <2>2, StepAlike
<1>3. ASSUME NEW id \in Ids, NEW from \in Senders \cup {None}, CancelOne(id, from)
      PROVE  Kept(co, co')
  <2> DEFINE t == remove_queued(cancel_children(s, {id}), {id})
  <2>1. Step(s) \/ Step(t) BY <1>3 DEF CancelOne, cancel_one, s
  <2>2. Goes(s, t) BY <1>0, CancelGoes
  <2> HIDE DEF t
  <2>3. Goes(co, t) BY <1>0, <2>2, GoesTrans
  <2> QED BY <1>0, <2>1, <2>3, StepGoes
<1>4. ASSUME NEW prompt \in Prompts, NEW p \in Sessions \cup {None},
             CancelPrompt(prompt, p)
      PROVE  Kept(co, co')
  <2>1. Goes(s, cancel_parent_prompt(s, prompt, p))
        BY <1>0, CancelGoes DEF cancel_parent_prompt
  <2>2. Goes(co, cancel_parent_prompt(s, prompt, p)) BY <1>0, <2>1, GoesTrans
  <2> QED BY <1>4, <2>2, StepGoes DEF CancelPrompt, s
<1>5. ASSUME NEW p \in Sessions, CancelSession(p)
      PROVE  Kept(co, co')
      BY <1>5, CancelSessionKept
<1>6. ASSUME NEW r \in Runs, NEW p \in Sessions \cup {None}, CancelWorkflow(r, p)
      PROVE  Kept(co, co')
  <2> DEFINE t == cancel_workflow_children(s, r, p)
             u == [t EXCEPT !.workflow_cancel_waiters = @ \cup {r}]
  <2>1. Goes(s, t) BY <1>0, CancelGoes DEF cancel_workflow_children
  <2>2. Step(t) \/ Step(u) BY <1>6 DEF CancelWorkflow, s
  <2> HIDE DEF t
  <2>3. Goes(co, t) BY <1>0, <2>1, GoesTrans
  <2>4. Alike(t, u) BY <2>3 DEF Alike, Fields, Goes, Carries, Sound, Shaped
  <2> QED BY <2>2, <2>3, <2>4, StepGoes, StepAlike
<1>7. ASSUME NEW p \in Sessions, NEW b \in BOOLEAN, TeardownSession(p, b)
      PROVE  Kept(co, co')
      BY <1>7, TeardownKept
<1>8. ASSUME NEW p \in Sessions, OpenSpawnAdmission(p)
      PROVE  Kept(co, co')
  <2> DEFINE t == [s EXCEPT !.spawn_blocked_sessions =
                     IF p \in s.teardown_drains THEN @ ELSE @ \ {p}]
  <2>1. Alike(s, t) BY <1>0 DEF Alike, Fields
  <2>2. Step(t) BY <1>8 DEF OpenSpawnAdmission, s
  <2> HIDE DEF t
  <2> QED BY <1>0, <2>1, <2>2, StepAlike
<1>9. ASSUME NEW p \in Sessions, NEW prompt \in Prompts, WaitPromptDrained(p, prompt)
      PROVE  Kept(co, co')
  <2> DEFINE t == [s EXCEPT !.drain_waiters =
                     @ \cup {[session |-> p, prompt |-> prompt]}]
  <2>1. Alike(s, t) BY <1>0 DEF Alike, Fields
  <2>2. Step(s) \/ Step(t) BY <1>9 DEF WaitPromptDrained, s
  <2> HIDE DEF t
  <2> QED BY <1>0, <2>1, <2>2, StepGoes, StepAlike
<1>10. ASSUME NEW p \in Sess, Completions(p)
       PROVE  Kept(co, co')
  <2> DEFINE t == [s EXCEPT !.pending_completions =
                     purge_completions_for_spawner(@, {p})]
  <2>1. Alike(s, t) BY <1>0 DEF Alike, Fields
  <2>2. Step(t) BY <1>10 DEF Completions, s
  <2> HIDE DEF t
  <2> QED BY <1>0, <2>1, <2>2, StepAlike
<1>11. ASSUME NEW m \in Messages, NEW id \in Ids, NEW sender \in Senders,
              NEW source \in Sources, SendActiveMessage(m, id, sender, source)
       PROVE  Kept(co, co')
  <2> DEFINE t == [co EXCEPT !.outcome[m] = "waiting"]
             msgs == {[msg |-> m, id |-> id, sender |-> sender, source |-> source]}
             u == handle_send_active_message(t, id, msgs)
  <2>1. Goes(co, co) /\ Sound(co) /\ Apart(co, {}) /\ DOMAIN co = Fields BY SelfGoes
  <2>2. SameHomes(co, t) BY <2>1 DEF SameHomes, Fields, Held
  <2>3. Alike(co, t) BY <2>1 DEF Alike, Fields
  <2>4. Step(u) BY <1>11 DEF SendActiveMessage
  <2> HIDE DEF t, msgs
  <2>5. Goes(co, t) BY <2>1, <2>3, AlikeLoad, LoadGoes DEF Sound
  <2>6. Apart(t, {}) BY <2>1, <2>2, SameApart
  <2>7. Sound(t) BY <2>5 DEF Goes, Carries
  <2>8. PICK N : Joins(t, u, N) BY <2>6, <2>7, SendJoins
  <2> HIDE DEF u
  <2>9. N \cap DOMAIN co.queued = {} BY <2>3, <2>8 DEF Joins, Alike
  <2>10. Joins(co, u, N) BY <2>5, <2>8, <2>9, GoesThenJoins
  <2> QED BY <2>4, <2>10, StepJoins
<1> QED BY <1>1, <1>2, <1>3, <1>4, <1>5, <1>6, <1>7, <1>8, <1>9, <1>10, <1>11
        DEF Command

(* A child that starts runs already: it keeps its request and its slot.    *)
LEMMA StartedKept ==
  ASSUME LimitInv, NEW id \in Ids, NEW definition_background, NEW defer,
         Started(id, definition_background, defer)
  PROVE  Kept(co, co')
<1> DEFINE child == co.pending[id]
           record == [req |-> child.req, cancelled |-> FALSE, reply |-> child.reply,
                      deadline |-> child.deadline, handle_only |-> child.handle_only,
                      definition_background |-> definition_background,
                      generation |-> co.next_generation, finalizing |-> FALSE,
                      in_flight |-> 0, clean |-> TRUE, reporter_waits |-> FALSE,
                      wake |-> IF defer THEN child.wake ELSE None]
           promoted == [co EXCEPT
             !.pending = Without(@, {id}),
             !.next_generation = @ + 1,
             !.active = Put(@, id, record)]
<1>1. \/ Step(reject_spawn_ready_ids(co, {id}))
      \/ Step(promoted)
      \/ Step(admit_spawn_ready_messages(promoted, id))
      BY DEF Started
<1>2. id \in DOMAIN co.pending BY DEF Started
<1>3. Goes(co, co) /\ Sound(co) /\ Apart(co, {}) /\ DOMAIN co = Fields BY SelfGoes
<1>4. id \notin DOMAIN co.active /\ id \notin DOMAIN co.queued BY <1>2, <1>3 DEF Apart
<1>5. HasReq(child) /\ Displaced(child) BY <1>2, <1>3 DEF Sound, Shaped
<1>6. record.req = child.req /\ HasReq(record) /\ Displaced(record)
      BY <1>5 DEF HasReq, Displaced
<1> HIDE DEF record
<1>7. /\ DOMAIN promoted = Fields
      /\ promoted.queued = co.queued /\ promoted.completed = co.completed
      /\ promoted.runs = co.runs /\ promoted.terminal_outputs = co.terminal_outputs
      /\ promoted.spawn_blocked_sessions = co.spawn_blocked_sessions
      /\ promoted.pending = Without(co.pending, {id})
      /\ promoted.active = Put(co.active, id, record)
      BY <1>3 DEF Fields
<1>8. /\ DOMAIN promoted.pending = DOMAIN co.pending \ {id}
      /\ DOMAIN promoted.active = DOMAIN co.active \cup {id}
      /\ \A x \in DOMAIN co.pending \ {id} : promoted.pending[x] = co.pending[x]
      /\ \A x \in DOMAIN co.active : promoted.active[x] = co.active[x]
      /\ promoted.active[id] = record
      BY <1>4, <1>7 DEF Without, Put
<1> HIDE DEF promoted
<1>9. Shaped(promoted) BY <1>3, <1>6, <1>7, <1>8 DEF Sound, Shaped
<1>10. \A p : session_running(promoted, p) = session_running(co, p)
  <2> SUFFICES ASSUME NEW p PROVE session_running(promoted, p) = session_running(co, p)
      OBVIOUS
  <2>1. \A x : x \in session_running(promoted, p) <=>
                 \/ /\ x \in DOMAIN promoted.pending
                    /\ promoted.pending[x].req.session = p
                    /\ promoted.pending[x].req.workflow = None
                 \/ /\ x \in DOMAIN promoted.active
                    /\ promoted.active[x].req.session = p
                    /\ promoted.active[x].req.workflow = None
        BY DEF session_running, InSession
  <2>2. \A x : x \in session_running(co, p) <=>
                 \/ /\ x \in DOMAIN co.pending /\ co.pending[x].req.session = p
                    /\ co.pending[x].req.workflow = None
                 \/ /\ x \in DOMAIN co.active /\ co.active[x].req.session = p
                    /\ co.active[x].req.workflow = None
        BY DEF session_running, InSession
  <2>3. ASSUME NEW x
        PROVE  x \in session_running(promoted, p) <=> x \in session_running(co, p)
    <3>1. CASE x = id BY <1>2, <1>4, <1>6, <1>8, <2>1, <2>2, <3>1
    <3>2. CASE x # id BY <1>8, <2>1, <2>2, <3>2
    <3> QED BY <3>1, <3>2
  <2> QED BY <2>3
<1>11. Goes(co, promoted)
  <2>1. Limited(promoted) BY <1>3, <1>9, <1>10, FewerLimited DEF Sound
  <2>2. Distinct(promoted) BY <1>3, <1>7 DEF Sound, Distinct
  <2>3. Moves(co, promoted, {}, {}) BY <1>7, <1>8, <1>10 DEF Moves, SameEntry
  <2>4. Full(co) => Full(promoted) BY <1>7, <1>10 DEF Full, session_running_count
  <2>5. Polled(co) => Polled(promoted) BY <1>2, <1>4, <1>7, <1>8 DEF Polled
  <2> QED BY <1>7, <1>9, <2>1, <2>2, <2>3, <2>4, <2>5 DEF Goes, Carries, Sound
<1>12. CASE Step(reject_spawn_ready_ids(co, {id}))
  <2>1. Alike(co, reject_spawn_ready_ids(co, {id})) BY <1>3, RejectSpawnReadyAlike
  <2> QED BY <1>3, <1>12, <2>1, StepAlike
<1>13. CASE Step(promoted) BY <1>11, <1>13, StepGoes
<1>14. CASE Step(admit_spawn_ready_messages(promoted, id))
  <2>1. Load(promoted, admit_spawn_ready_messages(promoted, id))
        BY <1>9, AdmitSpawnReadyLoad
  <2> QED BY <1>11, <1>14, <2>1, StepLoad
<1> QED BY <1>1, <1>12, <1>13, <1>14

(* A record of an active child that keeps its session and its workflow.    *)
LEMMA ActiveLoad ==
  ASSUME NEW s, NEW t, NEW id, Shaped(s), DOMAIN t = Fields,
         t.queued = s.queued, t.pending = s.pending, t.completed = s.completed,
         t.runs = s.runs, t.terminal_outputs = s.terminal_outputs,
         t.spawn_blocked_sessions = s.spawn_blocked_sessions,
         DOMAIN t.active = DOMAIN s.active,
         \A x \in DOMAIN s.active \ {id} : t.active[x] = s.active[x],
         id \in DOMAIN s.active =>
           /\ HasReq(t.active[id]) /\ Displaced(t.active[id])
           /\ t.active[id].req.session = s.active[id].req.session
           /\ t.active[id].req.workflow = s.active[id].req.workflow
  PROVE  Load(s, t)
<1>1. /\ SameEntries(s.queued, s.queued) /\ SameReqs(s.pending, s.pending)
      /\ SameReqs(s.active, s.active)
      BY SameMaps
<1>2. SameReqs(s.active, t.active) BY <1>1, OneRecord
<1> QED BY <1>1, <1>2, RecordsLoad

(* The end of a deferred start.                                            *)
LEMMA SettleKept ==
  ASSUME LimitInv, NEW id \in Ids, NEW is_committed, SettleDeferredStart(id, is_committed)
  PROVE  Kept(co, co')
<1> DEFINE committed == [co EXCEPT !.active[id].wake = None]
           aborted == [co EXCEPT !.active[id].req.surface = FALSE,
                                 !.active[id].cancelled = TRUE,
                                 !.active[id].finalizing = TRUE]
<1>1. \/ Step(admit_spawn_ready_messages(committed, id))
      \/ Step(reject_spawn_ready_ids(aborted, {id}))
      BY DEF SettleDeferredStart
<1>2. Goes(co, co) /\ Sound(co) /\ Apart(co, {}) /\ DOMAIN co = Fields BY SelfGoes
<1>3. id \in DOMAIN co.active BY DEF SettleDeferredStart
<1>4. HasReq(co.active[id]) /\ Displaced(co.active[id]) BY <1>2, <1>3 DEF Sound, Shaped
<1>5. /\ DOMAIN committed = Fields
      /\ committed.queued = co.queued /\ committed.pending = co.pending
      /\ committed.completed = co.completed /\ committed.runs = co.runs
      /\ committed.terminal_outputs = co.terminal_outputs
      /\ committed.spawn_blocked_sessions = co.spawn_blocked_sessions
      /\ committed.active = [co.active EXCEPT ![id].wake = None]
      BY <1>2 DEF Fields
<1>6. /\ DOMAIN aborted = Fields
      /\ aborted.queued = co.queued /\ aborted.pending = co.pending
      /\ aborted.completed = co.completed /\ aborted.runs = co.runs
      /\ aborted.terminal_outputs = co.terminal_outputs
      /\ aborted.spawn_blocked_sessions = co.spawn_blocked_sessions
      /\ aborted.active = [co.active EXCEPT ![id].req.surface = FALSE,
                                            ![id].cancelled = TRUE,
                                            ![id].finalizing = TRUE]
      BY <1>2 DEF Fields
<1> HIDE DEF committed, aborted
<1>7. Load(co, committed)
  <2> DEFINE r == co.active[id]
             w == [r EXCEPT !.wake = None]
  <2>1. /\ DOMAIN committed.active = DOMAIN co.active
        /\ \A x \in DOMAIN co.active \ {id} : committed.active[x] = co.active[x]
        /\ committed.active[id] = w
        BY <1>3, <1>5
  <2>2. HasReq(w) /\ Displaced(w) /\ w.req = r.req BY <1>4 DEF HasReq, Displaced
  <2> HIDE DEF w
  <2> QED BY <1>2, <1>5, <2>1, <2>2, ActiveLoad DEF Sound
<1>8. Load(co, aborted)
  <2> DEFINE r == co.active[id]
             q == [r.req EXCEPT !.surface = FALSE]
             w == [r EXCEPT !.req = q, !.cancelled = TRUE, !.finalizing = TRUE]
  <2>1. /\ DOMAIN aborted.active = DOMAIN co.active
        /\ \A x \in DOMAIN co.active \ {id} : aborted.active[x] = co.active[x]
        /\ aborted.active[id] = w
        BY <1>3, <1>6
  <2>2. q \in Request /\ q.session = r.req.session /\ q.workflow = r.req.workflow
        BY <1>4 DEF HasReq, Request
  <2> HIDE DEF q
  <2>3. HasReq(w) /\ Displaced(w) /\ w.req = q BY <1>4, <2>2 DEF HasReq, Displaced
  <2> HIDE DEF w
  <2> QED BY <1>2, <1>6, <2>1, <2>2, <2>3, ActiveLoad DEF Sound
<1>9. CASE Step(admit_spawn_ready_messages(committed, id))
  <2>1. Load(committed, admit_spawn_ready_messages(committed, id))
        BY <1>7, AdmitSpawnReadyLoad DEF Load
  <2>2. Load(co, admit_spawn_ready_messages(committed, id)) BY <1>7, <2>1, LoadTrans
  <2> QED BY <1>2, <1>9, <2>2, StepLoad
<1>10. CASE Step(reject_spawn_ready_ids(aborted, {id}))
  <2>1. Alike(aborted, reject_spawn_ready_ids(aborted, {id}))
        BY <1>6, RejectSpawnReadyAlike
  <2>2. Load(aborted, reject_spawn_ready_ids(aborted, {id}))
        BY <1>8, <2>1, AlikeLoad DEF Load
  <2>3. Load(co, reject_spawn_ready_ids(aborted, {id})) BY <1>8, <2>2, LoadTrans
  <2> QED BY <1>2, <1>10, <2>3, StepLoad
<1> QED BY <1>1, <1>9, <1>10

(* The reports of children, admissions and the host.                       *)
LEMMA HostReportKept ==
  ASSUME LimitInv, HostReport
  PROVE  Kept(co, co')
<1>0. Goes(co, co) /\ Sound(co) /\ Apart(co, {}) /\ DOMAIN co = Fields BY SelfGoes
<1>1. ASSUME NEW id \in Ids, NEW b \in BOOLEAN, NEW defer \in BOOLEAN,
             Started(id, b, defer)
      PROVE  Kept(co, co')
      BY <1>1, StartedKept
<1>2. ASSUME NEW id \in Ids, NEW ok \in BOOLEAN, SettleDeferredStart(id, ok)
      PROVE  Kept(co, co')
      BY <1>2, SettleKept
<1>3. ASSUME NEW id \in Ids, Finalizing(id)
      PROVE  Kept(co, co')
  <2> DEFINE t == [co EXCEPT !.active[id].finalizing = TRUE,
                             !.active[id].reporter_waits = co.active[id].in_flight > 0]
             r == co.active[id]
             w == [r EXCEPT !.finalizing = TRUE, !.reporter_waits = r.in_flight > 0]
  <2>1. /\ DOMAIN t = Fields
        /\ t.queued = co.queued /\ t.pending = co.pending
        /\ t.completed = co.completed /\ t.runs = co.runs
        /\ t.terminal_outputs = co.terminal_outputs
        /\ t.spawn_blocked_sessions = co.spawn_blocked_sessions
        /\ t.active = [co.active EXCEPT ![id].finalizing = TRUE,
                                        ![id].reporter_waits = co.active[id].in_flight > 0]
        BY <1>0 DEF Fields
  <2>2. Step(t) /\ id \in DOMAIN co.active BY <1>3 DEF Finalizing
  <2>3. HasReq(r) /\ Displaced(r) BY <1>0, <2>2 DEF Sound, Shaped
  <2> HIDE DEF t
  <2>4. /\ DOMAIN t.active = DOMAIN co.active
        /\ \A x \in DOMAIN co.active \ {id} : t.active[x] = co.active[x]
        /\ t.active[id] = w
        BY <2>1, <2>2
  <2>5. HasReq(w) /\ Displaced(w) /\ w.req = r.req BY <2>3 DEF HasReq, Displaced
  <2> HIDE DEF w
  <2>6. Load(co, t) BY <1>0, <2>1, <2>4, <2>5, ActiveLoad DEF Sound
  <2> QED BY <1>0, <2>2, <2>6, StepLoad
<1>4. ASSUME NEW id \in Ids, NEW success \in BOOLEAN, RunEnded(id, success)
      PROVE  Kept(co, co')
  <2> DEFINE t == [co EXCEPT !.runs = @ \ {id}]
             u == begin_terminalization(t, id, success)
  <2>1. SameHomes(co, t) BY <1>0 DEF SameHomes, Fields, Held
  <2>2. Apart(t, {}) BY <1>0, <2>1, SameApart
  <2>3. /\ DOMAIN t = Fields
        /\ t.queued = co.queued /\ t.pending = co.pending /\ t.active = co.active
        /\ t.completed = co.completed /\ t.runs = co.runs \ {id}
        /\ t.terminal_outputs = co.terminal_outputs
        /\ t.spawn_blocked_sessions = co.spawn_blocked_sessions
        BY <1>0 DEF Fields
  <2>4. Step(u) /\ id \in co.runs BY <1>4 DEF RunEnded
  <2> HIDE DEF t
  <2>5. \A p : session_running(t, p) = session_running(co, p)
        BY <2>3 DEF session_running, InSession
  <2>6. Sound(t)
    <3>1. Shaped(t) BY <1>0, <2>3 DEF Sound, Shaped
    <3>2. Limited(t) BY <1>0, <2>5, <3>1, FewerLimited DEF Sound
    <3> QED BY <1>0, <2>3, <3>1, <3>2 DEF Sound, Distinct
  <2>7. Carries(co, t)
    <3>1. Moves(co, t, {}, {}) BY <2>3, <2>5 DEF Moves, SameEntry
    <3>2. Full(co) => Full(t) BY <2>3, <2>5 DEF Full, session_running_count
    <3> QED BY <2>3, <2>6, <3>1, <3>2 DEF Carries
  <2>8. Ending(t, id)
    <3>1. Polled(co) BY DEF LimitInv, Ready
    <3>2. id \notin DOMAIN co.terminal_outputs BY <1>0, <2>4, <3>1 DEF Polled, Apart
    <3> QED BY <2>3, <3>1, <3>2 DEF Polled, Ending
  <2>9. Carries(t, u) /\ Polled(u) BY <2>2, <2>6, <2>8, TerminalizationCarries
  <2> HIDE DEF u
  <2>10. Carries(co, u) BY <2>7, <2>9, CarriesTrans
  <2>11. Goes(co, u) BY <2>9, <2>10 DEF Goes
  <2> QED BY <2>4, <2>11, StepGoes
<1>5. ASSUME NEW f \in co.active_messages, NEW how, ActiveMessageEnded(f, how)
      PROVE  Kept(co, co')
      BY <1>0, <1>5, FinishMessageGoes, StepGoes DEF ActiveMessageEnded
<1>6. ASSUME NEW w \in co.progress, ProgressEnded(w)
      PROVE  Kept(co, co')
  <2> DEFINE t == [co EXCEPT !.progress = @ \ {w},
                     !.query[w.query] = IF @ = "listening" THEN "answered" ELSE @]
  <2>1. Alike(co, t) BY <1>0 DEF Alike, Fields
  <2>2. Step(t) BY <1>6 DEF ProgressEnded
  <2> HIDE DEF t
  <2> QED BY <1>0, <2>1, <2>2, StepAlike
<1>7. ASSUME NEW p \in co.publications, TerminalPublished(p)
      PROVE  Kept(co, co')
  <2> DEFINE t == [co EXCEPT !.publications = @ \ {p}]
             u == handle_terminal_published(t, p.id)
  <2>1. SameHomes(co, t) BY <1>0 DEF SameHomes, Fields, Held
  <2>2. Alike(co, t) BY <1>0 DEF Alike, Fields
  <2>3. Apart(t, {}) BY <1>0, <2>1, SameApart
  <2>4. Step(u) BY <1>7 DEF TerminalPublished
  <2> HIDE DEF t
  <2>5. Goes(co, t) BY <1>0, <2>2, AlikeLoad, LoadGoes DEF Sound
  <2>6. Sound(t) BY <2>5 DEF Goes, Carries
  <2>7. PICK N : Joins(t, u, N) BY <2>3, <2>6, TerminalPublishedJoins
  <2> HIDE DEF u
  <2>8. N \cap DOMAIN co.queued = {} BY <2>2, <2>7 DEF Joins, Alike
  <2>9. Joins(co, u, N) BY <2>5, <2>7, <2>8, GoesThenJoins
  <2> QED BY <2>4, <2>9, StepJoins
<1> QED BY <1>1, <1>2, <1>3, <1>4, <1>5, <1>6, <1>7 DEF HostReport

(* The caller of a child that is handed off.                               *)
LEMMA DetachedSame ==
  ASSUME NEW f, NEW id, SameReqs(f, f)
  PROVE  SameReqs(f, [x \in DOMAIN f |-> IF x # id THEN f[x] ELSE
           [f[x] EXCEPT !.reply = FALSE, !.handle_only = TRUE, !.deadline = FALSE]])
<1> DEFINE g == [x \in DOMAIN f |-> IF x # id THEN f[x] ELSE
           [f[x] EXCEPT !.reply = FALSE, !.handle_only = TRUE, !.deadline = FALSE]]
<1>1. DOMAIN g = DOMAIN f OBVIOUS
<1>2. ASSUME NEW x \in DOMAIN f
      PROVE  /\ DOMAIN g[x] = DOMAIN f[x]
             /\ g[x].req = f[x].req /\ g[x].wake = f[x].wake
  <2> DEFINE r == f[x]
             freed == [r EXCEPT !.reply = FALSE, !.handle_only = TRUE, !.deadline = FALSE]
  <2>1. g[x] = r \/ g[x] = freed OBVIOUS
  <2>2. {"req", "wake"} \subseteq DOMAIN r BY DEF SameReqs, HasReq, Displaced
  <2>3. DOMAIN freed = DOMAIN r /\ freed.req = r.req /\ freed.wake = r.wake BY <2>2
  <2> QED BY <2>1, <2>3
<1> HIDE DEF g
<1>3. SameReqs(f, g) BY <1>1, <1>2, SameRecords
<1> QED BY <1>3 DEF g

(* The deadlines: the caller's, a parked send's, a drain's and a query's.  *)
LEMMA DeadlineKept ==
  ASSUME LimitInv, Deadline
  PROVE  Kept(co, co')
<1> DEFINE s == Commanded
<1>0. Goes(co, s) /\ Sound(s) /\ DOMAIN s = Fields BY CommandedGoes
<1> HIDE DEF s
<1>1. ASSUME ReapAbandonedCallers PROVE Kept(co, co')
      BY <1>0, <1>1, StepGoes DEF ReapAbandonedCallers, s
<1>2. ASSUME NEW id \in Ids, ForegroundDeadline(id) PROVE Kept(co, co')
  <2> DEFINE detached(map) == [x \in DOMAIN map |-> IF x # id THEN map[x] ELSE
        [map[x] EXCEPT !.reply = FALSE, !.handle_only = TRUE, !.deadline = FALSE]]
             pending == detached(s.pending)
             active == detached(s.active)
             queued == [x \in DOMAIN s.queued |-> IF x # id THEN s.queued[x] ELSE
                          [s.queued[x] EXCEPT !.reply = FALSE, !.deadline = FALSE]]
             t == [s EXCEPT !.pending = pending, !.active = active, !.queued = queued,
                            !.caller[id] = IF @ = "listening" THEN "answered" ELSE @]
  <2>1. Step(t) \/ Step(s) BY <1>2 DEF ForegroundDeadline, s
  <2>2. SameReqs(s.pending, pending) /\ SameReqs(s.active, active)
        BY <1>0, SameMaps, DetachedSame DEF Sound
  <2>3. SameEntries(s.queued, queued)
    <3>1. ASSUME NEW x \in DOMAIN s.queued
          PROVE  /\ Entry(queued[x])
                 /\ queued[x].req.session = s.queued[x].req.session
                 /\ queued[x].queued_at = s.queued[x].queued_at
      <4> DEFINE r == s.queued[x]
                 freed == [r EXCEPT !.reply = FALSE, !.deadline = FALSE]
      <4>1. queued[x] = r \/ queued[x] = freed OBVIOUS
      <4>2. Entry(r) BY <1>0 DEF Sound, Shaped
      <4>3. {"req", "wake", "cancelled", "queued_at"} \subseteq DOMAIN r
            BY <4>2 DEF Entry, HasReq, Displaced
      <4> HIDE DEF r
      <4>4. /\ DOMAIN freed = DOMAIN r
            /\ freed.req = r.req /\ freed.wake = r.wake
            /\ freed.cancelled = r.cancelled /\ freed.queued_at = r.queued_at
            BY <4>3
      <4> HIDE DEF freed
      <4>5. Entry(freed) BY <4>2, <4>4 DEF Entry, HasReq, Displaced
      <4> HIDE DEF queued
      <4> QED BY <4>1, <4>2, <4>4, <4>5 DEF r
    <3> QED BY <3>1 DEF SameEntries
  <2> HIDE DEF pending, active, queued
  <2>4. /\ DOMAIN t = Fields
        /\ t.pending = pending /\ t.active = active /\ t.queued = queued
        /\ t.completed = s.completed /\ t.runs = s.runs
        /\ t.terminal_outputs = s.terminal_outputs
        /\ t.spawn_blocked_sessions = s.spawn_blocked_sessions
        BY <1>0 DEF Fields
  <2> HIDE DEF t
  <2>5. Load(s, t) BY <1>0, <2>2, <2>3, <2>4, RecordsLoad DEF Sound
  <2> QED BY <1>0, <2>1, <2>5, StepGoes, StepLoad
<1>3. ASSUME NEW m \in co.spawn_ready, SpawnReadyDeadline(m) PROVE Kept(co, co')
  <2> DEFINE t == [s EXCEPT !.spawn_ready = @ \ {m}]
             u == Answer(t, {m.msg}, "Refused")
  <2>1. Alike(s, t) BY <1>0 DEF Alike, Fields
  <2>2. Step(s) \/ Step(u) BY <1>3 DEF SpawnReadyDeadline, s
  <2> HIDE DEF t
  <2>3. Alike(s, u) BY <2>1, AnswerAlike, AlikeTrans DEF Alike
  <2> QED BY <1>0, <2>2, <2>3, StepGoes, StepAlike
<1>4. ASSUME NEW p \in co.teardown_drains, TeardownDeadline(p) PROVE Kept(co, co')
      BY <1>0, <1>4, TeardownDrainAlike, StepAlike DEF TeardownDeadline, s
<1>5. ASSUME NEW w \in co.waiters, WaiterDeadline(w) PROVE Kept(co, co')
  <2> DEFINE t == [s EXCEPT !.waiters = @ \ {w}]
             u == [t EXCEPT !.progress = @ \cup {w}]
             v == [t EXCEPT !.query[w.query] = "answered"]
  <2>1. Alike(s, t) BY <1>0 DEF Alike, Fields
  <2>2. Step(s) \/ Step(t) \/ Step(u) \/ Step(v) BY <1>5 DEF WaiterDeadline, s
  <2> HIDE DEF t
  <2>3. Alike(s, u) /\ Alike(s, v) BY <2>1 DEF Alike, Fields
  <2> QED BY <1>0, <2>1, <2>2, <2>3, StepGoes, StepAlike
<1> QED BY <1>1, <1>2, <1>3, <1>4, <1>5 DEF Deadline

(* The environment starts no child; a token that is cancelled is not that  *)
(* of a wake.                                                              *)
LEMMA EnvironmentKept ==
  ASSUME LimitInv, Environment
  PROVE  Kept(co, co')
<1>0. Sound(co) /\ Apart(co, {}) /\ DOMAIN co = Fields BY SelfGoes
<1>1. ASSUME Load(co, co') PROVE Kept(co, co')
  <2>1. Goes(co, co') BY <1>0, <1>1, LoadGoes
  <2> QED BY <2>1, GoesIsJoins, JoinsKept DEF LimitInv
<1>2. SUFFICES Load(co, co') BY <1>1
<1>3. ASSUME Alike(co, co') PROVE Load(co, co') BY <1>0, <1>3, AlikeLoad DEF Sound
<1>4. ASSUME NEW id \in Ids, CallerGone(id) PROVE Load(co, co')
  <2>1. Alike(co, co') BY <1>0, <1>4 DEF CallerGone, Alike, Fields
  <2> QED BY <1>3, <2>1
<1>5. ASSUME NEW q \in Queries, QueryGone(q) PROVE Load(co, co')
  <2>1. Alike(co, co') BY <1>0, <1>5 DEF QueryGone, Alike, Fields
  <2> QED BY <1>3, <2>1
<1>6. ASSUME NEW id \in Ids, TokenCancelled(id) PROVE Load(co, co')
  <2> DEFINE mark(map) == [x \in DOMAIN map |->
                             [map[x] EXCEPT !.cancelled = @ \/ x = id]]
             pending == mark(co.pending)
             active == mark(co.active)
             queued == mark(co.queued)
  <2>1. co' = [co EXCEPT !.queued = queued, !.pending = pending, !.active = active]
        BY <1>6 DEF TokenCancelled
  <2>2. id \in DOMAIN co.queued => co.queued[id].wake = None
        BY <1>0, <1>6 DEF TokenCancelled, Apart
  <2>3. ASSUME NEW f, SameReqs(f, f) PROVE SameReqs(f, mark(f))
    <3> DEFINE g == [x \in DOMAIN f |-> [f[x] EXCEPT !.cancelled = @ \/ x \in {id}]]
    <3>1. mark(f) = g OBVIOUS
    <3>2. SameReqs(f, g) BY <2>3, MarkSame
    <3> HIDE DEF g, mark
    <3> QED BY <3>1, <3>2
  <2>4. SameReqs(co.pending, pending) /\ SameReqs(co.active, active)
        BY <1>0, <2>3, SameMaps DEF Sound
  <2>5. SameEntries(co.queued, queued)
    <3>1. ASSUME NEW x \in DOMAIN co.queued
          PROVE  /\ Entry(queued[x])
                 /\ queued[x].req.session = co.queued[x].req.session
                 /\ queued[x].queued_at = co.queued[x].queued_at
      <4> DEFINE r == co.queued[x]
                 w == [r EXCEPT !.cancelled = @ \/ x = id]
      <4>1. queued[x] = w OBVIOUS
      <4>2. Entry(r) BY <1>0 DEF Sound, Shaped
      <4>3. {"req", "wake", "cancelled", "queued_at"} \subseteq DOMAIN r
            BY <4>2 DEF Entry, HasReq, Displaced
      <4>4. x = id => r.wake = None BY <2>2
      <4> HIDE DEF r
      <4>5. /\ DOMAIN w = DOMAIN r
            /\ w.req = r.req /\ w.wake = r.wake /\ w.queued_at = r.queued_at
            /\ w.cancelled = (r.cancelled \/ x = id)
            BY <4>3
      <4> HIDE DEF w
      <4>6. Entry(w) BY <4>2, <4>4, <4>5 DEF Entry, HasReq, Displaced
      <4> HIDE DEF queued
      <4> QED BY <4>1, <4>5, <4>6 DEF r
    <3> QED BY <3>1 DEF SameEntries
  <2> HIDE DEF pending, active, queued
  <2>6. /\ DOMAIN co' = Fields
        /\ co'.pending = pending /\ co'.active = active /\ co'.queued = queued
        /\ co'.completed = co.completed /\ co'.runs = co.runs
        /\ co'.terminal_outputs = co.terminal_outputs
        /\ co'.spawn_blocked_sessions = co.spawn_blocked_sessions
        BY <1>0, <2>1 DEF Fields
  <2> QED BY <1>0, <2>4, <2>5, <2>6, RecordsLoad DEF Sound
<1>7. ASSUME NEW p \in co.publications, HostStoresPublished(p)
      PROVE  Load(co, co')
  <2> DEFINE completed == [id \in DOMAIN co.completed |->
               [co.completed[id] EXCEPT
                  !.published = @ \/ (p.id = id /\ p.age = co.completed[id].age)]]
  <2>1. \A x \in DOMAIN completed : x \in Ids /\ HasReq(completed[x])
        BY <1>0 DEF Sound, Shaped, HasReq
  <2>2. co' = [co EXCEPT
                 !.publications = (@ \ {p}) \cup {[p EXCEPT !.stage = "stored"]},
                 !.completed = completed]
        BY <1>7 DEF HostStoresPublished
  <2> HIDE DEF completed
  <2>3. /\ DOMAIN co' = Fields /\ co'.completed = completed
        /\ co'.pending = co.pending /\ co'.active = co.active
        /\ co'.queued = co.queued /\ co'.runs = co.runs
        /\ co'.terminal_outputs = co.terminal_outputs
        /\ co'.spawn_blocked_sessions = co.spawn_blocked_sessions
        BY <1>0, <2>2 DEF Fields
  <2> QED BY <1>0, <2>1, <2>3, CompletedLoad DEF Sound
<1>8. ASSUME NEW p \in co.publications, HostSendsPublished(p)
      PROVE  Load(co, co')
  <2>1. Alike(co, co') BY <1>0, <1>8 DEF HostSendsPublished, Alike, Fields
  <2> QED BY <1>3, <2>1
<1> QED BY <1>4, <1>5, <1>6, <1>7, <1>8 DEF Environment

LEMMA InitReady == Init => LimitInv
<1> SUFFICES ASSUME Init PROVE LimitInv OBVIOUS
<1>1. DOMAIN NoMap = {} BY DEF NoMap
<1>2. /\ DOMAIN co = Fields
      /\ co.queued = NoMap /\ co.pending = NoMap /\ co.active = NoMap
      /\ co.completed = NoMap /\ co.terminal_outputs = NoMap /\ co.runs = {}
      BY DEF Init, Fields
<1>3. \A p : session_running(co, p) = {} BY <1>1, <1>2 DEF session_running, InSession
<1>4. Limited(co)
      BY <1>3, FS_EmptySet, ConstantsAssumption DEF Limited, session_running_count
<1>5. Sound(co) BY <1>1, <1>2, <1>4 DEF Sound, Shaped, Distinct
<1>6. Full(co) /\ Polled(co) /\ Closed(co) BY <1>1, <1>2 DEF Full, Polled, Closed
<1> QED BY <1>5, <1>6, InitApart DEF LimitInv, Ready

(* Every step, whichever arm of the loop takes it.                         *)
LEMMA NextKept ==
  ASSUME LimitInv, Next
  PROVE  LimitInv' /\ Kept(co, co')
<1>0. IInv BY DEF LimitInv
<1>1. IInv'
  <2>1. CASE Command BY <1>0, <2>1, CommandApart
  <2>2. CASE HostReport BY <1>0, <2>2, HostReportApart
  <2>3. CASE Deadline BY <1>0, <2>3, DeadlineApart
  <2>4. CASE Environment BY <1>0, <2>4, EnvironmentApart
  <2> QED BY <2>1, <2>2, <2>3, <2>4 DEF Next
<1>2. Kept(co, co')
  <2>1. CASE Command BY <2>1, CommandKept
  <2>2. CASE HostReport BY <2>2, HostReportKept
  <2>3. CASE Deadline BY <2>3, DeadlineKept
  <2>4. CASE Environment BY <2>4, EnvironmentKept
  <2> QED BY <2>1, <2>2, <2>3, <2>4 DEF Next
<1>3. Ready(co') BY <1>2 DEF Kept
<1> QED BY <1>1, <1>2, <1>3 DEF LimitInv

(* Between any two iterations of the loop the limit holds, the queue holds *)
(* only entries of full sessions that are not stopped, under distinct      *)
(* arrival times, and the run futures are those of the children that run.  *)
THEOREM LimitInductive == Spec => []LimitInv
<1>1. ASSUME LimitInv, [Next]_vars PROVE LimitInv'
  <2>1. CASE Next BY <1>1, <2>1, NextKept
  <2>2. CASE UNCHANGED vars
    <3>1. co' = co BY <2>2 DEF vars
    <3>2. IInv' BY <1>1, <3>1 DEF LimitInv, IInv
    <3>3. Ready(co') BY <1>1, <3>1 DEF LimitInv
    <3> QED BY <3>2, <3>3 DEF LimitInv
  <2> QED BY <1>1, <2>1, <2>2
<1> QED BY <1>1, InitReady, PTL DEF Spec

(* A session never has more non-workflow children pending and active than  *)
(* max_concurrent_subagents, through spawns, wakes and starts from the     *)
(* queue, for any numbers of children, sessions and messages.              *)
THEOREM ConcurrencyLimitedAlways == Spec => []ConcurrencyLimited
<1>1. LimitInv => ConcurrencyLimited
      BY DEF LimitInv, Ready, Sound, Limited, ConcurrencyLimited
<1> QED BY <1>1, LimitInductive, PTL

(* An entry is queued only for a full session that is not stopped, so a    *)
(* child of the session runs whose end will look at the queue again.       *)
THEOREM QueuedMeansFullAlways == Spec => []QueuedMeansFull
<1>1. ASSUME LimitInv PROVE QueuedMeansFull
  <2>0. Sound(co) /\ Full(co) /\ Polled(co) /\ Closed(co) BY <1>1 DEF LimitInv, Ready
  <2>1. ASSUME NEW id \in DOMAIN co.queued
        PROVE  /\ co.queued[id].req.workflow = None
               /\ co.queued[id].req.session \notin co.spawn_blocked_sessions
               /\ ~has_capacity(session_running_count(co, co.queued[id].req.session))
               /\ co.runs # {} \/ co.terminal_outputs # NoMap
    <3> DEFINE p == co.queued[id].req.session
    <3>1. co.queued[id].req.workflow = None BY <2>0 DEF Sound, Shaped, Entry
    <3>2. p \notin co.spawn_blocked_sessions BY <2>0 DEF Closed
    <3>3. ~has_capacity(session_running_count(co, p)) BY <2>0 DEF Full
    <3> HIDE DEF p
    <3>4. session_running_count(co, p) \in Nat /\ session_running_count(co, p) # 0
          BY <2>0, <3>3, RunningFinite, ConstantsAssumption DEF Sound, has_capacity
    <3>5. session_running(co, p) # {}
          BY <3>4, FS_EmptySet DEF session_running_count
    <3>6. PICK x : x \in DOMAIN co.pending \cup DOMAIN co.active
          BY <3>5 DEF session_running, InSession
    <3>7. x \in co.runs \/ x \in DOMAIN co.terminal_outputs BY <2>0, <3>6 DEF Polled
    <3>8. DOMAIN NoMap = {} BY DEF NoMap
    <3> QED BY <3>1, <3>2, <3>3, <3>7, <3>8 DEF p
  <2> QED BY <2>1 DEF QueuedMeansFull
<1> QED BY <1>1, LimitInductive, PTL

(* Entries of one session leave the queue to start in the order in which   *)
(* they came: none starts while an earlier one stays queued.               *)
THEOREM StartsInArrivalOrderAlways == Spec => StartsInArrivalOrder
<1> DEFINE InOrder ==
      \A x, y \in DOMAIN co.queued :
        /\ co.queued[x].req.session = co.queued[y].req.session
        /\ co.queued[x].queued_at < co.queued[y].queued_at
        /\ y \in DOMAIN co'.pending
        => x \notin DOMAIN co'.queued
<1>1. ASSUME LimitInv, Next PROVE InOrder
  <2>1. PICK N : /\ Moves(co, co', N, co.spawn_blocked_sessions
                                        \cap co'.spawn_blocked_sessions)
                 /\ N \cap DOMAIN co.queued = {}
        BY <1>1, NextKept DEF Kept
  <2>2. DOMAIN co.queued \cap DOMAIN co.pending = {} BY <1>1 DEF LimitInv, IInv, Apart
  <2> QED BY <2>1, <2>2 DEF Moves, Before
<1>2. LimitInv /\ [Next]_vars => [InOrder]_vars BY <1>1
<1> QED BY <1>2, LimitInductive, PTL DEF Spec, StartsInArrivalOrder

(* While a session stays stopped or draining no further child of it starts *)
(* and nothing joins its queue, whatever was in flight when it stopped.    *)
THEOREM StopHoldsAlways == Spec => StopHolds
<1> DEFINE Holds ==
      \A p \in co.spawn_blocked_sessions \cap co'.spawn_blocked_sessions :
        /\ session_running(co', p) \subseteq session_running(co, p)
        /\ InSession(co'.queued, p) = {}
<1>1. ASSUME LimitInv, Next PROVE Holds
  <2> DEFINE B == co.spawn_blocked_sessions \cap co'.spawn_blocked_sessions
  <2>1. PICK N : Moves(co, co', N, B) BY <1>1, NextKept DEF Kept
  <2>2. Closed(co) /\ Closed(co') BY <1>1, NextKept DEF LimitInv, Ready, Kept
  <2>3. ASSUME NEW p \in B
        PROVE  /\ session_running(co', p) \subseteq session_running(co, p)
               /\ InSession(co'.queued, p) = {}
    <3>1. InSession(co.queued, p) = {} /\ InSession(co'.queued, p) = {}
          BY <2>2, <2>3 DEF Closed, InSession
    <3> QED BY <2>1, <2>3, <3>1 DEF Moves
  <2> QED BY <2>3
<1>2. LimitInv /\ [Next]_vars => [Holds]_vars BY <1>1
<1> QED BY <1>2, LimitInductive, PTL DEF Spec, StopHolds
=============================================================================
