--------------------------- MODULE SchedulerProofs ---------------------------
(***************************************************************************)
(* For any number of tasks, iterations, writes and restarts: the actor never *)
(* trips the assertion of commit_next, a task whose durable tombstone was    *)
(* published never comes back, and the iterations of a task neither overlap  *)
(* nor resume a transcript that is not theirs.                               *)
(***************************************************************************)
EXTENDS Scheduler, TLAPS

(***************************************************************************)
(* The inductive invariant                                                  *)
(***************************************************************************)

Versions == [generation : Nat, revision : Nat]

Reservations ==
    [source : Versions, generation : Nat, next_revision : Nat, remaining : Nat,
     rollover : {"some", "none"}]

\* A reservation that commit_next accepts.
IsReservation(v) == v \in Reservations /\ ExpectedSource(v) = clock

Reserving == op.kind \in {"expiry", "absence", "fire"}

\* The fields an operation has, by its kind.
OpShape ==
    /\ "kind" \in DOMAIN op
    /\ op.kind \in {"delete", "expiry", "absence", "fire"} =>
           "stage" \in DOMAIN op /\ "task" \in DOMAIN op
    /\ op.kind = "fire" => "should_remove" \in DOMAIN op
    /\ Reserving => "reservation" \in DOMAIN op

\* Only a Delete runs while a removal is pending, so nothing else commits.
OneReservation ==
    /\ Reserving => pending_removal = Nothing
    /\ op.kind = "delete" => /\ pending_removal # Nothing
                             /\ pending_removal.task = op.task

\* The versions of a shutdown are the last the clock hands out.
Reserved ==
    /\ clock.generation \in Nat
    /\ op.kind # "stopped" => clock \in Versions
    /\ pending_removal # Nothing => IsReservation(pending_removal.reservation)
    /\ Reserving => /\ IsReservation(op.reservation)
                    /\ op.reservation.remaining > 0
    /\ op.kind = "fire" => (op.should_remove => op.reservation.remaining = 2)

ReservationInv == OpShape /\ OneReservation /\ Reserved

-----------------------------------------------------------------------------
\* A reservation is fresh the moment it is made.
LEMMA PreparedIsFresh ==
    ASSUME clock \in Versions, NEW n \in Nat
    PROVE  /\ IsReservation(prepare_transition(n))
           /\ prepare_transition(n).remaining = n
<1>1. CASE clock.revision + n > MaxRevision
  BY <1>1 DEF prepare_transition, IsReservation, Reservations, ExpectedSource, Versions
<1>2. CASE ~ (clock.revision + n > MaxRevision)
  BY <1>2 DEF prepare_transition, IsReservation, Reservations, ExpectedSource, Versions
<1> QED BY <1>1, <1>2

\* Committing once moves the clock to a version, and the rest of the
\* reservation, if there is any, stays fresh for it.
LEMMA CommittedIsFresh ==
    ASSUME NEW v, IsReservation(v)
    PROVE  /\ Committed(v) \in Versions
           /\ v.remaining = 2 =>
                /\ commit_next(v) \in Reservations
                /\ commit_next(v).remaining = 1
                /\ ExpectedSource(commit_next(v)) = Committed(v)
<1>1. v \in Reservations BY DEF IsReservation
<1>2. Committed(v) \in Versions BY <1>1 DEF Committed, Versions, Reservations
<1>3. ASSUME v.remaining = 2
      PROVE  /\ commit_next(v) \in Reservations
             /\ commit_next(v).remaining = 1
             /\ ExpectedSource(commit_next(v)) = Committed(v)
  <2> DEFINE c == commit_next(v)
  <2>1. c = [source |-> v.source, generation |-> v.generation,
             next_revision |-> v.next_revision + 1, remaining |-> 1,
             rollover |-> "none"]
    BY <1>1, <1>3 DEF commit_next, Reservations
  <2> HIDE DEF c
  <2>2. c \in Reservations /\ c.remaining = 1
    BY <1>1, <2>1 DEF Reservations
  <2>3. /\ c.rollover = "none" /\ c.generation = v.generation
        /\ c.next_revision = v.next_revision + 1
    BY <1>1, <2>1 DEF Reservations
  <2>4. ExpectedSource(c) = Committed(v)
    BY <1>1, <2>3 DEF ExpectedSource, Committed, Reservations
  <2> QED BY <2>2, <2>4 DEF c
<1> QED BY <1>2, <1>3

LEMMA TransitionTyped ==
    ASSUME clock \in Versions, NEW n \in Nat \ {0}, Transition(n)
    PROVE  clock' \in Versions
<1>1. prepare_transition(n) \in Reservations
  BY PreparedIsFresh DEF IsReservation
<1> QED BY <1>1 DEF Transition, Reservations, Versions

\* A step that changes none of what the invariant is about.
LEMMA ReservationStutter ==
    ASSUME ReservationInv, UNCHANGED <<op, pending_removal, clock>>
    PROVE  ReservationInv'
BY DEF ReservationInv, OpShape, OneReservation, Reserved, Reserving,
       IsReservation, ExpectedSource

\* An operation ends without a commit.
LEMMA ReservationEnds ==
    ASSUME ReservationInv, op.kind # "stopped", op' = Idle,
           UNCHANGED <<pending_removal, clock>>
    PROVE  ReservationInv'
BY DEF ReservationInv, OpShape, OneReservation, Reserved, Reserving, Idle,
       IsReservation, ExpectedSource

LEMMA ReservationInit == Init => ReservationInv
BY DEF Init, ReservationInv, OpShape, OneReservation, Reserved, Reserving, Idle,
       Nothing, Versions

LEMMA ReservationStep == ReservationInv /\ [Next]_vars => ReservationInv'
<1> SUFFICES ASSUME ReservationInv, [Next]_vars PROVE ReservationInv'
  OBVIOUS
<1> USE DEF Reserving
<1>i. op = Idle => op.kind # "stopped" BY DEF Idle
<1>v. ASSUME NEW v \in Versions PROVE v.generation \in Nat BY DEF Versions
<1>t. op.kind # "stopped" => clock \in Versions BY DEF ReservationInv, Reserved
<1>1. CASE UNCHANGED vars
  BY <1>1, ReservationStutter DEF vars
<1>2. CASE save \/ writer_save \/ writer_save_and_flush \/ writer_tick
           \/ CloseConsumer \/ Cancel
  BY <1>2, ReservationStutter
     DEF save, writer_save, writer_save_and_flush, writer_tick, CloseConsumer,
         Cancel
<1>3. ASSUME NEW t \in Tasks, NEW p \in Prompts, Create(t, p) \/ Update(t, p)
      PROVE  ReservationInv'
  <2>1. /\ op = Idle /\ pending_removal = Nothing /\ Transition(1)
        /\ UNCHANGED <<op, pending_removal>>
    BY <1>3 DEF Create, Update, Admitted, Ready
  <2>2. clock' \in Versions BY <1>i, <1>t, <2>1, TransitionTyped
  <2> QED BY <1>v, <2>1, <2>2
          DEF ReservationInv, OpShape, OneReservation, Reserved, Idle
<1>4. ASSUME NEW t \in Tasks, Delete(t) PROVE ReservationInv'
  <2>t. clock \in Versions BY <1>i, <1>t, <1>4 DEF Delete, Admitted, Ready
  <2> DEFINE v == prepare_transition(1)
  <2>1. /\ v \in Reservations /\ ExpectedSource(v) = clock
    BY <2>t, PreparedIsFresh DEF IsReservation
  <2>2. /\ op' = [kind |-> "delete", stage |-> "persist", task |-> t]
        /\ pending_removal' = [kind |-> "removal", task |-> t, reservation |-> v]
        /\ clock' = clock
    BY <1>4 DEF Delete, Removing
  <2> HIDE DEF v
  <2> QED BY <1>v, <2>t, <2>1, <2>2
          DEF ReservationInv, OpShape, OneReservation, Reserved, Nothing,
              IsReservation, ExpectedSource
<1>5. ASSUME NEW t \in Tasks, DeleteAgain(t) PROVE ReservationInv'
  <2>1. CASE op' = [kind |-> "delete", stage |-> "persist", task |-> t]
             /\ UNCHANGED <<pending_removal, clock>>
    BY <1>i, <1>5, <2>1
       DEF DeleteAgain, Ready, ReservationInv, OpShape, OneReservation, Reserved,
           IsReservation, ExpectedSource
  <2>2. CASE op' = op /\ op = Idle /\ pending_removal' = Nothing /\ clock' = clock
    BY <1>i, <1>t, <1>v, <2>2
       DEF ReservationInv, OpShape, OneReservation, Reserved, Idle
  <2> QED BY <1>5, <2>1, <2>2 DEF DeleteAgain, Ready, Removing
<1>6. ASSUME NEW t \in Tasks, BlockExpiry(t) PROVE ReservationInv'
  BY <1>6, ReservationStutter DEF BlockExpiry
<1>7. ASSUME NEW t \in Tasks, Expire(t) PROVE ReservationInv'
  <2>t. clock \in Versions BY <1>i, <1>t, <1>7 DEF Expire, Selectable, Admitted, Ready
  <2> DEFINE v == prepare_transition(1)
  <2>1. v \in Reservations /\ ExpectedSource(v) = clock /\ v.remaining = 1
    BY <2>t, PreparedIsFresh DEF IsReservation
  <2>2. /\ pending_removal = Nothing /\ UNCHANGED <<pending_removal, clock>>
        /\ \E k \in {"expiry", "absence"} :
             op' = [kind |-> k, stage |-> "persist", task |-> t,
                    removed |-> tasks[t], reservation |-> v]
    BY <1>7 DEF Expire, Selectable, Admitted
  <2> HIDE DEF v
  <2> QED BY <1>v, <2>t, <2>1, <2>2
          DEF ReservationInv, OpShape, OneReservation, Reserved, IsReservation,
              ExpectedSource
<1>8. ASSUME NEW t \in Tasks, Fire(t) PROVE ReservationInv'
  <2>t. clock \in Versions BY <1>i, <1>t, <1>8 DEF Fire, Selectable, Admitted, Ready
  <2>1. PICK n \in {1, 2} :
          /\ ~ tasks[t].recurring => n = 2
          /\ op' = [kind |-> "fire", stage |-> "query", task |-> t,
              should_remove |-> ~ tasks[t].recurring,
              prompt |-> tasks[t].prompt,
              last_subagent_id |-> tasks[t].last_subagent_id,
              iterations_since_fresh |-> tasks[t].iterations_since_fresh,
              chain_reset_pending |-> tasks[t].chain_reset_pending,
              subagent_id |-> NoRun,
              reservation |-> prepare_transition(n)]
    BY <1>8 DEF Fire
  <2> DEFINE v == prepare_transition(n)
  <2>2. v \in Reservations /\ ExpectedSource(v) = clock /\ v.remaining = n
    BY <2>t, PreparedIsFresh DEF IsReservation
  <2>3. pending_removal = Nothing /\ UNCHANGED <<pending_removal, clock>>
    BY <1>8 DEF Fire, Selectable, Admitted
  <2>4. /\ op'.kind = "fire" /\ op'.reservation = v
        /\ op'.should_remove => n = 2
        /\ "kind" \in DOMAIN op' /\ "stage" \in DOMAIN op'
        /\ "should_remove" \in DOMAIN op'
        /\ "task" \in DOMAIN op' /\ "reservation" \in DOMAIN op'
    BY <2>1
  <2> HIDE DEF v
  <2> QED BY <1>v, <2>t, <2>1, <2>2, <2>3, <2>4
          DEF ReservationInv, OpShape, OneReservation, Reserved, IsReservation,
              ExpectedSource
<1>9. CASE PublishRemoval
  <2>1. CASE op' = Idle
    BY <1>9, <2>1, ReservationEnds DEF PublishRemoval, Persisting
  <2>2. CASE op' = [op EXCEPT !.stage = "publish"]
    BY <1>9, <2>2
       DEF PublishRemoval, Persisting, ReservationInv, OpShape, OneReservation,
           Reserved, IsReservation, ExpectedSource
  <2> QED BY <1>9, <2>1, <2>2 DEF PublishRemoval
<1>10. CASE PersistFailed \/ PersistUnknown \/ RemovalUnacknowledged \/ SkipFire
            \/ SpawnRefused \/ SpawnCancelled
  BY <1>10, ReservationEnds
     DEF PersistFailed, PersistUnknown, Persisting, RemovalUnacknowledged,
         SkipFire, SpawnRefused, SpawnCancelled
<1>11. CASE AnnounceAbsence
  <2>1. IsReservation(op.reservation) /\ pending_removal = Nothing
    BY <1>11
       DEF AnnounceAbsence, Persisting, ReservationInv, OneReservation, Reserved
  <2>2. Committed(op.reservation) \in Versions BY <2>1, CommittedIsFresh
  <2> QED BY <1>v, <1>11, <2>1, <2>2
          DEF AnnounceAbsence, ReservationInv, OpShape, OneReservation, Reserved,
              Idle
<1>12. CASE RemovalAcknowledged
  <2>1. CASE op.kind = "delete"
    <3>1. IsReservation(pending_removal.reservation)
      BY <2>1 DEF ReservationInv, OneReservation, Reserved
    <3>2. Committed(pending_removal.reservation) \in Versions
      BY <3>1, CommittedIsFresh
    <3> QED BY <1>v, <1>12, <2>1, <3>2
            DEF RemovalAcknowledged, ReservationInv, OpShape, OneReservation,
                Reserved, Idle
  <2>2. CASE op.kind = "expiry"
    <3>1. IsReservation(op.reservation) /\ pending_removal = Nothing
      BY <2>2 DEF ReservationInv, OneReservation, Reserved
    <3>2. Committed(op.reservation) \in Versions BY <3>1, CommittedIsFresh
    <3> QED BY <1>v, <1>12, <2>2, <3>1, <3>2
            DEF RemovalAcknowledged, ReservationInv, OpShape, OneReservation,
                Reserved, Idle
  <2> QED BY <1>12, <2>1, <2>2 DEF RemovalAcknowledged
<1>13. CASE Spawn
  <2>1. op.kind = "fire" /\ UNCHANGED <<pending_removal, clock>>
    BY <1>13 DEF Spawn
  <2>2. \E r \in Runs : op' = [op EXCEPT !.stage = "register", !.subagent_id = r]
    BY <1>13 DEF Spawn
  <2>3. /\ op'.kind = op.kind /\ op'.should_remove = op.should_remove
        /\ op'.reservation = op.reservation /\ DOMAIN op' = DOMAIN op
    BY <2>1, <2>2 DEF ReservationInv, OpShape
  <2> QED BY <2>1, <2>3
          DEF ReservationInv, OpShape, OneReservation, Reserved, IsReservation,
              ExpectedSource
<1>14. CASE Fired
  <2> DEFINE v == op.reservation
  <2>1. /\ op.kind = "fire" /\ IsReservation(v) /\ pending_removal = Nothing
        /\ op.should_remove => v.remaining = 2
        /\ clock' = Committed(v) /\ UNCHANGED pending_removal
    BY <1>14 DEF Fired, ReservationInv, OneReservation, Reserved
  <2>2. /\ clock' \in Versions
        /\ v.remaining = 2 => /\ commit_next(v) \in Reservations
                              /\ commit_next(v).remaining = 1
                              /\ ExpectedSource(commit_next(v)) = clock'
    BY <2>1, CommittedIsFresh
  <2>3. CASE ~ op.should_remove
    BY <1>v, <1>14, <2>1, <2>2, <2>3
       DEF Fired, ReservationInv, OpShape, OneReservation, Reserved, Idle
  <2>4. CASE op.should_remove
    <3>1. /\ op'.kind = "absence" /\ op'.reservation = commit_next(v)
          /\ "kind" \in DOMAIN op' /\ "stage" \in DOMAIN op'
          /\ "task" \in DOMAIN op' /\ "reservation" \in DOMAIN op'
      BY <1>14, <2>4 DEF Fired
    <3>2. ExpectedSource(op'.reservation) = clock'
      BY <2>1, <2>2, <2>4, <3>1
    <3> HIDE DEF v
    <3> QED BY <1>v, <2>1, <2>2, <2>4, <3>1, <3>2
            DEF ReservationInv, OpShape, OneReservation, Reserved, IsReservation,
                ExpectedSource
  <2> QED BY <2>3, <2>4
<1>15. ASSUME NEW r \in Runs, Guard(r) PROVE ReservationInv'
  BY <1>15, ReservationStutter DEF Guard
<1>16. ASSUME NEW r \in Runs, Coordinator(r) PROVE ReservationInv'
  BY <1>16, ReservationStutter DEF Coordinator
<1>17. CASE Shutdown
  <2>1. clock'.generation \in Nat
    BY <1>17
       DEF Shutdown, Transition, prepare_transition, ReservationInv, Reserved
  <2> QED BY <1>17, <2>1
          DEF Shutdown, ReservationInv, OpShape, OneReservation, Reserved
<1>18. CASE Restart
  <2>1. clock.generation + 1 \in Nat BY DEF ReservationInv, Reserved
  <2>2. /\ clock' = [generation |-> clock.generation + 1, revision |-> 0]
        /\ op' = Idle /\ pending_removal' = Nothing
    BY <1>18 DEF Restart
  <2>3. clock' \in Versions /\ clock'.generation \in Nat
    BY <2>1, <2>2 DEF Versions
  <2> QED BY <2>2, <2>3
          DEF ReservationInv, OpShape, OneReservation, Reserved, Idle
<1> QED
  BY <1>1, <1>2, <1>3, <1>4, <1>5, <1>6, <1>7, <1>8, <1>9, <1>10, <1>11, <1>12,
     <1>13, <1>14, <1>15, <1>16, <1>17, <1>18 DEF Next

\* The actor's reservation is fresh at every step, whatever the interleaving of
\* deletions, their retries, fires, expiries and restarts, so the assertion of
\* SchedulerReservation::commit_next (types.rs:71-84) never fails.
THEOREM ReservationsStayFresh == Spec => []ReservationFresh
<1>1. ReservationInv => ReservationFresh
  BY DEF ReservationInv, Reserved, Reserving, ReservationFresh, IsReservation
<1> QED BY <1>1, ReservationInit, ReservationStep, PTL DEF Spec

(***************************************************************************)
(* Tombstones                                                               *)
(***************************************************************************)

\* Neither the memory, nor the disk, nor any write to come has the task.
Lacks(t) ==
    /\ t \notin DOMAIN tasks
    /\ t \notin DOMAIN disk
    /\ parked # Nothing => t \notin DOMAIN parked.snapshot
    /\ \A i \in DOMAIN writes : t \notin DOMAIN writes[i].snapshot

Sequenced == writes \in Seq({writes[i] : i \in DOMAIN writes})

\* Every task anywhere was created once, so no Create makes it again.
Known ==
    /\ DOMAIN tasks \subseteq created
    /\ DOMAIN disk \subseteq created
    /\ parked # Nothing => DOMAIN parked.snapshot \subseteq created
    /\ \A i \in DOMAIN writes : DOMAIN writes[i].snapshot \subseteq created

\* At most one write is awaited, and only while the actor awaits it.
Acks ==
    /\ ack \in {"none", "waiting", "ok", "err"}
    /\ ack # "none" => Persisting
    /\ \A i \in DOMAIN writes : writes[i].awaited => ack = "waiting"
    /\ \A i, j \in DOMAIN writes : writes[i].awaited /\ writes[j].awaited => i = j

\* The task under removal is out of the memory, out of the awaited write and of
\* every later one, and, once that write is acknowledged, out of everything.
Absent ==
    /\ op.kind = "fire" => op.task \in created
    /\ pending_removal # Nothing => /\ pending_removal.task \in created
                                    /\ pending_removal.task \notin DOMAIN tasks
    /\ Persisting =>
         /\ op.task \in created
         /\ op.task \notin DOMAIN tasks
         /\ op.kind = "expiry" => op.task \notin tombstones
         /\ ack = "ok" => Lacks(op.task)
         /\ \A i, j \in DOMAIN writes :
              writes[i].awaited /\ i =< j =>
                  op.task \notin DOMAIN writes[j].snapshot

Entombed == \A t \in tombstones : t \in created /\ Lacks(t)

TombstoneInv == Sequenced /\ Known /\ Acks /\ Absent /\ Entombed

-----------------------------------------------------------------------------
\* What Append and Tail do to a sequence, element by element.
LEMMA AppendElements ==
    ASSUME NEW s, s \in Seq({s[i] : i \in DOMAIN s}), NEW e
    PROVE  /\ Append(s, e) \in Seq({Append(s, e)[i] : i \in DOMAIN Append(s, e)})
           /\ DOMAIN s = 1 .. Len(s) /\ Len(s) \in Nat
           /\ DOMAIN Append(s, e) = 1 .. Len(s) + 1
           /\ \A i \in 1 .. Len(s) : Append(s, e)[i] = s[i]
           /\ Append(s, e)[Len(s) + 1] = e
<1> DEFINE T == {s[i] : i \in DOMAIN s}
           S == T \union {e}
           a == Append(s, e)
<1>0. s \in Seq(T) OBVIOUS
<1> HIDE DEF T
<1>1. s \in Seq(S) /\ e \in S
  <2>1. T \subseteq S /\ e \in S OBVIOUS
  <2> HIDE DEF S
  <2> QED BY <1>0, <2>1
<1> HIDE DEF S
<1>2. /\ a \in Seq(S) /\ Len(a) = Len(s) + 1 /\ Len(s) \in Nat
      /\ \A i \in 1 .. Len(s) : a[i] = s[i]
      /\ a[Len(s) + 1] = e
  BY <1>1
<1>3. DOMAIN a = 1 .. Len(a) /\ DOMAIN s = 1 .. Len(s) BY <1>1, <1>2
<1> HIDE DEF a
<1>4. a \in Seq({a[i] : i \in DOMAIN a}) BY <1>2, <1>3
<1> QED BY <1>2, <1>3, <1>4 DEF a

LEMMA TailElements ==
    ASSUME NEW s, s \in Seq({s[i] : i \in DOMAIN s}), s # <<>>
    PROVE  /\ Tail(s) \in Seq({Tail(s)[i] : i \in DOMAIN Tail(s)})
           /\ DOMAIN s = 1 .. Len(s) /\ Len(s) \in Nat \ {0}
           /\ Head(s) = s[1]
           /\ DOMAIN Tail(s) = 1 .. Len(s) - 1
           /\ \A i \in 1 .. Len(s) - 1 : Tail(s)[i] = s[i + 1]
<1> DEFINE S == {s[i] : i \in DOMAIN s}
           a == Tail(s)
<1>1. s \in Seq(S) OBVIOUS
<1> HIDE DEF S
<1>2. /\ a \in Seq(S) /\ Len(a) = Len(s) - 1 /\ Len(s) \in Nat \ {0}
      /\ \A i \in 1 .. Len(s) - 1 : a[i] = s[i + 1]
      /\ Head(s) = s[1]
  BY <1>1
<1>3. DOMAIN a = 1 .. Len(a) /\ DOMAIN s = 1 .. Len(s) BY <1>1, <1>2
<1> HIDE DEF a
<1>4. a \in Seq({a[i] : i \in DOMAIN a})
  <2>1. Len(a) \in Nat BY <1>2
  <2> DEFINE T == {a[i] : i \in DOMAIN a}
  <2>2. \A i \in 1 .. Len(a) : a[i] \in T BY <1>3
  <2> HIDE DEF T
  <2>3. a \in Seq(T) BY <1>2, <1>3, <2>1, <2>2
  <2> QED BY <2>3 DEF T
<1> QED BY <1>2, <1>3, <1>4 DEF a

\* A step that leaves the writes, the disk and the ids of the tasks alone, and
\* after which no flush is awaited.
LEMMA TombstoneQuiet ==
    ASSUME TombstoneInv,
           UNCHANGED <<disk, writes, parked, created, tombstones>>,
           DOMAIN tasks' = DOMAIN tasks,
           ack' = "none", ack # "waiting",
           op'.kind = "fire" => op'.task \in created,
           ~ Persisting',
           pending_removal' = pending_removal \/ pending_removal' = Nothing
    PROVE  TombstoneInv'
<1>1. Sequenced' BY DEF TombstoneInv, Sequenced
<1>2. Known' BY DEF TombstoneInv, Known
<1>3. Acks' BY DEF TombstoneInv, Acks
<1>4. Absent' BY DEF TombstoneInv, Absent, Nothing
<1>5. Entombed' BY DEF TombstoneInv, Entombed, Lacks
<1> QED BY <1>1, <1>2, <1>3, <1>4, <1>5 DEF TombstoneInv

\* A step that changes nothing the invariant is about.
LEMMA TombstoneStutter ==
    ASSUME TombstoneInv,
           UNCHANGED <<disk, writes, parked, ack, op, pending_removal, created,
                       tombstones>>,
           DOMAIN tasks' = DOMAIN tasks
    PROVE  TombstoneInv'
<1>1. Sequenced' BY DEF TombstoneInv, Sequenced
<1>2. Known' BY DEF TombstoneInv, Known
<1>3. Acks' BY DEF TombstoneInv, Acks, Persisting
<1>4. Absent' BY DEF TombstoneInv, Absent, Lacks, Persisting
<1>5. Entombed' BY DEF TombstoneInv, Entombed, Lacks
<1> QED BY <1>1, <1>2, <1>3, <1>4, <1>5 DEF TombstoneInv

\* A snapshot of the tasks joins the writes.
LEMMA Appended ==
    ASSUME TombstoneInv, NEW e, writes' = Append(writes, e)
    PROVE  /\ Sequenced'
           /\ Len(writes) \in Nat /\ DOMAIN writes = 1 .. Len(writes)
           /\ DOMAIN writes' = 1 .. Len(writes) + 1
           /\ \A i \in 1 .. Len(writes) : writes'[i] = writes[i]
           /\ writes'[Len(writes) + 1] = e
BY AppendElements DEF TombstoneInv, Sequenced

\* The writer takes the oldest write.
LEMMA Taken ==
    ASSUME TombstoneInv, writes # <<>>, writes' = Tail(writes)
    PROVE  /\ Sequenced'
           /\ Len(writes) \in Nat \ {0} /\ DOMAIN writes = 1 .. Len(writes)
           /\ Head(writes) = writes[1]
           /\ DOMAIN writes' = 1 .. Len(writes) - 1
           /\ \A i \in 1 .. Len(writes) - 1 : writes'[i] = writes[i + 1]
BY TailElements DEF TombstoneInv, Sequenced

\* The actor takes task t out of the memory, or finds it out, and flushes.
LEMMA TombstoneEnqueue ==
    ASSUME TombstoneInv, NEW t \in created, ack = "none",
           enqueue_save_and_flush(tasks'),
           DOMAIN tasks' = DOMAIN tasks \ {t},
           UNCHANGED <<disk, parked, created, tombstones>>,
           op'.task = t, Persisting',
           op'.kind = "expiry" => t \notin tombstones,
           pending_removal' # Nothing =>
               \/ pending_removal'.task = t
               \/ pending_removal' = pending_removal
    PROVE  TombstoneInv'
<1> DEFINE n == Len(writes)
           e == [flush |-> TRUE, snapshot |-> tasks', awaited |-> TRUE]
<1>1. writes' = Append(writes, e) /\ ack' = "waiting"
  BY DEF enqueue_save_and_flush
<1>e. e.snapshot = tasks' OBVIOUS
<1> HIDE DEF e
<1>2. /\ Sequenced' /\ n \in Nat /\ DOMAIN writes = 1 .. n
      /\ DOMAIN writes' = 1 .. n + 1
      /\ \A i \in 1 .. n : writes'[i] = writes[i]
      /\ writes'[n + 1] = e
  BY <1>1, Appended
<1> HIDE DEF n
<1>3. \A i \in DOMAIN writes' : i = n + 1 \/ (i \in 1 .. n /\ writes'[i] = writes[i])
  BY <1>2
<1>4. \A i \in DOMAIN writes' : writes'[i].awaited => i = n + 1
  BY <1>2, <1>3 DEF TombstoneInv, Acks
<1>5. \A i \in DOMAIN writes' :
        \/ DOMAIN writes'[i].snapshot = DOMAIN tasks'
        \/ i \in DOMAIN writes /\ writes'[i] = writes[i]
  BY <1>2, <1>3, <1>e
<1>6. Known'
  BY <1>5 DEF TombstoneInv, Known
<1>7. Acks'
  BY <1>1, <1>4 DEF Acks
<1>8. Entombed'
  BY <1>5 DEF TombstoneInv, Entombed, Lacks
<1>9. Absent'
  <2>1. /\ op'.task \in created' /\ op'.task \notin DOMAIN tasks'
        /\ op'.kind = "expiry" => op'.task \notin tombstones'
        /\ op'.kind # "fire"
    BY DEF Persisting
  <2>2. \A i, j \in DOMAIN writes' :
          writes'[i].awaited /\ i =< j =>
              op'.task \notin DOMAIN writes'[j].snapshot
    BY <1>2, <1>3, <1>4, <1>e, <2>1
  <2>3. pending_removal' # Nothing =>
          /\ pending_removal'.task \in created'
          /\ pending_removal'.task \notin DOMAIN tasks'
    BY DEF TombstoneInv, Absent
  <2> QED BY <1>1, <2>1, <2>2, <2>3 DEF Absent, Nothing
<1> QED BY <1>2, <1>6, <1>7, <1>8, <1>9 DEF TombstoneInv

\* The actor stops awaiting its flush.
LEMMA TombstoneAbandon ==
    ASSUME TombstoneInv, Abandon, op' = Idle,
           UNCHANGED <<tasks, disk, parked, pending_removal, created, tombstones>>
    PROVE  TombstoneInv'
<1>1. /\ DOMAIN writes' = DOMAIN writes /\ ack' = "none"
      /\ \A i \in DOMAIN writes : /\ writes'[i].snapshot = writes[i].snapshot
                                  /\ ~ writes'[i].awaited
  BY DEF Abandon
<1>2. Sequenced'
  <2> DEFINE T == {writes'[i] : i \in DOMAIN writes'}
  <2>1. /\ Len(writes) \in Nat /\ DOMAIN writes = 1 .. Len(writes)
    BY DEF TombstoneInv, Sequenced
  <2>2. \A i \in 1 .. Len(writes) : writes'[i] \in T
    BY <1>1, <2>1
  <2>3. writes' = [i \in 1 .. Len(writes) |-> writes'[i]]
    BY <2>1 DEF Abandon
  <2> HIDE DEF T
  <2>4. writes' \in Seq(T) BY <2>1, <2>2, <2>3
  <2> QED BY <2>4 DEF T, Sequenced
<1>3. Known' BY <1>1 DEF TombstoneInv, Known
<1>4. Acks' BY <1>1 DEF Acks
<1>5. Absent' BY <1>1 DEF TombstoneInv, Absent, Persisting, Idle
<1>6. Entombed' BY <1>1 DEF TombstoneInv, Entombed, Lacks
<1> QED BY <1>2, <1>3, <1>4, <1>5, <1>6 DEF TombstoneInv

\* The writer parks the oldest snapshot.
LEMMA TombstoneWriterSave == TombstoneInv /\ writer_save => TombstoneInv'
<1> SUFFICES ASSUME TombstoneInv, writer_save PROVE TombstoneInv'
  OBVIOUS
<1> DEFINE n == Len(writes)
<1>1. /\ Sequenced' /\ n \in Nat \ {0} /\ DOMAIN writes = 1 .. n
      /\ Head(writes) = writes[1] /\ DOMAIN writes' = 1 .. n - 1
      /\ \A i \in 1 .. n - 1 : writes'[i] = writes[i + 1]
  BY Taken DEF writer_save
<1> HIDE DEF n
<1>2. /\ parked' # Nothing /\ parked'.snapshot = writes[1].snapshot
      /\ UNCHANGED <<tasks, disk, ack, op, pending_removal, created, tombstones>>
  BY <1>1 DEF writer_save, Nothing
<1>3. 1 \in DOMAIN writes
      /\ \A i \in DOMAIN writes' : i + 1 \in DOMAIN writes /\ writes'[i] = writes[i + 1]
  BY <1>1
<1>4. Known' BY <1>2, <1>3 DEF TombstoneInv, Known
<1>5. Acks' BY <1>1, <1>2, <1>3 DEF TombstoneInv, Acks, Persisting
<1>6. Entombed' BY <1>2, <1>3 DEF TombstoneInv, Entombed, Lacks
<1>7. Absent'
  <2>1. \A i, j \in DOMAIN writes' : i =< j => i + 1 =< j + 1 BY <1>1
  <2>2. \A t : Lacks(t) => Lacks(t)' BY <1>2, <1>3 DEF Lacks
  <2>3. Persisting => \A i, j \in DOMAIN writes' :
          writes'[i].awaited /\ i =< j => op.task \notin DOMAIN writes'[j].snapshot
    BY <1>3, <2>1 DEF TombstoneInv, Absent
  <2> QED BY <1>2, <2>2, <2>3 DEF TombstoneInv, Absent, Persisting
<1> QED BY <1>1, <1>4, <1>5, <1>6, <1>7 DEF TombstoneInv

\* The writer performs the oldest flush: the parked snapshot, older than it, is
\* dropped, and an acknowledgement leaves only writes younger than the flush.
LEMMA TombstoneWriterFlush ==
    TombstoneInv /\ writer_save_and_flush => TombstoneInv'
<1> SUFFICES ASSUME TombstoneInv, writer_save_and_flush PROVE TombstoneInv'
  OBVIOUS
<1> DEFINE n == Len(writes)
<1>1. /\ Sequenced' /\ n \in Nat \ {0} /\ DOMAIN writes = 1 .. n
      /\ Head(writes) = writes[1] /\ DOMAIN writes' = 1 .. n - 1
      /\ \A i \in 1 .. n - 1 : writes'[i] = writes[i + 1]
  BY Taken DEF writer_save_and_flush
<1> HIDE DEF n
<1>2. /\ parked' = Nothing
      /\ disk' = disk \/ disk' = writes[1].snapshot
      /\ ~ writes[1].awaited => ack' = ack
      /\ writes[1].awaited => ack' \in {"ok", "err"}
      /\ writes[1].awaited /\ ack' = "ok" => disk' = writes[1].snapshot
      /\ UNCHANGED <<tasks, op, pending_removal, created, tombstones>>
  BY <1>1 DEF writer_save_and_flush
<1>3. 1 \in DOMAIN writes
      /\ \A i \in DOMAIN writes' :
           i + 1 \in DOMAIN writes /\ i + 1 # 1 /\ writes'[i] = writes[i + 1]
  BY <1>1
<1>4. Known' BY <1>2, <1>3 DEF TombstoneInv, Known
<1>5. Acks'
  <2>1. writes[1].awaited => \A i \in DOMAIN writes' : ~ writes'[i].awaited
    BY <1>3 DEF TombstoneInv, Acks
  <2>2. \A i, j \in DOMAIN writes' : i + 1 = j + 1 => i = j BY <1>1
  <2>3. \A i \in DOMAIN writes' : writes'[i].awaited => ack' = "waiting"
    BY <1>2, <1>3, <2>1 DEF TombstoneInv, Acks
  <2>4. \A i, j \in DOMAIN writes' : writes'[i].awaited /\ writes'[j].awaited => i = j
    BY <1>3, <2>2 DEF TombstoneInv, Acks
  <2>5. /\ ack' \in {"none", "waiting", "ok", "err"}
        /\ ack' # "none" => Persisting
    BY <1>2, <1>3 DEF TombstoneInv, Acks
  <2> QED BY <1>2, <2>3, <2>4, <2>5 DEF Acks, Persisting
<1>6. \A t : Lacks(t) => Lacks(t)' BY <1>2, <1>3 DEF Lacks
<1>7. Entombed' BY <1>2, <1>6 DEF TombstoneInv, Entombed
<1>8. Absent'
  <2>1. \A i, j \in DOMAIN writes' : i =< j => i + 1 =< j + 1 BY <1>1
  <2>2. Persisting => \A i, j \in DOMAIN writes' :
          writes'[i].awaited /\ i =< j => op.task \notin DOMAIN writes'[j].snapshot
    BY <1>3, <2>1 DEF TombstoneInv, Absent
  <2>3. Persisting /\ ack' = "ok" => Lacks(op.task)'
    <3> SUFFICES ASSUME Persisting, ack' = "ok" PROVE Lacks(op.task)'
      OBVIOUS
    <3>1. CASE ~ writes[1].awaited
      BY <1>2, <1>6, <3>1 DEF TombstoneInv, Absent
    <3>2. CASE writes[1].awaited
      <4>1. \A j \in DOMAIN writes : 1 =< j BY <1>1
      <4>2. \A j \in DOMAIN writes : op.task \notin DOMAIN writes[j].snapshot
        BY <1>3, <3>2, <4>1 DEF TombstoneInv, Absent
      <4>3. op.task \notin DOMAIN tasks BY DEF TombstoneInv, Absent
      <4> QED BY <1>2, <1>3, <3>2, <4>2, <4>3 DEF Lacks
    <3> QED BY <3>1, <3>2
  <2> QED BY <1>2, <2>2, <2>3 DEF TombstoneInv, Absent, Persisting
<1> QED BY <1>1, <1>4, <1>5, <1>7, <1>8 DEF TombstoneInv

LEMMA TombstoneInit == Init => TombstoneInv
<1> SUFFICES ASSUME Init PROVE TombstoneInv
  OBVIOUS
<1>1. /\ writes = <<>> /\ tasks = <<>> /\ disk = <<>> /\ parked = Nothing
      /\ ack = "none" /\ op = Idle /\ pending_removal = Nothing
      /\ tombstones = {} /\ created = {}
  BY DEF Init
<1>2. DOMAIN writes = {} /\ writes \in Seq({writes[i] : i \in DOMAIN writes})
  BY <1>1
<1> QED BY <1>1, <1>2
        DEF TombstoneInv, Sequenced, Known, Acks, Absent, Entombed, Persisting,
            Idle

LEMMA TombstoneStep ==
    ReservationInv /\ TombstoneInv /\ [Next]_vars => TombstoneInv'
<1> SUFFICES ASSUME ReservationInv, TombstoneInv, [Next]_vars
             PROVE  TombstoneInv'
  OBVIOUS
<1>i. op = Idle => ack = "none" /\ ~ Persisting
  BY DEF TombstoneInv, Acks, Persisting, Idle
<1>q. ~ Persisting => ack = "none" BY DEF TombstoneInv, Acks
<1>1. CASE UNCHANGED vars
  BY <1>1, TombstoneStutter DEF vars
<1>2. CASE CloseConsumer \/ Cancel
  BY <1>2, TombstoneStutter DEF CloseConsumer, Cancel
<1>3. ASSUME NEW t \in Tasks, BlockExpiry(t) PROVE TombstoneInv'
  BY <1>3, TombstoneStutter DEF BlockExpiry
<1>4. ASSUME NEW r \in Runs, Coordinator(r) \/ Guard(r) PROVE TombstoneInv'
  BY <1>4, TombstoneStutter DEF Coordinator, Guard
<1>5. ASSUME NEW t \in Tasks, NEW p \in Prompts, Update(t, p) PROVE TombstoneInv'
  BY <1>5, TombstoneStutter DEF Update
<1>6. CASE save
  <2> DEFINE n == Len(writes)
             e == [flush |-> FALSE, snapshot |-> tasks, awaited |-> FALSE]
  <2>1. /\ writes' = Append(writes, e)
        /\ UNCHANGED <<tasks, disk, parked, ack, op, pending_removal, created,
                       tombstones>>
    BY <1>6 DEF save
  <2>e. e.snapshot = tasks /\ ~ e.awaited OBVIOUS
  <2> HIDE DEF e
  <2>2. /\ Sequenced' /\ n \in Nat /\ DOMAIN writes = 1 .. n
        /\ DOMAIN writes' = 1 .. n + 1
        /\ \A i \in 1 .. n : writes'[i] = writes[i]
        /\ writes'[n + 1] = e
    BY <2>1, Appended
  <2> HIDE DEF n
  <2>3. \A i \in DOMAIN writes' :
          \/ writes'[i].snapshot = tasks /\ ~ writes'[i].awaited
          \/ i \in DOMAIN writes /\ writes'[i] = writes[i]
    BY <2>2, <2>e
  <2>4. Known' BY <2>1, <2>3 DEF TombstoneInv, Known
  <2>5. Acks' BY <2>1, <2>3 DEF TombstoneInv, Acks, Persisting
  <2>6. \A t : Lacks(t) => Lacks(t)' BY <2>1, <2>3 DEF Lacks
  <2>7. Entombed' BY <2>1, <2>6 DEF TombstoneInv, Entombed
  <2>8. Persisting => \A i, j \in DOMAIN writes' :
          writes'[i].awaited /\ i =< j => op.task \notin DOMAIN writes'[j].snapshot
    BY <2>3 DEF TombstoneInv, Absent
  <2>9. Absent' BY <2>1, <2>6, <2>8 DEF TombstoneInv, Absent, Persisting
  <2> QED BY <2>2, <2>4, <2>5, <2>7, <2>9 DEF TombstoneInv
<1>7. CASE writer_save \/ writer_save_and_flush
  BY <1>7, TombstoneWriterSave, TombstoneWriterFlush
<1>8. CASE writer_tick
  <2>1. /\ parked # Nothing /\ parked' = Nothing
        /\ disk' = disk \/ disk' = parked.snapshot
        /\ UNCHANGED <<tasks, writes, ack, op, pending_removal, created, tombstones>>
    BY <1>8 DEF writer_tick
  <2>2. \A t : Lacks(t) => Lacks(t)' BY <2>1 DEF Lacks
  <2>3. Sequenced' BY <2>1 DEF TombstoneInv, Sequenced
  <2>4. Known' BY <2>1 DEF TombstoneInv, Known
  <2>5. Acks' BY <2>1 DEF TombstoneInv, Acks, Persisting
  <2>6. Absent' BY <2>1, <2>2 DEF TombstoneInv, Absent, Persisting
  <2>7. Entombed' BY <2>1, <2>2 DEF TombstoneInv, Entombed
  <2> QED BY <2>3, <2>4, <2>5, <2>6, <2>7 DEF TombstoneInv
<1>9. ASSUME NEW t \in Tasks, NEW p \in Prompts, Create(t, p) PROVE TombstoneInv'
  <2>1. /\ op = Idle /\ pending_removal = Nothing /\ t \notin created
        /\ DOMAIN tasks' = DOMAIN tasks \union {t}
        /\ created' = created \union {t}
        /\ UNCHANGED <<disk, writes, parked, ack, op, pending_removal, tombstones>>
    BY <1>9 DEF Create, Admitted, Ready, With
  <2>2. Sequenced' BY <2>1 DEF TombstoneInv, Sequenced
  <2>3. Known' BY <2>1 DEF TombstoneInv, Known
  <2>4. Acks' BY <2>1 DEF TombstoneInv, Acks, Persisting
  <2>5. Absent' BY <2>1 DEF TombstoneInv, Absent, Persisting, Idle
  <2>6. Entombed' BY <2>1 DEF TombstoneInv, Entombed, Lacks
  <2> QED BY <2>2, <2>3, <2>4, <2>5, <2>6 DEF TombstoneInv
<1>10. ASSUME NEW t \in Tasks, Delete(t) PROVE TombstoneInv'
  <2>1. /\ op = Idle /\ t \in created /\ enqueue_save_and_flush(tasks')
        /\ DOMAIN tasks' = DOMAIN tasks \ {t}
        /\ op' = [kind |-> "delete", stage |-> "persist", task |-> t]
        /\ pending_removal'.task = t
        /\ UNCHANGED <<disk, parked, created, tombstones>>
    BY <1>10
       DEF Delete, Removing, Admitted, Ready, Without, TombstoneInv, Known
  <2>2. Persisting' /\ op'.task = t /\ op'.kind # "expiry"
    BY <2>1 DEF Persisting
  <2> QED BY <1>i, <2>1, <2>2, TombstoneEnqueue
<1>11. ASSUME NEW t \in Tasks, DeleteAgain(t) PROVE TombstoneInv'
  <2>1. /\ op = Idle /\ pending_removal # Nothing /\ pending_removal.task = t
        /\ t \in created /\ t \notin DOMAIN tasks
        /\ UNCHANGED <<tasks, disk, parked, created, tombstones>>
    BY <1>11 DEF DeleteAgain, Ready, TombstoneInv, Absent
  <2>2. CASE Removing(t, tasks) /\ UNCHANGED pending_removal
    <3>1. /\ enqueue_save_and_flush(tasks')
          /\ op' = [kind |-> "delete", stage |-> "persist", task |-> t]
      BY <2>1, <2>2 DEF Removing
    <3>2. Persisting' /\ op'.task = t /\ op'.kind # "expiry"
      BY <3>1 DEF Persisting
    <3>3. DOMAIN tasks' = DOMAIN tasks \ {t} BY <2>1
    <3> QED BY <1>i, <2>1, <2>2, <3>1, <3>2, <3>3, TombstoneEnqueue
  <2>3. CASE pending_removal' = Nothing /\ UNCHANGED <<op, writes, ack>>
    <3>1. ~ Persisting' /\ op'.kind # "fire" BY <2>1, <2>3 DEF Persisting, Idle
    <3> QED BY <1>i, <2>1, <2>3, <3>1, TombstoneQuiet
  <2> QED BY <1>11, <2>2, <2>3 DEF DeleteAgain
<1>12. ASSUME NEW t \in Tasks, Expire(t) PROVE TombstoneInv'
  <2>1. /\ op = Idle /\ pending_removal = Nothing /\ t \in DOMAIN tasks
        /\ t \in created /\ t \notin tombstones
        /\ enqueue_save_and_flush(tasks')
        /\ DOMAIN tasks' = DOMAIN tasks \ {t}
        /\ UNCHANGED <<disk, parked, created, tombstones, pending_removal>>
    BY <1>12
       DEF Expire, Selectable, Admitted, Ready, Without, TombstoneInv, Known,
           Entombed, Lacks
  <2>2. op'.task = t /\ op'.kind \in {"expiry", "absence"} /\ op'.stage = "persist"
    BY <1>12 DEF Expire
  <2> QED BY <1>i, <2>1, <2>2, TombstoneEnqueue DEF Persisting
<1>13. ASSUME NEW t \in Tasks, Fire(t) PROVE TombstoneInv'
  <2>1. /\ op = Idle /\ t \in created
        /\ UNCHANGED <<tasks, disk, writes, parked, ack, pending_removal, created,
                       tombstones>>
    BY <1>13 DEF Fire, Selectable, Admitted, Ready, TombstoneInv, Known
  <2>2. op'.kind = "fire" /\ op'.task = t
    BY <1>13 DEF Fire
  <2> QED BY <1>i, <2>1, <2>2, TombstoneQuiet DEF Persisting
<1>14. CASE PublishRemoval
  <2>1. /\ Persisting /\ ack = "ok" /\ ack' = "none"
        /\ tombstones' = tombstones \union {op.task}
        /\ op' = [op EXCEPT !.stage = "publish"] \/ op' = Idle
        /\ UNCHANGED <<tasks, disk, writes, parked, pending_removal, created>>
    BY <1>14 DEF PublishRemoval
  <2>2. ~ Persisting' /\ op'.kind # "fire"
    BY <2>1 DEF Persisting, Idle, ReservationInv, OpShape
  <2>3. op.task \in created /\ Lacks(op.task)
    BY <2>1 DEF TombstoneInv, Absent
  <2>4. Entombed' BY <2>1, <2>3 DEF TombstoneInv, Entombed, Lacks
  <2>5. Sequenced' BY <2>1 DEF TombstoneInv, Sequenced
  <2>6. Known' BY <2>1 DEF TombstoneInv, Known
  <2>7. Acks' BY <2>1 DEF TombstoneInv, Acks
  <2>8. Absent' BY <2>1, <2>2 DEF TombstoneInv, Absent
  <2> QED BY <2>4, <2>5, <2>6, <2>7, <2>8 DEF TombstoneInv
<1>15. CASE PersistFailed
  <2>1. /\ Persisting /\ ack = "err" /\ ack' = "none" /\ op' = Idle
        /\ UNCHANGED <<disk, writes, parked, pending_removal, created, tombstones>>
    BY <1>15 DEF PersistFailed
  <2>2. ~ Persisting' /\ op'.kind # "fire" BY <2>1 DEF Persisting, Idle
  <2>3. CASE op.kind # "expiry"
    BY <1>15, <2>1, <2>2, <2>3, TombstoneQuiet DEF PersistFailed
  <2>4. CASE op.kind = "expiry"
    <3>1. /\ DOMAIN tasks' = DOMAIN tasks \union {op.task}
          /\ op.task \in created /\ op.task \notin tombstones
          /\ pending_removal = Nothing
      BY <1>15, <2>1, <2>4
         DEF PersistFailed, With, TombstoneInv, Absent, ReservationInv,
             OneReservation, Reserving
    <3>2. Sequenced' BY <2>1 DEF TombstoneInv, Sequenced
    <3>3. Known' BY <2>1, <3>1 DEF TombstoneInv, Known
    <3>4. Acks' BY <2>1 DEF TombstoneInv, Acks
    <3>5. Absent' BY <2>1, <2>2, <3>1 DEF Absent
    <3>6. Entombed' BY <2>1, <3>1 DEF TombstoneInv, Entombed, Lacks
    <3> QED BY <3>2, <3>3, <3>4, <3>5, <3>6 DEF TombstoneInv
  <2> QED BY <2>3, <2>4
<1>16. CASE PersistUnknown \/ AnnounceAbsence
  BY <1>16, TombstoneAbandon DEF PersistUnknown, AnnounceAbsence
<1>17. CASE RemovalAcknowledged \/ RemovalUnacknowledged
  <2>1. /\ ~ Persisting /\ op' = Idle /\ ack' = ack
        /\ UNCHANGED <<tasks, disk, writes, parked, created, tombstones>>
        /\ pending_removal' = pending_removal \/ pending_removal' = Nothing
    BY <1>17 DEF RemovalAcknowledged, RemovalUnacknowledged, Persisting
  <2>2. ~ Persisting' /\ op'.kind # "fire" BY <2>1 DEF Persisting, Idle
  <2> QED BY <1>q, <2>1, <2>2, TombstoneQuiet
<1>18. CASE SkipFire \/ SpawnCancelled \/ SpawnRefused
  <2>1. /\ op.kind = "fire" /\ op' = Idle /\ DOMAIN tasks' = DOMAIN tasks
        /\ UNCHANGED <<disk, writes, parked, ack, pending_removal, created,
                       tombstones>>
    BY <1>18 DEF SkipFire, SpawnCancelled, SpawnRefused, restore_fire_anchor
  <2>2. ~ Persisting /\ ~ Persisting' /\ op'.kind # "fire"
    BY <2>1 DEF Persisting, Idle
  <2> QED BY <1>q, <2>1, <2>2, TombstoneQuiet
<1>19. CASE Spawn
  <2>1. /\ op.kind = "fire" /\ DOMAIN tasks' = DOMAIN tasks
        /\ UNCHANGED <<disk, writes, parked, ack, pending_removal, created,
                       tombstones>>
        /\ \E r \in Runs : op' = [op EXCEPT !.stage = "register", !.subagent_id = r]
    BY <1>19 DEF Spawn
  <2>2. op'.kind = "fire" /\ op'.task = op.task
    BY <2>1 DEF ReservationInv, OpShape
  <2>3. ~ Persisting /\ ~ Persisting' /\ op'.task \in created
    BY <2>1, <2>2 DEF Persisting, TombstoneInv, Absent
  <2> QED BY <1>q, <2>1, <2>3, TombstoneQuiet
<1>20. CASE Fired
  <2>1. /\ op.kind = "fire" /\ op.task \in created /\ ~ Persisting
        /\ pending_removal = Nothing
        /\ UNCHANGED <<disk, parked, pending_removal, created, tombstones>>
    BY <1>20
       DEF Fired, Persisting, TombstoneInv, Absent, ReservationInv,
           OneReservation, Reserving
  <2>2. CASE op.should_remove
    <3>1. /\ enqueue_save_and_flush(tasks')
          /\ DOMAIN tasks' = DOMAIN tasks \ {op.task}
      BY <1>20, <2>2 DEF Fired, Without
    <3>2. op'.kind = "absence" /\ op'.stage = "persist" /\ op'.task = op.task
      BY <1>20, <2>2 DEF Fired
    <3> QED BY <1>q, <2>1, <3>1, <3>2, TombstoneEnqueue DEF Persisting
  <2>3. CASE ~ op.should_remove
    <3>1. op' = Idle /\ UNCHANGED <<tasks, writes, ack>>
      BY <1>20, <2>3 DEF Fired
    <3>2. ~ Persisting' /\ op'.kind # "fire" BY <3>1 DEF Persisting, Idle
    <3> QED BY <1>q, <2>1, <3>1, <3>2, TombstoneQuiet
  <2> QED BY <2>2, <2>3
<1>21. CASE Shutdown
  <2>1. /\ op = Idle /\ op' = [kind |-> "stopped"] /\ pending_removal' = Nothing
        /\ UNCHANGED <<tasks, disk, writes, parked, ack, created, tombstones>>
    BY <1>21 DEF Shutdown
  <2>2. ~ Persisting' /\ op'.kind # "fire" BY <2>1 DEF Persisting
  <2> QED BY <1>i, <2>1, <2>2, TombstoneQuiet
<1>22. CASE Restart
  <2>1. /\ tasks' = disk /\ writes' = <<>> /\ parked' = Nothing /\ ack' = "none"
        /\ op' = Idle /\ pending_removal' = Nothing
        /\ UNCHANGED <<disk, created, tombstones>>
    BY <1>22 DEF Restart
  <2>2. DOMAIN writes' = {} /\ writes' \in Seq({writes'[i] : i \in DOMAIN writes'})
    BY <2>1
  <2>3. Sequenced' BY <2>2 DEF Sequenced
  <2>4. Known' BY <2>1, <2>2 DEF TombstoneInv, Known
  <2>5. Acks' BY <2>1, <2>2 DEF Acks
  <2>6. Absent' BY <2>1, <2>2 DEF Absent, Persisting, Idle
  <2>7. Entombed' BY <2>1, <2>2 DEF TombstoneInv, Entombed, Lacks
  <2> QED BY <2>3, <2>4, <2>5, <2>6, <2>7 DEF TombstoneInv
<1> QED
  BY <1>1, <1>2, <1>3, <1>4, <1>5, <1>6, <1>7, <1>8, <1>9, <1>10, <1>11, <1>12,
     <1>13, <1>14, <1>15, <1>16, <1>17, <1>18, <1>19, <1>20, <1>21, <1>22
     DEF Next

\* Whatever crashes, failed writes and lost acknowledgements there are, a task
\* whose durable tombstone went out (actor.rs:150-195, 395-412) is never again in
\* the scheduler's memory or on its disk.
THEOREM TombstonesAreFinal == Spec => []TombstonedStaysGone
<1>1. TombstoneInv => TombstonedStaysGone
  BY DEF TombstoneInv, Entombed, Lacks, TombstonedStaysGone
<1> QED BY <1>1, ReservationInit, ReservationStep, TombstoneInit, TombstoneStep,
           PTL DEF Spec

(***************************************************************************)
(* Iterations                                                               *)
(***************************************************************************)

RunFields == {"status", "task", "prompt", "resume_from", "guarded"}

RunShape ==
    /\ DOMAIN runs = Runs
    /\ \A r \in Runs : runs[r] # Unused =>
           RunFields \subseteq DOMAIN runs[r] /\ runs[r].status # "unused"

\* What v, read as task t or as a fire of it, takes for its last iteration is one
\* of t's, and of v's prompt unless a fresh chain was asked for.
Anchored(R, t, v) ==
    /\ {"prompt", "last_subagent_id", "iterations_since_fresh",
        "chain_reset_pending"} \subseteq DOMAIN v
    /\ v.last_subagent_id # NoRun =>
         /\ v.last_subagent_id \in Runs
         /\ R[v.last_subagent_id] # Unused
         /\ R[v.last_subagent_id].task = t
         /\ v.chain_reset_pending \/ R[v.last_subagent_id].prompt = v.prompt

Linked(R, T) == \A t \in DOMAIN T : Anchored(R, t, T[t])

\* So it is in the memory, on the disk and in every write to come.
Links ==
    /\ Linked(runs, tasks)
    /\ Linked(runs, disk)
    /\ parked # Nothing => Linked(runs, parked.snapshot)
    /\ \A i \in DOMAIN writes : Linked(runs, writes[i].snapshot)

\* A fire's copy of the chain is stale only where a guard took the anchor away;
\* the run it waits for is the anchor and has no guard yet.
Firing ==
    op.kind = "fire" =>
        /\ "subagent_id" \in DOMAIN op
        /\ Anchored(runs, op.task, op)
        /\ op.task \in DOMAIN tasks => tasks[op.task].prompt = op.prompt
        /\ op.stage = "query" =>
             /\ op.task \in DOMAIN tasks /\ op.last_subagent_id = NoRun =>
                    tasks[op.task].last_subagent_id = NoRun
        /\ op.stage = "register" =>
             /\ op.subagent_id \in Runs /\ runs[op.subagent_id] # Unused
             /\ ~ runs[op.subagent_id].guarded
             /\ op.task \in DOMAIN tasks =>
                    tasks[op.task].last_subagent_id = op.subagent_id

Expiring ==
    op.kind = "expiry" => /\ "removed" \in DOMAIN op
                          /\ Anchored(runs, op.task, op.removed)

\* A live iteration is the anchor of its task, in the memory or in the copy an
\* expiry may put back: it can be forgotten only with its task.
LiveLinks ==
    \A r \in Runs : Live(r) =>
        /\ runs[r].task \in created
        /\ runs[r].task \in DOMAIN tasks =>
               tasks[runs[r].task].last_subagent_id = r
        /\ op.kind = "expiry" /\ op.task = runs[r].task =>
               op.removed.last_subagent_id = r
        /\ \A q \in Runs \ {r} : Live(q) => runs[q].task # runs[r].task

Resumes ==
    \A r \in Runs : runs[r] # Unused /\ runs[r].resume_from # NoRun =>
        /\ runs[r].resume_from \in Runs
        /\ runs[runs[r].resume_from] # Unused
        /\ runs[runs[r].resume_from].prompt = runs[r].prompt
        /\ runs[runs[r].resume_from].task = runs[r].task

ChainInv == RunShape /\ Links /\ Firing /\ Expiring /\ LiveLinks /\ Resumes

-----------------------------------------------------------------------------
\* The iterations never lose their task and their prompt.
Kept(R, S) ==
    \A r \in Runs : R[r] # Unused => /\ S[r] # Unused
                                     /\ S[r].task = R[r].task
                                     /\ S[r].prompt = R[r].prompt

LEMMA LinkedKept ==
    ASSUME NEW R, NEW S, Kept(R, S)
    PROVE  /\ \A t, v : Anchored(R, t, v) => Anchored(S, t, v)
           /\ \A T : Linked(R, T) => Linked(S, T)
BY DEF Kept, Anchored, Linked

LEMMA UnchangedKept == runs' = runs => Kept(runs, runs')
BY DEF Kept

\* A step that adds no write, or only the tasks as they now are.
LEMMA LinksEnqueued ==
    ASSUME TombstoneInv, Links, Kept(runs, runs'), Linked(runs', tasks'),
           UNCHANGED <<disk, parked>>,
           \/ writes' = writes
           \/ \E e : writes' = Append(writes, e) /\ e.snapshot = tasks'
    PROVE  Links'
<1>1. \A i \in DOMAIN writes' :
        \/ writes'[i].snapshot = tasks'
        \/ i \in DOMAIN writes /\ writes'[i] = writes[i]
  <2>1. CASE writes' = writes BY <2>1
  <2>2. ASSUME NEW e, writes' = Append(writes, e), e.snapshot = tasks'
        PROVE  \A i \in DOMAIN writes' :
                 \/ writes'[i].snapshot = tasks'
                 \/ i \in DOMAIN writes /\ writes'[i] = writes[i]
    <3> DEFINE n == Len(writes)
    <3>1. /\ n \in Nat /\ DOMAIN writes = 1 .. n
          /\ DOMAIN writes' = 1 .. n + 1
          /\ \A i \in 1 .. n : writes'[i] = writes[i]
          /\ writes'[n + 1] = e
      BY <2>2, Appended
    <3> HIDE DEF n
    <3> QED BY <2>2, <3>1
  <2> QED BY <2>1, <2>2
<1>2. \A i \in DOMAIN writes' : Linked(runs', writes'[i].snapshot)
  BY <1>1, LinkedKept DEF Links
<1>3. Linked(runs', disk') BY LinkedKept DEF Links
<1>4. parked' # Nothing => Linked(runs', parked'.snapshot) BY LinkedKept DEF Links
<1> QED BY <1>2, <1>3, <1>4 DEF Links, Nothing

\* A step of the writer or of the surroundings.
LEMMA ChainOutside ==
    ASSUME ChainInv, UNCHANGED <<runs, tasks, op, created>>, Links'
    PROVE  ChainInv'
<1>1. RunShape' BY DEF ChainInv, RunShape
<1>2. Firing' BY DEF ChainInv, Firing
<1>3. Expiring' BY DEF ChainInv, Expiring
<1>4. LiveLinks' BY DEF ChainInv, LiveLinks, Live
<1>5. Resumes' BY DEF ChainInv, Resumes
<1> QED BY <1>1, <1>2, <1>3, <1>4, <1>5 DEF ChainInv

\* A step after which the actor is in no fire and in no durable expiry, and that
\* leaves the iterations alone.
LEMMA ChainSettles ==
    ASSUME ChainInv, Links', runs' = runs,
           created \subseteq created',
           op'.kind \notin {"fire", "expiry"},
           \A r \in Runs : Live(r) /\ runs[r].task \in DOMAIN tasks' =>
               tasks'[runs[r].task].last_subagent_id = r
    PROVE  ChainInv'
<1>1. RunShape' BY DEF ChainInv, RunShape
<1>2. Firing' /\ Expiring' BY DEF Firing, Expiring
<1>3. LiveLinks' BY DEF ChainInv, LiveLinks, Live
<1>4. Resumes' BY DEF ChainInv, Resumes
<1> QED BY <1>1, <1>2, <1>3, <1>4 DEF ChainInv

LEMMA ChainInit == Init => ChainInv
<1> SUFFICES ASSUME Init PROVE ChainInv
  OBVIOUS
<1>1. /\ tasks = <<>> /\ disk = <<>> /\ writes = <<>> /\ parked = Nothing
      /\ op = Idle /\ runs = [r \in Runs |-> Unused]
  BY DEF Init
<1>2. DOMAIN tasks = {} /\ DOMAIN disk = {} /\ DOMAIN writes = {} BY <1>1
<1>3. Links BY <1>1, <1>2 DEF Links, Linked
<1>4. \A r \in Runs : ~ Live(r) BY <1>1 DEF Live, Unused
<1> QED BY <1>1, <1>3, <1>4
        DEF ChainInv, RunShape, Firing, Expiring, LiveLinks, Resumes, Idle

\* The status of one iteration changes, or its guard.
LEMMA StatusChanges ==
    ASSUME RunShape, NEW r \in Runs, runs[r] # Unused, NEW s, s # "unused",
           runs' = [runs EXCEPT ![r].status = s]
    PROVE  /\ RunShape' /\ Kept(runs, runs')
           /\ \A q \in Runs \ {r} : runs'[q] = runs[q]
           /\ runs'[r].status = s /\ runs'[r].guarded = runs[r].guarded
           /\ runs'[r].resume_from = runs[r].resume_from
<1>1. \A q \in Runs \ {r} : runs'[q] = runs[q] BY DEF RunShape
<1>2. DOMAIN runs' = Runs /\ runs'[r] = [runs[r] EXCEPT !.status = s]
  BY DEF RunShape
<1>3. RunFields \subseteq DOMAIN runs[r] BY DEF RunShape
<1>4. /\ runs'[r].status = s /\ RunFields \subseteq DOMAIN runs'[r]
      /\ runs'[r].guarded = runs[r].guarded
      /\ runs'[r].resume_from = runs[r].resume_from
      /\ runs'[r].task = runs[r].task /\ runs'[r].prompt = runs[r].prompt
  BY <1>2, <1>3 DEF RunFields
<1>5. runs'[r] # Unused BY <1>4 DEF Unused
<1>6. RunShape' BY <1>1, <1>2, <1>4 DEF RunShape
<1>7. Kept(runs, runs') BY <1>1, <1>4, <1>5 DEF Kept
<1> QED BY <1>1, <1>4, <1>6, <1>7

LEMMA GuardChanges ==
    ASSUME RunShape, NEW r \in Runs, runs[r] # Unused, NEW g,
           runs' = [runs EXCEPT ![r].guarded = g]
    PROVE  /\ RunShape' /\ Kept(runs, runs')
           /\ \A q \in Runs \ {r} : runs'[q] = runs[q]
           /\ runs'[r].status = runs[r].status
           /\ runs'[r].resume_from = runs[r].resume_from
<1>1. \A q \in Runs \ {r} : runs'[q] = runs[q] BY DEF RunShape
<1>2. DOMAIN runs' = Runs /\ runs'[r] = [runs[r] EXCEPT !.guarded = g]
  BY DEF RunShape
<1>3. RunFields \subseteq DOMAIN runs[r] /\ runs[r].status # "unused" BY DEF RunShape
<1>4. /\ runs'[r].status = runs[r].status /\ RunFields \subseteq DOMAIN runs'[r]
      /\ runs'[r].resume_from = runs[r].resume_from
      /\ runs'[r].task = runs[r].task /\ runs'[r].prompt = runs[r].prompt
  BY <1>2, <1>3 DEF RunFields
<1>5. runs'[r] # Unused BY <1>3, <1>4 DEF Unused
<1>6. RunShape' BY <1>1, <1>2, <1>3, <1>4 DEF RunShape
<1>7. Kept(runs, runs') BY <1>1, <1>4, <1>5 DEF Kept
<1> QED BY <1>1, <1>4, <1>6, <1>7

\* Neither kind of change disturbs what an iteration resumed.
LEMMA ResumesKept ==
    ASSUME Resumes, RunShape, Kept(runs, runs'),
           \A r \in Runs : /\ runs'[r] # Unused => runs[r] # Unused
                           /\ runs[r] # Unused =>
                                runs'[r].resume_from = runs[r].resume_from
    PROVE  Resumes'
BY DEF Resumes, Kept

\* The coordinator moves an iteration on.
LEMMA ChainCoordinator ==
    ASSUME TombstoneInv, ChainInv, NEW r \in Runs, Coordinator(r)
    PROVE  ChainInv'
<1>1. /\ UNCHANGED <<tasks, disk, writes, parked, op, created>>
      /\ Live(r)
  BY DEF Coordinator, Live
<1>2. PICK s \in {"running", "refused", "completed", "failed"} :
        runs' = [runs EXCEPT ![r].status = s]
  BY DEF Coordinator
<1>3. runs[r] # Unused BY <1>1 DEF Live, Unused
<1>4. /\ RunShape' /\ Kept(runs, runs')
      /\ \A q \in Runs \ {r} : runs'[q] = runs[q]
      /\ runs'[r].status = s /\ runs'[r].guarded = runs[r].guarded
      /\ runs'[r].resume_from = runs[r].resume_from
  BY <1>2, <1>3, StatusChanges DEF ChainInv
<1>5. \A q \in Runs : Live(q)' => Live(q) BY <1>1, <1>4 DEF Live
<1>6. Links'
  <2>1. Linked(runs', tasks') BY <1>1, <1>4, LinkedKept DEF ChainInv, Links
  <2> QED BY <1>1, <1>4, <2>1, LinksEnqueued DEF ChainInv
<1>7. Firing'
  <2>1. op.kind = "fire" => Anchored(runs', op.task, op)
    BY <1>4, LinkedKept DEF ChainInv, Firing
  <2>2. \A q \in Runs : runs[q] # Unused =>
          runs'[q] # Unused /\ runs'[q].guarded = runs[q].guarded
    BY <1>4 DEF Kept
  <2> QED BY <1>1, <2>1, <2>2 DEF ChainInv, Firing
<1>8. Expiring' BY <1>1, <1>4, LinkedKept DEF ChainInv, Expiring
<1>9. LiveLinks'
  <2>1. \A q \in Runs : Live(q) => runs'[q].task = runs[q].task
    BY <1>3, <1>4 DEF Kept
  <2> QED BY <1>1, <1>5, <2>1 DEF ChainInv, LiveLinks
<1>10. Resumes' BY <1>3, <1>4, ResumesKept DEF ChainInv
<1> QED BY <1>4, <1>6, <1>7, <1>8, <1>9, <1>10 DEF ChainInv

\* The guard of an iteration that ended takes only that anchor away.
LEMMA ChainGuard ==
    ASSUME TombstoneInv, ChainInv, NEW r \in Runs, Guard(r)
    PROVE  ChainInv'
<1>1. /\ UNCHANGED <<disk, writes, parked, op, created>>
      /\ ~ Live(r) /\ runs[r] # Unused /\ runs[r].guarded
      /\ runs' = [runs EXCEPT ![r].guarded = FALSE]
  <2>1. runs[r].status \in {"failed", "refused"} BY DEF Guard
  <2>2. ~ Live(r) /\ runs[r] # Unused BY <2>1 DEF Live, Unused
  <2> QED BY <2>2 DEF Guard
<1>t. /\ DOMAIN tasks' = DOMAIN tasks
      /\ \A t \in DOMAIN tasks :
           /\ tasks[t].last_subagent_id # r => tasks'[t] = tasks[t]
           /\ tasks[t].last_subagent_id = r =>
                tasks'[t] = [tasks[t] EXCEPT !.last_subagent_id = NoRun,
                                             !.iterations_since_fresh = 0]
  BY DEF Guard
<1>2. /\ RunShape' /\ Kept(runs, runs')
      /\ \A q \in Runs \ {r} : runs'[q] = runs[q]
      /\ runs'[r].status = runs[r].status
      /\ runs'[r].resume_from = runs[r].resume_from
  BY <1>1, GuardChanges DEF ChainInv
<1>3. \A q \in Runs : /\ Live(q)' => Live(q) /\ q # r
                      /\ runs[q] # Unused => runs'[q].task = runs[q].task
  BY <1>1, <1>2 DEF Live, Kept
<1>4. \A t \in DOMAIN tasks :
        /\ Anchored(runs, t, tasks'[t])
        /\ tasks'[t].prompt = tasks[t].prompt
        /\ tasks'[t].last_subagent_id \in {tasks[t].last_subagent_id, NoRun}
        /\ tasks[t].last_subagent_id # r =>
             tasks'[t].last_subagent_id = tasks[t].last_subagent_id
  <2> SUFFICES ASSUME NEW t \in DOMAIN tasks
               PROVE  /\ Anchored(runs, t, tasks'[t])
                      /\ tasks'[t].prompt = tasks[t].prompt
                      /\ tasks'[t].last_subagent_id \in
                           {tasks[t].last_subagent_id, NoRun}
                      /\ tasks[t].last_subagent_id # r =>
                           tasks'[t].last_subagent_id = tasks[t].last_subagent_id
    OBVIOUS
  <2>1. Anchored(runs, t, tasks[t]) BY DEF ChainInv, Links, Linked
  <2>2. CASE tasks[t].last_subagent_id # r BY <1>t, <2>1, <2>2
  <2>3. CASE tasks[t].last_subagent_id = r
    <3>1. {"prompt", "last_subagent_id", "iterations_since_fresh",
           "chain_reset_pending"} \subseteq DOMAIN tasks[t]
      BY <2>1 DEF Anchored
    <3>2. tasks'[t] = [tasks[t] EXCEPT !.last_subagent_id = NoRun,
                                       !.iterations_since_fresh = 0]
      BY <1>t, <2>3
    <3>3. /\ tasks'[t].last_subagent_id = NoRun
          /\ tasks'[t].prompt = tasks[t].prompt
          /\ DOMAIN tasks'[t] = DOMAIN tasks[t]
      BY <3>1, <3>2
    <3> QED BY <2>3, <3>1, <3>3 DEF Anchored
  <2> QED BY <2>2, <2>3
<1>5. Links'
  <2>1. Linked(runs, tasks') BY <1>t, <1>4 DEF Linked
  <2>2. Linked(runs', tasks') BY <1>2, <2>1, LinkedKept
  <2> QED BY <1>1, <1>2, <2>2, LinksEnqueued DEF ChainInv
<1>6. Firing'
  <2> SUFFICES ASSUME op.kind = "fire" PROVE Firing'
    BY <1>1 DEF Firing
  <2>1. Anchored(runs', op.task, op) BY <1>2, LinkedKept DEF ChainInv, Firing
  <2>2. op.task \in DOMAIN tasks' => tasks'[op.task].prompt = op.prompt
    BY <1>t, <1>4 DEF ChainInv, Firing
  <2>3. op.stage = "query" /\ op.task \in DOMAIN tasks'
          /\ op.last_subagent_id = NoRun => tasks'[op.task].last_subagent_id = NoRun
    BY <1>t, <1>4 DEF ChainInv, Firing
  <2>4. op.stage = "register" =>
          /\ op.subagent_id \in Runs /\ runs'[op.subagent_id] # Unused
          /\ ~ runs'[op.subagent_id].guarded
          /\ op.task \in DOMAIN tasks' =>
               tasks'[op.task].last_subagent_id = op.subagent_id
    <3> SUFFICES ASSUME op.stage = "register"
                 PROVE  /\ op.subagent_id \in Runs /\ runs'[op.subagent_id] # Unused
                        /\ ~ runs'[op.subagent_id].guarded
                        /\ op.task \in DOMAIN tasks' =>
                             tasks'[op.task].last_subagent_id = op.subagent_id
      OBVIOUS
    <3>1. /\ op.subagent_id \in Runs /\ runs[op.subagent_id] # Unused
          /\ ~ runs[op.subagent_id].guarded
          /\ op.task \in DOMAIN tasks =>
               tasks[op.task].last_subagent_id = op.subagent_id
      BY DEF ChainInv, Firing
    <3>2. op.subagent_id # r BY <1>1, <3>1
    <3> QED BY <1>t, <1>2, <1>4, <3>1, <3>2
  <2> QED BY <1>1, <2>1, <2>2, <2>3, <2>4 DEF ChainInv, Firing
<1>7. Expiring' BY <1>1, <1>2, LinkedKept DEF ChainInv, Expiring
<1>8. LiveLinks'
  <2>1. \A q \in Runs : Live(q) => runs[q] # Unused BY DEF Live, Unused
  <2>2. \A q \in Runs : Live(q)' =>
          /\ Live(q) /\ q # r /\ runs'[q].task = runs[q].task
          /\ runs[q].task \in DOMAIN tasks' =>
               tasks'[runs[q].task].last_subagent_id = q
    BY <1>t, <1>3, <1>4, <2>1 DEF ChainInv, LiveLinks
  <2> QED BY <1>1, <2>2 DEF ChainInv, LiveLinks
<1>9. Resumes' BY <1>1, <1>2, ResumesKept DEF ChainInv
<1> QED BY <1>2, <1>5, <1>6, <1>7, <1>8, <1>9 DEF ChainInv

\* A fire writes its three chain fields and nothing else of its task.
LEMMA ChainFieldsWritten ==
    ASSUME NEW T, NEW t \in DOMAIN T, NEW a, NEW n, NEW c, NEW U,
           {"prompt", "last_subagent_id", "iterations_since_fresh",
            "chain_reset_pending"} \subseteq DOMAIN T[t],
           U = [T EXCEPT ![t].last_subagent_id = a,
                         ![t].iterations_since_fresh = n,
                         ![t].chain_reset_pending = c]
    PROVE  /\ DOMAIN U = DOMAIN T
           /\ \A u \in DOMAIN T \ {t} : U[u] = T[u]
           /\ DOMAIN U[t] = DOMAIN T[t] /\ U[t].prompt = T[t].prompt
           /\ U[t].last_subagent_id = a /\ U[t].chain_reset_pending = c
<1> DEFINE v == [[[T[t] EXCEPT !.last_subagent_id = a]
                       EXCEPT !.iterations_since_fresh = n]
                       EXCEPT !.chain_reset_pending = c]
<1>1. /\ DOMAIN v = DOMAIN T[t] /\ v.prompt = T[t].prompt
      /\ v.last_subagent_id = a /\ v.chain_reset_pending = c
  OBVIOUS
<1>2. U[t] = v OBVIOUS
<1>3. DOMAIN U = DOMAIN T /\ \A u \in DOMAIN T \ {t} : U[u] = T[u] OBVIOUS
<1> QED BY <1>1, <1>2, <1>3

\* The spawned iteration is the only live one of its task, and what it resumes
\* is the anchor the fire read.
LEMMA ChainSpawn ==
    ASSUME ReservationInv, TombstoneInv, ChainInv, Spawn
    PROVE  ChainInv'
<1>1. /\ op.kind = "fire" /\ op.stage = "query" /\ NothingInFlight
      /\ op.task \in DOMAIN tasks
      /\ UNCHANGED <<disk, writes, parked, created>>
  BY DEF Spawn
<1>2. PICK r \in Runs, found \in BOOLEAN :
        /\ runs[r] = Unused
        /\ found => op.last_subagent_id # NoRun
        /\ runs' = [runs EXCEPT ![r] =
               [status |-> "sent", task |-> op.task, prompt |-> op.prompt,
                resume_from |-> resume_from(found), guarded |-> FALSE]]
        /\ tasks' = [tasks EXCEPT
               ![op.task].last_subagent_id = r,
               ![op.task].iterations_since_fresh =
                   IF resume_from(found) = NoRun THEN 1
                   ELSE op.iterations_since_fresh + 1,
               ![op.task].chain_reset_pending = FALSE]
        /\ op' = [op EXCEPT !.stage = "register", !.subagent_id = r]
  BY DEF Spawn
<1>3. /\ Anchored(runs, op.task, op) /\ Anchored(runs, op.task, tasks[op.task])
      /\ tasks[op.task].prompt = op.prompt
      /\ op.last_subagent_id = NoRun => tasks[op.task].last_subagent_id = NoRun
      /\ "subagent_id" \in DOMAIN op
  BY <1>1 DEF ChainInv, Firing, Links, Linked
<1>4. /\ DOMAIN tasks' = DOMAIN tasks
      /\ \A t \in DOMAIN tasks \ {op.task} : tasks'[t] = tasks[t]
      /\ DOMAIN tasks'[op.task] = DOMAIN tasks[op.task]
      /\ tasks'[op.task].prompt = op.prompt
      /\ tasks'[op.task].last_subagent_id = r
      /\ tasks'[op.task].chain_reset_pending = FALSE
  BY <1>1, <1>2, <1>3, ChainFieldsWritten DEF Anchored
<1>5. /\ op'.kind = "fire" /\ op'.stage = "register" /\ op'.task = op.task
      /\ op'.subagent_id = r /\ op'.prompt = op.prompt
      /\ op'.last_subagent_id = op.last_subagent_id
      /\ op'.chain_reset_pending = op.chain_reset_pending
      /\ DOMAIN op' = DOMAIN op
  <2>1. {"kind", "stage", "task", "subagent_id", "prompt", "last_subagent_id",
         "chain_reset_pending"} \subseteq DOMAIN op
    BY <1>1, <1>3 DEF Anchored, ReservationInv, OpShape
  <2> QED BY <1>1, <1>2, <2>1
<1>6. /\ DOMAIN runs' = Runs /\ \A q \in Runs \ {r} : runs'[q] = runs[q]
      /\ runs'[r].status = "sent" /\ runs'[r].task = op.task
      /\ runs'[r].prompt = op.prompt /\ ~ runs'[r].guarded
      /\ runs'[r].resume_from = resume_from(found)
      /\ RunFields \subseteq DOMAIN runs'[r]
  BY <1>2 DEF ChainInv, RunShape, RunFields
<1>7. runs'[r] # Unused BY <1>6 DEF Unused
<1>8. Kept(runs, runs') BY <1>2, <1>6 DEF Kept
<1>9. RunShape' BY <1>6 DEF ChainInv, RunShape
<1>10. \A q \in Runs : Live(q) => q # r /\ runs[q].task # op.task
  <2>1. \A q \in Runs : q # NoRun BY DEF Runs, NoRun
  <2>2. \A q \in Runs : Live(q) => q # r BY <1>2 DEF Live, Unused
  <2>3. CASE op.last_subagent_id # NoRun BY <1>1, <2>2, <2>3 DEF NothingInFlight
  <2>4. CASE op.last_subagent_id = NoRun
    BY <1>1, <1>3, <2>1, <2>2, <2>4 DEF ChainInv, LiveLinks
  <2> QED BY <2>3, <2>4
<1>11. Links'
  <2>1. Anchored(runs', op.task, tasks'[op.task])
    BY <1>3, <1>4, <1>6, <1>7 DEF Anchored
  <2>2. \A t \in DOMAIN tasks \ {op.task} : Anchored(runs', t, tasks'[t])
    BY <1>4, <1>8, LinkedKept DEF ChainInv, Links, Linked
  <2>3. Linked(runs', tasks') BY <1>4, <2>1, <2>2 DEF Linked
  <2> QED BY <1>1, <1>8, <2>3, LinksEnqueued DEF ChainInv
<1>12. Firing'
  <2>1. Anchored(runs', op.task, op) BY <1>3, <1>8, LinkedKept
  <2>2. Anchored(runs', op'.task, op') BY <1>5, <2>1 DEF Anchored
  <2> QED BY <1>3, <1>4, <1>5, <1>6, <1>7, <2>2 DEF Firing
<1>13. Expiring' BY <1>5 DEF Expiring
<1>14. LiveLinks'
  <2>1. \A q \in Runs : Live(q)' => q = r \/ (Live(q) /\ runs'[q] = runs[q])
    BY <1>6 DEF Live
  <2>2. op.task \in created BY <1>1 DEF TombstoneInv, Known
  <2>3. \A q \in Runs : Live(q)' =>
          /\ runs'[q].task \in created'
          /\ runs'[q].task \in DOMAIN tasks' =>
               tasks'[runs'[q].task].last_subagent_id = q
    BY <1>1, <1>4, <1>6, <1>10, <2>1, <2>2 DEF ChainInv, LiveLinks
  <2>4. \A q, p \in Runs : Live(q)' /\ Live(p)' /\ q # p =>
          runs'[p].task # runs'[q].task
    BY <1>6, <1>10, <2>1 DEF ChainInv, LiveLinks
  <2> QED BY <1>5, <2>3, <2>4 DEF LiveLinks
<1>15. Resumes'
  <2>1. resume_from(found) # NoRun =>
          /\ resume_from(found) = op.last_subagent_id
          /\ ~ op.chain_reset_pending
    BY DEF resume_from
  <2>2. resume_from(found) # NoRun =>
          /\ resume_from(found) \in Runs /\ runs[resume_from(found)] # Unused
          /\ runs[resume_from(found)].prompt = op.prompt
          /\ runs[resume_from(found)].task = op.task
    BY <1>3, <2>1 DEF Anchored
  <2>3. resume_from(found) # NoRun =>
          /\ runs'[resume_from(found)] # Unused
          /\ runs'[resume_from(found)].prompt = op.prompt
          /\ runs'[resume_from(found)].task = op.task
    BY <1>8, <2>2 DEF Kept
  <2>4. \A q \in Runs \ {r} : runs[q] # Unused /\ runs[q].resume_from # NoRun =>
          /\ runs[q].resume_from \in Runs
          /\ runs'[runs[q].resume_from] # Unused
          /\ runs'[runs[q].resume_from].prompt = runs[q].prompt
          /\ runs'[runs[q].resume_from].task = runs[q].task
    BY <1>8 DEF ChainInv, Resumes, Kept
  <2> QED BY <1>6, <2>2, <2>3, <2>4 DEF Resumes
<1> QED BY <1>9, <1>11, <1>12, <1>13, <1>14, <1>15 DEF ChainInv

\* A refused spawn gives its task the chain it had: the refused iteration was its
\* anchor, so none of its iterations is live.
LEMMA ChainRefused ==
    ASSUME ReservationInv, TombstoneInv, ChainInv, SpawnRefused
    PROVE  ChainInv'
<1>1. /\ op.kind = "fire" /\ op.stage = "register"
      /\ runs[op.subagent_id].status = "refused"
      /\ tasks' = restore_fire_anchor /\ op' = Idle
      /\ UNCHANGED <<disk, writes, parked, runs, created>>
  BY DEF SpawnRefused
<1>2. /\ Anchored(runs, op.task, op)
      /\ op.task \in DOMAIN tasks =>
           /\ tasks[op.task].prompt = op.prompt
           /\ tasks[op.task].last_subagent_id = op.subagent_id
  BY <1>1 DEF ChainInv, Firing
<1>3. ~ Live(op.subagent_id) BY <1>1 DEF Live
<1>4. CASE op.task \notin DOMAIN tasks
  <2>1. tasks' = tasks BY <1>1, <1>4 DEF restore_fire_anchor
  <2>2. Links'
    <3>1. Linked(runs', tasks') BY <1>1, <2>1 DEF ChainInv, Links
    <3> QED BY <1>1, <3>1, UnchangedKept, LinksEnqueued DEF ChainInv
  <2>3. \A r \in Runs : Live(r) /\ runs[r].task \in DOMAIN tasks' =>
          tasks'[runs[r].task].last_subagent_id = r
    BY <2>1 DEF ChainInv, LiveLinks
  <2> QED BY <1>1, <2>2, <2>3, ChainSettles DEF Idle
<1>5. CASE op.task \in DOMAIN tasks
  <2>1. tasks' = [tasks EXCEPT
            ![op.task].last_subagent_id = op.last_subagent_id,
            ![op.task].iterations_since_fresh = op.iterations_since_fresh,
            ![op.task].chain_reset_pending = op.chain_reset_pending]
    BY <1>1, <1>5 DEF restore_fire_anchor
  <2>2. Anchored(runs, op.task, tasks[op.task])
    BY <1>5 DEF ChainInv, Links, Linked
  <2>3. /\ DOMAIN tasks' = DOMAIN tasks
        /\ \A t \in DOMAIN tasks \ {op.task} : tasks'[t] = tasks[t]
        /\ DOMAIN tasks'[op.task] = DOMAIN tasks[op.task]
        /\ tasks'[op.task].prompt = op.prompt
        /\ tasks'[op.task].last_subagent_id = op.last_subagent_id
        /\ tasks'[op.task].chain_reset_pending = op.chain_reset_pending
    BY <1>2, <1>5, <2>1, <2>2, ChainFieldsWritten DEF Anchored
  <2>4. Anchored(runs, op.task, tasks'[op.task])
    BY <1>2, <2>2, <2>3 DEF Anchored
  <2>5. Links'
    <3>1. Linked(runs', tasks') BY <1>1, <2>3, <2>4 DEF ChainInv, Links, Linked
    <3> QED BY <1>1, <3>1, UnchangedKept, LinksEnqueued DEF ChainInv
  <2>6. \A r \in Runs : Live(r) /\ runs[r].task \in DOMAIN tasks' =>
          tasks'[runs[r].task].last_subagent_id = r
    BY <1>2, <1>3, <2>3 DEF ChainInv, LiveLinks
  <2> QED BY <1>1, <2>5, <2>6, ChainSettles DEF Idle
<1> QED BY <1>4, <1>5

\* A fire that counts gives the iteration its guard; a one-shot goes with it.
LEMMA ChainFired ==
    ASSUME ReservationInv, TombstoneInv, ChainInv, Fired
    PROVE  ChainInv'
<1> DEFINE r == op.subagent_id
<1>1. /\ op.kind = "fire" /\ op.stage = "register"
      /\ runs' = [runs EXCEPT ![r].guarded = TRUE]
      /\ UNCHANGED <<disk, parked, created>>
  BY DEF Fired
<1>2. r \in Runs /\ runs[r] # Unused
  BY <1>1 DEF ChainInv, Firing
<1>3. /\ RunShape' /\ Kept(runs, runs')
      /\ \A q \in Runs \ {r} : runs'[q] = runs[q]
      /\ runs'[r].status = runs[r].status
      /\ runs'[r].resume_from = runs[r].resume_from
  BY <1>1, <1>2, GuardChanges DEF ChainInv
<1>4. /\ DOMAIN tasks' \subseteq DOMAIN tasks
      /\ \A t \in DOMAIN tasks' : tasks'[t] = tasks[t]
      /\ op'.kind \in {"absence", "idle"}
      /\ \/ writes' = writes
         \/ \E e : writes' = Append(writes, e) /\ e.snapshot = tasks'
  <2>1. CASE op.should_remove
    <3>1. tasks' = Without(tasks, op.task) /\ op'.kind = "absence"
      BY <2>1 DEF Fired
    <3>2. /\ writes' = Append(writes, [flush |-> TRUE, snapshot |-> tasks',
                                       awaited |-> TRUE])
          /\ [flush |-> TRUE, snapshot |-> tasks', awaited |-> TRUE].snapshot = tasks'
      BY <2>1 DEF Fired, enqueue_save_and_flush
    <3>3. \E e : writes' = Append(writes, e) /\ e.snapshot = tasks' BY <3>2
    <3> QED BY <3>1, <3>3 DEF Without
  <2>2. CASE ~ op.should_remove
    BY <2>2 DEF Fired, Idle
  <2> QED BY <2>1, <2>2
<1> HIDE DEF r
<1>5. Links'
  <2>1. Linked(runs, tasks') BY <1>4 DEF ChainInv, Links, Linked
  <2>2. Linked(runs', tasks') BY <1>3, <2>1, LinkedKept
  <2> QED BY <1>1, <1>3, <1>4, <2>2, LinksEnqueued DEF ChainInv
<1>6. Firing' /\ Expiring' BY <1>4 DEF Firing, Expiring
<1>7. LiveLinks'
  <2>1. \A q \in Runs : Live(q)' => Live(q) /\ runs[q] # Unused
    BY <1>2, <1>3 DEF Live, Unused
  <2>2. \A q \in Runs : Live(q)' => Live(q) /\ runs'[q].task = runs[q].task
    BY <1>3, <2>1 DEF Kept
  <2> QED BY <1>1, <1>4, <2>2 DEF ChainInv, LiveLinks
<1>8. Resumes' BY <1>2, <1>3, ResumesKept DEF ChainInv
<1> QED BY <1>3, <1>5, <1>6, <1>7, <1>8 DEF ChainInv

LEMMA ChainStep ==
    ReservationInv /\ TombstoneInv /\ ChainInv /\ [Next]_vars => ChainInv'
<1> SUFFICES ASSUME ReservationInv, TombstoneInv, ChainInv, [Next]_vars
             PROVE  ChainInv'
  OBVIOUS
<1>l. /\ Links /\ Linked(runs, tasks)
      /\ \A r \in Runs : Live(r) /\ runs[r].task \in DOMAIN tasks =>
           tasks[runs[r].task].last_subagent_id = r
  BY DEF ChainInv, Links, LiveLinks
<1>a. \A S : [flush |-> TRUE, snapshot |-> S, awaited |-> TRUE].snapshot = S
  OBVIOUS
<1>b. ASSUME NEW S, enqueue_save_and_flush(S)
      PROVE  \E e : writes' = Append(writes, e) /\ e.snapshot = S
  BY <1>a, <1>b DEF enqueue_save_and_flush
<1>1. CASE UNCHANGED vars
  <2>1. Links' BY <1>1, <1>l, UnchangedKept, LinksEnqueued DEF vars
  <2> QED BY <1>1, <2>1, ChainOutside DEF vars
<1>2. CASE CloseConsumer \/ Cancel
  <2>1. UNCHANGED <<tasks, disk, writes, parked, op, runs, created>>
    BY <1>2 DEF CloseConsumer, Cancel
  <2>2. Links' BY <1>l, <2>1, UnchangedKept, LinksEnqueued
  <2> QED BY <2>1, <2>2, ChainOutside
<1>3. ASSUME NEW t \in Tasks, BlockExpiry(t) PROVE ChainInv'
  <2>1. UNCHANGED <<tasks, disk, writes, parked, op, runs, created>>
    BY <1>3 DEF BlockExpiry
  <2>2. Links' BY <1>l, <2>1, UnchangedKept, LinksEnqueued
  <2> QED BY <2>1, <2>2, ChainOutside
<1>4. CASE save
  <2>1. /\ writes' = Append(writes, [flush |-> FALSE, snapshot |-> tasks,
                                     awaited |-> FALSE])
        /\ [flush |-> FALSE, snapshot |-> tasks, awaited |-> FALSE].snapshot = tasks
        /\ UNCHANGED <<tasks, disk, parked, op, runs, created>>
    BY <1>4 DEF save
  <2>2. \E e : writes' = Append(writes, e) /\ e.snapshot = tasks' BY <2>1
  <2>3. Links' BY <1>l, <2>1, <2>2, UnchangedKept, LinksEnqueued
  <2> QED BY <2>1, <2>3, ChainOutside
<1>5. CASE writer_save \/ writer_save_and_flush
  <2> DEFINE n == Len(writes)
  <2>1. /\ n \in Nat \ {0} /\ DOMAIN writes = 1 .. n
        /\ Head(writes) = writes[1] /\ DOMAIN writes' = 1 .. n - 1
        /\ \A i \in 1 .. n - 1 : writes'[i] = writes[i + 1]
    BY <1>5, Taken DEF writer_save, writer_save_and_flush
  <2> HIDE DEF n
  <2>2. 1 \in DOMAIN writes
        /\ \A i \in DOMAIN writes' :
             i + 1 \in DOMAIN writes /\ writes'[i] = writes[i + 1]
    BY <2>1
  <2>3. /\ UNCHANGED <<tasks, op, runs, created>>
        /\ disk' = disk \/ disk' = writes[1].snapshot
        /\ parked' = Nothing \/ parked'.snapshot = writes[1].snapshot
    BY <1>5, <2>1 DEF writer_save, writer_save_and_flush
  <2>4. Links' BY <1>l, <2>2, <2>3 DEF Links, Nothing
  <2> QED BY <2>3, <2>4, ChainOutside
<1>6. CASE writer_tick
  <2>1. /\ parked # Nothing /\ parked' = Nothing
        /\ disk' = disk \/ disk' = parked.snapshot
        /\ UNCHANGED <<tasks, writes, op, runs, created>>
    BY <1>6 DEF writer_tick
  <2>2. Links' BY <1>l, <2>1 DEF Links, Nothing
  <2> QED BY <2>1, <2>2, ChainOutside
<1>7. ASSUME NEW t \in Tasks, NEW p \in Prompts, Create(t, p) PROVE ChainInv'
  <2> DEFINE v == [recurring |-> scenario.shapes[t].recurring,
                   durable |-> scenario.shapes[t].durable,
                   prompt |-> p, last_subagent_id |-> NoRun,
                   iterations_since_fresh |-> 0, chain_reset_pending |-> FALSE]
  <2>1. /\ op = Idle /\ t \notin created /\ tasks' = With(tasks, t, v)
        /\ created' = created \union {t}
        /\ UNCHANGED <<disk, writes, parked, op, runs>>
    BY <1>7 DEF Create, Admitted, Ready
  <2>2. Anchored(runs, t, v) BY DEF Anchored
  <2> HIDE DEF v
  <2>3. DOMAIN tasks' = DOMAIN tasks \union {t} /\ tasks'[t] = v
        /\ \A u \in DOMAIN tasks \ {t} : tasks'[u] = tasks[u]
    BY <2>1 DEF With
  <2>4. Linked(runs', tasks') BY <1>l, <2>1, <2>2, <2>3 DEF Linked
  <2>5. Links' BY <1>l, <2>1, <2>4, UnchangedKept, LinksEnqueued
  <2>6. \A r \in Runs : Live(r) /\ runs[r].task \in DOMAIN tasks' =>
          tasks'[runs[r].task].last_subagent_id = r
    BY <1>l, <2>1, <2>3 DEF ChainInv, LiveLinks
  <2> QED BY <2>1, <2>5, <2>6, ChainSettles DEF Idle
<1>8. ASSUME NEW t \in Tasks, NEW p \in Prompts, Update(t, p) PROVE ChainInv'
  <2>1. /\ op = Idle /\ t \in DOMAIN tasks
        /\ UNCHANGED <<disk, writes, parked, op, runs, created>>
    BY <1>8 DEF Update, Admitted, Ready
  <2>2. Anchored(runs, t, tasks[t]) BY <1>l, <2>1 DEF Linked
  <2>3. /\ DOMAIN tasks' = DOMAIN tasks
        /\ \A u \in DOMAIN tasks \ {t} : tasks'[u] = tasks[u]
        /\ Anchored(runs, t, tasks'[t])
        /\ tasks'[t].last_subagent_id = tasks[t].last_subagent_id
    <3>1. CASE tasks' = tasks BY <2>2, <3>1
    <3>2. CASE tasks' = [tasks EXCEPT ![t].prompt = p,
                                      ![t].chain_reset_pending = TRUE,
                                      ![t].iterations_since_fresh = 0]
      <4>1. /\ DOMAIN tasks' = DOMAIN tasks
            /\ \A u \in DOMAIN tasks \ {t} : tasks'[u] = tasks[u]
        BY <2>1, <3>2
      <4>2. tasks'[t] = [[[tasks[t] EXCEPT !.prompt = p]
                              EXCEPT !.chain_reset_pending = TRUE]
                              EXCEPT !.iterations_since_fresh = 0]
        BY <2>1, <3>2
      <4>3. {"prompt", "last_subagent_id", "iterations_since_fresh",
             "chain_reset_pending"} \subseteq DOMAIN tasks[t]
        BY <2>2 DEF Anchored
      <4>4. /\ DOMAIN tasks'[t] = DOMAIN tasks[t]
            /\ tasks'[t].last_subagent_id = tasks[t].last_subagent_id
            /\ tasks'[t].chain_reset_pending = TRUE
        BY <4>2, <4>3
      <4> QED BY <2>2, <4>1, <4>4 DEF Anchored
    <3> QED BY <1>8, <3>1, <3>2 DEF Update
  <2>4. Linked(runs', tasks') BY <1>l, <2>1, <2>3 DEF Linked
  <2>5. Links' BY <1>l, <2>1, <2>4, UnchangedKept, LinksEnqueued
  <2>6. \A r \in Runs : Live(r) /\ runs[r].task \in DOMAIN tasks' =>
          tasks'[runs[r].task].last_subagent_id = r
    BY <1>l, <2>3
  <2> QED BY <2>1, <2>5, <2>6, ChainSettles DEF Idle
<1>9. ASSUME NEW t \in Tasks, Delete(t) PROVE ChainInv'
  <2>1. /\ tasks' = Without(tasks, t) /\ enqueue_save_and_flush(tasks')
        /\ UNCHANGED <<disk, parked, runs, created>>
    BY <1>9 DEF Delete, Removing
  <2>2. op'.kind = "delete" BY <1>9 DEF Delete, Removing
  <2>3. /\ DOMAIN tasks' \subseteq DOMAIN tasks
        /\ \A u \in DOMAIN tasks' : tasks'[u] = tasks[u]
    BY <2>1 DEF Without
  <2>4. Linked(runs', tasks') BY <1>l, <2>1, <2>3 DEF Linked
  <2>5. Links' BY <1>l, <1>b, <2>1, <2>4, UnchangedKept, LinksEnqueued
  <2> QED BY <1>l, <2>1, <2>2, <2>3, <2>5, ChainSettles
<1>10. ASSUME NEW t \in Tasks, DeleteAgain(t) PROVE ChainInv'
  <2>1. /\ op = Idle /\ UNCHANGED <<tasks, disk, parked, runs, created>>
    BY <1>10 DEF DeleteAgain, Ready
  <2>2. /\ writes' = writes \/ enqueue_save_and_flush(tasks)
        /\ op'.kind \in {"delete", "idle"}
    BY <1>10, <2>1 DEF DeleteAgain, Removing, Idle
  <2>3. writes' = writes \/ \E e : writes' = Append(writes, e) /\ e.snapshot = tasks'
    BY <1>b, <2>1, <2>2
  <2>4. Links' BY <1>l, <2>1, <2>3, UnchangedKept, LinksEnqueued
  <2> QED BY <1>l, <2>1, <2>2, <2>4, ChainSettles
<1>11. ASSUME NEW t \in Tasks, Expire(t) PROVE ChainInv'
  <2>1. /\ tasks' = Without(tasks, t) /\ enqueue_save_and_flush(tasks')
        /\ t \in DOMAIN tasks
        /\ UNCHANGED <<disk, parked, runs, created>>
    BY <1>11 DEF Expire, Selectable
  <2>2. /\ op'.kind \in {"expiry", "absence"} /\ op'.task = t
        /\ "removed" \in DOMAIN op' /\ op'.removed = tasks[t]
    BY <1>11 DEF Expire
  <2>3. /\ DOMAIN tasks' \subseteq DOMAIN tasks
        /\ \A u \in DOMAIN tasks' : tasks'[u] = tasks[u]
    BY <2>1 DEF Without
  <2>4. Linked(runs', tasks') BY <1>l, <2>1, <2>3 DEF Linked
  <2>5. Links' BY <1>l, <1>b, <2>1, <2>4, UnchangedKept, LinksEnqueued
  <2>6. RunShape' /\ Resumes' BY <2>1 DEF ChainInv, RunShape, Resumes
  <2>7. Firing' BY <2>2 DEF Firing
  <2>8. Expiring' BY <1>l, <2>1, <2>2 DEF Expiring, Linked
  <2>9. LiveLinks' BY <2>1, <2>2, <2>3 DEF ChainInv, LiveLinks, Live
  <2> QED BY <2>5, <2>6, <2>7, <2>8, <2>9 DEF ChainInv
<1>12. ASSUME NEW t \in Tasks, Fire(t) PROVE ChainInv'
  <2>1. /\ t \in DOMAIN tasks
        /\ UNCHANGED <<tasks, disk, writes, parked, runs, created>>
    BY <1>12 DEF Fire, Selectable
  <2>2. op' = [kind |-> "fire", stage |-> "query", task |-> t,
              should_remove |-> ~ tasks[t].recurring,
              prompt |-> tasks[t].prompt,
              last_subagent_id |-> tasks[t].last_subagent_id,
              iterations_since_fresh |-> tasks[t].iterations_since_fresh,
              chain_reset_pending |-> tasks[t].chain_reset_pending,
              subagent_id |-> NoRun,
              reservation |-> prepare_transition(IF tasks[t].recurring THEN 1
                                                                       ELSE 2)]
    BY <1>12 DEF Fire
  <2>3. /\ op'.kind = "fire" /\ op'.stage = "query" /\ op'.task = t
        /\ op'.prompt = tasks[t].prompt
        /\ op'.last_subagent_id = tasks[t].last_subagent_id
        /\ op'.chain_reset_pending = tasks[t].chain_reset_pending
        /\ {"prompt", "last_subagent_id", "iterations_since_fresh",
            "chain_reset_pending", "subagent_id"} \subseteq DOMAIN op'
    BY <2>2
  <2>4. Links' BY <1>l, <2>1, UnchangedKept, LinksEnqueued
  <2>5. Anchored(runs, t, tasks[t]) BY <1>l, <2>1 DEF Linked
  <2>6. Anchored(runs', op'.task, op') BY <2>1, <2>3, <2>5 DEF Anchored
  <2>7. RunShape' /\ Resumes' BY <2>1 DEF ChainInv, RunShape, Resumes
  <2>8. Firing' BY <2>1, <2>3, <2>6 DEF Firing
  <2>9. Expiring' BY <2>3 DEF Expiring
  <2>10. LiveLinks' BY <2>1, <2>3 DEF ChainInv, LiveLinks, Live
  <2> QED BY <2>4, <2>7, <2>8, <2>9, <2>10 DEF ChainInv
<1>13. CASE PublishRemoval
  <2>1. /\ op.kind \in {"delete", "expiry"}
        /\ UNCHANGED <<tasks, disk, writes, parked, runs, created>>
        /\ op' = [op EXCEPT !.stage = "publish"] \/ op' = Idle
    BY <1>13 DEF PublishRemoval, Persisting
  <2>2. Links' BY <1>l, <2>1, UnchangedKept, LinksEnqueued
  <2>3. CASE op' = Idle
    BY <1>l, <2>1, <2>2, <2>3, ChainSettles DEF Idle
  <2>4. CASE op' = [op EXCEPT !.stage = "publish"]
    <3>1. /\ op'.kind = op.kind /\ op'.task = op.task
      BY <2>1, <2>4 DEF ReservationInv, OpShape
    <3>2. CASE op.kind = "delete"
      BY <1>l, <2>1, <2>2, <3>1, <3>2, ChainSettles
    <3>3. CASE op.kind = "expiry"
      <4>1. op'.removed = op.removed /\ "removed" \in DOMAIN op'
        BY <2>4, <3>3 DEF ChainInv, Expiring
      <4>2. RunShape' /\ Resumes' BY <2>1 DEF ChainInv, RunShape, Resumes
      <4>3. Firing' BY <3>1, <3>3 DEF Firing
      <4>4. Expiring' BY <2>1, <3>1, <4>1 DEF ChainInv, Expiring
      <4>5. LiveLinks' BY <2>1, <3>1, <4>1 DEF ChainInv, LiveLinks, Live
      <4> QED BY <2>2, <4>2, <4>3, <4>4, <4>5 DEF ChainInv
    <3> QED BY <2>1, <3>2, <3>3
  <2> QED BY <2>1, <2>3, <2>4
<1>14. CASE PersistFailed
  <2>1. /\ op' = Idle /\ UNCHANGED <<disk, writes, parked, runs, created>>
    BY <1>14 DEF PersistFailed
  <2>2. CASE op.kind # "expiry"
    <3>1. tasks' = tasks BY <1>14, <2>2 DEF PersistFailed
    <3>2. Links' BY <1>l, <2>1, <3>1, UnchangedKept, LinksEnqueued
    <3> QED BY <1>l, <2>1, <3>1, <3>2, ChainSettles DEF Idle
  <2>3. CASE op.kind = "expiry"
    <3>1. tasks' = With(tasks, op.task, op.removed)
      BY <1>14, <2>3 DEF PersistFailed
    <3>2. /\ DOMAIN tasks' = DOMAIN tasks \union {op.task}
          /\ tasks'[op.task] = op.removed
          /\ \A u \in DOMAIN tasks \ {op.task} : tasks'[u] = tasks[u]
      BY <3>1 DEF With
    <3>3. Anchored(runs, op.task, op.removed) BY <2>3 DEF ChainInv, Expiring
    <3>4. Linked(runs', tasks') BY <1>l, <2>1, <3>2, <3>3 DEF Linked
    <3>5. Links' BY <1>l, <2>1, <3>4, UnchangedKept, LinksEnqueued
    <3>6. \A r \in Runs : Live(r) /\ runs[r].task \in DOMAIN tasks' =>
            tasks'[runs[r].task].last_subagent_id = r
      BY <1>l, <2>3, <3>2 DEF ChainInv, LiveLinks
    <3> QED BY <2>1, <3>5, <3>6, ChainSettles DEF Idle
  <2> QED BY <2>2, <2>3
<1>15. CASE PersistUnknown \/ AnnounceAbsence
  <2>1. /\ Abandon /\ op' = Idle
        /\ UNCHANGED <<tasks, disk, parked, runs, created>>
    BY <1>15 DEF PersistUnknown, AnnounceAbsence
  <2>2. /\ DOMAIN writes' = DOMAIN writes
        /\ \A i \in DOMAIN writes : writes'[i].snapshot = writes[i].snapshot
    BY <2>1 DEF Abandon
  <2>3. Links' BY <1>l, <2>1, <2>2 DEF Links
  <2> QED BY <1>l, <2>1, <2>3, ChainSettles DEF Idle
<1>16. CASE RemovalAcknowledged \/ RemovalUnacknowledged \/ SkipFire
            \/ SpawnCancelled
  <2>1. /\ op' = Idle
        /\ UNCHANGED <<tasks, disk, writes, parked, runs, created>>
    BY <1>16 DEF RemovalAcknowledged, RemovalUnacknowledged, SkipFire,
                 SpawnCancelled
  <2>2. Links' BY <1>l, <2>1, UnchangedKept, LinksEnqueued
  <2> QED BY <1>l, <2>1, <2>2, ChainSettles DEF Idle
<1>17. CASE Shutdown
  <2>1. /\ op' = [kind |-> "stopped"]
        /\ UNCHANGED <<tasks, disk, writes, parked, runs, created>>
    BY <1>17 DEF Shutdown
  <2>2. Links' BY <1>l, <2>1, UnchangedKept, LinksEnqueued
  <2> QED BY <1>l, <2>1, <2>2, ChainSettles
<1>18. CASE Restart
  <2>1. /\ tasks' = disk /\ writes' = <<>> /\ parked' = Nothing /\ op' = Idle
        /\ UNCHANGED <<disk, created>>
        /\ DOMAIN runs' = Runs
        /\ \A r \in Runs : runs'[r] =
             IF runs[r] = Unused THEN Unused
             ELSE [runs[r] EXCEPT !.status = IF Live(r) THEN "lost"
                                             ELSE runs[r].status,
                                  !.guarded = FALSE]
    BY <1>18 DEF Restart
  <2>2. ASSUME NEW r \in Runs, runs[r] # Unused
        PROVE  /\ RunFields \subseteq DOMAIN runs'[r]
               /\ runs'[r].status \notin {"unused", "sent", "running"}
               /\ runs'[r].task = runs[r].task /\ runs'[r].prompt = runs[r].prompt
               /\ runs'[r].resume_from = runs[r].resume_from
    <3> DEFINE s == IF Live(r) THEN "lost" ELSE runs[r].status
    <3>1. RunFields \subseteq DOMAIN runs[r] /\ runs[r].status # "unused"
      BY <2>2 DEF ChainInv, RunShape
    <3>2. s \notin {"unused", "sent", "running"} BY <3>1 DEF Live
    <3>3. runs'[r] = [[runs[r] EXCEPT !.status = s] EXCEPT !.guarded = FALSE]
      BY <2>1, <2>2
    <3> HIDE DEF s
    <3> QED BY <3>1, <3>2, <3>3 DEF RunFields
  <2>3. \A r \in Runs : (runs[r] = Unused => runs'[r] = Unused)
                     /\ (runs[r] # Unused => runs'[r] # Unused)
    <3>1. \A r \in Runs : runs'[r].status # "unused" => runs'[r] # Unused
      BY DEF Unused
    <3> QED BY <2>1, <2>2, <3>1
  <2>4. \A r \in Runs : ~ Live(r)'
    <3>1. Unused.status = "unused" BY DEF Unused
    <3> QED BY <2>2, <2>3, <3>1 DEF Live
  <2>5. Kept(runs, runs') BY <2>2, <2>3 DEF Kept
  <2>6. RunShape' BY <2>1, <2>2, <2>3 DEF RunShape
  <2>7. DOMAIN writes' = {}
    <3>1. writes' = <<>> BY <1>18 DEF Restart
    <3> QED BY <3>1
  <2>8. Linked(runs', disk) BY <1>l, <2>5, LinkedKept DEF Links
  <2>9. Links' BY <2>1, <2>7, <2>8 DEF Links
  <2>10. Firing' /\ Expiring' BY <2>1 DEF Firing, Expiring, Idle
  <2>11. LiveLinks' BY <2>4 DEF LiveLinks
  <2>12. Resumes' BY <2>2, <2>3, <2>5, ResumesKept DEF ChainInv
  <2> QED BY <2>6, <2>9, <2>10, <2>11, <2>12 DEF ChainInv
<1>19. CASE Spawn \/ SpawnRefused \/ Fired
  BY <1>19, ChainSpawn, ChainRefused, ChainFired
<1>20. ASSUME NEW r \in Runs, Guard(r) \/ Coordinator(r) PROVE ChainInv'
  BY <1>20, ChainGuard, ChainCoordinator
<1> QED
  BY <1>1, <1>2, <1>3, <1>4, <1>5, <1>6, <1>7, <1>8, <1>9, <1>10, <1>11, <1>12,
     <1>13, <1>14, <1>15, <1>16, <1>17, <1>18, <1>19, <1>20 DEF Next

\* For any number of tasks, iterations and restarts: the iterations of a task
\* never overlap, though the scheduler only asks the coordinator about the last
\* one it remembers and forgets it on errors, expiries and restarts; and a
\* resumed transcript is one of the same task and the same prompt, though the
\* prompt may change under a chain (actor.rs:579-741, 920-930).
THEOREM IterationsStaySound == Spec => []IterationsSound
<1>1. ChainInv => IterationsSound
  BY DEF ChainInv, LiveLinks, Resumes, IterationsSound
<1> QED BY <1>1, ReservationInit, ReservationStep, TombstoneInit, TombstoneStep,
           ChainInit, ChainStep, PTL DEF Spec
=============================================================================
