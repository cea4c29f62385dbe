------------------------------ MODULE Scheduler ------------------------------
(***************************************************************************)
(* The scheduler of one session: the actor that owns the scheduled tasks,   *)
(* fires them as subagents, expires and deletes them                        *)
(* (scheduler/actor.rs), its version clock (scheduler/types.rs) and the     *)
(* background writer that persists the session's resources                  *)
(* (persistence.rs), across crashes and restarts of the process.            *)
(*                                                                          *)
(* The actor handles one command or one timer at a time, so the model keeps *)
(* one operation in flight, `op`, and one step per await of the code.       *)
(* Running beside it: the writer, tool calls that save the resources, the   *)
(* subagent coordinator (external) and the guard task of every fire.        *)
(*                                                                          *)
(* Time is abstracted: a task is due at any moment, and its TTL runs out at *)
(* any moment.  The order of the task list, which only decides which of two *)
(* due tasks goes first, is abstracted with it.                             *)
(***************************************************************************)
EXTENDS Integers, Sequences, FiniteSets

CONSTANTS
    Tasks,          \* task ids; every Create takes one that was never used
    Prompts,        \* what a task asks of its iterations
    MaxTasks,       \* MAX_SCHEDULED_TASKS
    FreshEvery,     \* LOOP_FRESH_CHAIN_EVERY
    MaxRevision,    \* the largest revision of a generation (u64::MAX)
    MaxRuns,        \* bound: iterations spawned
    MaxWrites,      \* bound: commands in the writer's channel, one of them kept
                    \* for a flush
    Scenarios       \* what the environment may do: the tasks it creates, which
                    \* events it brings, how many iterations, updates and ends
                    \* of the process there are

\* A tool call that saves, a Delete, a TTL that runs out, the end of the
\* notification consumer, the cancellation of the actor.
Events == {"save", "delete", "expire", "close", "cancel"}

ASSUME SchedulerAssumption ==
    /\ MaxTasks \in Nat \ {0} /\ FreshEvery \in Nat \ {0}
    /\ MaxRevision \in Nat /\ MaxTasks =< MaxRevision /\ 2 =< MaxRevision
    /\ MaxRuns \in Nat /\ MaxWrites \in Nat
    /\ \A s \in Scenarios :
         /\ DOMAIN s.shapes \subseteq Tasks
         /\ \A t \in DOMAIN s.shapes :
              s.shapes[t] \in [recurring : BOOLEAN, durable : BOOLEAN]
         /\ s.events \subseteq Events
         /\ s.runs \in 0 .. MaxRuns /\ s.updates \in Nat /\ s.crashes \in Nat

VARIABLES
    tasks,            \* SchedulerState.tasks: id -> task, in memory
    disk,             \* the tasks of the persisted resources
    writes,           \* the writer's command channel, oldest first
    parked,           \* the writer's debounced snapshot, or Nothing
    ack,              \* the answer to the flush the actor awaits
    op,               \* the operation the actor is in the middle of
    pending_removal,  \* PendingDurableRemoval, or Nothing
    blocked_expiries,
    clock,            \* SchedulerClock.version
    runs,             \* the iterations, by subagent id
    cancelled,        \* the actor's cancel token
    consumer,         \* whether an acknowledging notification target is open
    expired,          \* recurring tasks the timer found past their TTL
    created,          \* ids that were ever used
    tombstones,       \* ids whose durable tombstone was published
    updates, crashes, \* counters for the bounds
    scenario          \* the member of Scenarios this behaviour is about

vars == <<tasks, disk, writes, parked, ack, op, pending_removal,
          blocked_expiries, clock, runs, cancelled, consumer, expired, created,
          tombstones, updates, crashes, scenario>>

Nothing == [kind |-> "nothing"]
NoRun == 0
Idle == [kind |-> "idle"]

Runs == 1 .. MaxRuns
Unused == [status |-> "unused"]

\* A run the coordinator has been asked for and that has not ended.
Live(r) == runs[r].status \in {"sent", "running"}

Without(f, t) == [x \in DOMAIN f \ {t} |-> f[x]]
With(f, t, v) == [x \in DOMAIN f \union {t} |-> IF x = t THEN v ELSE f[x]]

(***************************************************************************)
(* The version clock                                                        *)
(***************************************************************************)

\* A generation that is dropped before it is committed is never the clock's,
\* so the next fresh one may reuse its number.
prepare_transition(count) ==
    IF clock.revision + count > MaxRevision
    THEN [source |-> clock, generation |-> clock.generation + 1,
          next_revision |-> 1, remaining |-> count, rollover |-> "some"]
    ELSE [source |-> clock, generation |-> clock.generation,
          next_revision |-> clock.revision + 1, remaining |-> count,
          rollover |-> "none"]

\* The version commit_next asserts the clock to have.
ExpectedSource(reservation) ==
    IF reservation.rollover = "some"
    THEN reservation.source
    ELSE [generation |-> reservation.generation,
          revision   |-> reservation.next_revision - 1]

\* The clock, and below it the reservation, after one commit_next.
Committed(reservation) ==
    [generation |-> reservation.generation,
     revision   |-> reservation.next_revision]

commit_next(reservation) ==
    [source        |-> reservation.source,
     generation    |-> reservation.generation,
     next_revision |-> IF reservation.remaining > 1
                       THEN reservation.next_revision + 1
                       ELSE reservation.next_revision,
     remaining     |-> reservation.remaining - 1,
     rollover      |-> "none"]

\* A transition of `count` versions that is prepared and committed at once.
Transition(count) ==
    LET reservation == prepare_transition(count)
    IN  clock' = [generation |-> reservation.generation,
                  revision   |-> reservation.next_revision + count - 1]

(***************************************************************************)
(* Resources persistence                                                    *)
(***************************************************************************)

\* The snapshot is taken and sent while the resources are locked.
enqueue_save_and_flush(snapshot) ==
    /\ Len(writes) < MaxWrites
    /\ writes' = Append(writes, [flush |-> TRUE, snapshot |-> snapshot,
                                 awaited |-> TRUE])
    /\ ack' = "waiting"

\* The actor gives up on its flush; the writer still performs it.
Abandon ==
    /\ writes' = [i \in DOMAIN writes |->
                    [flush |-> writes[i].flush, snapshot |-> writes[i].snapshot,
                     awaited |-> FALSE]]
    /\ ack' = "none"

\* A tool call ends and saves the resources.
save ==
    /\ "save" \in scenario.events
    /\ Len(writes) < MaxWrites - 1
    /\ writes' = Append(writes, [flush |-> FALSE, snapshot |-> tasks,
                                 awaited |-> FALSE])
    /\ UNCHANGED <<tasks, disk, parked, ack, op, pending_removal,
                   blocked_expiries, clock, runs, cancelled, consumer, expired,
                   created, tombstones, updates, crashes, scenario>>

writer_save ==
    /\ writes # <<>>
    /\ ~ Head(writes).flush
    /\ parked' = [kind |-> "snapshot", snapshot |-> Head(writes).snapshot]
    /\ writes' = Tail(writes)
    /\ UNCHANGED <<tasks, disk, ack, op, pending_removal, blocked_expiries,
                   clock, runs, cancelled, consumer, expired, created,
                   tombstones, updates, crashes, scenario>>

\* Faulty variant: the parked snapshot survives the flush.
writer_save_and_flush_KeepsParked ==
    /\ writes # <<>>
    /\ Head(writes).flush
    /\ \E landed, reported \in BOOLEAN :
         /\ reported => landed
         /\ disk' = IF landed THEN Head(writes).snapshot ELSE disk
         /\ ack' = IF ~ Head(writes).awaited THEN ack
                   ELSE IF reported THEN "ok" ELSE "err"
    /\ writes' = Tail(writes)
    /\ UNCHANGED <<tasks, parked, op, pending_removal, blocked_expiries, clock,
                   runs, cancelled, consumer, expired, created, tombstones,
                   updates, crashes, scenario>>

\* An error before the rename leaves the old file; one in the directory sync
\* after it leaves the new file.
writer_save_and_flush ==
    /\ writes # <<>>
    /\ Head(writes).flush
    /\ parked' = Nothing
    /\ \E landed, reported \in BOOLEAN :
         /\ reported => landed
         /\ disk' = IF landed THEN Head(writes).snapshot ELSE disk
         /\ ack' = IF ~ Head(writes).awaited THEN ack
                   ELSE IF reported THEN "ok" ELSE "err"
    /\ writes' = Tail(writes)
    /\ UNCHANGED <<tasks, op, pending_removal, blocked_expiries, clock, runs,
                   cancelled, consumer, expired, created, tombstones, updates,
                   crashes, scenario>>

\* The debounce tick, and the Flush command: a failed write drops the snapshot.
writer_tick ==
    /\ parked # Nothing
    /\ parked' = Nothing
    /\ disk' \in {disk, parked.snapshot}
    /\ UNCHANGED <<tasks, writes, ack, op, pending_removal, blocked_expiries,
                   clock, runs, cancelled, consumer, expired, created,
                   tombstones, updates, crashes, scenario>>

(***************************************************************************)
(* Commands                                                                 *)
(***************************************************************************)

\* The select is biased: once cancelled, the actor takes nothing else.
Ready == op = Idle /\ ~ cancelled

\* Faulty variant: commands and the timer go on while a removal is pending.
Admitted_Ungated == Ready

\* A command that changes the tasks is refused while a removal is pending.
Admitted == Ready /\ pending_removal = Nothing

Create(t, prompt) ==
    /\ Admitted
    /\ t \in DOMAIN scenario.shapes \ created
    /\ Cardinality(DOMAIN tasks) < MaxTasks
    /\ tasks' = With(tasks, t,
                     [recurring |-> scenario.shapes[t].recurring,
                      durable |-> scenario.shapes[t].durable,
                      prompt |-> prompt, last_subagent_id |-> NoRun,
                      iterations_since_fresh |-> 0,
                      chain_reset_pending |-> FALSE])
    /\ created' = created \union {t}
    /\ Transition(1)
    /\ UNCHANGED <<disk, writes, parked, ack, op, pending_removal,
                   blocked_expiries, runs, cancelled, consumer, expired,
                   tombstones, updates, crashes, scenario>>

\* A new prompt asks for a fresh chain and keeps the anchor; a new interval only
\* moves the abstracted cadence.
Update(t, prompt) ==
    /\ Admitted
    /\ updates < scenario.updates
    /\ t \in DOMAIN tasks
    /\ tasks' = IF prompt = tasks[t].prompt THEN tasks
                ELSE [tasks EXCEPT ![t].prompt = prompt,
                                   ![t].chain_reset_pending = TRUE,
                                   ![t].iterations_since_fresh = 0]
    /\ updates' = updates + 1
    /\ Transition(1)
    /\ UNCHANGED <<disk, writes, parked, ack, op, pending_removal,
                   blocked_expiries, runs, cancelled, consumer, expired,
                   created, tombstones, crashes, scenario>>

\* complete_pending_removal runs to its first await.
Removing(t, snapshot) ==
    /\ op' = [kind |-> "delete", stage |-> "persist", task |-> t]
    /\ enqueue_save_and_flush(snapshot)

Delete(t) ==
    /\ "delete" \in scenario.events
    /\ Admitted
    /\ t \in DOMAIN tasks
    /\ consumer
    /\ tasks' = Without(tasks, t)
    /\ pending_removal' = [kind |-> "removal", task |-> t,
                           reservation |-> prepare_transition(1)]
    /\ Removing(t, tasks')
    /\ UNCHANGED <<disk, parked, blocked_expiries, clock, runs, cancelled,
                   consumer, expired, created, tombstones, updates, crashes, scenario>>

\* The same Delete again: the removal goes on from its persistence, or, with no
\* consumer left to acknowledge it, is given up.
DeleteAgain(t) ==
    /\ Ready
    /\ pending_removal # Nothing
    /\ pending_removal.task = t
    /\ \/ /\ consumer
          /\ Removing(t, tasks)
          /\ UNCHANGED pending_removal
       \/ /\ ~ consumer
          /\ pending_removal' = Nothing
          /\ UNCHANGED <<op, writes, ack>>
    /\ UNCHANGED <<tasks, disk, parked, blocked_expiries, clock, runs,
                   cancelled, consumer, expired, created, tombstones, updates,
                   crashes, scenario>>

(***************************************************************************)
(* Expiry: the timer finds a recurring task past its TTL                    *)
(***************************************************************************)

\* What fire_next_task may select; the timer is off while a removal is pending.
Selectable(t) == Admitted /\ t \in DOMAIN tasks /\ t \notin blocked_expiries

\* With no consumer to acknowledge the tombstone a durable task stays, blocked.
BlockExpiry(t) ==
    /\ "expire" \in scenario.events
    /\ Selectable(t)
    /\ tasks[t].recurring /\ tasks[t].durable /\ ~ consumer
    /\ expired' = expired \union {t}
    /\ blocked_expiries' = blocked_expiries \union {t}
    /\ UNCHANGED <<tasks, disk, writes, parked, ack, op, pending_removal, clock,
                   runs, cancelled, consumer, created, tombstones, updates,
                   crashes, scenario>>

Expire(t) ==
    /\ "expire" \in scenario.events
    /\ Selectable(t)
    /\ tasks[t].recurring
    /\ tasks[t].durable => consumer
    /\ expired' = expired \union {t}
    /\ tasks' = Without(tasks, t)
    /\ op' = [kind |-> IF tasks[t].durable THEN "expiry" ELSE "absence",
              stage |-> "persist", task |-> t, removed |-> tasks[t],
              reservation |-> prepare_transition(1)]
    /\ enqueue_save_and_flush(tasks')
    /\ UNCHANGED <<disk, parked, pending_removal, blocked_expiries, clock, runs,
                   cancelled, consumer, created, tombstones, updates, crashes,
                   scenario>>

(***************************************************************************)
(* The awaits of a removal                                                  *)
(***************************************************************************)

Persisting == op.kind \in {"delete", "expiry", "absence"} /\ op.stage = "persist"

\* The flush was acknowledged, and the durable tombstone goes out; with the
\* consumer's channel closed the wait for its acknowledgement fails at once.
PublishRemoval ==
    /\ Persisting /\ op.kind # "absence" /\ ack = "ok"
    /\ op' = IF consumer THEN [op EXCEPT !.stage = "publish"] ELSE Idle
    /\ ack' = "none"
    /\ tombstones' = tombstones \union {op.task}
    /\ UNCHANGED <<tasks, disk, writes, parked, pending_removal,
                   blocked_expiries, clock, runs, cancelled, consumer, expired,
                   created, updates, crashes, scenario>>

\* A flush that failed: a Delete stays pending, a durable expiry puts the task
\* back and blocks it.
PersistFailed ==
    /\ Persisting /\ op.kind # "absence" /\ ack = "err"
    /\ IF op.kind = "expiry"
       THEN /\ tasks' = With(tasks, op.task, op.removed)
            /\ blocked_expiries' = blocked_expiries \union {op.task}
       ELSE UNCHANGED <<tasks, blocked_expiries>>
    /\ op' = Idle
    /\ ack' = "none"
    /\ UNCHANGED <<disk, writes, parked, pending_removal, clock, runs,
                   cancelled, consumer, expired, created, tombstones, updates,
                   crashes, scenario>>

\* Timeout or cancellation, which may win over an answer: whether the write
\* lands is not known.
PersistUnknown ==
    /\ Persisting /\ op.kind # "absence"
    /\ ack = "waiting" \/ cancelled
    /\ Abandon
    /\ op' = Idle
    /\ UNCHANGED <<tasks, disk, parked, pending_removal, blocked_expiries,
                   clock, runs, cancelled, consumer, expired, created,
                   tombstones, updates, crashes, scenario>>

\* A best-effort absence is announced however its flush went.
AnnounceAbsence ==
    /\ Persisting /\ op.kind = "absence"
    /\ Abandon
    /\ op' = Idle
    /\ clock' = Committed(op.reservation)
    /\ UNCHANGED <<tasks, disk, parked, pending_removal, blocked_expiries,
                   runs, cancelled, consumer, expired, created, tombstones,
                   updates, crashes, scenario>>

\* The consumer acknowledged the tombstone: the version is committed.
RemovalAcknowledged ==
    /\ op.kind \in {"delete", "expiry"} /\ op.stage = "publish"
    /\ IF op.kind = "delete"
       THEN /\ clock' = Committed(pending_removal.reservation)
            /\ pending_removal' = Nothing
       ELSE /\ clock' = Committed(op.reservation)
            /\ UNCHANGED pending_removal
    /\ op' = Idle
    /\ UNCHANGED <<tasks, disk, writes, parked, ack, blocked_expiries, runs,
                   cancelled, consumer, expired, created, tombstones, updates,
                   crashes, scenario>>

\* The acknowledgement was refused, lost or late: the version stays unused.
RemovalUnacknowledged ==
    /\ op.kind \in {"delete", "expiry"} /\ op.stage = "publish"
    /\ op' = Idle
    /\ UNCHANGED <<tasks, disk, writes, parked, ack, pending_removal,
                   blocked_expiries, clock, runs, cancelled, consumer, expired,
                   created, tombstones, updates, crashes, scenario>>

(***************************************************************************)
(* Fire: the timer finds a due task                                         *)
(***************************************************************************)

\* The chain fields are read here and used after the awaits on the coordinator.
Fire(t) ==
    /\ Selectable(t)
    /\ t \notin expired
    /\ op' = [kind |-> "fire", stage |-> "query", task |-> t,
              should_remove |-> ~ tasks[t].recurring,
              prompt |-> tasks[t].prompt,
              last_subagent_id |-> tasks[t].last_subagent_id,
              iterations_since_fresh |-> tasks[t].iterations_since_fresh,
              chain_reset_pending |-> tasks[t].chain_reset_pending,
              subagent_id |-> NoRun,
              reservation |-> prepare_transition(IF tasks[t].recurring THEN 1
                                                                       ELSE 2)]
    /\ UNCHANGED <<tasks, disk, writes, parked, ack, pending_removal,
                   blocked_expiries, clock, runs, cancelled, consumer, expired,
                   created, tombstones, updates, crashes, scenario>>

\* No coordinator, a previous iteration or a descendant of it still running, a
\* query that fails or times out, a cancellation.
SkipFire ==
    /\ op.kind = "fire" /\ op.stage = "query"
    /\ op' = Idle
    /\ UNCHANGED <<tasks, disk, writes, parked, ack, pending_removal,
                   blocked_expiries, clock, runs, cancelled, consumer, expired,
                   created, tombstones, updates, crashes, scenario>>

\* The coordinator answers in the order it was asked: it knows every spawn that
\* was sent before the two queries.  Without an anchor neither is asked, and
\* a cancellation is not noticed.
NothingInFlight ==
    op.last_subagent_id # NoRun =>
        /\ ~ cancelled
        /\ \A r \in Runs : Live(r) => runs[r].task # op.task

\* The iteration to resume: `found` is whether the coordinator still had the
\* record of a completed one.
resume_from(found) ==
    IF op.chain_reset_pending \/ op.iterations_since_fresh >= FreshEvery \/ ~ found
    THEN NoRun ELSE op.last_subagent_id

Spawn ==
    /\ op.kind = "fire" /\ op.stage = "query"
    /\ NothingInFlight
    /\ op.task \in DOMAIN tasks
    /\ \E r \in Runs, found \in BOOLEAN :
         /\ r =< scenario.runs
         /\ runs[r] = Unused /\ \A q \in 1 .. r - 1 : runs[q] # Unused
         /\ found => /\ op.last_subagent_id # NoRun
                     /\ runs[op.last_subagent_id].status = "completed"
         /\ runs' = [runs EXCEPT ![r] =
                [status |-> "sent", task |-> op.task, prompt |-> op.prompt,
                 resume_from |-> resume_from(found), guarded |-> FALSE]]
         /\ tasks' = [tasks EXCEPT
                ![op.task].last_subagent_id = r,
                ![op.task].iterations_since_fresh =
                    IF resume_from(found) = NoRun THEN 1
                    ELSE op.iterations_since_fresh + 1,
                ![op.task].chain_reset_pending = FALSE]
         /\ op' = [op EXCEPT !.stage = "register", !.subagent_id = r]
    /\ UNCHANGED <<disk, writes, parked, ack, pending_removal,
                   blocked_expiries, clock, cancelled, consumer, expired,
                   created, tombstones, updates, crashes, scenario>>

\* Faulty variant: the pending chain reset is lost.
restore_fire_anchor_DropsReset ==
    IF op.task \in DOMAIN tasks
    THEN [tasks EXCEPT
            ![op.task].last_subagent_id = op.last_subagent_id,
            ![op.task].iterations_since_fresh = op.iterations_since_fresh]
    ELSE tasks

\* The chain as it was before the fire, a pending reset included.
restore_fire_anchor ==
    IF op.task \in DOMAIN tasks
    THEN [tasks EXCEPT
            ![op.task].last_subagent_id = op.last_subagent_id,
            ![op.task].iterations_since_fresh = op.iterations_since_fresh,
            ![op.task].chain_reset_pending = op.chain_reset_pending]
    ELSE tasks

\* The coordinator refused the spawn (or its channel was closed).
SpawnRefused ==
    /\ op.kind = "fire" /\ op.stage = "register"
    /\ ~ cancelled /\ runs[op.subagent_id].status = "refused"
    /\ tasks' = restore_fire_anchor
    /\ op' = Idle
    /\ UNCHANGED <<disk, writes, parked, ack, pending_removal,
                   blocked_expiries, clock, runs, cancelled, consumer, expired,
                   created, tombstones, updates, crashes, scenario>>

\* A cancellation skips the fire and leaves the new anchor.
SpawnCancelled ==
    /\ op.kind = "fire" /\ op.stage = "register"
    /\ cancelled
    /\ op' = Idle
    /\ UNCHANGED <<tasks, disk, writes, parked, ack, pending_removal,
                   blocked_expiries, clock, runs, cancelled, consumer, expired,
                   created, tombstones, updates, crashes, scenario>>

\* The child registered, or the wait for it timed out, which counts as a fire.
\* A one-shot is removed, and its absence flushed, before it is announced.
Fired ==
    /\ op.kind = "fire" /\ op.stage = "register"
    /\ ~ cancelled /\ runs[op.subagent_id].status # "refused"
    /\ runs' = [runs EXCEPT ![op.subagent_id].guarded = TRUE]
    /\ clock' = Committed(op.reservation)
    /\ IF op.should_remove
       THEN /\ tasks' = Without(tasks, op.task)
            /\ op' = [kind |-> "absence", stage |-> "persist", task |-> op.task,
                      reservation |-> commit_next(op.reservation)]
            /\ enqueue_save_and_flush(tasks')
       ELSE /\ op' = Idle
            /\ UNCHANGED <<tasks, writes, ack>>
    /\ UNCHANGED <<disk, parked, pending_removal, blocked_expiries, cancelled,
                   consumer, expired, created, tombstones, updates, crashes, scenario>>

\* The guard task of a fire: a run that ended in an error stops being the anchor.
Guard(r) ==
    /\ runs[r].status \in {"failed", "refused"} /\ runs[r].guarded
    /\ runs' = [runs EXCEPT ![r].guarded = FALSE]
    /\ tasks' = [t \in DOMAIN tasks |->
                    IF tasks[t].last_subagent_id # r THEN tasks[t]
                    ELSE [tasks[t] EXCEPT !.last_subagent_id = NoRun,
                                          !.iterations_since_fresh = 0]]
    /\ UNCHANGED <<disk, writes, parked, ack, op, pending_removal,
                   blocked_expiries, clock, cancelled, consumer, expired,
                   created, tombstones, updates, crashes, scenario>>

(***************************************************************************)
(* The surroundings: coordinator, consumer, time, process                   *)
(***************************************************************************)

\* The coordinator takes, refuses, completes or fails a run.
Coordinator(r) ==
    /\ \/ runs[r].status = "sent"
          /\ \E s \in {"running", "refused"} :
               runs' = [runs EXCEPT ![r].status = s]
       \/ runs[r].status = "running"
          /\ \E s \in {"completed", "failed"} :
               runs' = [runs EXCEPT ![r].status = s]
    /\ UNCHANGED <<tasks, disk, writes, parked, ack, op, pending_removal,
                   blocked_expiries, clock, cancelled, consumer, expired,
                   created, tombstones, updates, crashes, scenario>>

\* The notification bridge goes away.
CloseConsumer ==
    /\ "close" \in scenario.events
    /\ consumer
    /\ consumer' = FALSE
    /\ UNCHANGED <<tasks, disk, writes, parked, ack, op, pending_removal,
                   blocked_expiries, clock, runs, cancelled, expired, created,
                   tombstones, updates, crashes, scenario>>

Cancel ==
    /\ "cancel" \in scenario.events
    /\ ~ cancelled
    /\ cancelled' = TRUE
    /\ UNCHANGED <<tasks, disk, writes, parked, ack, op, pending_removal,
                   blocked_expiries, clock, runs, consumer, expired, created,
                   tombstones, updates, crashes, scenario>>

\* The actor leaves its loop: one Removed(Shutdown) version per task, none of
\* them taken out of the state.  A pending removal goes with the actor.
Shutdown ==
    /\ op = Idle /\ cancelled
    /\ IF DOMAIN tasks = {} THEN UNCHANGED clock
                            ELSE Transition(Cardinality(DOMAIN tasks))
    /\ op' = [kind |-> "stopped"]
    /\ pending_removal' = Nothing
    /\ UNCHANGED <<tasks, disk, writes, parked, ack, blocked_expiries, runs,
                   cancelled, consumer, expired, created, tombstones, updates,
                   crashes, scenario>>

\* The process ends, by a crash at any step or after a shutdown, and the session
\* is loaded again: the tasks come from the disk, everything else is new.
Restart ==
    /\ crashes < scenario.crashes
    /\ crashes' = crashes + 1
    /\ tasks' = disk
    /\ writes' = <<>> /\ parked' = Nothing /\ ack' = "none"
    /\ op' = Idle /\ pending_removal' = Nothing /\ blocked_expiries' = {}
    /\ clock' = [generation |-> clock.generation + 1, revision |-> 0]
    /\ runs' = [r \in Runs |->
                   IF runs[r] = Unused THEN Unused
                   ELSE [runs[r] EXCEPT !.status = IF Live(r) THEN "lost" ELSE @,
                                        !.guarded = FALSE]]
    /\ cancelled' = FALSE /\ consumer' = TRUE
    /\ UNCHANGED <<disk, expired, created, tombstones, updates, scenario>>

Init ==
    /\ tasks = <<>> /\ disk = <<>>
    /\ writes = <<>> /\ parked = Nothing /\ ack = "none"
    /\ op = Idle /\ pending_removal = Nothing /\ blocked_expiries = {}
    /\ clock = [generation |-> 0, revision |-> 0]
    /\ runs = [r \in Runs |-> Unused]
    /\ cancelled = FALSE /\ consumer = TRUE
    /\ expired = {} /\ created = {} /\ tombstones = {}
    /\ updates = 0 /\ crashes = 0
    /\ scenario \in Scenarios

Next ==
    \/ save \/ writer_save \/ writer_save_and_flush \/ writer_tick
    \/ \E t \in Tasks :
         \/ \E p \in Prompts : Create(t, p) \/ Update(t, p)
         \/ Delete(t) \/ DeleteAgain(t)
         \/ BlockExpiry(t) \/ Expire(t) \/ Fire(t)
    \/ PublishRemoval \/ PersistFailed \/ PersistUnknown \/ AnnounceAbsence
    \/ RemovalAcknowledged \/ RemovalUnacknowledged
    \/ SkipFire \/ Spawn \/ SpawnRefused \/ SpawnCancelled \/ Fired
    \/ \E r \in Runs : Guard(r) \/ Coordinator(r)
    \/ CloseConsumer \/ Cancel \/ Shutdown \/ Restart

Spec == Init /\ [][Next]_vars

(***************************************************************************)
(* Properties                                                               *)
(***************************************************************************)

\* The reservation the actor holds, if any, is still the one its commit_next
\* asserts: nothing moved the clock between a Delete and its retry, or during a
\* fire or an expiry ("stale scheduler reservation", types.rs:71-84).  A stale
\* one panics the actor and with it every scheduled task of the session.
ReservationFresh ==
    /\ pending_removal # Nothing =>
           ExpectedSource(pending_removal.reservation) = clock
    /\ op.kind \in {"expiry", "absence", "fire"} =>
           /\ op.reservation.remaining > 0
           /\ ExpectedSource(op.reservation) = clock

\* A task whose durable tombstone was published (actor.rs:150-195, 395-412) is
\* gone for good: neither a snapshot the writer still holds nor a crash and a
\* restart brings it back.
TombstonedStaysGone ==
    \A t \in tombstones :
        /\ t \notin DOMAIN tasks
        /\ t \notin DOMAIN disk

\* The iterations of a task run one at a time, and one that resumes another's
\* transcript runs the same prompt of the same task (actor.rs:579-741, 920-930).
IterationsSound ==
    \A r \in Runs : runs[r] # Unused =>
        /\ \A q \in Runs \ {r} : Live(r) /\ Live(q) => runs[q].task # runs[r].task
        /\ runs[r].resume_from # NoRun =>
               /\ runs[runs[r].resume_from].prompt = runs[r].prompt
               /\ runs[runs[r].resume_from].task = runs[r].task
=============================================================================
