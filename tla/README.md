# Verification of Astra's sessions, subagents and scheduler

Astra is a terminal coding agent written in Rust. One process runs many agent
sessions; a session may start *child* agents (subagents), message them while
they run, wait for them, stop them, and wake finished ones. A session queues the
prompts and messages it gets, runs one turn at a time, and may schedule tasks that
fire as subagents later. This directory holds TLA+ models of the code that decides
all this, the TLC runs that check them on
small instances, and TLAPS proofs that hold for every size.

Paths below are relative to `src/crates/codegen/` unless they start with `common/`
(`src/crates/common/`); `task/` stands for
`xai-grok-tools/src/implementations/grok_build/task/`.

## 1. The system and its parts

| Part | State it keeps | Operations | What is hard about it |
|---|---|---|---|
| **Subagent coordinator**, `task/coordinator.rs`, `coordinator_state.rs`, `admission.rs`, `coordinator/*.rs` | maps of queued, pending, active and completed children, spawn graph, parked messages, waiters, drains, buffered completions, sets of futures | spawn, query, cancel (child, prompt, session, workflow), close, delete, open admission, wait for drain, read completions, send message; reports of the host; deadlines | one actor, but every command crosses child runs, publications and admissions that other threads finish at any time; many early returns that must each answer someone |
| **Admission lease**, `task/active_message.rs`, `coordinator/active_message.rs` | one atomic byte per message | claim, commit, settle, revoke, drop | two threads race on the byte; deadlines; a panic between claim and commit |
| **Session turns**, `xai-grok-shell/src/session/acp_session_impl/{run_loop,turn_task,cancel,interjection,notification_drain}.rs` | the running turn task, finalization gate, interjection buffer | start, complete, cancel (soft, stop, teardown, rewind), send-now, shutdown | one thread, but every handler awaits several times while the turn task and two background tasks run |
| **Prompt queue**, `.../prompt_queue.rs`, `queue_mutation.rs`, `xai-prompt-queue/src/combine.rs` | queued rows, of which the front is the running turn's, edit holds | enqueue, combine, edit, remove, hold, promote | edits and inserts that race a turn's start; kicks that get lost |
| **Parent-message delivery**, `.../parent_message.rs`, `session/message_delivery.rs`, `common/xai-message-delivery-core/src/lifecycle.rs` | delivery slots of the running turn, rows of the queue | admit, begin/finish delivery at a safe point, settle at turn end or teardown | state read before an await and used after it; a barrier that may fail |
| **Scheduler**, `.../grok_build/scheduler/{actor,types}.rs` | scheduled tasks, version clock, pending removal, blocked expiries | create, update, delete and its retry, fire, expire, shut down | versions reserved before awaits and committed after; removals that must survive a crash; chains of iterations |
| **Resources persistence**, `xai-grok-tools/src/persistence.rs` | command channel, parked snapshot, file | save (debounced), flush with answer, load | failed or unacknowledged writes, crashes |
| **Leader lock**, `xai-grok-shell/src/leader/lock.rs` | lock file, socket | acquire, release, take over | several processes, stale files |
| **Token refresh lock**, `xai-grok-login/src/manager/{lock,refresh_chain}.rs` | lock file, cached token | refresh once per machine | cross-process races, stale token |
| **Upload queue**, `xai-file-utils/src/queue.rs` | entries on disk, retry times | enqueue, upload, retry, drop | crash and retry, limits |
| **Circuit breaker**, `common/xai-circuit-breaker/src/` | window of results, state | record, allow, probe | half-open probes, window edges |
| Occurrence journal, sampler retries, hunk tracker, task tool front-end, hooks, MCP, memory, TUI | | | sequential, I/O or rendering: not modelled, reasons in `PROJECT.json` |

How they interact: the task tool of a session sends commands to the coordinator
over a channel; the coordinator starts a child through the host and polls its
run future; the host reports `Started`, `SettleDeferredStart` and
finalization back over an internal channel, and after it has shown a completion
stores a flag and reports `terminal_published`. A message to a child is first
resolved by the coordinator (active, starting, completed), then admitted: the
coordinator makes a lease and polls a future while the child's session, on its
own thread, inserts the message's row under the same lease. From there the message
is the session's: a row of its own, or a slot of the running turn that the turn
drains at a safe point. The scheduler spawns iterations through the same
coordinator, asks it whether an earlier one still runs, and shares the session's
persisted resources with the tools.

`PROJECT.json` lists every component, and under `hazards` what is hard to test in
this code, at the line where it bites, with the properties that watch it.

## 2. Modules

| Module | What it is |
|---|---|
| `SubagentCoordinator` | the coordinator actor |
| `MCSubagentCoordinator` | its instances for TLC: spawn offers and events of each run |
| `SubagentCoordinatorProofs` | theorems about where its children are |
| `SubagentLimitProofs` | theorems about its limit and its queue |
| `SubagentMessageProofs` | theorems about its messages and their counts |
| `SubagentRegistryProofs` | theorems about its records, callers and drains |
| `SessionTurns` | run loop, turn task, prompt queue, interjections and delivery slots of one session |
| `MCSessionTurns` | its scenarios for TLC |
| `SessionSequenceProofs` | lemmas about the operators on its sequences: dropping, inserting, reordering, promoting and merging rows |
| `SessionTurnsProofs` | theorems about it |
| `Scheduler` | the scheduler actor, its clock and the resources writer, with crashes |
| `MCScheduler` | its scenarios for TLC |
| `SchedulerProofs` | theorems about it |
| `AdmissionContract` | what the sender of a message is promised (abstract) |
| `ActiveMessageAdmission` | the lease protocol that keeps the promise |
| `ActiveMessageAdmissionProofs` | theorems about it, with the refinement |

### SubagentCoordinator

The actor's struct is one record `co`. A `&mut self` method of the source is an
operator from a record to the next record under the method's name
(`finish_child`, `start_queued_within_capacity`, `wake_completed_child`, ...);
an arm of the `select!` loop is an action that applies them. `AfterArm`, the end
of a loop iteration (prompt drains, eviction), is part of every such action;
`Commanded`, what the command arm does before dispatch, is part of every command.
`Environment` holds what other threads do to state the actor reads: callers that
drop their receivers, tokens cancelled from outside, and the host's two steps of a
publication (flag, then report), which are separate because the actor can run
between them.

What is abstracted: time (an armed deadline may elapse at any moment), ids
(symmetric values; messages are numbered in sending order), the text of requests
and results, and everything that only shapes a reply. A loop over children whose
order the code leaves to a hash map, and whose iterations do not interfere, is one
set operation.

Left out: replies that only read (list, inspect, validate, describe), flags that
only decide how a completion is shown (`explicitly_killed` and the human refusal
that reads it, `disposition`, usage flags), advertised spawner claims, the ingress
semaphore, the actor's `Drop`, and Stop or teardown addressed to a child's own
session.

### ActiveMessageAdmission and AdmissionContract

For each message: the lease (`Open`, `Claimed`, `Committed`, `Revoked`), the
place of the session's thread, its reply, the row, and the place of the
coordinator's poll. Every load, store and compare-exchange is a step. The poll that
finds no reply and an elapsed deadline, and the revocation that follows, are two
steps: the reply may arrive in between. The drop of a finished future, which
revokes once more, is a step too. Which check makes the session refuse is left
open; a panic of the insertion closes the reply channel with the lease claimed.

`AdmissionContract` has a verdict per message (undecided, delivered, void) and an
answer; an acceptance needs the row, a refusal needs a void verdict, an uncertain
answer is never given for a void one. Verdicts are final, which is what makes a
refusal safe to retry. The refinement reads the verdict off the row and the lease.

### SessionTurns

All of a session runs on one thread, so a section of code under the state lock is one
step and interleaving happens only at awaits. `loop.at` is the await at which the
run loop's current handler is, `task.phase` the one of the turn task; a resumed plan
approval and the kick after the start of the MCP servers run beside them. `queue` is
`pending_inputs`, whose front row belongs to the running turn; `gate` is the
finalization gate, and a handler's `loop.bound` the binding of its lease. A message
is a row or, with room, a slot (`slots`, `slot`) bound to the epoch of the turn.
`answer` and `content` record what each sender was told and what became of each text;
they are observations, no guard reads them.

What the turn does (sampling, tools, compaction) is one phase; a text is its id; the
goal loop, slash commands, broadcasts to clients and the telemetry are left out. What
the clients may do in a behaviour is fixed by its `scenario`, so that one run covers
several small worlds.

### Scheduler

The actor handles one command or timer at a time: `op` is the operation in flight,
with what it read before its awaits. Three things change state under it: the writer
(`writes`, `parked`, `disk`), tools that save the resources, and the guard task of
each fire, which clears an anchor when the iteration failed. A write may land without
being reported (an error of the directory sync after the rename), and a wait may be
given up while the writer still performs the write. `Restart` is the end of the
process at any step followed by a load of the session: memory, channel and parked
snapshot are gone, the file stays. It is the death of the process, not of the
machine: a debounced write that was renamed is taken to be on disk.

Abstracted: time (a task is due, and a TTL runs out, at any moment; the minimum TTL
and the cadence only decide when), the order of the task list, and notifications
other than durable tombstones. A new generation of the clock is the next number, a
UUID in the code. A run counts as running from its admission by the coordinator,
queued or not; descendants of an iteration and wakes of a finished one are left out.
The occurrence journal stays empty at this commit and is not modelled.

## 3. Runs

| Run | Instance | Shows |
|---|---|---|
| `queue` | 3 children, 2 sessions, limit 1, queueing | the limit holds; nothing is queued while there is room; arrival order per session; Stop holds |
| `wake` | 2 children, 2 messages, limit 1 | run futures, admissions, parked sends and parked wakes are all accounted for; Stop holds against wakes |
| `retention` | 3 children that may be nested in one another, `Fail` limit 1, 2 completed records kept, 1 message of the parent or the user | graph, records and retention order agree; a failed wake never loses a record; a child that ends leaves no completion buffered for its session, but for a wake that never started |
| `turn` | 2 children, foreground, workflow or nested, `Fail` limit 2, 1 query, prompt drain, every way of cancelling (spawn callers that leave are in `queue`, and in the theorem on `CallersAccounted`) | one home per child; every caller and query is answered or parked on a live child; drains are justified; a delete keeps admission closed |
| `liveness` | as `wake` with 1 message | queued spawns and waiting senders do not wait for ever |
| `admission` | 2 messages | the lease keeps the contract; the session's word settles; every sender is answered |
| `session` | four scenarios of up to 2 prompts, 2 messages, a wake, an interjection, a resumed approval | the running row stays in front; the gate has an owner; slots die with their turn; no text is lost, doubled or run after it was shown; no sender is forgotten; the queue is always kicked; send-now spares an unrecorded prompt |
| `session_live` | two scenarios | every prompt and message is answered in the end |
| `scheduler` | four scenarios of up to 2 tasks, 2 prompts, 3 iterations, 1 crash | reservations are never stale; tombstoned tasks stay gone; iterations run one at a time and resume only their own prompt |
| `late_spawn`, `stale_buffer`, `gate_leak` | 2 children; 2 children and a message; a resumed approval and a cancel | three statements of the source that the code does not keep (section 5) |

Bounds. Two children are the least with which one can hold the slot another waits
for; three are needed for a queue with order, for a chain of nesting, and for a
restored record that meets two newer ones. A limit of one makes every second
spawn contend. Two messages are the least for two sends parked for one start, or for
one that finds the cap reached by another. An admission never outlives its child's
place in `active` (the last one to end is what lets the child go), so the check of the
generation in `finish_active_message` is a defence that no behaviour of the model needs.
`MaxCompleted`, `MaxBuffered` and `MaxPerChild` are one or two instead of the code's
hundreds so that eviction and saturation happen. Generations and ages grow only with
starts and completions, which messages and spawns bound: a spawn's id is fresh (a UUID)
or a duplicate of a known one, and each message is sent once, so every instance is
finite with no state constraint. The children are symmetric; liveness runs use no symmetry. Two
leases share nothing, so two messages are enough for the lease. Deadlock
checking is off: a session whose children have all ended is idle, not stuck; what
must not get stuck is said by the accounting and the liveness properties.

The scenarios of `SessionTurns` and `Scheduler` combine what can interfere: a second
prompt is needed for combination and for an insert before or behind another; two
messages with one slot reach the steer limit; one wake, interjection or approval each
is enough, as a second one meets the same code. A resumed approval and a cancel meet
only in `gate_leak`, which shows that they may break the gate; `GateOwned` and
`QueueKicked` hold without that combination. The scheduler's `MaxRevision` of 2
instead of 2^64 - 1 makes generations roll over inside a two-version reservation;
three iterations are the least for a chain that is restarted (`FreshEvery` 2); a
channel of two writes holds a save with the flush behind it (a save behind a flush that
is not written yet is left to the theorems); one crash is enough because `Restart`
forgets all but the file. The theorems have no such bounds.

Fairness. In `liveness`: a child's run ends some time, an admission in flight ends
(it has a deadline), a publication that began is reported. Each is stated as
"infinitely often not in the set", the weak fairness of the action that removes the
item. Callers, commands and optional deadlines are not fair. In `admission`: the
coordinator keeps polling ready futures, and the deadline makes every future ready;
nothing is assumed of the child's session. In `session_live`: every handler of the run
loop goes on (its awaits end), the turn task ends some time, and the background tasks
are scheduled; taking a completion from its channel and sending one are strongly fair,
because the select prefers commands, of which there are finitely many. Nothing that
clients do is fair.

Each property has a mutant in `PROJECT.json`: a plausible bug in the mapped code
(the operators commented "Faulty variant", or named after the operator they
replace with a suffix, as `Admitted_Ungated`) under which TLC finds it violated.

## 4. Proofs

Proved by TLAPS, for any finite set of children, any sessions, messages and limits:

* `OneHomeAlways` (`SubagentCoordinatorProofs`): a child is in at most one of
  queue, pending, active and completed. `OneHome` alone is not inductive over the
  methods: a method takes a record out of one map and a later call puts it into
  another, and eviction, wakes and restored records nest such calls. The invariant
  of the methods is `Apart(s, X)`: the four maps are disjoint from each other and
  from the set `X` of children in transit. One lemma per method says what it does
  to `X`; the actions start and end with `X = {}`.
* `DrainHoldsAdmissionAlways`: while a delete drains, the session's admission stays
  blocked; the same induction carries it.
* `ConcurrencyLimitedAlways`, `QueuedMeansFullAlways`, `StartsInArrivalOrderAlways`,
  `StopHoldsAlways` (`SubagentLimitProofs`): the limit, the queue and Stop. They need one
  another: `start_queued_within_capacity` keeps the limit only if the entries have distinct
  arrival times (`Distinct`), it fills a session only if the limit held before (`Limited`),
  and nothing may cancel a queued wake (`Entry`), or the sweep before a command could
  forget a child that the command names. The invariant `LimitInv` states these with `Full`
  (every entry waits for a full session), `Closed` (none for a stopped one) and `Polled`
  (the run futures are those of the children whose output is not held back, which makes
  the end of a full session's child reach the queue). Inside a step `Full` may fail for a
  while, so each method has a lemma about what it does to two states: `Carries` and `Goes`
  for one that brings nothing in, `Joins` for one that spawns or wakes the children of a
  set `N`. Both contain `Moves`: every entry that is still queued is as it was, what runs
  ran or was queued, and no start overtook an entry that stays. `Moves` composes
  (`MovesTrans`), so a step's lemma `Kept` follows from those of its methods, and the two
  action properties from `Kept`. That the entries which start fill their session's room
  and no more is counted in `FittingLimited` and `FittingFull`.
* `SendersAccountedAlways`, `AdmissionsCountedAlways`, `RunsAccountedAlways`,
  `ParkedSendHasStartAlways`, `ParkedWakeHasPublicationAlways` (`SubagentMessageProofs`):
  the messages to children. The invariant `MessageInv` is `LimitInv` with
  `Mail(co, {}, {})`. Inside a step a method takes messages off one list before it answers
  them or puts them on another, and it moves a child while sends are still parked for it,
  so `Mail(s, X, Y)` says what holds with the messages `X` and the children `Y` in
  transit: `Post` (the senders that wait are those of `X` and of the three places, and no
  message is in two), `Flight` (each count is right, generations are below the next one,
  a held-back output belongs to a finalizing child with admissions in flight), `Parked`
  (a parked send has a start to come, or its child is in `Y`) and `Promised` (a parked
  wake has a publication). The last is not inductive alone: that a child's completion is
  not published yet has to mean that it is being presented, and that a record which a
  wake displaced was published, or restoring it would lose that. They need
  `LimitInv`: a run that ends must find no output of its child held back already
  (`Polled`), and a wake is never cancelled in the queue (`Sound`). One lemma per
  method gives its effect on `X` and `Y`, as `AdmitMail` for the batch that takes the
  messages of a child in until the cap and refuses the rest, and one per group of actions
  brings both back to `{}`.
* `TypeCorrect`, `GraphMatchesAlways`, `RetentionOrderedAlways`, `CallersAccountedAlways`,
  `DrainsJustifiedAlways` (`SubagentRegistryProofs`): the types, the spawn graph, the
  retained records, the callers and the drains. The invariant `RegistryInv` is
  `MessageInv` with `Kempt(co)`. Between two iterations no child is in transit, but inside
  one a method holds the record it took out of a map in a local variable, and what the
  record still owes (its reply channel, a displaced record, its workflow run) must not be
  lost on the way. `Registry(s, T)` therefore speaks of a state `s` and of the records in
  transit, a map `T` from children to what they owe: a graph node for every child with a
  home or in `T` (`Nodes`); a holder for every reply channel, and a live child for every
  waiter (`Attended`); an outstanding child for every workflow cancel (`Awaited`); ages
  that are all different and below the next one, those of displaced records included
  (`Dated`); `completed_order` sorted by them (`Ordered`). None of the five properties is
  inductive alone: the order of `completed_order` after a failed wake depends on the age
  that the wake's displaced record kept, and on no later record having it. `Kempt` adds
  what the end of the iteration restores: the cap on the records, which `AfterArm`
  evicts down to, and a blocking child for every prompt drain (`Drains`), which is false
  between a child's end and the drain's resolution. One lemma per method says what it
  does to `T`.
* `RecordsKeptAlways`: no completed record is lost to a wake. It is about the two ends of
  an iteration, so the same lemmas also relate the states before and after a method.
  `Lasts(s, T, t, U)`: no completed record leaves the map, and a record that was
  completed, displaced or in transit in `s` is found again in `t`, there or under a later
  completion of the child, or its age is outside the window of the newest
  `MAX_COMPLETED_ENTRIES` (`Outdated`). It composes (`LastsTrans`), so every method but
  the wake upholds it (`Upholds`). A wake takes a completed record out and may fail at
  once; a committed start drops the record it displaced on purpose. For these `Spares`
  says what is left: a completed record stays or is in its own wake. At the end of the
  iteration the eviction removes the oldest records only (`Evicts`), and since ages are
  never shared, a record that `MAX_COMPLETED_ENTRIES` younger ones replaced is outside the
  window (`YoungerRecords`, by counting): this is the off-by-one that the age floor of
  `restore_displaced_completion` has to get right.
* `ContractKeptAlways` (`ActiveMessageAdmissionProofs`): the lease protocol
  implements `AdmissionContract`. The inductive invariant `IInv` ties the lease to
  the place of the session's thread (`HostInv`), the reply to the lease it was sent
  under (`ReplyInv`), and what the coordinator concluded to both (`PollInv`): a
  settled refusal means a revoked lease, an unsettled completion a claimed one.
  `StepRefines` shows that only the insertion and the revocations move a verdict.
* `HostReplySettlesAlways`, `TypeOKAlways`: from the same invariant.
* `ReservationsStayFresh` (`SchedulerProofs`), for any tasks, limits and scenarios: no
  reservation is stale when it is committed, so the assertions of `commit_next` never
  fail. `ReservationFresh` is not inductive: it does not say that only one operation
  holds a reservation, nor that a one-shot's has two versions. `ReservationInv` adds
  both (`OneReservation`, `Reserved`). The assumption used is that `MaxRevision` and
  the counts are numbers; the rollover needs no more.
* `TombstonesAreFinal`: a task whose durable tombstone went out is never in memory or
  on disk again. The invariant `TombstoneInv` follows the one awaited flush through the
  channel: it and every write behind it lack the task (`Absent`), so when it is
  acknowledged, and the writer has dropped what was parked before it, nothing that
  could still be written has the task (`Entombed`); ids are never reused (`Known`).
  A durable expiry whose flush failed puts the task back; `Absent` says that it has no
  tombstone yet.
* `IterationsStaySound`: a task's iterations run one at a time, and one that resumes
  another runs the same prompt of the same task. The invariant `ChainInv` says of every
  copy of a task's anchor, in memory, on the disk, in the parked snapshot, in each write
  under way, in a fire's copy and in an expiry's, that it names a run of that task and,
  unless a reset is pending, of its prompt (`Anchored`, `Links`, `Firing`, `Expiring`);
  and that a live run is its task's anchor (`LiveLinks`), which is what keeps a second
  one from starting after a crash brought an older anchor back.

For any prompts, messages, wakes, interjections, approvals, steer limit and scenario
of a session (`SessionTurnsProofs`):

* `TypesKept`, `FrontKept`, `SlotsStayBound`, `TextsStayAccounted`, `SendersStayHeld`,
  `CompletedWereSeen` and the action properties `StartsStayUnseen`, `SendNowSpares`.
  None of them is inductive alone: that the front is the running turn's needs rows that
  are not repeated, that a send-now finds its prompt recorded needs what the handler read
  before its await, and so on. `SessionInv` states them together. `Text` says of each text
  the one place it is in and what its sender was told; `Slot` ties the state of a slot to
  what the model has seen and to the phase of the turn; `TurnInv` is about the turn and
  the completions on their way; `LoopInv` says what each handler may rely on at each of
  its awaits. One lemma per action shows that its step keeps the invariant, and
  `SessionSequenceProofs` says what the operators on rows return.
* `GateStaysOwned`, `QueueStaysKicked`: with the hypothesis `Steady`, that the scenario
  does not combine a resumed plan approval with a cancel of turns, the gate is closed only
  under a handler that will open it, and a session at rest has no row left to start. The
  hypothesis cannot be dropped: without it the statement is false (finding 2, run
  `gate_leak`). `LeaseInv` adds what the proof needs: a lease taken while nothing runs
  names the front row, and the front stays.

The operators on sequences are recursive functions over lengths. What they return for
every sequence is proved by a least counterexample: the set of lengths at which a lemma
fails has a least element (`NaturalsInduction`'s facts with an operator parameter are out
of the provers' reach, a set of numbers is not).

Only model-checked: the rest of section 3, which is

* `BufferPurged`. It holds where every nested spawn is re-parented, as in `retention`.
  A late spawn (finding 1) keeps its spawner's session as its own, and its completion is
  buffered for that session whether or not anybody reads it.
* Liveness (`QueueDrains`, `SendersAnswered`, `EverySenderAnswered`), which is outside the
  prover.

## 5. Findings

1. `late_spawn`. The comment on `spawn_blocked_sessions` (`task/coordinator.rs:89-91`)
   says a detached late spawn cannot outrun Stop. A nested spawn that arrives after
   its spawner finished is not re-parented, so it is checked against the spawner's
   session, which is not blocked, and starts.
2. `gate_leak`. A cancel that finds no running turn claims the finalization gate, bound
   to the front row of the queue, and awaits the teardown. A resumed plan approval
   (`tool_calls.rs`, `start_resume_turn`) may queue its row meanwhile. The check of the
   binding (`cancel.rs:513-515`) then fails and the cancel returns without finishing
   its lease: the gate stays closed and the session starts no further turn, against
   `turn_task.rs:227` ("a committed finalization lease must be finished") and the
   comment of the run loop (`run_loop.rs:1155`), which relies on the owner's release.

3. `stale_buffer`. The doc of `purge_completions_for_spawner`
   (`task/coordinator/completion.rs:51`) says "A finished spawner has no reader left", and
   `finish_child` calls it for that reason (`task/coordinator.rs:1181`). A woken child whose
   run fails before its deferred start is settled leaves `finish_child` earlier
   (`coordinator.rs:1045-1057`): its prior record is put back and nothing is purged. It was
   active meanwhile, so the completion of a child nested in it was buffered for its
   session, and stays. `BufferPurged` says that this is the only way (run `retention`).

Seen while modelling, with no run of their own:

* The comment on `teardown_drains` (`task/coordinator.rs:85-87`) says an entry is there
  only while the delete waits for children. A wake parked on a finished child keeps the
  drain open; when that wake is refused by a second teardown, or dropped by
  `handle_terminal_published`, nobody looks at the drain again, and the first delete is
  answered by the 30 s backstop.
* The comment on the coordinator's exit check (`task/coordinator.rs:281-283`) argues that a
  non-empty queue implies a non-empty `runs`. An output held back for admissions in
  flight leaves `runs` while its child keeps the slot. The exit is still safe, because
  `terminal_outputs` is checked too: the last conjunct of `QueuedMeansFull`.
* A message whose safe-point drain failed at the persistence barrier is answered as
  completed at the end of the turn without having been shown (`CompletedWasSeen` allows
  exactly this).
* The TTL of an edit hold is looked at only when something kicks the queue.
* After a durable expiry whose tombstone was not acknowledged the next transition uses
  the same version again; a test of the actor
  (`expiry_ack_failure_leaves_absent_and_continues_without_version_commit`) wants this.
* A Delete that failed and is never retried keeps the timer off; every other command is
  refused with `RemovalPending`, which names the task to delete.
* The guard of a failed iteration clears the anchor, and without one a fire does not ask
  for running descendants of the failed iteration.

## 6. Plan

In this order:

1. Done: the coordinator, the lease, its contract, first theorems.
2. Done: the session's turns, prompt queue and delivery slots; the scheduler with the
   resources writer, crashes and restarts, and its theorems.
3. Done: theorems about `SessionTurns`, `IterationsSound`, and the coordinator's limit,
   queue, messages, types, spawn graph, records, callers and drains.
4. Leader lock and refresh lock (several processes, stale files), upload queue
   (retries), circuit breaker (half-open probes).
5. An abstract specification of the coordinator's child life cycle, and the
   coordinator shown to implement it; the lease composed with the session's slots.

## 7. Not modelled

The interface, rendering, model requests, tools, hooks, MCP clients, memory search and
text diffing make up most of the repository's lines. They are I/O, layout or data
transformation with little protocol of their own; `PROJECT.json` gives the reason
for each part. The parts of the plan's step 4 have a protocol and are left for lack of
time, not of reach.
