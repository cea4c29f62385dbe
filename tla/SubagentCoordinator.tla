------------------------ MODULE SubagentCoordinator ------------------------
(***************************************************************************)
(* The subagent coordinator: a single-writer actor that owns every child   *)
(* agent of a process.  Its struct is the record `co`; a `&mut self`       *)
(* method of the source is an operator from a value of that record to the  *)
(* next one, under the method's own name, and an arm of the actor's        *)
(* select! loop is an action.  After every arm the loop resolves prompt    *)
(* drains and evicts old completed records (AfterArm).                     *)
(*                                                                         *)
(* The client ends of the reply channels (who still listens, who has been  *)
(* answered) are fields of the same record: caller, query and outcome.     *)
(* Time is abstract: a deadline is a flag saying that it is armed, and an  *)
(* armed deadline may elapse at any moment.                                *)
(***************************************************************************)
EXTENDS Integers, FiniteSets, Sequences, SequencesExt

CONSTANTS
  Ids,            \* child ids; a child's own session is named by its id
  Sessions,       \* root parent sessions
  Prompts,        \* parent prompt ids
  Runs,           \* workflow run ids
  Queries,        \* blocking status queries
  Messages,       \* messages to children, numbered in the order they are sent
  None,           \* absence of an optional value
  MaxConcurrent,  \* non-workflow children one session may run at once
  LimitBehavior,  \* "Queue" or "Fail": what happens at that limit
  SupportsWake,   \* whether the host can restart a completed child
  MaxCompleted,   \* completed records kept (MAX_COMPLETED_ENTRIES)
  MaxBuffered,    \* buffered completions kept (MAX_PENDING_COMPLETIONS)
  MaxPerChild,    \* message admissions in flight per child
  Offers,         \* spawn requests the callers of the model make
  Senders,        \* sessions that issue commands and messages
  Sources,        \* subset of {"Agent", "Human"}: who addresses messages
  Events          \* the optional events that occur in this instance

Sess == Sessions \cup Ids

Request ==
  [session : Sess, prompt : Prompts \cup {None}, workflow : Runs \cup {None},
   mode : {"foreground", "await", "background"}, surface : BOOLEAN]

ASSUME ConstantsAssumption ==
  /\ IsFiniteSet(Ids)
  /\ Sessions \cap Ids = {}
  /\ None \notin Sess \cup Prompts \cup Runs
  /\ Messages \subseteq Nat /\ IsFiniteSet(Messages)
  /\ MaxConcurrent \in Nat \ {0}
  /\ MaxCompleted \in Nat \ {0}
  /\ MaxBuffered \in Nat \ {0}
  /\ MaxPerChild \in Nat \ {0}
  /\ LimitBehavior \in {"Queue", "Fail"}
  /\ SupportsWake \in BOOLEAN
  /\ Offers \subseteq Request
  /\ Senders \subseteq Sess

VARIABLE co

----------------------------------------------------------------------------
(* Partial functions: the coordinator's hash maps.                         *)

Without(f, S) == [x \in DOMAIN f \ S |-> f[x]]

Put(f, k, v) == [x \in DOMAIN f \cup {k} |-> IF x = k THEN v ELSE f[x]]

Overlay(f, g) ==
  [x \in DOMAIN f \cup DOMAIN g |-> IF x \in DOMAIN g THEN g[x] ELSE f[x]]

NoMap == [x \in {} |-> None]

(* Vec::retain: the elements of seq that are in S, in their order.         *)
retain(seq, S) ==
  LET kept[n \in 0 .. Len(seq)] ==
        IF n = 0 THEN << >>
        ELSE IF seq[n] \in S THEN Append(kept[n - 1], seq[n]) ELSE kept[n - 1]
  IN  kept[Len(seq)]

----------------------------------------------------------------------------
(* What the registry says about a session, a prompt or a workflow run.     *)

InSession(map, p) == {id \in DOMAIN map : map[id].req.session = p}

OfRun(map, r) == {id \in DOMAIN map : map[id].req.workflow = r}

session_running(s, p) ==
  {id \in InSession(s.pending, p) : s.pending[id].req.workflow = None}
    \cup {id \in InSession(s.active, p) : s.active[id].req.workflow = None}

session_running_count(s, p) == Cardinality(session_running(s, p))

(* Faulty variant: the limit is off by one. *)
has_capacity_OffByOne(running) == running <= MaxConcurrent

has_capacity(running) == running < MaxConcurrent

workflow_outstanding(s, r) == OfRun(s.pending, r) \cup OfRun(s.active, r)

(* Parked wakes count only while their target is a completed record.       *)
session_has_children(s, p) ==
  \/ InSession(s.active, p) # {}
  \/ InSession(s.pending, p) # {}
  \/ InSession(s.queued, p) # {}
  \/ \E m \in s.pending_wakes : m.id \in InSession(s.completed, p)

is_reachable_from(s, id, session) ==
  /\ id \in DOMAIN s.graph
  /\ \/ s.graph[id].root = session
     \/ session \in ToSet(s.graph[id].chain)

is_reachable_from_session(s, id, session) ==
  session = None \/ is_reachable_from(s, id, session)

request_in_scope(req, p, prompt) ==
  req.session = p /\ req.prompt = prompt /\ req.workflow = None

live_turn_blocking_ids(s, p, prompt) ==
  {id \in DOMAIN s.pending : /\ request_in_scope(s.pending[id].req, p, prompt)
                             /\ ~s.pending[id].handle_only}
    \cup
  {id \in DOMAIN s.active : /\ request_in_scope(s.active[id].req, p, prompt)
                            /\ ~s.active[id].handle_only
                            /\ ~s.active[id].definition_background}
    \cup
  {id \in DOMAIN s.queued : /\ request_in_scope(s.queued[id].req, p, prompt)
                            /\ s.queued[id].reply
                            /\ s.queued[id].req.mode # "background"}

----------------------------------------------------------------------------
(* Replies.  A message is answered once: its sender leaves "waiting".      *)

Answer(s, msgs, how) ==
  [s EXCEPT !.outcome =
     [m \in Messages |-> IF m \in msgs THEN how ELSE s.outcome[m]]]

MsgsOf(recs) == {r.msg : r \in recs}

(* Faulty variant: the queries stay parked. *)
resolve_waiters_Forgets(s, ids) == s

(* Answers the blocking queries on a set of ids.                           *)
resolve_waiters(s, ids) ==
  LET due == {w \in s.waiters : w.id \in ids} IN
  [s EXCEPT
     !.waiters = @ \ due,
     !.query = [q \in Queries |->
                  IF (\E w \in due : w.query = q) /\ s.query[q] = "listening"
                  THEN "answered" ELSE s.query[q]]]

(* Faulty variant: the sends stay parked. *)
reject_spawn_ready_ids_Forgets(s, ids) == s

(* Parked sends to children that will not start are refused.               *)
reject_spawn_ready_ids(s, ids) ==
  LET doomed == {m \in s.spawn_ready : m.id \in ids} IN
  Answer([s EXCEPT !.spawn_ready = @ \ doomed], MsgsOf(doomed), "Refused")

(* Faulty variant: a refused message stays parked. *)
reject_pending_wakes_for_ids_KeepsEntry(s, ids) ==
  Answer(s, MsgsOf({m \in s.pending_wakes : m.id \in ids}), "Refused")

reject_pending_wakes_for_ids(s, ids) ==
  LET doomed == {m \in s.pending_wakes : m.id \in ids} IN
  Answer([s EXCEPT !.pending_wakes = @ \ doomed], MsgsOf(doomed), "Refused")

reject_pending_wakes_for_session(s, p) ==
  reject_pending_wakes_for_ids(s, InSession(s.completed, p))

----------------------------------------------------------------------------
(* Teardown drains and workflow cancellations waiting for children.        *)

clear_teardown_drain(s, ps) ==
  [s EXCEPT !.teardown_drains = @ \ ps,
            !.spawn_blocked_sessions = @ \ ps]

resolve_teardown_drain_waiters(s, ps) ==
  clear_teardown_drain(s,
    {p \in ps \cap s.teardown_drains : ~session_has_children(s, p)})

(* Faulty variant: the requester is not told. *)
resolve_workflow_cancel_waiters_Forgets(s, rs) == s

resolve_workflow_cancel_waiters(s, rs) ==
  [s EXCEPT !.workflow_cancel_waiters =
     {r \in @ : r \in rs => workflow_outstanding(s, r) # {}}]

----------------------------------------------------------------------------
(* Completion.                                                             *)

is_spawner_live(s, session) ==
  session \in DOMAIN s.active /\ ~s.active[session].cancelled

(* The session that is told, between turns, that a child finished.         *)
completion_target(s, id, req) ==
  LET node == s.graph[id] IN
  IF req.surface
  THEN IF req.workflow = None THEN req.session ELSE None
  ELSE IF /\ id \in DOMAIN s.graph
          /\ node.surface /\ node.chain # << >>
          /\ is_spawner_live(s, Last(node.chain))
       THEN Last(node.chain)
       ELSE None

(* Appends the summaries of `seq`, oldest dropped beyond the cap.          *)
buffer_completion(s, reqs, seq) ==
  LET told == retain(seq, {id \in ToSet(seq) : completion_target(s, id, reqs[id]) # None})
      all == s.pending_completions
               \o [i \in 1 .. Len(told) |->
                     [owner |-> completion_target(s, told[i], reqs[told[i]]),
                      id |-> told[i]]]
  IN  SubSeq(all, 1 + (IF Len(all) > MaxBuffered THEN Len(all) - MaxBuffered ELSE 0),
             Len(all))

IndexIn(seq, id) == CHOOSE i \in 1 .. Len(seq) : seq[i] = id

(* Faulty variant: what was buffered for a finished child is kept. *)
purge_completions_for_spawner_Keeps(buffered, ids) == buffered

(* A finished child reads no buffer any more.                              *)
purge_completions_for_spawner(buffered, ids) ==
  retain(buffered, {c \in ToSet(buffered) : c.owner \notin ids})

(* The tail of finish_child for the children of `seq`, which are no longer *)
(* queued, pending or active.  Blocking queries and the spawn caller are   *)
(* answered, the completion is buffered, the record filed under the next   *)
(* completion age and handed to the host for publication.                  *)
file_completions(s, recs, seq) ==
  LET ids == DOMAIN recs
      age(id) == s.next_completion_age + IndexIn(seq, id) - 1
      buffered == buffer_completion(s, [id \in ids |-> recs[id].req], seq)
      filed == [resolve_waiters(s, ids) EXCEPT
        !.caller = [id \in Ids |->
                      IF id \in ids /\ recs[id].reply /\ s.caller[id] = "listening"
                      THEN "answered" ELSE s.caller[id]],
        !.pending_completions = purge_completions_for_spawner(buffered, ids),
        !.completed = Overlay(@, [id \in ids |->
           [req |-> recs[id].req, age |-> age(id), published |-> FALSE,
            address |-> recs[id].address, started |-> recs[id].started]]),
        !.completed_order = @ \o seq,
        !.next_completion_age = @ + Len(seq),
        !.publications = @ \cup
           {[id |-> id, age |-> age(id), stage |-> "presenting"] : id \in ids}]
  IN  resolve_teardown_drain_waiters(
        resolve_workflow_cancel_waiters(filed, {recs[id].req.workflow : id \in ids}),
        {recs[id].req.session : id \in ids})

(* Faulty variant: the floor of the retention window is off by one. *)
retained_OffByOne(age, now) == age > now - MaxCompleted

retained(age, now) == age >= now - MaxCompleted

(* Faulty variant: the record joins the back of the retention queue. *)
insertion_point_Back(order, all, age) == Len(order) + 1

(* Before the first record of a younger completion.                        *)
insertion_point(order, all, age) ==
  LET at == SelectInSeq(order, LAMBDA x : all[x].age > age)
  IN  IF at = 0 THEN Len(order) + 1 ELSE at

reinsert(order, all, ids) ==
  LET insert(id, sofar) ==
        InsertAt(sofar, insertion_point(sofar, all, all[id].age), id)
  IN  FoldSet(insert, order, ids)

(* A wake that ended before its child started puts the displaced record    *)
(* back, at the position of its age; a record older than the retention     *)
(* window is dropped instead.  now[id] is the completion age at that time. *)
restore_displaced_completion(s, displaced, now) ==
  LET ids == DOMAIN displaced
      kept == {id \in ids : retained(displaced[id].age, now[id])}
      all == Overlay(s.completed, [id \in kept |-> displaced[id]])
  IN  [resolve_waiters(s, ids) EXCEPT
         !.completed = all,
         !.completed_order = reinsert(@, all, kept),
         !.graph = Without(@, ids \ kept)]

----------------------------------------------------------------------------
(* Starting children, from the queue and directly.                         *)

fresh_pending(rec) ==
  [req |-> rec.req, cancelled |-> FALSE, reply |-> rec.reply,
   deadline |-> rec.deadline,
   handle_only |-> rec.req.mode = "background" \/ ~rec.reply,
   wake |-> rec.wake]

(* Faulty variant: the run future is not pushed. *)
start_children_NoRun(s, recs) ==
  [s EXCEPT !.pending =
     Overlay(@, [id \in DOMAIN recs |-> fresh_pending(recs[id])])]

(* A fresh pending record; the child's run future joins `runs`.            *)
start_children(s, recs) ==
  [s EXCEPT
     !.pending = Overlay(@, [id \in DOMAIN recs |-> fresh_pending(recs[id])]),
     !.runs = @ \cup DOMAIN recs]

(* The admission policy: workflow children follow their run's own pool.    *)
admit(s, req) ==
  IF req.workflow # None \/ has_capacity(session_running_count(s, req.session))
  THEN "Start"
  ELSE IF LimitBehavior = "Queue" THEN "Enqueue" ELSE "Reject"

(* Position behind every queued entry.                                     *)
next_queued_at(s) ==
  IF DOMAIN s.queued = {} THEN 1
  ELSE 1 + Max({s.queued[id].queued_at : id \in DOMAIN s.queued})

(* Arrival order of queue entries: the k-th has k - 1 earlier ones.        *)
InArrivalOrder(map, ids) ==
  LET earlier(id) == {x \in ids : map[x].queued_at < map[id].queued_at}
  IN  [k \in 1 .. Cardinality(ids) |->
         CHOOSE id \in ids : Cardinality(earlier(id)) = k - 1]

(* Queue entries (already removed) that end without starting: a queued     *)
(* wake restores the record it displaced, any other is filed as cancelled. *)
finish_cancelled_queued(s, entries) ==
  LET wakes == {id \in DOMAIN entries : entries[id].wake # None}
      spawns == DOMAIN entries \ wakes
      earlier(id) == {x \in spawns : entries[x].queued_at < entries[id].queued_at}
      restored == restore_displaced_completion(s,
        [id \in wakes |-> entries[id].wake],
        [id \in wakes |-> s.next_completion_age + Cardinality(earlier(id))])
  IN  file_completions(reject_spawn_ready_ids(restored, spawns),
        [id \in spawns |->
           [req |-> entries[id].req, reply |-> entries[id].reply,
            address |-> FALSE, started |-> FALSE]],
        InArrivalOrder(entries, spawns))

live_queued(s) == {id \in DOMAIN s.queued : ~s.queued[id].cancelled}

(* Faulty variant: the newest entry of a session goes first. *)
queued_ahead_Newest(s, id) ==
  {x \in live_queued(s) : /\ s.queued[x].req.session = s.queued[id].req.session
                          /\ s.queued[x].queued_at > s.queued[id].queued_at}

(* The entries that take a slot of the same session before this one.       *)
queued_ahead(s, id) ==
  {x \in live_queued(s) : /\ s.queued[x].req.session = s.queued[id].req.session
                          /\ s.queued[x].queued_at < s.queued[id].queued_at}

(* Faulty variant: a freed slot is not offered to the queue. *)
start_queued_within_capacity_Forgets(s) == s

(* Entries start in arrival order while their own session has a slot; a    *)
(* full session does not hold back another.                                *)
start_queued_within_capacity(s) ==
  LET live == live_queued(s)
      starting == {id \in live :
        has_capacity(session_running_count(s, s.queued[id].req.session)
                       + Cardinality(queued_ahead(s, id)))}
      cancelled == DOMAIN s.queued \ live
  IN  finish_cancelled_queued(
        start_children([s EXCEPT !.queued = Without(@, starting \cup cancelled)],
                       Restrict(s.queued, starting)),
        Restrict(s.queued, cancelled))

remove_queued(s, ids) ==
  LET gone == Restrict(s.queued, ids \cap DOMAIN s.queued)
      ended == finish_cancelled_queued(
                 reject_spawn_ready_ids([s EXCEPT !.queued = Without(@, DOMAIN gone)],
                                        DOMAIN gone),
                 gone)
  IN  IF \E id \in DOMAIN gone : gone[id].wake = None
      THEN start_queued_within_capacity(ended)
      ELSE ended

(* The child leaves the registry.                                          *)
finish_child(s, id, success) ==
  LET rejected == reject_spawn_ready_ids(s, {id})
      rec == IF id \in DOMAIN s.active THEN s.active[id] ELSE s.pending[id]
      left == [rejected EXCEPT !.active = Without(@, {id}),
                               !.pending = Without(@, {id})]
  IN  IF id \notin DOMAIN s.active \cup DOMAIN s.pending
      THEN rejected
      ELSE start_queued_within_capacity(
        IF ~success /\ rec.wake # None
        THEN resolve_teardown_drain_waiters(
               restore_displaced_completion(left, [x \in {id} |-> rec.wake],
                                            [x \in {id} |-> s.next_completion_age]),
               {rec.wake.req.session})
        ELSE file_completions(left,
               [x \in {id} |->
                  [req |-> rec.req, reply |-> rec.reply,
                   address |-> rec.req.workflow = None,
                   started |-> id \in DOMAIN s.active]],
               <<id>>))

(* A run future that ended (or panicked, with success FALSE).  An active   *)
(* child with message admissions in flight stays active until they settle. *)
finish_terminalized_child(s, id, success, is_clean) ==
  finish_child(s, id, success /\ is_clean)

begin_terminalization(s, id, success) ==
  LET child == s.active[id]
      closing == [s EXCEPT !.active[id].finalizing = TRUE]
  IN  CASE id \notin DOMAIN s.active -> finish_child(s, id, success)
        [] id \in DOMAIN s.active /\ child.in_flight = 0 ->
             finish_terminalized_child(closing, id, success, child.clean)
        [] OTHER ->
             [closing EXCEPT !.terminal_outputs = Put(@, id, success)]

----------------------------------------------------------------------------
(* Messages to children.                                                   *)

(* Faulty variant: one admission too many. *)
admissible_OffByOne(child, before) ==
  /\ child.req.workflow = None
  /\ ~child.cancelled
  /\ ~child.finalizing
  /\ child.in_flight + before <= MaxPerChild

(* Whether a child takes one more message behind `before` others.          *)
admissible(child, before) ==
  /\ child.req.workflow = None
  /\ ~child.cancelled
  /\ ~child.finalizing
  /\ child.in_flight + before < MaxPerChild

(* Faulty variant: the admissions are not counted. *)
begin_admissions_Uncounted(child, n) == child

begin_admissions(child, n) == [child EXCEPT !.in_flight = @ + n]

(* Admission of `msgs`, all to the active child id: in the order they were *)
(* sent, up to the child's in-flight limit.                                *)
admit_active_messages(s, id, msgs) ==
  LET child == s.active[id]
      ahead(m) == {x \in msgs : x.msg < m.msg}
      taken == {m \in msgs : admissible(child, Cardinality(ahead(m)))}
  IN  IF msgs = {} THEN s
      ELSE Answer(
             [s EXCEPT
                !.active[id] = begin_admissions(@, Cardinality(taken)),
                !.active_messages = @ \cup
                   {[msg |-> m.msg, id |-> id, generation |-> child.generation] : m \in taken}],
             MsgsOf(msgs \ taken), "Refused")

(* Parked sends of a child that became active: the message that woke it is *)
(* acknowledged (its text is the child's prompt), the others are admitted. *)
admit_spawn_ready_messages(s, id) ==
  LET parked == {m \in s.spawn_ready : m.id = id}
      initial == {m \in parked : m.initial}
  IN  admit_active_messages(
        Answer([s EXCEPT !.spawn_ready = @ \ parked], MsgsOf(initial), "Accepted"),
        id, parked \ initial)

Park(m, is_initial) ==
  [msg |-> m.msg, id |-> m.id, source |-> m.source, sender |-> m.sender,
   initial |-> is_initial]

(* The request a wake runs under.                                          *)
wake_request(req) ==
  [req EXCEPT !.prompt = None, !.mode = "background", !.surface = FALSE]

(* Faulty variant: Stop does not cover wakes. *)
wake_refused_IgnoresStop(s, req, decision) == ~SupportsWake \/ decision = "Reject"

wake_refused(s, req, decision) ==
  \/ ~SupportsWake
  \/ req.session \in s.spawn_blocked_sessions
  \/ decision = "Reject"

(* The record of the completed child moves into the wake; the first        *)
(* message becomes its prompt, the later ones wait for it to start.        *)
wake_completed_child(s, id, msgs) ==
  LET old == s.completed[id]
      first == CHOOSE m \in msgs : \A x \in msgs : m.msg <= x.msg
      req == wake_request(old.req)
      decision == admit(s, req)
      moved == [s EXCEPT
        !.completed = Without(@, {id}),
        !.completed_order = retain(@, ToSet(@) \ {id}),
        !.spawn_ready = @ \cup {Park(first, TRUE)}
                          \cup {Park(m, FALSE) : m \in msgs \ {first}}]
      entry == [req |-> req, cancelled |-> FALSE, reply |-> FALSE,
                deadline |-> FALSE, wake |-> old,
                queued_at |-> next_queued_at(s)]
  IN  IF ~old.published
      THEN [s EXCEPT !.pending_wakes = @ \cup msgs]
      ELSE IF wake_refused(s, old.req, decision)
      THEN Answer(s, MsgsOf(msgs), "Refused")
      ELSE IF decision = "Start"
      THEN start_children(moved, [x \in {id} |-> entry])
      ELSE [moved EXCEPT !.queued = Put(@, id, entry)]

(* Whether a message to a completed child can reach it: an agent names the *)
(* id, a person the address, which a child that never started lost.        *)
Addressable(s, m) == m.source = "Agent" \/ s.completed[m.id].address

(* Messages to one child, handled in the order they were sent.             *)
handle_send_active_message(s, id, msgs) ==
  LET owned == {m \in msgs : is_reachable_from(s, id, m.sender)}
      spawning(map) == /\ id \in DOMAIN map
                       /\ map[id].req.workflow = None /\ ~map[id].cancelled
      waking == {m \in owned : Addressable(s, m)}
      refuse(rest) == Answer(s, MsgsOf(rest), "Refused")
  IN  IF owned = {} THEN refuse(msgs)
      ELSE IF id \in DOMAIN s.active
      THEN admit_active_messages(refuse(msgs \ owned), id, owned)
      ELSE IF spawning(s.pending) \/ spawning(s.queued)
      THEN [refuse(msgs \ owned) EXCEPT
              !.spawn_ready = @ \cup {Park(m, FALSE) : m \in owned}]
      ELSE IF /\ id \in DOMAIN s.completed
              /\ s.completed[id].req.workflow = None
              /\ waking # {}
      THEN wake_completed_child(refuse(msgs \ waking), id, waking)
      ELSE refuse(msgs)

(* The host has presented a completion: parked wakes are handled again,    *)
(* or refused while their session is stopped or draining.                  *)
handle_terminal_published(s, id) ==
  LET parked == {m \in s.pending_wakes : m.id = id}
      session == s.completed[id].req.session
  IN  IF parked = {} THEN s
      ELSE IF /\ id \in DOMAIN s.completed
              /\ session \in s.spawn_blocked_sessions \cup s.teardown_drains
      THEN reject_pending_wakes_for_ids(s, {id})
      ELSE handle_send_active_message(
             [s EXCEPT !.pending_wakes = @ \ parked], id, parked)

(* A message admission ended: "Accepted", "Refused", or "Uncertain" when   *)
(* its lease could not be settled.  The last one of a finalizing child     *)
(* releases the reporter that waits and the output held back.              *)
finish_active_message(s, f, how) ==
  LET child == s.active[f.id]
      known == f.id \in DOMAIN s.active /\ child.generation = f.generation
      last == child.in_flight = 1 /\ child.finalizing
      clean == child.clean /\ how # "Uncertain"
      left == [s EXCEPT !.active_messages = @ \ {f}]
      settled == [Answer(left, {f.msg}, how) EXCEPT
        !.active[f.id].in_flight = @ - 1,
        !.active[f.id].clean = clean,
        !.active[f.id].reporter_waits = @ /\ ~last]
  IN  IF ~known
      THEN Answer(left, {f.msg}, IF how = "Accepted" THEN "Uncertain" ELSE how)
      ELSE IF last /\ f.id \in DOMAIN s.terminal_outputs
      THEN finish_terminalized_child(
             [settled EXCEPT !.terminal_outputs = Without(@, {f.id})],
             f.id, s.terminal_outputs[f.id], clean)
      ELSE settled

----------------------------------------------------------------------------
(* Sweeps: abandoned callers, prompt drains, retention.                    *)

(* A foreground caller that dropped its receiver: a workflow child is      *)
(* cancelled, any other keeps running in the background.                   *)
background_if_caller_gone(s, map) ==
  [id \in DOMAIN map |->
     LET child == map[id]
         gone == ~child.handle_only /\ child.reply /\ s.caller[id] = "gone"
     IN  IF ~gone THEN child
         ELSE IF child.req.workflow # None
         THEN [child EXCEPT !.reply = FALSE, !.cancelled = TRUE]
         ELSE [child EXCEPT !.reply = FALSE, !.handle_only = TRUE,
                            !.deadline = FALSE]]

reap_abandoned_callers(s) ==
  LET abandoned(id) == s.queued[id].reply /\ s.caller[id] = "gone"
      swept == [s EXCEPT
        !.pending = background_if_caller_gone(s, @),
        !.active = background_if_caller_gone(s, @),
        !.queued = [id \in DOMAIN s.queued |->
                      [s.queued[id] EXCEPT !.reply = @ /\ ~abandoned(id),
                                           !.deadline = @ /\ ~abandoned(id)]]]
  IN  remove_queued(swept, {id \in DOMAIN s.queued : s.queued[id].cancelled})

(* Faulty variant: the drain is looked at only when it is requested. *)
resolve_drain_waiters_Forgets(s) == s

resolve_drain_waiters(s) ==
  [s EXCEPT !.drain_waiters =
     {w \in @ : live_turn_blocking_ids(s, w.session, w.prompt) # {}}]

(* Faulty variant: the evicted child's graph node stays. *)
evict_completed_overflow_KeepsNode(s) ==
  LET excess == Cardinality(DOMAIN s.completed) - MaxCompleted
      evicted == {s.completed_order[i] : i \in 1 .. excess}
  IN  IF excess <= 0 THEN s
      ELSE [reject_pending_wakes_for_ids(s, evicted) EXCEPT
              !.completed = Without(@, evicted),
              !.completed_order = SubSeq(@, excess + 1, Len(@))]

evict_completed_overflow(s) ==
  LET excess == Cardinality(DOMAIN s.completed) - MaxCompleted
      evicted == {s.completed_order[i] : i \in 1 .. excess}
  IN  IF excess <= 0 THEN s
      ELSE [reject_pending_wakes_for_ids(s, evicted) EXCEPT
              !.completed = Without(@, evicted),
              !.completed_order = SubSeq(@, excess + 1, Len(@)),
              !.graph = Without(@, evicted)]

(* The end of every iteration of the actor loop.                           *)
AfterArm(s) == evict_completed_overflow(resolve_drain_waiters(s))

----------------------------------------------------------------------------
(* Spawning.                                                               *)

(* A spawn by an active child's session is re-keyed to the root session;   *)
(* the graph keeps the spawner's claim, and workflow ownership is          *)
(* inherited.                                                              *)
reparent_nested_spawn(s, req) ==
  IF req.session \notin DOMAIN s.active THEN req
  ELSE LET spawner == s.active[req.session].req IN
       [req EXCEPT !.session = spawner.session,
                   !.surface = FALSE,
                   !.workflow = IF @ = None THEN spawner.workflow ELSE @]

insert_node(s, ingress, req) ==
  IF ingress.session \in DOMAIN s.active
  THEN [root |-> req.session,
        chain |-> Append(s.graph[ingress.session].chain, ingress.session),
        surface |-> ingress.surface]
  ELSE [root |-> req.session, chain |-> << >>, surface |-> FALSE]

(* Faulty variant: the id of a finished child may be taken again. *)
Known_ForgetsCompleted(s, id) ==
  id \in DOMAIN s.pending \cup DOMAIN s.active \cup DOMAIN s.queued

Known(s, id) ==
  id \in DOMAIN s.pending \cup DOMAIN s.active \cup DOMAIN s.completed
           \cup DOMAIN s.queued

(* Faulty variant: Stop does not cover late spawns. *)
SpawnRefused_IgnoresStop(s, id, ingress, req) ==
  \/ ingress.session \in DOMAIN s.active /\ s.active[ingress.session].cancelled
  \/ Known(s, id)

(* A refused spawn is answered at once and leaves no trace.                *)
SpawnRefused(s, id, ingress, req) ==
  \/ ingress.session \in DOMAIN s.active /\ s.active[ingress.session].cancelled
  \/ req.workflow = None /\ req.session \in s.spawn_blocked_sessions
  \/ Known(s, id)

handle_spawn(s, id, ingress) ==
  LET req == reparent_nested_spawn(s, ingress)
      entry == [req |-> req, cancelled |-> FALSE, reply |-> TRUE,
                deadline |-> req.mode = "foreground", wake |-> None,
                queued_at |-> next_queued_at(s)]
      placed == [s EXCEPT !.graph = Put(@, id, insert_node(s, ingress, req)),
                          !.caller[id] = "listening"]
      one == [x \in {id} |-> entry]
  IN  IF SpawnRefused(s, id, ingress, req) THEN s
      ELSE CASE admit(s, req) = "Start" -> start_children(placed, one)
             [] admit(s, req) = "Enqueue" ->
                  [placed EXCEPT !.queued = Put(@, id, entry)]
             [] OTHER -> start_queued_within_capacity(
                  file_completions(placed,
                    [x \in {id} |-> [req |-> req, reply |-> TRUE, address |-> FALSE,
                                      started |-> FALSE]],
                    <<id>>))

----------------------------------------------------------------------------
(* Cancellation.                                                           *)

cancel_children(s, ids) ==
  LET marked(map) == [id \in DOMAIN map |->
                        [map[id] EXCEPT !.cancelled = @ \/ id \in ids]]
  IN  reject_spawn_ready_ids(
        [s EXCEPT !.active = marked(s.active), !.pending = marked(s.pending)],
        ids \cap DOMAIN s.pending)

cancel_one(s, id, from) ==
  IF ~is_reachable_from_session(s, id, from) THEN s
  ELSE remove_queued(cancel_children(s, {id}), {id})

belongs_to_session(req, p) == p = None \/ req.session = p

cancel_parent_prompt(s, prompt, p) ==
  LET hit(map) == {id \in DOMAIN map : /\ map[id].req.prompt = prompt
                                       /\ belongs_to_session(map[id].req, p)}
  IN  remove_queued(cancel_children(s, hit(s.active) \cup hit(s.pending)),
                    hit(s.queued))

(* Stop: the session's non-workflow children end and no new one starts     *)
(* until admission reopens.                                                *)
cancel_parent_session(s, p) ==
  LET hit(map) == {id \in InSession(map, p) : map[id].req.workflow = None}
      blocked == [s EXCEPT !.spawn_blocked_sessions = @ \cup {p}]
      ended == remove_queued(
                 cancel_children(blocked, hit(s.active) \cup hit(s.pending)),
                 hit(s.queued))
  IN  reject_pending_wakes_for_session(ended, p)

cancel_workflow_children(s, r, p) ==
  LET hit(map) == {id \in OfRun(map, r) : belongs_to_session(map[id].req, p)}
  IN  cancel_children(s, hit(s.active) \cup hit(s.pending))

(* Nothing that ends now is buffered for the session that is going away.   *)
teardown_session_children(s, p) ==
  LET muted(map) == [id \in DOMAIN map |->
        [map[id] EXCEPT !.req.surface = @ /\ map[id].req.session # p]]
      refused == reject_pending_wakes_for_session(s, p)
  IN  remove_queued(
        cancel_children(
          [refused EXCEPT !.active = muted(refused.active),
                          !.pending = muted(refused.pending),
                          !.queued = muted(refused.queued)],
          InSession(s.active, p) \cup InSession(s.pending, p)),
        InSession(s.queued, p))

begin_teardown_drain(s, p) ==
  [s EXCEPT !.spawn_blocked_sessions = @ \cup {p},
            !.teardown_drains = @ \cup {p}]

handle_teardown_session(s, p, has_responder) ==
  LET torn == teardown_session_children(
                [s EXCEPT !.pending_completions =
                   purge_completions_for_spawner(@, {p})], p)
  IN  IF has_responder /\ session_has_children(torn, p)
      THEN begin_teardown_drain(torn, p) ELSE torn

----------------------------------------------------------------------------
(* The actor: the arms of its select! loop and the arms of handle_command. *)

vars == <<co>>

Step(s) == co' = AfterArm(s)

(* Every command first sweeps the abandoned callers.                       *)
Commanded == reap_abandoned_callers(co)

Init ==
  co = [queued |-> NoMap, pending |-> NoMap, active |-> NoMap,
        completed |-> NoMap, completed_order |-> << >>,
        next_completion_age |-> 0, next_generation |-> 0, graph |-> NoMap,
        waiters |-> {}, progress |-> {}, drain_waiters |-> {},
        workflow_cancel_waiters |-> {}, teardown_drains |-> {},
        spawn_blocked_sessions |-> {}, pending_completions |-> << >>,
        pending_wakes |-> {}, spawn_ready |-> {}, active_messages |-> {},
        terminal_outputs |-> NoMap, runs |-> {}, publications |-> {},
        caller |-> [id \in Ids |-> "none"],
        query |-> [q \in Queries |-> "none"],
        outcome |-> [m \in Messages |-> "none"]]

(* A child's session spawns children while its start is committed; a       *)
(* detached spawn of it may still be in the channel when it has ended.     *)
CanSpawn(session) ==
  \/ session \in Sessions
  \/ session \in DOMAIN co.active /\ co.active[session].wake = None
  \/ /\ "LateSpawn" \in Events
     /\ session \in DOMAIN co.completed /\ co.completed[session].started

(* Ids are fresh UUIDs; a duplicate of a known id is refused.              *)
Spawn(id, ingress) ==
  /\ co.caller[id] = "none" \/ id \in DOMAIN co.graph
  /\ CanSpawn(ingress.session)
  /\ Step(handle_spawn(Commanded, id, ingress))

(* A blocking query; one that need not wait is answered at once.           *)
Query(q, id, from) ==
  LET s == Commanded
      waits(map) == id \in DOMAIN map /\ map[id].req.workflow = None
      parks == /\ is_reachable_from_session(s, id, from)
               /\ id \notin DOMAIN s.completed
               /\ waits(s.active) \/ waits(s.pending) \/ waits(s.queued)
  IN  /\ co.query[q] = "none"
      /\ Step(IF parks
              THEN [s EXCEPT !.query[q] = "listening",
                             !.waiters = @ \cup {[query |-> q, id |-> id]}]
              ELSE [s EXCEPT !.query[q] = "answered"])

CancelOne(id, from) ==
  /\ "CancelOne" \in Events
  /\ Step(cancel_one(Commanded, id, from))

CancelPrompt(prompt, p) ==
  /\ "CancelPrompt" \in Events
  /\ Step(cancel_parent_prompt(Commanded, prompt, p))

CancelSession(p) ==
  /\ "CancelSession" \in Events
  /\ Step(cancel_parent_session(Commanded, p))

(* The requester waits until no child of the run is left.                  *)
CancelWorkflow(r, p) ==
  LET s == cancel_workflow_children(Commanded, r, p) IN
  Step(IF workflow_outstanding(s, r) = {} THEN s
       ELSE [s EXCEPT !.workflow_cancel_waiters = @ \cup {r}])

TeardownSession(p, has_responder) ==
  /\ (IF has_responder THEN "Delete" ELSE "Close") \in Events
  /\ Step(handle_teardown_session(Commanded, p, has_responder))

(* Faulty variant: a next turn reopens admission in the middle of a delete. *)
OpenSpawnAdmission_IgnoresDrain(p) ==
  /\ p \in co.spawn_blocked_sessions
  /\ Step([Commanded EXCEPT !.spawn_blocked_sessions = @ \ {p}])

OpenSpawnAdmission(p) ==
  /\ p \in co.spawn_blocked_sessions
  /\ Step([Commanded EXCEPT !.spawn_blocked_sessions =
             IF p \in Commanded.teardown_drains THEN @ ELSE @ \ {p}])

WaitPromptDrained(p, prompt) ==
  /\ "WaitPromptDrained" \in Events
  /\ Step(IF live_turn_blocking_ids(Commanded, p, prompt) = {} THEN Commanded
          ELSE [Commanded EXCEPT !.drain_waiters =
                  @ \cup {[session |-> p, prompt |-> prompt]}])

Completions(p) ==
  /\ \E i \in DOMAIN co.pending_completions : co.pending_completions[i].owner = p
  /\ Step([Commanded EXCEPT !.pending_completions =
             purge_completions_for_spawner(@, {p})])

SendActiveMessage(m, id, sender, source) ==
  /\ co.outcome[m] = "none"
  /\ \A x \in Messages : x < m => co.outcome[x] # "none"
  /\ Step(handle_send_active_message(
            [co EXCEPT !.outcome[m] = "waiting"], id,
            {[msg |-> m, id |-> id, sender |-> sender, source |-> source]}))

(* The child runs: it is active unless it was cancelled meanwhile.  A host *)
(* that must still persist a wake starts it deferred: messages stay parked *)
(* and the displaced record is kept until SettleDeferredStart.             *)
Started(id, definition_background, defer) ==
  LET child == co.pending[id]
      promoted == [co EXCEPT
        !.pending = Without(@, {id}),
        !.next_generation = @ + 1,
        !.active = Put(@, id,
          [req |-> child.req, cancelled |-> FALSE, reply |-> child.reply,
           deadline |-> child.deadline, handle_only |-> child.handle_only,
           definition_background |-> definition_background,
           generation |-> co.next_generation, finalizing |-> FALSE,
           in_flight |-> 0, clean |-> TRUE, reporter_waits |-> FALSE,
           wake |-> IF defer THEN child.wake ELSE None])]
  IN  /\ id \in DOMAIN co.pending
      /\ defer => child.wake # None
      /\ definition_background => "DefinitionBackground" \in Events
      /\ Step(IF child.cancelled THEN reject_spawn_ready_ids(co, {id})
              ELSE IF defer THEN promoted
              ELSE admit_spawn_ready_messages(promoted, id))

SettleDeferredStart(id, is_committed) ==
  LET committed == [co EXCEPT !.active[id].wake = None]
      aborted == [co EXCEPT !.active[id].req.surface = FALSE,
                            !.active[id].cancelled = TRUE,
                            !.active[id].finalizing = TRUE]
  IN  /\ id \in DOMAIN co.active
      /\ co.active[id].wake # None
      /\ ~co.active[id].finalizing
      /\ Step(IF is_committed THEN admit_spawn_ready_messages(committed, id)
              ELSE reject_spawn_ready_ids(aborted, {id}))

Finalizing(id) ==
  /\ id \in DOMAIN co.active
  /\ co.active[id].wake = None
  /\ ~co.active[id].finalizing
  /\ Step([co EXCEPT !.active[id].finalizing = TRUE,
                     !.active[id].reporter_waits = co.active[id].in_flight > 0])

(* A run future is ready.                                                  *)
RunEnded(id, success) ==
  /\ id \in co.runs
  /\ Step(begin_terminalization([co EXCEPT !.runs = @ \ {id}], id, success))

ActiveMessageEnded(f, how) ==
  Step(finish_active_message(co, f, how))

ProgressEnded(w) ==
  Step([co EXCEPT !.progress = @ \ {w},
                  !.query[w.query] = IF @ = "listening" THEN "answered" ELSE @])

TerminalPublished(p) ==
  /\ p.stage = "sent"
  /\ Step(handle_terminal_published([co EXCEPT !.publications = @ \ {p}], p.id))

(* A foreground caller went away, or the queue's sweep interval elapsed.   *)
ReapAbandonedCallers ==
  /\ \/ DOMAIN co.queued # {}
     \/ \E id \in DOMAIN co.pending \cup DOMAIN co.active : co.caller[id] = "gone"
  /\ Commanded # co
  /\ Step(Commanded)

----------------------------------------------------------------------------
(* process_deadlines: it sweeps abandoned callers, then serves what is     *)
(* due.  Items due at the same instant are served in consecutive steps.    *)

(* The caller gets an interim result; the child goes on.                   *)
ForegroundDeadline(id) ==
  LET due(map) == id \in DOMAIN map /\ map[id].deadline
      s == Commanded
      detached(map) == [x \in DOMAIN map |-> IF x # id THEN map[x] ELSE
        [map[x] EXCEPT !.reply = FALSE, !.handle_only = TRUE, !.deadline = FALSE]]
      handed_off == [s EXCEPT
        !.pending = detached(s.pending),
        !.active = detached(s.active),
        !.queued = [x \in DOMAIN s.queued |-> IF x # id THEN s.queued[x] ELSE
           [s.queued[x] EXCEPT !.reply = FALSE, !.deadline = FALSE]],
        !.caller[id] = IF @ = "listening" THEN "answered" ELSE @]
  IN  /\ due(co.pending) \/ due(co.active) \/ due(co.queued)
      /\ Step(IF due(s.pending) \/ due(s.active) \/ due(s.queued)
              THEN handed_off ELSE s)

SpawnReadyDeadline(m) ==
  /\ ~m.initial
  /\ LET s == Commanded IN
     Step(IF m \notin s.spawn_ready THEN s
          ELSE Answer([s EXCEPT !.spawn_ready = @ \ {m}], {m.msg}, "Refused"))

TeardownDeadline(p) ==
  Step(clear_teardown_drain(Commanded, {p} \cap Commanded.teardown_drains))

(* A query of an active child is answered with its progress, later.        *)
WaiterDeadline(w) ==
  LET s == Commanded
      timed_out == [s EXCEPT !.waiters = @ \ {w}]
  IN  Step(CASE w \notin s.waiters -> s
             [] w \in s.waiters /\ s.query[w.query] = "gone" -> timed_out
             [] w \in s.waiters /\ s.query[w.query] # "gone" /\ w.id \in DOMAIN s.active ->
                  [timed_out EXCEPT !.progress = @ \cup {w}]
             [] OTHER -> [timed_out EXCEPT !.query[w.query] = "answered"])

----------------------------------------------------------------------------
(* The environment: callers, token holders and the host's presentation     *)
(* tasks act between, never during, two iterations of the loop.            *)

CallerGone(id) ==
  /\ "CallerGone" \in Events
  /\ co.caller[id] = "listening"
  /\ co' = [co EXCEPT !.caller[id] = "gone"]

QueryGone(q) ==
  /\ "QueryGone" \in Events
  /\ co.query[q] = "listening"
  /\ co' = [co EXCEPT !.query[q] = "gone"]

(* The holder of a request's cancel token cancels it behind the actor's    *)
(* back.  A wake runs under a token of the coordinator's own.              *)
TokenCancelled(id) ==
  LET hit(map) == id \in DOMAIN map /\ map[id].wake = None /\ ~map[id].cancelled
      mark(map) == [x \in DOMAIN map |->
                      [map[x] EXCEPT !.cancelled = @ \/ x = id]]
  IN  /\ "TokenCancelled" \in Events
      /\ hit(co.queued) \/ hit(co.pending) \/ hit(co.active)
      /\ co' = [co EXCEPT !.queued = mark(co.queued), !.pending = mark(co.pending),
                          !.active = mark(co.active)]

(* The host presents a completion, sets the record's published flag and    *)
(* then tells the actor: two steps of another thread.                      *)
HostStoresPublished(p) ==
  /\ "Publish" \in Events
  /\ p.stage = "presenting"
  /\ co' = [co EXCEPT
       !.publications = (@ \ {p}) \cup {[p EXCEPT !.stage = "stored"]},
       !.completed = [id \in DOMAIN co.completed |->
          [co.completed[id] EXCEPT
             !.published = @ \/ (p.id = id /\ p.age = co.completed[id].age)]]]

(* Faulty variant: the actor is told before the flag is set. *)
HostSendsPublished_Early(p) ==
  /\ p.stage \in {"presenting", "stored"}
  /\ co' = [co EXCEPT
       !.publications = (@ \ {p}) \cup {[p EXCEPT !.stage = "sent"]}]

HostSendsPublished(p) ==
  /\ p.stage = "stored"
  /\ co' = [co EXCEPT
       !.publications = (@ \ {p}) \cup {[p EXCEPT !.stage = "sent"]}]

Command ==
  \/ \E id \in Ids, ingress \in Offers : Spawn(id, ingress)
  \/ \E q \in Queries, id \in Ids, from \in Senders \cup {None} : Query(q, id, from)
  \/ \E id \in Ids, from \in Senders \cup {None} : CancelOne(id, from)
  \/ \E prompt \in Prompts, p \in Sessions \cup {None} : CancelPrompt(prompt, p)
  \/ \E p \in Sessions : CancelSession(p)
  \/ \E r \in Runs, p \in Sessions \cup {None} : CancelWorkflow(r, p)
  \/ \E p \in Sessions, b \in BOOLEAN : TeardownSession(p, b)
  \/ \E p \in Sessions : OpenSpawnAdmission(p)
  \/ \E p \in Sessions, prompt \in Prompts : WaitPromptDrained(p, prompt)
  \/ \E p \in Sess : Completions(p)
  \/ \E m \in Messages, id \in Ids, sender \in Senders, source \in Sources :
       SendActiveMessage(m, id, sender, source)

HostReport ==
  \/ \E id \in Ids, b \in BOOLEAN, defer \in BOOLEAN : Started(id, b, defer)
  \/ \E id \in Ids, ok \in BOOLEAN : SettleDeferredStart(id, ok)
  \/ \E id \in Ids : Finalizing(id)
  \/ \E id \in Ids, success \in BOOLEAN : RunEnded(id, success)
  \/ \E f \in co.active_messages, how \in {"Accepted", "Refused", "Uncertain"} :
       ActiveMessageEnded(f, how)
  \/ \E w \in co.progress : ProgressEnded(w)
  \/ \E p \in co.publications : TerminalPublished(p)

Deadline ==
  \/ ReapAbandonedCallers
  \/ \E id \in Ids : ForegroundDeadline(id)
  \/ \E m \in co.spawn_ready : SpawnReadyDeadline(m)
  \/ \E p \in co.teardown_drains : TeardownDeadline(p)
  \/ \E w \in co.waiters : WaiterDeadline(w)

Environment ==
  \/ \E id \in Ids : CallerGone(id)
  \/ \E q \in Queries : QueryGone(q)
  \/ \E id \in Ids : TokenCancelled(id)
  \/ \E p \in co.publications : HostStoresPublished(p)
  \/ \E p \in co.publications : HostSendsPublished(p)

Next == Command \/ HostReport \/ Deadline \/ Environment

Spec == Init /\ [][Next]_vars
----------------------------------------------------------------------------
(* The records of the coordinator's maps.                                  *)

CompletedChild ==
  [req : Request, age : Nat, published : BOOLEAN, address : BOOLEAN,
   started : BOOLEAN]

QueuedSpawn ==
  [req : Request, cancelled : BOOLEAN, reply : BOOLEAN, deadline : BOOLEAN,
   wake : CompletedChild \cup {None}, queued_at : Nat]

PendingChild ==
  [req : Request, cancelled : BOOLEAN, reply : BOOLEAN, deadline : BOOLEAN,
   handle_only : BOOLEAN, wake : CompletedChild \cup {None}]

ActiveChild ==
  [req : Request, cancelled : BOOLEAN, reply : BOOLEAN, deadline : BOOLEAN,
   handle_only : BOOLEAN, definition_background : BOOLEAN, generation : Nat,
   finalizing : BOOLEAN, in_flight : Nat, clean : BOOLEAN,
   reporter_waits : BOOLEAN, wake : CompletedChild \cup {None}]

SpawnNode == [root : Sess, chain : Seq(Ids), surface : BOOLEAN]

MapOf(map, R) == DOMAIN map \subseteq Ids /\ \A id \in DOMAIN map : map[id] \in R

(* Every field of the coordinator keeps its type; in particular a child's  *)
(* in-flight count, a usize the code decrements, never goes below zero.    *)
TypeOK ==
  /\ MapOf(co.queued, QueuedSpawn)
  /\ MapOf(co.pending, PendingChild)
  /\ MapOf(co.active, ActiveChild)
  /\ MapOf(co.completed, CompletedChild)
  /\ MapOf(co.graph, SpawnNode)
  /\ MapOf(co.terminal_outputs, BOOLEAN)
  /\ co.next_completion_age \in Nat /\ co.next_generation \in Nat
  /\ co.waiters \subseteq [query : Queries, id : Ids]
  /\ co.progress \subseteq [query : Queries, id : Ids]
  /\ co.drain_waiters \subseteq [session : Sessions, prompt : Prompts]
  /\ co.workflow_cancel_waiters \subseteq Runs
  /\ co.teardown_drains \subseteq Sessions
  /\ co.spawn_blocked_sessions \subseteq Sessions
  /\ co.pending_wakes \subseteq
       [msg : Messages, id : Ids, sender : Senders, source : Sources]
  /\ co.spawn_ready \subseteq
       [msg : Messages, id : Ids, sender : Senders, source : Sources, initial : BOOLEAN]
  /\ co.active_messages \subseteq [msg : Messages, id : Ids, generation : Nat]
  /\ co.runs \subseteq Ids
  /\ co.publications \subseteq
       [id : Ids, age : Nat, stage : {"presenting", "stored", "sent"}]
  /\ co.caller \in [Ids -> {"none", "listening", "answered", "gone"}]
  /\ co.query \in [Queries -> {"none", "listening", "answered", "gone"}]
  /\ co.outcome \in [Messages -> {"none", "waiting", "Accepted", "Refused", "Uncertain"}]

----------------------------------------------------------------------------
(* Safety.                                                                 *)

Live(s) == DOMAIN s.queued \cup DOMAIN s.pending \cup DOMAIN s.active

(* A child has one home: it is in at most one of the queue, pending,       *)
(* active and completed, though spawns, wakes, restored records and the    *)
(* queue all move records between these four maps.                         *)
OneHome ==
  /\ DOMAIN co.queued \cap DOMAIN co.pending = {}
  /\ DOMAIN co.queued \cap DOMAIN co.active = {}
  /\ DOMAIN co.queued \cap DOMAIN co.completed = {}
  /\ DOMAIN co.pending \cap DOMAIN co.active = {}
  /\ DOMAIN co.pending \cap DOMAIN co.completed = {}
  /\ DOMAIN co.active \cap DOMAIN co.completed = {}

(* The spawn graph has a node for exactly the children that have a home: a *)
(* node is neither leaked when a record is evicted or ages out in a wake,  *)
(* nor dropped while something can still be looked up by the id.           *)
GraphMatches == DOMAIN co.graph = Live(co) \cup DOMAIN co.completed

(* The retention queue lists each completed record once, oldest completion *)
(* first, and never more than MAX_COMPLETED_ENTRIES, also after a failed   *)
(* wake put an old record back: evict_completed_overflow pops the oldest.  *)
RetentionOrdered ==
  /\ ToSet(co.completed_order) = DOMAIN co.completed
  /\ Len(co.completed_order) <= MaxCompleted
  /\ \A i, j \in DOMAIN co.completed_order :
       i < j => co.completed[co.completed_order[i]].age
                  < co.completed[co.completed_order[j]].age

(* The concurrent limit: a session's direct and nested non-workflow        *)
(* children that are pending or active never exceed it, whichever of a     *)
(* spawn, a wake or the queue started them.                                *)
ConcurrencyLimited ==
  \A p \in Sess : session_running_count(co, p) <= MaxConcurrent

(* An entry waits in the queue only while its session is full and not      *)
(* stopped, so the last finish_child of a session starts or ends it and    *)
(* the actor never meets the exit condition of its loop with a spawn still *)
(* queued (the debug_assert there); workflow children are never queued.    *)
QueuedMeansFull ==
  \A id \in DOMAIN co.queued :
    LET req == co.queued[id].req IN
    /\ req.workflow = None
    /\ req.session \notin co.spawn_blocked_sessions
    /\ ~has_capacity(session_running_count(co, req.session))
    /\ co.runs # {} \/ co.terminal_outputs # NoMap

(* Exactly the children that can still end on their own have a run future: *)
(* the pending ones and the active ones whose output has not arrived. An   *)
(* output is held back only for a finalizing child with admissions in      *)
(* flight, whose end releases it.                                          *)
RunsAccounted ==
  /\ co.runs = DOMAIN co.pending \cup (DOMAIN co.active \ DOMAIN co.terminal_outputs)
  /\ \A id \in DOMAIN co.terminal_outputs :
       /\ id \in DOMAIN co.active
       /\ co.active[id].finalizing
       /\ co.active[id].in_flight > 0

(* A child's in-flight count is the number of its admissions that have not *)
(* ended, never above the per-child cap, and a reporter waits in           *)
(* Finalizing only while there is one to wait for.                         *)
AdmissionsCounted ==
  \A id \in DOMAIN co.active :
    LET child == co.active[id] IN
    /\ child.in_flight <= MaxPerChild
    /\ child.in_flight = Cardinality({f \in co.active_messages :
                                        f.id = id /\ f.generation = child.generation})
    /\ child.reporter_waits => child.finalizing /\ child.in_flight > 0

(* A sender that is waiting for an outcome is in exactly one of the places *)
(* that will answer it (parked for a wake, parked for a start, in flight), *)
(* and nothing there belongs to a sender that was already answered.        *)
SendersAccounted ==
  LET at(m) == Cardinality({r \in co.pending_wakes : r.msg = m})
                 + Cardinality({r \in co.spawn_ready : r.msg = m})
                 + Cardinality({r \in co.active_messages : r.msg = m})
  IN  \A m \in Messages : at(m) = IF co.outcome[m] = "waiting" THEN 1 ELSE 0

(* A message parked for a start has a child that will start, that is       *)
(* active under a deferred start not yet settled, or whose held-back       *)
(* output will end it: each of these takes the message off the list.       *)
ParkedSendHasStart ==
  \A m \in co.spawn_ready :
    \/ m.id \in DOMAIN co.queued \cup DOMAIN co.pending
    \/ /\ m.id \in DOMAIN co.active
       /\ co.active[m.id].wake # None
       /\ co.active[m.id].finalizing => m.id \in DOMAIN co.terminal_outputs

(* No lost wake-up: a message parked until a completion is published has a *)
(* publication of that child under way, whose report will retry it.        *)
ParkedWakeHasPublication ==
  \A m \in co.pending_wakes : \E p \in co.publications : p.id = m.id

(* A blocking query that is listening is parked on a live child or has its *)
(* progress answer under way; a spawn caller that is listening belongs to  *)
(* a live child that still holds its reply channel.                        *)
CallersAccounted ==
  /\ \A w \in co.waiters : w.id \in Live(co)
  /\ \A q \in Queries : co.query[q] = "listening" =>
       \E w \in co.waiters \cup co.progress : w.query = q
  /\ \A id \in Ids : co.caller[id] = "listening" =>
       \/ id \in DOMAIN co.queued /\ co.queued[id].reply
       \/ id \in DOMAIN co.pending /\ co.pending[id].reply
       \/ id \in DOMAIN co.active /\ co.active[id].reply

(* A parked prompt drain has a turn-blocking child to wait for, and a      *)
(* parked workflow cancel an outstanding child of its run: neither is left *)
(* waiting after the step that ended the last one.                         *)
DrainsJustified ==
  /\ \A w \in co.drain_waiters : live_turn_blocking_ids(co, w.session, w.prompt) # {}
  /\ \A r \in co.workflow_cancel_waiters : workflow_outstanding(co, r) # {}

(* While a delete drains, spawn admission of the session stays closed.     *)
DrainHoldsAdmission == co.teardown_drains \subseteq co.spawn_blocked_sessions

(* "A finished spawner has no reader left" (the comment on                 *)
(* purge_completions_for_spawner): a completion is buffered for a child's  *)
(* own session only while the child is active.                             *)
BufferHasReader ==
  \A i \in DOMAIN co.pending_completions :
    LET owner == co.pending_completions[i].owner IN
    owner \in Ids => owner \in DOMAIN co.active

(* A child that ends leaves nothing buffered for its session, unless it    *)
(* ran under a wake whose deferred start was never committed: that one     *)
(* alone ends without the purge.                                           *)
BufferPurged ==
  [][\A i \in DOMAIN co'.pending_completions :
       LET owner == co'.pending_completions[i].owner IN
       owner \in DOMAIN co.active \ DOMAIN co'.active =>
         co.active[owner].wake # None]_vars

(* The completed record that a wake in progress has displaced.             *)
waking(s, id) ==
  IF id \in DOMAIN s.queued THEN s.queued[id].wake
  ELSE IF id \in DOMAIN s.pending THEN s.pending[id].wake
  ELSE IF id \in DOMAIN s.active THEN s.active[id].wake ELSE None

(* A completed record is never lost to a wake: it leaves the map only into *)
(* the wake that displaced it, or to eviction, when MAX_COMPLETED_ENTRIES  *)
(* younger ones are kept; a wake that ends before its start commits puts   *)
(* it back, unless MAX_COMPLETED_ENTRIES children completed meanwhile.     *)
RecordsKept ==
  [][\A id \in Ids :
       /\ id \in DOMAIN co.completed /\ id \notin DOMAIN co'.completed =>
            \/ waking(co', id) = co.completed[id]
            \/ Cardinality({x \in DOMAIN co'.completed :
                              co'.completed[x].age > co.completed[id].age})
                 = MaxCompleted
       /\ waking(co, id) # None /\ id \notin Live(co') /\ id \notin DOMAIN co'.completed =>
            co'.next_completion_age - waking(co, id).age > MaxCompleted]_vars

(* Queue entries of one session start in arrival order: an entry never     *)
(* starts while an earlier one of its session stays queued.                *)
StartsInArrivalOrder ==
  [][\A x, y \in DOMAIN co.queued :
       /\ co.queued[x].req.session = co.queued[y].req.session
       /\ co.queued[x].queued_at < co.queued[y].queued_at
       /\ y \in DOMAIN co'.pending
       => x \notin DOMAIN co'.queued]_vars

(* Stop holds: while a session stays stopped or draining, none of its      *)
(* non-workflow children newly starts and nothing joins its queue, by a    *)
(* spawn, a wake or the queue.                                             *)
StopHolds ==
  [][\A p \in co.spawn_blocked_sessions \cap co'.spawn_blocked_sessions :
       /\ session_running(co', p) \subseteq session_running(co, p)
       /\ InSession(co'.queued, p) = {}]_vars

(* "A detached late TaskTool spawn cannot outrun Stop" (the comment on     *)
(* spawn_blocked_sessions): a non-workflow child registered by a spawn has *)
(* no stopped session above it, neither its own nor the one that the child *)
(* which spawned it belongs to.                                            *)
LateSpawnRefused ==
  [][\A id \in Live(co') \ DOMAIN co.graph :
       LET req == IF id \in DOMAIN co'.queued THEN co'.queued[id].req
                  ELSE co'.pending[id].req
           root == IF req.session \in DOMAIN co.completed
                   THEN co.completed[req.session].req.session ELSE req.session
       IN  req.workflow = None => root \notin co.spawn_blocked_sessions]_vars

----------------------------------------------------------------------------
(* Liveness.  The futures the actor polls make progress: every child run   *)
(* ends at some time, an admission settles (its lease has a deadline), and *)
(* the host's presentation of a completion ends.  Callers owe nothing.     *)
(* Weak fairness of RunEnded(id), of ActiveMessageEnded and of the three   *)
(* steps of a publication: each is enabled exactly while its item is in    *)
(* the set, and taking it (the last of the three) removes the item, so     *)
(* fairness says that the set is infinitely often without the item.        *)
Fairness ==
  /\ \A id \in Ids : []<>(id \notin co.runs)
  /\ \A m \in Messages : []<>(\A f \in co.active_messages : f.msg # m)
  /\ \A id \in Ids : []<>(\A p \in co.publications : p.id # id)

FairSpec == Spec /\ Fairness

(* Nothing waits in the queue forever: a queued spawn or wake starts or is *)
(* ended, because every slot that is freed is offered to the queue.        *)
QueueDrains == \A id \in Ids : id \in DOMAIN co.queued ~> id \notin DOMAIN co.queued

(* Every sender gets an outcome, through parking for a publication, for a  *)
(* queue slot, for a start and for the admission itself, even if no        *)
(* deadline of a parked send ever fires.                                   *)
SendersAnswered ==
  \A m \in Messages : co.outcome[m] = "waiting" ~> co.outcome[m] # "waiting"

============================================================================
