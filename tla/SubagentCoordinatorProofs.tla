--------------------- MODULE SubagentCoordinatorProofs ---------------------
(***************************************************************************)
(* Theorems about the subagent coordinator, for any children, sessions,    *)
(* messages and limits.                                                    *)
(*                                                                         *)
(* A method of the coordinator takes a record out of one of its four maps  *)
(* and puts it into another in a later call, so between the two calls the  *)
(* record is in none.  The invariant of the methods is therefore about a   *)
(* coordinator with a set X of children in transit: Apart(s, X).           *)
(***************************************************************************)
EXTENDS SubagentCoordinator, TLAPS

(* The coordinator's fields.                                               *)
Fields ==
  {"queued", "pending", "active", "completed", "completed_order",
   "next_completion_age", "next_generation", "graph", "waiters", "progress",
   "drain_waiters", "workflow_cancel_waiters", "teardown_drains",
   "spawn_blocked_sessions", "pending_completions", "pending_wakes",
   "spawn_ready", "active_messages", "terminal_outputs", "runs",
   "publications", "caller", "query", "outcome"}

(* Admission is closed for every session whose delete drains.              *)
Held(s) == s.teardown_drains \subseteq s.spawn_blocked_sessions

(* The four homes of a child and the children in transit are apart.        *)
Apart(s, X) ==
  /\ DOMAIN s = Fields
  /\ Held(s)
  /\ DOMAIN s.queued \cap DOMAIN s.pending = {}
  /\ DOMAIN s.queued \cap DOMAIN s.active = {}
  /\ DOMAIN s.queued \cap DOMAIN s.completed = {}
  /\ DOMAIN s.pending \cap DOMAIN s.active = {}
  /\ DOMAIN s.pending \cap DOMAIN s.completed = {}
  /\ DOMAIN s.active \cap DOMAIN s.completed = {}
  /\ X \cap DOMAIN s.queued = {}
  /\ X \cap DOMAIN s.pending = {}
  /\ X \cap DOMAIN s.active = {}
  /\ X \cap DOMAIN s.completed = {}

(* t has the same children in the same homes.                              *)
SameHomes(s, t) ==
  /\ DOMAIN t = Fields
  /\ DOMAIN t.queued = DOMAIN s.queued
  /\ DOMAIN t.pending = DOMAIN s.pending
  /\ DOMAIN t.active = DOMAIN s.active
  /\ DOMAIN t.completed = DOMAIN s.completed
  /\ Held(s) => Held(t)

----------------------------------------------------------------------------
(* Methods that move no child.                                             *)

(* Answering senders, queries, drains and workflow cancels moves no child. *)
LEMMA AnswerSame ==
  ASSUME NEW s, NEW msgs, NEW how, DOMAIN s = Fields
  PROVE  SameHomes(s, Answer(s, msgs, how))
BY DEF Answer, SameHomes, Fields, Held

(* Refusing sends that are parked for a start moves no child.              *)
LEMMA RejectSpawnReadySame ==
  ASSUME NEW s, NEW ids, DOMAIN s = Fields
  PROVE  SameHomes(s, reject_spawn_ready_ids(s, ids))
<1> DEFINE doomed == {m \in s.spawn_ready : m.id \in ids}
           t == [s EXCEPT !.spawn_ready = @ \ doomed]
<1>1. SameHomes(s, t) BY DEF SameHomes, Fields, Held
<1> HIDE DEF t
<1>2. SameHomes(t, Answer(t, MsgsOf(doomed), "Refused"))
      BY <1>1, AnswerSame DEF SameHomes
<1> QED BY <1>1, <1>2 DEF reject_spawn_ready_ids, SameHomes, t

(* Refusing messages that are parked for a wake moves no child.            *)
LEMMA RejectPendingWakesSame ==
  ASSUME NEW s, NEW ids, DOMAIN s = Fields
  PROVE  SameHomes(s, reject_pending_wakes_for_ids(s, ids))
<1> DEFINE doomed == {m \in s.pending_wakes : m.id \in ids}
           t == [s EXCEPT !.pending_wakes = @ \ doomed]
<1>1. SameHomes(s, t) BY DEF SameHomes, Fields, Held
<1> HIDE DEF t
<1>2. SameHomes(t, Answer(t, MsgsOf(doomed), "Refused"))
      BY <1>1, AnswerSame DEF SameHomes
<1> QED BY <1>1, <1>2 DEF reject_pending_wakes_for_ids, SameHomes, t

(* Answering blocking queries moves no child.                              *)
LEMMA ResolveWaitersSame ==
  ASSUME NEW s, NEW ids, DOMAIN s = Fields
  PROVE  SameHomes(s, resolve_waiters(s, ids))
BY DEF resolve_waiters, SameHomes, Fields, Held

(* Ending a delete's drain moves no child.                                 *)
LEMMA TeardownDrainSame ==
  ASSUME NEW s, NEW ps, DOMAIN s = Fields
  PROVE  /\ SameHomes(s, clear_teardown_drain(s, ps))
         /\ SameHomes(s, resolve_teardown_drain_waiters(s, ps))
BY DEF resolve_teardown_drain_waiters, clear_teardown_drain, SameHomes, Fields, Held

(* Answering workflow cancels moves no child.                              *)
LEMMA WorkflowCancelSame ==
  ASSUME NEW s, NEW rs, DOMAIN s = Fields
  PROVE  SameHomes(s, resolve_workflow_cancel_waiters(s, rs))
BY DEF resolve_workflow_cancel_waiters, SameHomes, Fields, Held

(* A method that moves no child keeps the homes apart.                     *)
LEMMA SameApart ==
  ASSUME NEW s, NEW t, NEW X, Apart(s, X), SameHomes(s, t)
  PROVE  Apart(t, X)
BY DEF Apart, SameHomes

----------------------------------------------------------------------------
(* Methods that bring children in transit to a home.                       *)

(* finish_child's tail files the children it was given as completed.       *)
LEMMA FileApart ==
  ASSUME NEW s, NEW recs, NEW seq, NEW X,
         Apart(s, X), DOMAIN recs \subseteq X
  PROVE  Apart(file_completions(s, recs, seq), X \ DOMAIN recs)
<1> DEFINE ids == DOMAIN recs
           age(id) == s.next_completion_age + IndexIn(seq, id) - 1
           buffered == buffer_completion(s, [id \in ids |-> recs[id].req], seq)
           w == resolve_waiters(s, ids)
           done == [id \in ids |->
                      [req |-> recs[id].req, age |-> age(id), published |-> FALSE,
                       address |-> recs[id].address, started |-> recs[id].started]]
           filed == [w EXCEPT
             !.caller = [id \in Ids |->
                           IF id \in ids /\ recs[id].reply /\ s.caller[id] = "listening"
                           THEN "answered" ELSE s.caller[id]],
             !.pending_completions = purge_completions_for_spawner(buffered, ids),
             !.completed = Overlay(@, done),
             !.completed_order = @ \o seq,
             !.next_completion_age = @ + Len(seq),
             !.publications = @ \cup
                {[id |-> id, age |-> age(id), stage |-> "presenting"] : id \in ids}]
           cancels == resolve_workflow_cancel_waiters(filed,
                        {recs[id].req.workflow : id \in ids})
<1>1. SameHomes(s, w) BY ResolveWaitersSame DEF Apart
<1>2. DOMAIN done = ids OBVIOUS
<1> HIDE DEF w, done
<1>3. /\ DOMAIN filed = Fields
      /\ DOMAIN filed.queued = DOMAIN w.queued
      /\ DOMAIN filed.pending = DOMAIN w.pending
      /\ DOMAIN filed.active = DOMAIN w.active
      /\ filed.completed = Overlay(w.completed, done)
      /\ Held(w) => Held(filed)
      BY <1>1 DEF SameHomes, Fields, Held
<1>4. DOMAIN filed.completed = DOMAIN s.completed \cup ids
      BY <1>1, <1>2, <1>3 DEF Overlay, SameHomes
<1> HIDE DEF filed
<1>5. SameHomes(filed, cancels) BY <1>3, WorkflowCancelSame
<1> HIDE DEF cancels
<1>6. SameHomes(cancels, resolve_teardown_drain_waiters(cancels,
                            {recs[id].req.session : id \in ids}))
      BY <1>5, TeardownDrainSame DEF SameHomes
<1>7. file_completions(s, recs, seq)
        = resolve_teardown_drain_waiters(cancels, {recs[id].req.session : id \in ids})
      BY DEF file_completions, cancels, filed, w, done
<1>8. Apart(filed, X \ ids) BY <1>1, <1>3, <1>4 DEF SameHomes, Apart
<1>9. Apart(cancels, X \ ids) BY <1>5, <1>8, SameApart
<1> DEFINE u == resolve_teardown_drain_waiters(cancels,
                  {recs[id].req.session : id \in ids})
<1> HIDE DEF u
<1>10. Apart(u, X \ ids) BY <1>6, <1>9, SameApart DEF u
<1> QED BY <1>7, <1>10 DEF u

(* A wake that ended before its start restores or drops the record it had  *)
(* displaced.                                                              *)
LEMMA RestoreApart ==
  ASSUME NEW s, NEW displaced, NEW now, NEW X,
         Apart(s, X), DOMAIN displaced \subseteq X
  PROVE  Apart(restore_displaced_completion(s, displaced, now),
               X \ DOMAIN displaced)
<1> DEFINE ids == DOMAIN displaced
           kept == {id \in ids : retained(displaced[id].age, now[id])}
           all == Overlay(s.completed, [id \in kept |-> displaced[id]])
           w == resolve_waiters(s, ids)
           t == [w EXCEPT !.completed = all,
                          !.completed_order = reinsert(@, all, kept),
                          !.graph = Without(@, ids \ kept)]
<1>1. SameHomes(s, w) BY ResolveWaitersSame DEF Apart
<1>2. DOMAIN all = DOMAIN s.completed \cup kept BY DEF Overlay
<1> HIDE DEF w, all
<1>3. /\ DOMAIN t = Fields
      /\ DOMAIN t.queued = DOMAIN w.queued
      /\ DOMAIN t.pending = DOMAIN w.pending
      /\ DOMAIN t.active = DOMAIN w.active
      /\ t.completed = all
      /\ Held(w) => Held(t)
      BY <1>1 DEF SameHomes, Fields, Held
<1>4. restore_displaced_completion(s, displaced, now) = t
      BY DEF restore_displaced_completion, all, w
<1> HIDE DEF t, kept
<1>5. kept \subseteq X BY DEF kept
<1>6. kept \subseteq ids BY DEF kept
<1> QED BY <1>1, <1>2, <1>3, <1>4, <1>5, <1>6 DEF SameHomes, Apart

(* Started children become pending.                                        *)
LEMMA StartApart ==
  ASSUME NEW s, NEW recs, NEW X,
         Apart(s, X), DOMAIN recs \subseteq X
  PROVE  Apart(start_children(s, recs), X \ DOMAIN recs)
<1> DEFINE fresh == [id \in DOMAIN recs |-> fresh_pending(recs[id])]
           t == [s EXCEPT !.pending = Overlay(@, fresh),
                          !.runs = @ \cup DOMAIN recs]
<1>1. DOMAIN fresh = DOMAIN recs OBVIOUS
<1> HIDE DEF fresh
<1>2. /\ DOMAIN t = Fields
      /\ t.queued = s.queued /\ t.active = s.active /\ t.completed = s.completed
      /\ t.pending = Overlay(s.pending, fresh)
      /\ Held(t)
      BY DEF Apart, Fields, Held
<1>3. DOMAIN t.pending = DOMAIN s.pending \cup DOMAIN recs
      BY <1>1, <1>2 DEF Overlay
<1>4. start_children(s, recs) = t BY DEF start_children, fresh
<1> HIDE DEF t
<1> QED BY <1>2, <1>3, <1>4 DEF Apart

(* Queue entries that end without starting are restored or filed.          *)
LEMMA FinishCancelledApart ==
  ASSUME NEW s, NEW entries, NEW X,
         Apart(s, X), DOMAIN entries \subseteq X
  PROVE  Apart(finish_cancelled_queued(s, entries), X \ DOMAIN entries)
<1> DEFINE wakes == {id \in DOMAIN entries : entries[id].wake # None}
           spawns == DOMAIN entries \ wakes
           earlier(id) == {x \in spawns : entries[x].queued_at < entries[id].queued_at}
           displaced == [id \in wakes |-> entries[id].wake]
           now == [id \in wakes |-> s.next_completion_age + Cardinality(earlier(id))]
           restored == restore_displaced_completion(s, displaced, now)
           told == reject_spawn_ready_ids(restored, spawns)
           recs == [id \in spawns |->
                      [req |-> entries[id].req, reply |-> entries[id].reply,
                       address |-> FALSE, started |-> FALSE]]
<1>1. finish_cancelled_queued(s, entries)
        = file_completions(told, recs, InArrivalOrder(entries, spawns))
      BY DEF finish_cancelled_queued
<1>2. DOMAIN displaced = wakes /\ DOMAIN recs = spawns
      OBVIOUS
<1>3. wakes \subseteq DOMAIN entries
      OBVIOUS
<1> HIDE DEF wakes, displaced, now, recs
<1>4. Apart(restored, X \ wakes)
      BY <1>2, <1>3, RestoreApart
<1> HIDE DEF restored
<1>5. SameHomes(restored, told)
      BY <1>4, RejectSpawnReadySame DEF Apart
<1>6. Apart(told, X \ wakes)
      BY <1>4, <1>5 DEF Apart, SameHomes
<1> HIDE DEF told
<1>7. Apart(file_completions(told, recs, InArrivalOrder(entries, spawns)),
            (X \ wakes) \ spawns)
      BY <1>2, <1>3, <1>6, FileApart
<1>8. (X \ wakes) \ spawns = X \ DOMAIN entries
      BY <1>3
<1> QED BY <1>1, <1>7, <1>8

(* Entries taken out of the queue are in transit.                          *)
LEMMA DequeueApart ==
  ASSUME NEW s, NEW X, NEW D,
         Apart(s, X), D \subseteq DOMAIN s.queued
  PROVE  Apart([s EXCEPT !.queued = Without(@, D)], X \cup D)
<1> DEFINE t == [s EXCEPT !.queued = Without(@, D)]
<1>1. /\ DOMAIN t = Fields
      /\ t.queued = Without(s.queued, D)
      /\ t.pending = s.pending /\ t.active = s.active /\ t.completed = s.completed
      /\ Held(t)
      BY DEF Apart, Fields, Held
<1>2. DOMAIN t.queued = DOMAIN s.queued \ D
      BY <1>1 DEF Without
<1> HIDE DEF t
<1>3. Apart(t, X \cup D) BY <1>1, <1>2 DEF Apart
<1> QED BY <1>3 DEF t

(* Offering free slots to the queue.                                       *)
LEMMA StartQueuedApart ==
  ASSUME NEW s, NEW X, Apart(s, X)
  PROVE  Apart(start_queued_within_capacity(s), X)
<1> DEFINE live == live_queued(s)
           starting == {id \in live :
             has_capacity(session_running_count(s, s.queued[id].req.session)
                            + Cardinality(queued_ahead(s, id)))}
           cancelled == DOMAIN s.queued \ live
           out == [s EXCEPT !.queued = Without(@, starting \cup cancelled)]
           go == Restrict(s.queued, starting)
           end == Restrict(s.queued, cancelled)
<1>1. start_queued_within_capacity(s)
        = finish_cancelled_queued(start_children(out, go), end)
      BY DEF start_queued_within_capacity
<1>2. live \subseteq DOMAIN s.queued BY DEF live_queued
<1> HIDE DEF live
<1>3. /\ starting \subseteq live
      /\ DOMAIN go = starting /\ DOMAIN end = cancelled
      BY DEF Restrict
<1> HIDE DEF starting, go, end
<1>4. Apart(out, X \cup (starting \cup cancelled))
      BY <1>2, <1>3, DequeueApart
<1> HIDE DEF out
<1>5. Apart(start_children(out, go), (X \cup (starting \cup cancelled)) \ starting)
      BY <1>3, <1>4, StartApart
<1>6. X \cap DOMAIN s.queued = {} BY DEF Apart
<1>7. (X \cup (starting \cup cancelled)) \ starting = X \cup cancelled
      BY <1>2, <1>3, <1>6
<1>8. Apart(finish_cancelled_queued(start_children(out, go), end),
            (X \cup cancelled) \ cancelled)
      BY <1>3, <1>5, <1>7, FinishCancelledApart
<1>9. (X \cup cancelled) \ cancelled = X BY <1>6
<1> QED BY <1>1, <1>8, <1>9

(* Entries removed by a cancellation or a sweep.                           *)
LEMMA RemoveQueuedApart ==
  ASSUME NEW s, NEW ids, NEW X, Apart(s, X)
  PROVE  Apart(remove_queued(s, ids), X)
<1> DEFINE gone == Restrict(s.queued, ids \cap DOMAIN s.queued)
           D == DOMAIN gone
           out == [s EXCEPT !.queued = Without(@, D)]
           told == reject_spawn_ready_ids(out, D)
           ended == finish_cancelled_queued(told, gone)
<1>1. remove_queued(s, ids) = IF \E id \in D : gone[id].wake = None
                              THEN start_queued_within_capacity(ended) ELSE ended
      BY DEF remove_queued
<1>2. D \subseteq DOMAIN s.queued BY DEF Restrict
<1> HIDE DEF gone
<1>3. Apart(out, X \cup D) BY <1>2, DequeueApart
<1> HIDE DEF out
<1>4. SameHomes(out, told) BY <1>3, RejectSpawnReadySame DEF Apart
<1>5. Apart(told, X \cup D) BY <1>3, <1>4 DEF Apart, SameHomes
<1> HIDE DEF told
<1>6. Apart(ended, (X \cup D) \ D) BY <1>5, FinishCancelledApart
<1>7. (X \cup D) \ D = X BY <1>2 DEF Apart
<1>8. Apart(ended, X) BY <1>6, <1>7
<1> HIDE DEF ended
<1>9. Apart(start_queued_within_capacity(ended), X) BY <1>8, StartQueuedApart
<1> QED BY <1>1, <1>8, <1>9

(* A child that ends leaves pending or active and is restored or filed.    *)
LEMMA FinishChildApart ==
  ASSUME NEW s, NEW id, NEW success, Apart(s, {})
  PROVE  Apart(finish_child(s, id, success), {})
<1> DEFINE rejected == reject_spawn_ready_ids(s, {id})
           rec == IF id \in DOMAIN s.active THEN s.active[id] ELSE s.pending[id]
           left == [rejected EXCEPT !.active = Without(@, {id}),
                                    !.pending = Without(@, {id})]
           displaced == [x \in {id} |-> rec.wake]
           now == [x \in {id} |-> s.next_completion_age]
           restored == restore_displaced_completion(left, displaced, now)
           resumed == resolve_teardown_drain_waiters(restored, {rec.wake.req.session})
           recs == [x \in {id} |->
                      [req |-> rec.req, reply |-> rec.reply,
                       address |-> rec.req.workflow = None,
                       started |-> id \in DOMAIN s.active]]
           filed == file_completions(left, recs, <<id>>)
<1>1. finish_child(s, id, success) =
        IF id \notin DOMAIN s.active \cup DOMAIN s.pending THEN rejected
        ELSE start_queued_within_capacity(
               IF ~success /\ rec.wake # None THEN resumed ELSE filed)
      BY DEF finish_child
<1>2. SameHomes(s, rejected) BY RejectSpawnReadySame DEF Apart
<1>3. Apart(rejected, {}) BY <1>2 DEF SameHomes, Apart
<1>4. DOMAIN displaced = {id} /\ DOMAIN recs = {id} OBVIOUS
<1> HIDE DEF rejected, rec, displaced, now, recs
<1>5. ASSUME id \in DOMAIN s.active \cup DOMAIN s.pending
      PROVE  Apart(finish_child(s, id, success), {})
  <2>1. /\ DOMAIN left = Fields
        /\ left.queued = rejected.queued /\ left.completed = rejected.completed
        /\ left.active = Without(rejected.active, {id})
        /\ left.pending = Without(rejected.pending, {id})
        /\ Held(left)
        BY <1>3 DEF Apart, Fields, Held
  <2>2. /\ DOMAIN left.active = DOMAIN s.active \ {id}
        /\ DOMAIN left.pending = DOMAIN s.pending \ {id}
        BY <1>2, <2>1 DEF Without, SameHomes
  <2> HIDE DEF left
  <2>3. Apart(left, {id}) BY <1>2, <1>5, <2>1, <2>2 DEF Apart, SameHomes
  <2>4. Apart(restored, {}) BY <1>4, <2>3, RestoreApart
  <2> HIDE DEF restored
  <2>5. SameHomes(restored, resumed) BY <2>4, TeardownDrainSame DEF Apart
  <2>6. Apart(resumed, {}) BY <2>4, <2>5 DEF Apart, SameHomes
  <2>7. Apart(filed, {}) BY <1>4, <2>3, FileApart
  <2> HIDE DEF resumed, filed
  <2> QED BY <1>1, <1>5, <2>6, <2>7, StartQueuedApart
<1> QED BY <1>1, <1>3, <1>5

----------------------------------------------------------------------------
(* The methods above finish_child.                                         *)

(* A run that ended finishes its child, or leaves its output held back.    *)
LEMMA TerminalizationApart ==
  ASSUME NEW s, NEW id, NEW success, Apart(s, {})
  PROVE  Apart(begin_terminalization(s, id, success), {})
<1> DEFINE child == s.active[id]
           closing == [s EXCEPT !.active[id].finalizing = TRUE]
           held == [closing EXCEPT !.terminal_outputs = Put(@, id, success)]
<1>1. SameHomes(s, closing) BY DEF Apart, SameHomes, Fields, Held
<1>2. Apart(closing, {}) BY <1>1, SameApart
<1>3. SameHomes(closing, held) BY <1>2 DEF Apart, SameHomes, Fields, Held
<1>4. Apart(held, {}) BY <1>2, <1>3, SameApart
<1>5. Apart(finish_child(s, id, success), {}) BY FinishChildApart
<1> HIDE DEF held, closing
<1>6. Apart(finish_terminalized_child(closing, id, success, child.clean), {})
      BY <1>2, FinishChildApart DEF finish_terminalized_child
<1>7. begin_terminalization(s, id, success)
        = CASE id \notin DOMAIN s.active -> finish_child(s, id, success)
            [] id \in DOMAIN s.active /\ child.in_flight = 0 ->
                 finish_terminalized_child(closing, id, success, child.clean)
            [] OTHER -> held
      BY DEF begin_terminalization, held, closing
<1> QED BY <1>4, <1>5, <1>6, <1>7

(* Admitting messages moves no child.                                      *)
LEMMA AdmitMessagesSame ==
  ASSUME NEW s, NEW id, NEW msgs, DOMAIN s = Fields
  PROVE  SameHomes(s, admit_active_messages(s, id, msgs))
<1> DEFINE child == s.active[id]
           ahead(m) == {x \in msgs : x.msg < m.msg}
           taken == {m \in msgs : admissible(child, Cardinality(ahead(m)))}
           t == [s EXCEPT
                !.active[id] = begin_admissions(@, Cardinality(taken)),
                !.active_messages = @ \cup
                   {[msg |-> m.msg, id |-> id, generation |-> child.generation] : m \in taken}]
<1>1. SameHomes(s, t) BY DEF SameHomes, Fields, Held
<1>2. SameHomes(s, s) BY DEF SameHomes
<1>3. admit_active_messages(s, id, msgs)
        = IF msgs = {} THEN s ELSE Answer(t, MsgsOf(msgs \ taken), "Refused")
      BY DEF admit_active_messages
<1> HIDE DEF t
<1>4. SameHomes(t, Answer(t, MsgsOf(msgs \ taken), "Refused"))
      BY <1>1, AnswerSame DEF SameHomes
<1> QED BY <1>1, <1>2, <1>3, <1>4 DEF SameHomes

(* Admitting the sends that waited for a start moves no child.             *)
LEMMA AdmitSpawnReadySame ==
  ASSUME NEW s, NEW id, DOMAIN s = Fields
  PROVE  SameHomes(s, admit_spawn_ready_messages(s, id))
<1> DEFINE parked == {m \in s.spawn_ready : m.id = id}
           initial == {m \in parked : m.initial}
           t == [s EXCEPT !.spawn_ready = @ \ parked]
           u == Answer(t, MsgsOf(initial), "Accepted")
<1>1. SameHomes(s, t) BY DEF SameHomes, Fields, Held
<1>2. admit_spawn_ready_messages(s, id) = admit_active_messages(u, id, parked \ initial)
      BY DEF admit_spawn_ready_messages
<1> HIDE DEF t
<1>3. SameHomes(t, u) BY <1>1, AnswerSame DEF SameHomes
<1> HIDE DEF u
<1>4. SameHomes(u, admit_active_messages(u, id, parked \ initial))
      BY <1>3, AdmitMessagesSame DEF SameHomes
<1> QED BY <1>1, <1>2, <1>3, <1>4 DEF SameHomes

(* A wake moves a completed child to the queue or to pending.              *)
LEMMA WakeApart ==
  ASSUME NEW s, NEW id, NEW msgs, Apart(s, {}), id \in DOMAIN s.completed
  PROVE  Apart(wake_completed_child(s, id, msgs), {})
<1> DEFINE old == s.completed[id]
           first == CHOOSE m \in msgs : \A x \in msgs : m.msg <= x.msg
           req == wake_request(old.req)
           decision == admit(s, req)
           moved == [s EXCEPT
             !.completed = Without(@, {id}),
             !.completed_order = retain(@, ToSet(@) \ {id}),
             !.spawn_ready = @ \cup {Park(first, TRUE)}
                               \cup {Park(m, FALSE) : m \in msgs \ {first}}]
           entry == [req |-> req, cancelled |-> FALSE, reply |-> FALSE,
                     deadline |-> FALSE, wake |-> old,
                     queued_at |-> next_queued_at(s)]
           one == [x \in {id} |-> entry]
           parked == [s EXCEPT !.pending_wakes = @ \cup msgs]
           queued == [moved EXCEPT !.queued = Put(@, id, entry)]
<1>1. wake_completed_child(s, id, msgs)
        = IF ~old.published THEN parked
          ELSE IF wake_refused(s, old.req, decision)
          THEN Answer(s, MsgsOf(msgs), "Refused")
          ELSE IF decision = "Start" THEN start_children(moved, one) ELSE queued
      BY DEF wake_completed_child
<1>2. Apart(parked, {})
  <2>1. SameHomes(s, parked) BY DEF Apart, SameHomes, Fields, Held
  <2> QED BY <2>1, SameApart
<1>3. Apart(Answer(s, MsgsOf(msgs), "Refused"), {})
  <2>1. SameHomes(s, Answer(s, MsgsOf(msgs), "Refused")) BY AnswerSame DEF Apart
  <2> QED BY <2>1, SameApart
<1>4. Apart(moved, {id})
  <2>1. /\ DOMAIN moved = Fields
        /\ moved.queued = s.queued /\ moved.pending = s.pending
        /\ moved.active = s.active
        /\ moved.completed = Without(s.completed, {id})
        /\ Held(moved)
        BY DEF Apart, Fields, Held
  <2>2. DOMAIN moved.completed = DOMAIN s.completed \ {id}
        BY <2>1 DEF Without
  <2> HIDE DEF moved
  <2> QED BY <2>1, <2>2 DEF Apart
<1> HIDE DEF moved, entry
<1>5. Apart(start_children(moved, one), {})
  <2>1. DOMAIN one = {id} OBVIOUS
  <2> HIDE DEF one
  <2>2. Apart(start_children(moved, one), {id} \ {id}) BY <1>4, <2>1, StartApart
  <2> QED BY <2>2
<1>6. Apart(queued, {})
  <2>1. /\ DOMAIN queued = Fields
        /\ queued.completed = moved.completed /\ queued.pending = moved.pending
        /\ queued.active = moved.active
        /\ queued.queued = Put(moved.queued, id, entry)
        /\ Held(queued)
        BY <1>4 DEF Apart, Fields, Held
  <2>2. DOMAIN queued.queued = DOMAIN moved.queued \cup {id}
        BY <2>1 DEF Put
  <2> HIDE DEF queued
  <2> QED BY <1>4, <2>1, <2>2 DEF Apart
<1> HIDE DEF parked, queued, one, decision
<1> QED BY <1>1, <1>2, <1>3, <1>5, <1>6

(* A message reaches an active child, waits for a start, wakes a completed *)
(* child or is refused.                                                    *)
LEMMA SendApart ==
  ASSUME NEW s, NEW id, NEW msgs, Apart(s, {})
  PROVE  Apart(handle_send_active_message(s, id, msgs), {})
<1> DEFINE owned == {m \in msgs : is_reachable_from(s, id, m.sender)}
           spawning(map) == /\ id \in DOMAIN map
                            /\ map[id].req.workflow = None /\ ~map[id].cancelled
           woken == {m \in owned : Addressable(s, m)}
           refuse(rest) == Answer(s, MsgsOf(rest), "Refused")
           parked == [refuse(msgs \ owned) EXCEPT
                        !.spawn_ready = @ \cup {Park(m, FALSE) : m \in owned}]
<1>1. \A rest : SameHomes(s, refuse(rest)) BY AnswerSame DEF Apart
<1>2. \A rest : Apart(refuse(rest), {}) BY <1>1, SameApart
<1>3. handle_send_active_message(s, id, msgs)
        = IF owned = {} THEN refuse(msgs)
          ELSE IF id \in DOMAIN s.active
          THEN admit_active_messages(refuse(msgs \ owned), id, owned)
          ELSE IF spawning(s.pending) \/ spawning(s.queued) THEN parked
          ELSE IF /\ id \in DOMAIN s.completed
                  /\ s.completed[id].req.workflow = None
                  /\ woken # {}
          THEN wake_completed_child(refuse(msgs \ woken), id, woken)
          ELSE refuse(msgs)
      BY DEF handle_send_active_message
<1> HIDE DEF owned, woken, refuse
<1>4. Apart(admit_active_messages(refuse(msgs \ owned), id, owned), {})
  <2>1. SameHomes(refuse(msgs \ owned),
                  admit_active_messages(refuse(msgs \ owned), id, owned))
        BY <1>2, AdmitMessagesSame DEF Apart
  <2> QED BY <1>2, <2>1, SameApart
<1>5. Apart(parked, {})
  <2>1. SameHomes(refuse(msgs \ owned), parked)
        BY <1>2 DEF Apart, SameHomes, Fields, Held
  <2> QED BY <1>2, <2>1, SameApart
<1>6. ASSUME id \in DOMAIN s.completed
      PROVE  Apart(wake_completed_child(refuse(msgs \ woken), id, woken), {})
      BY <1>1, <1>2, <1>6, WakeApart DEF SameHomes
<1> HIDE DEF parked, spawning
<1> QED BY <1>2, <1>3, <1>4, <1>5, <1>6

(* A published completion lets its parked wakes go ahead or refuses them.  *)
LEMMA TerminalPublishedApart ==
  ASSUME NEW s, NEW id, Apart(s, {})
  PROVE  Apart(handle_terminal_published(s, id), {})
<1> DEFINE parked == {m \in s.pending_wakes : m.id = id}
           t == [s EXCEPT !.pending_wakes = @ \ parked]
           refused == reject_pending_wakes_for_ids(s, {id})
           sent == handle_send_active_message(t, id, parked)
<1>1. \/ handle_terminal_published(s, id) = s
      \/ handle_terminal_published(s, id) = refused
      \/ handle_terminal_published(s, id) = sent
      BY DEF handle_terminal_published
<1>2. Apart(refused, {})
  <2>1. SameHomes(s, refused) BY RejectPendingWakesSame DEF Apart
  <2> QED BY <2>1, SameApart
<1>3. SameHomes(s, t) BY DEF Apart, SameHomes, Fields, Held
<1>4. Apart(t, {}) BY <1>3, SameApart
<1> HIDE DEF t, refused
<1>5. Apart(sent, {}) BY <1>4, SendApart
<1> QED BY <1>1, <1>2, <1>5

(* An admission that ended may release the output of its child.            *)
LEMMA FinishMessageApart ==
  ASSUME NEW s, NEW f, NEW how, Apart(s, {})
  PROVE  Apart(finish_active_message(s, f, how), {})
<1> DEFINE child == s.active[f.id]
           last == child.in_flight = 1 /\ child.finalizing
           clean == child.clean /\ how # "Uncertain"
           left == [s EXCEPT !.active_messages = @ \ {f}]
           answered == Answer(left, {f.msg}, how)
           settled == [answered EXCEPT
             !.active[f.id].in_flight = @ - 1,
             !.active[f.id].clean = clean,
             !.active[f.id].reporter_waits = @ /\ ~last]
           late == Answer(left, {f.msg}, IF how = "Accepted" THEN "Uncertain" ELSE how)
           released == [settled EXCEPT !.terminal_outputs = Without(@, {f.id})]
           ended == finish_terminalized_child(released, f.id, s.terminal_outputs[f.id], clean)
<1>1. \/ finish_active_message(s, f, how) = late
      \/ finish_active_message(s, f, how) = ended
      \/ finish_active_message(s, f, how) = settled
      BY DEF finish_active_message
<1>2. SameHomes(s, left) BY DEF Apart, SameHomes, Fields, Held
<1>3. Apart(left, {}) BY <1>2, SameApart
<1> HIDE DEF left
<1>4. SameHomes(left, late) /\ SameHomes(left, answered)
      BY <1>3, AnswerSame DEF Apart
<1>5. Apart(late, {}) /\ Apart(answered, {}) BY <1>3, <1>4, SameApart
<1> HIDE DEF late, answered, last, clean
<1>6. SameHomes(answered, settled) BY <1>5 DEF Apart, SameHomes, Fields, Held
<1>7. Apart(settled, {}) BY <1>5, <1>6, SameApart
<1> HIDE DEF settled
<1>8. SameHomes(settled, released) BY <1>7 DEF Apart, SameHomes, Fields, Held
<1>9. Apart(released, {}) BY <1>7, <1>8, SameApart
<1> HIDE DEF released
<1>10. Apart(ended, {})
       BY <1>9, FinishChildApart DEF finish_terminalized_child
<1> QED BY <1>1, <1>5, <1>7, <1>10

(* The sweep of abandoned callers ends only cancelled queue entries.       *)
LEMMA ReapApart ==
  ASSUME NEW s, Apart(s, {})
  PROVE  Apart(reap_abandoned_callers(s), {})
<1> DEFINE abandoned(id) == s.queued[id].reply /\ s.caller[id] = "gone"
           swept == [s EXCEPT
             !.pending = background_if_caller_gone(s, @),
             !.active = background_if_caller_gone(s, @),
             !.queued = [id \in DOMAIN s.queued |->
                           [s.queued[id] EXCEPT !.reply = @ /\ ~abandoned(id),
                                                !.deadline = @ /\ ~abandoned(id)]]]
<1>1. SameHomes(s, swept)
      BY DEF Apart, SameHomes, Fields, Held, background_if_caller_gone
<1>2. Apart(swept, {}) BY <1>1, SameApart
<1>3. reap_abandoned_callers(s)
        = remove_queued(swept, {id \in DOMAIN s.queued : s.queued[id].cancelled})
      BY DEF reap_abandoned_callers
<1> HIDE DEF swept
<1> QED BY <1>2, <1>3, RemoveQueuedApart

(* The end of an iteration only takes completed records away.              *)
LEMMA AfterArmApart ==
  ASSUME NEW s, Apart(s, {})
  PROVE  Apart(AfterArm(s), {})
<1> DEFINE t == resolve_drain_waiters(s)
           excess == Cardinality(DOMAIN t.completed) - MaxCompleted
           evicted == {t.completed_order[i] : i \in 1 .. excess}
           told == reject_pending_wakes_for_ids(t, evicted)
           u == [told EXCEPT
                   !.completed = Without(@, evicted),
                   !.completed_order = SubSeq(@, excess + 1, Len(@)),
                   !.graph = Without(@, evicted)]
<1>1. SameHomes(s, t) BY DEF Apart, SameHomes, Fields, Held, resolve_drain_waiters
<1>2. Apart(t, {}) BY <1>1, SameApart
<1>3. AfterArm(s) = t \/ AfterArm(s) = u
      BY DEF AfterArm, evict_completed_overflow
<1> HIDE DEF t, evicted
<1>4. SameHomes(t, told) BY <1>2, RejectPendingWakesSame DEF Apart
<1>5. Apart(told, {}) BY <1>2, <1>4, SameApart
<1> HIDE DEF told
<1>6. /\ DOMAIN u = Fields
      /\ u.queued = told.queued /\ u.pending = told.pending /\ u.active = told.active
      /\ u.completed = Without(told.completed, evicted)
      /\ Held(u)
      BY <1>5 DEF Apart, Fields, Held
<1>7. DOMAIN u.completed = DOMAIN told.completed \ evicted
      BY <1>6 DEF Without
<1> HIDE DEF u
<1>8. Apart(u, {}) BY <1>5, <1>6, <1>7 DEF Apart
<1> QED BY <1>2, <1>3, <1>8

(* An admitted spawn has an id that no home knows.                         *)
LEMMA SpawnApart ==
  ASSUME NEW s, NEW id, NEW ingress, Apart(s, {})
  PROVE  Apart(handle_spawn(s, id, ingress), {})
<1> DEFINE req == reparent_nested_spawn(s, ingress)
           entry == [req |-> req, cancelled |-> FALSE, reply |-> TRUE,
                     deadline |-> req.mode = "foreground", wake |-> None,
                     queued_at |-> next_queued_at(s)]
           placed == [s EXCEPT !.graph = Put(@, id, insert_node(s, ingress, req)),
                               !.caller[id] = "listening"]
           one == [x \in {id} |-> entry]
           never == [x \in {id} |-> [req |-> req, reply |-> TRUE, address |-> FALSE,
                                      started |-> FALSE]]
           filed == file_completions(placed, never, <<id>>)
           queued == [placed EXCEPT !.queued = Put(@, id, entry)]
<1>1. handle_spawn(s, id, ingress)
        = IF SpawnRefused(s, id, ingress, req) THEN s
          ELSE CASE admit(s, req) = "Start" -> start_children(placed, one)
                 [] admit(s, req) = "Enqueue" -> queued
                 [] OTHER -> start_queued_within_capacity(filed)
      BY DEF handle_spawn
<1>2. DOMAIN one = {id} /\ DOMAIN never = {id} OBVIOUS
<1> HIDE DEF req, entry, one, never
<1>3. ASSUME ~SpawnRefused(s, id, ingress, req)
      PROVE  /\ Apart(start_children(placed, one), {})
             /\ Apart(queued, {})
             /\ Apart(start_queued_within_capacity(filed), {})
  <2>1. SameHomes(s, placed) BY DEF Apart, SameHomes, Fields, Held
  <2>2. Apart(placed, {id})
        BY <1>3, <2>1 DEF SpawnRefused, Known, Apart, SameHomes
  <2> HIDE DEF placed
  <2>3. Apart(start_children(placed, one), {id} \ {id})
        BY <1>2, <2>2, StartApart
  <2>4. Apart(filed, {id} \ {id}) BY <1>2, <2>2, FileApart
  <2>5. {id} \ {id} = {} OBVIOUS
  <2> HIDE DEF filed
  <2>6. Apart(start_queued_within_capacity(filed), {})
        BY <2>4, <2>5, StartQueuedApart
  <2>7. /\ DOMAIN queued = Fields
        /\ queued.completed = placed.completed /\ queued.pending = placed.pending
        /\ queued.active = placed.active
        /\ queued.queued = Put(placed.queued, id, entry)
        /\ Held(queued)
        BY <2>2 DEF Apart, Fields, Held
  <2>8. DOMAIN queued.queued = DOMAIN placed.queued \cup {id} BY <2>7 DEF Put
  <2> HIDE DEF queued
  <2>9. Apart(queued, {}) BY <2>2, <2>7, <2>8 DEF Apart
  <2> QED BY <2>3, <2>5, <2>6, <2>9
<1> HIDE DEF placed, queued, filed
<1> QED BY <1>1, <1>3

----------------------------------------------------------------------------
(* Cancellation.                                                           *)

(* Cancelling children moves none of them.                                 *)
LEMMA CancelChildrenSame ==
  ASSUME NEW s, NEW ids, DOMAIN s = Fields
  PROVE  SameHomes(s, cancel_children(s, ids))
<1> DEFINE marked(map) == [id \in DOMAIN map |->
                            [map[id] EXCEPT !.cancelled = @ \/ id \in ids]]
           t == [s EXCEPT !.active = marked(s.active), !.pending = marked(s.pending)]
<1>1. SameHomes(s, t) BY DEF SameHomes, Fields, Held
<1>2. cancel_children(s, ids) = reject_spawn_ready_ids(t, ids \cap DOMAIN s.pending)
      BY DEF cancel_children
<1> HIDE DEF t
<1>3. SameHomes(t, reject_spawn_ready_ids(t, ids \cap DOMAIN s.pending))
      BY <1>1, RejectSpawnReadySame DEF SameHomes
<1> QED BY <1>1, <1>2, <1>3 DEF SameHomes

(* What the cancellations share: children cancelled, entries dequeued.     *)
LEMMA CancelApart ==
  ASSUME NEW s, NEW ids, NEW entries, Apart(s, {})
  PROVE  /\ Apart(cancel_children(s, ids), {})
         /\ Apart(remove_queued(cancel_children(s, ids), entries), {})
<1>1. SameHomes(s, cancel_children(s, ids)) BY CancelChildrenSame DEF Apart
<1>2. Apart(cancel_children(s, ids), {}) BY <1>1, SameApart
<1> QED BY <1>2, RemoveQueuedApart

(* Refusing the wakes parked for a session moves no child.                 *)
LEMMA RejectSessionWakesApart ==
  ASSUME NEW s, NEW p, Apart(s, {})
  PROVE  Apart(reject_pending_wakes_for_session(s, p), {})
<1>1. SameHomes(s, reject_pending_wakes_for_session(s, p))
      BY RejectPendingWakesSame DEF reject_pending_wakes_for_session, Apart
<1> QED BY <1>1, SameApart

(* Stop.                                                                   *)
LEMMA CancelSessionApart ==
  ASSUME NEW s, NEW p, Apart(s, {})
  PROVE  Apart(cancel_parent_session(s, p), {})
<1> DEFINE hit(map) == {id \in InSession(map, p) : map[id].req.workflow = None}
           blocked == [s EXCEPT !.spawn_blocked_sessions = @ \cup {p}]
           ended == remove_queued(
                      cancel_children(blocked, hit(s.active) \cup hit(s.pending)),
                      hit(s.queued))
<1>1. SameHomes(s, blocked) BY DEF Apart, SameHomes, Fields, Held
<1>2. Apart(blocked, {}) BY <1>1, SameApart
<1>3. cancel_parent_session(s, p) = reject_pending_wakes_for_session(ended, p)
      BY DEF cancel_parent_session
<1> HIDE DEF blocked, hit
<1>4. Apart(ended, {}) BY <1>2, CancelApart
<1> HIDE DEF ended
<1> QED BY <1>3, <1>4, RejectSessionWakesApart

(* Close and delete.  A delete that begins to drain closes admission.      *)
LEMMA TeardownApart ==
  ASSUME NEW s, NEW p, NEW has_responder, Apart(s, {})
  PROVE  Apart(handle_teardown_session(s, p, has_responder), {})
<1> DEFINE quiet == [s EXCEPT !.pending_completions =
                       purge_completions_for_spawner(@, {p})]
           muted(map) == [id \in DOMAIN map |->
             [map[id] EXCEPT !.req.surface = @ /\ map[id].req.session # p]]
           refused == reject_pending_wakes_for_session(quiet, p)
           silent == [refused EXCEPT !.active = muted(refused.active),
                                     !.pending = muted(refused.pending),
                                     !.queued = muted(refused.queued)]
           torn == remove_queued(
                     cancel_children(silent,
                       InSession(quiet.active, p) \cup InSession(quiet.pending, p)),
                     InSession(quiet.queued, p))
           drain == begin_teardown_drain(torn, p)
<1>1. \/ handle_teardown_session(s, p, has_responder) = drain
      \/ handle_teardown_session(s, p, has_responder) = torn
      BY DEF handle_teardown_session, teardown_session_children
<1>2. SameHomes(s, quiet) BY DEF Apart, SameHomes, Fields, Held
<1>3. Apart(quiet, {}) BY <1>2, SameApart
<1> HIDE DEF quiet
<1>4. Apart(refused, {}) BY <1>3, RejectSessionWakesApart
<1> HIDE DEF refused
<1>5. SameHomes(refused, silent) BY <1>4 DEF Apart, SameHomes, Fields, Held
<1>6. Apart(silent, {}) BY <1>4, <1>5, SameApart
<1> HIDE DEF silent
<1>7. Apart(torn, {}) BY <1>6, CancelApart
<1> HIDE DEF torn
<1>8. SameHomes(torn, drain)
      BY <1>7 DEF Apart, SameHomes, Fields, Held, begin_teardown_drain
<1>9. Apart(drain, {}) BY <1>7, <1>8, SameApart
<1> QED BY <1>1, <1>7, <1>9

----------------------------------------------------------------------------
(* The actor's steps.                                                      *)

(* The inductive invariant: between steps no child is in transit.          *)
IInv == Apart(co, {})

(* A step that keeps the homes apart up to the end of the iteration.       *)
LEMMA StepApart ==
  ASSUME NEW s, Apart(s, {}), Step(s)
  PROVE  IInv'
BY AfterArmApart DEF Step, IInv

(* The sweep before a command.                                             *)
LEMMA CommandedApart ==
  ASSUME IInv
  PROVE  Apart(Commanded, {})
BY ReapApart DEF IInv, Commanded

(* The coordinator starts with four empty maps.                            *)
LEMMA InitApart == Init => IInv
BY DEF Init, IInv, Apart, Fields, Held, NoMap

(* The commands.                                                           *)
LEMMA CommandApart ==
  ASSUME IInv, Command
  PROVE  IInv'
<1> DEFINE s == Commanded
<1>0. Apart(s, {}) BY CommandedApart
<1> HIDE DEF s
<1>1. ASSUME NEW id \in Ids, NEW ingress \in Offers, Spawn(id, ingress)
      PROVE  IInv'
      BY <1>0, <1>1, SpawnApart, StepApart DEF Spawn, s
<1>2. ASSUME NEW q \in Queries, NEW id \in Ids, NEW from \in Senders \cup {None},
             Query(q, id, from)
      PROVE  IInv'
  <2> DEFINE parked == [s EXCEPT !.query[q] = "listening",
                                 !.waiters = @ \cup {[query |-> q, id |-> id]}]
             told == [s EXCEPT !.query[q] = "answered"]
  <2>1. SameHomes(s, parked) /\ SameHomes(s, told)
        BY <1>0 DEF Apart, SameHomes, Fields, Held
  <2>2. Apart(parked, {}) /\ Apart(told, {}) BY <1>0, <2>1, SameApart
  <2>3. Step(parked) \/ Step(told) BY <1>2 DEF Query, s
  <2> HIDE DEF parked, told
  <2> QED BY <2>2, <2>3, StepApart
<1>3. ASSUME NEW id \in Ids, NEW from \in Senders \cup {None}, CancelOne(id, from)
      PROVE  IInv'
  <2>1. Step(s) \/ Step(remove_queued(cancel_children(s, {id}), {id}))
        BY <1>3 DEF CancelOne, cancel_one, s
  <2> QED BY <1>0, <2>1, CancelApart, StepApart
<1>4. ASSUME NEW prompt \in Prompts, NEW p \in Sessions \cup {None},
             CancelPrompt(prompt, p)
      PROVE  IInv'
      BY <1>0, <1>4, CancelApart, StepApart DEF CancelPrompt, cancel_parent_prompt, s
<1>5. ASSUME NEW p \in Sessions, CancelSession(p)
      PROVE  IInv'
      BY <1>0, <1>5, CancelSessionApart, StepApart DEF CancelSession, s
<1>6. ASSUME NEW r \in Runs, NEW p \in Sessions \cup {None}, CancelWorkflow(r, p)
      PROVE  IInv'
  <2> DEFINE t == cancel_workflow_children(s, r, p)
             u == [t EXCEPT !.workflow_cancel_waiters = @ \cup {r}]
  <2>1. Apart(t, {}) BY <1>0, CancelApart DEF cancel_workflow_children
  <2>2. Step(t) \/ Step(u) BY <1>6 DEF CancelWorkflow, s
  <2> HIDE DEF t
  <2>3. SameHomes(t, u) BY <2>1 DEF Apart, SameHomes, Fields, Held
  <2>4. Apart(u, {}) BY <2>1, <2>3, SameApart
  <2> QED BY <2>1, <2>2, <2>4, StepApart
<1>7. ASSUME NEW p \in Sessions, NEW b \in BOOLEAN, TeardownSession(p, b)
      PROVE  IInv'
      BY <1>0, <1>7, TeardownApart, StepApart DEF TeardownSession, s
<1>8. ASSUME NEW p \in Sessions, OpenSpawnAdmission(p)
      PROVE  IInv'
  <2> DEFINE t == [s EXCEPT !.spawn_blocked_sessions =
                     IF p \in s.teardown_drains THEN @ ELSE @ \ {p}]
  <2>1. SameHomes(s, t) BY <1>0 DEF Apart, SameHomes, Fields, Held
  <2>2. Apart(t, {}) BY <1>0, <2>1, SameApart
  <2>3. Step(t) BY <1>8 DEF OpenSpawnAdmission, s
  <2> QED BY <2>2, <2>3, StepApart
<1>9. ASSUME NEW p \in Sessions, NEW prompt \in Prompts, WaitPromptDrained(p, prompt)
      PROVE  IInv'
  <2> DEFINE t == [s EXCEPT !.drain_waiters =
                     @ \cup {[session |-> p, prompt |-> prompt]}]
  <2>1. SameHomes(s, t) BY <1>0 DEF Apart, SameHomes, Fields, Held
  <2>2. Apart(t, {}) BY <1>0, <2>1, SameApart
  <2>3. Step(s) \/ Step(t) BY <1>9 DEF WaitPromptDrained, s
  <2> QED BY <1>0, <2>2, <2>3, StepApart
<1>10. ASSUME NEW p \in Sess, Completions(p)
       PROVE  IInv'
  <2> DEFINE t == [s EXCEPT !.pending_completions =
                     purge_completions_for_spawner(@, {p})]
  <2>1. SameHomes(s, t) BY <1>0 DEF Apart, SameHomes, Fields, Held
  <2>2. Apart(t, {}) BY <1>0, <2>1, SameApart
  <2>3. Step(t) BY <1>10 DEF Completions, s
  <2> QED BY <2>2, <2>3, StepApart
<1>11. ASSUME NEW m \in Messages, NEW id \in Ids, NEW sender \in Senders,
              NEW source \in Sources, SendActiveMessage(m, id, sender, source)
       PROVE  IInv'
  <2> DEFINE t == [co EXCEPT !.outcome[m] = "waiting"]
  <2>1. SameHomes(co, t) BY DEF IInv, Apart, SameHomes, Fields, Held
  <2>2. Apart(t, {}) BY <2>1, SameApart DEF IInv
  <2> HIDE DEF t
  <2> QED BY <1>11, <2>2, SendApart, StepApart DEF SendActiveMessage, t
<1> QED BY <1>1, <1>2, <1>3, <1>4, <1>5, <1>6, <1>7, <1>8, <1>9, <1>10, <1>11
        DEF Command

(* A start moves a pending child to active.                                *)
LEMMA StartedApart ==
  ASSUME IInv, NEW id \in Ids, NEW definition_background, NEW defer,
         Started(id, definition_background, defer)
  PROVE  IInv'
<1> DEFINE child == co.pending[id]
           record == [req |-> child.req, cancelled |-> FALSE, reply |-> child.reply,
                      deadline |-> child.deadline, handle_only |-> child.handle_only,
                      definition_background |-> definition_background,
                      generation |-> co.next_generation, finalizing |-> FALSE,
                      in_flight |-> 0, clean |-> TRUE, reporter_waits |-> FALSE,
                      wake |-> IF defer THEN child.wake ELSE None]
           promoted == [co EXCEPT
             !.pending = Without(@, {id}),
             !.next_generation = @ + 1,
             !.active = Put(@, id, record)]
<1>1. \/ Step(reject_spawn_ready_ids(co, {id}))
      \/ Step(promoted)
      \/ Step(admit_spawn_ready_messages(promoted, id))
      BY DEF Started
<1>2. id \in DOMAIN co.pending BY DEF Started
<1>3. Apart(reject_spawn_ready_ids(co, {id}), {})
  <2>1. SameHomes(co, reject_spawn_ready_ids(co, {id}))
        BY RejectSpawnReadySame DEF IInv, Apart
  <2> QED BY <2>1, SameApart DEF IInv
<1> HIDE DEF record
<1>4. Apart(promoted, {})
  <2>1. /\ DOMAIN promoted = Fields
        /\ promoted.queued = co.queued /\ promoted.completed = co.completed
        /\ promoted.pending = Without(co.pending, {id})
        /\ promoted.active = Put(co.active, id, record)
        /\ Held(promoted)
        BY DEF IInv, Apart, Fields, Held
  <2>2. /\ DOMAIN promoted.pending = DOMAIN co.pending \ {id}
        /\ DOMAIN promoted.active = DOMAIN co.active \cup {id}
        BY <2>1 DEF Without, Put
  <2> HIDE DEF promoted
  <2> QED BY <1>2, <2>1, <2>2 DEF IInv, Apart
<1> HIDE DEF promoted
<1>5. Apart(admit_spawn_ready_messages(promoted, id), {})
  <2>1. SameHomes(promoted, admit_spawn_ready_messages(promoted, id))
        BY <1>4, AdmitSpawnReadySame DEF Apart
  <2> QED BY <1>4, <2>1, SameApart
<1> QED BY <1>1, <1>3, <1>4, <1>5, StepApart

(* The end of a deferred start.                                            *)
LEMMA SettleApart ==
  ASSUME IInv, NEW id \in Ids, NEW is_committed, SettleDeferredStart(id, is_committed)
  PROVE  IInv'
<1> DEFINE committed == [co EXCEPT !.active[id].wake = None]
           aborted == [co EXCEPT !.active[id].req.surface = FALSE,
                                 !.active[id].cancelled = TRUE,
                                 !.active[id].finalizing = TRUE]
<1>1. \/ Step(admit_spawn_ready_messages(committed, id))
      \/ Step(reject_spawn_ready_ids(aborted, {id}))
      BY DEF SettleDeferredStart
<1>2. SameHomes(co, committed) /\ SameHomes(co, aborted)
      BY DEF IInv, Apart, SameHomes, Fields, Held
<1> HIDE DEF committed, aborted
<1>3. /\ SameHomes(committed, admit_spawn_ready_messages(committed, id))
      /\ SameHomes(aborted, reject_spawn_ready_ids(aborted, {id}))
      BY <1>2, AdmitSpawnReadySame, RejectSpawnReadySame DEF SameHomes
<1>4. Apart(committed, {}) /\ Apart(aborted, {}) BY <1>2, SameApart DEF IInv
<1>5. /\ Apart(admit_spawn_ready_messages(committed, id), {})
      /\ Apart(reject_spawn_ready_ids(aborted, {id}), {})
      BY <1>3, <1>4, SameApart
<1> QED BY <1>1, <1>5, StepApart

(* The reports of children, admissions and the host.                       *)
LEMMA HostReportApart ==
  ASSUME IInv, HostReport
  PROVE  IInv'
<1>1. ASSUME NEW id \in Ids, NEW b \in BOOLEAN, NEW defer \in BOOLEAN,
             Started(id, b, defer)
      PROVE  IInv'
      BY <1>1, StartedApart
<1>2. ASSUME NEW id \in Ids, NEW ok \in BOOLEAN, SettleDeferredStart(id, ok)
      PROVE  IInv'
      BY <1>2, SettleApart
<1>3. ASSUME NEW id \in Ids, Finalizing(id)
      PROVE  IInv'
  <2> DEFINE t == [co EXCEPT !.active[id].finalizing = TRUE,
                             !.active[id].reporter_waits = co.active[id].in_flight > 0]
  <2>1. SameHomes(co, t) BY DEF IInv, Apart, SameHomes, Fields, Held
  <2>2. Apart(t, {}) BY <2>1, SameApart DEF IInv
  <2>3. Step(t) BY <1>3 DEF Finalizing
  <2> QED BY <2>2, <2>3, StepApart
<1>4. ASSUME NEW id \in Ids, NEW success \in BOOLEAN, RunEnded(id, success)
      PROVE  IInv'
  <2> DEFINE t == [co EXCEPT !.runs = @ \ {id}]
  <2>1. SameHomes(co, t) BY DEF IInv, Apart, SameHomes, Fields, Held
  <2>2. Apart(t, {}) BY <2>1, SameApart DEF IInv
  <2> HIDE DEF t
  <2> QED BY <1>4, <2>2, TerminalizationApart, StepApart DEF RunEnded, t
<1>5. ASSUME NEW f \in co.active_messages, NEW how, ActiveMessageEnded(f, how)
      PROVE  IInv'
      BY <1>5, FinishMessageApart, StepApart DEF ActiveMessageEnded, IInv
<1>6. ASSUME NEW w \in co.progress, ProgressEnded(w)
      PROVE  IInv'
  <2> DEFINE t == [co EXCEPT !.progress = @ \ {w},
                     !.query[w.query] = IF @ = "listening" THEN "answered" ELSE @]
  <2>1. SameHomes(co, t) BY DEF IInv, Apart, SameHomes, Fields, Held
  <2>2. Apart(t, {}) BY <2>1, SameApart DEF IInv
  <2>3. Step(t) BY <1>6 DEF ProgressEnded
  <2> QED BY <2>2, <2>3, StepApart
<1>7. ASSUME NEW p \in co.publications, TerminalPublished(p)
      PROVE  IInv'
  <2> DEFINE t == [co EXCEPT !.publications = @ \ {p}]
  <2>1. SameHomes(co, t) BY DEF IInv, Apart, SameHomes, Fields, Held
  <2>2. Apart(t, {}) BY <2>1, SameApart DEF IInv
  <2> HIDE DEF t
  <2> QED BY <1>7, <2>2, TerminalPublishedApart, StepApart DEF TerminalPublished, t
<1> QED BY <1>1, <1>2, <1>3, <1>4, <1>5, <1>6, <1>7 DEF HostReport

(* The deadlines.                                                          *)
LEMMA DeadlineApart ==
  ASSUME IInv, Deadline
  PROVE  IInv'
<1> DEFINE s == Commanded
<1>0. Apart(s, {}) BY CommandedApart
<1> HIDE DEF s
<1>1. ASSUME ReapAbandonedCallers PROVE IInv'
      BY <1>0, <1>1, StepApart DEF ReapAbandonedCallers, s
<1>2. ASSUME NEW id \in Ids, ForegroundDeadline(id) PROVE IInv'
  <2> DEFINE detached(map) == [x \in DOMAIN map |-> IF x # id THEN map[x] ELSE
        [map[x] EXCEPT !.reply = FALSE, !.handle_only = TRUE, !.deadline = FALSE]]
             t == [s EXCEPT
        !.pending = detached(s.pending),
        !.active = detached(s.active),
        !.queued = [x \in DOMAIN s.queued |-> IF x # id THEN s.queued[x] ELSE
           [s.queued[x] EXCEPT !.reply = FALSE, !.deadline = FALSE]],
        !.caller[id] = IF @ = "listening" THEN "answered" ELSE @]
  <2>1. SameHomes(s, t) BY <1>0 DEF Apart, SameHomes, Fields, Held
  <2>2. Apart(t, {}) BY <1>0, <2>1, SameApart
  <2>3. Step(t) \/ Step(s) BY <1>2 DEF ForegroundDeadline, s
  <2> HIDE DEF t
  <2> QED BY <1>0, <2>2, <2>3, StepApart
<1>3. ASSUME NEW m \in co.spawn_ready, SpawnReadyDeadline(m) PROVE IInv'
  <2> DEFINE t == [s EXCEPT !.spawn_ready = @ \ {m}]
             u == Answer(t, {m.msg}, "Refused")
  <2>1. SameHomes(s, t) BY <1>0 DEF Apart, SameHomes, Fields, Held
  <2>2. Step(s) \/ Step(u) BY <1>3 DEF SpawnReadyDeadline, s
  <2> HIDE DEF t
  <2>3. SameHomes(t, u) BY <2>1, AnswerSame DEF SameHomes
  <2>4. Apart(u, {}) BY <1>0, <2>1, <2>3, SameApart
  <2> QED BY <1>0, <2>2, <2>4, StepApart
<1>4. ASSUME NEW p \in co.teardown_drains, TeardownDeadline(p) PROVE IInv'
  <2> DEFINE t == clear_teardown_drain(s, {p} \cap s.teardown_drains)
  <2>1. SameHomes(s, t) BY <1>0, TeardownDrainSame DEF Apart
  <2>2. Apart(t, {}) BY <1>0, <2>1, SameApart
  <2>3. Step(t) BY <1>4 DEF TeardownDeadline, s
  <2> QED BY <2>2, <2>3, StepApart
<1>5. ASSUME NEW w \in co.waiters, WaiterDeadline(w) PROVE IInv'
  <2> DEFINE t == [s EXCEPT !.waiters = @ \ {w}]
             u == [t EXCEPT !.progress = @ \cup {w}]
             v == [t EXCEPT !.query[w.query] = "answered"]
  <2>1. SameHomes(s, t) BY <1>0 DEF Apart, SameHomes, Fields, Held
  <2>2. Step(s) \/ Step(t) \/ Step(u) \/ Step(v) BY <1>5 DEF WaiterDeadline, s
  <2>3. Apart(t, {}) BY <1>0, <2>1, SameApart
  <2> HIDE DEF t
  <2>4. SameHomes(t, u) /\ SameHomes(t, v)
        BY <2>3 DEF Apart, SameHomes, Fields, Held
  <2>5. Apart(u, {}) /\ Apart(v, {}) BY <2>3, <2>4, SameApart
  <2> QED BY <1>0, <2>2, <2>3, <2>5, StepApart
<1> QED BY <1>1, <1>2, <1>3, <1>4, <1>5 DEF Deadline

(* The environment moves no child.                                         *)
LEMMA EnvironmentApart ==
  ASSUME IInv, Environment
  PROVE  IInv'
<1>1. SUFFICES SameHomes(co, co') BY SameApart DEF IInv
<1>2. ASSUME NEW id \in Ids, CallerGone(id) PROVE SameHomes(co, co')
      BY <1>2 DEF CallerGone, IInv, Apart, SameHomes, Fields, Held
<1>3. ASSUME NEW q \in Queries, QueryGone(q) PROVE SameHomes(co, co')
      BY <1>3 DEF QueryGone, IInv, Apart, SameHomes, Fields, Held
<1>4. ASSUME NEW id \in Ids, TokenCancelled(id) PROVE SameHomes(co, co')
      BY <1>4 DEF TokenCancelled, IInv, Apart, SameHomes, Fields, Held
<1>5. ASSUME NEW p \in co.publications, HostStoresPublished(p)
      PROVE  SameHomes(co, co')
      BY <1>5 DEF HostStoresPublished, IInv, Apart, SameHomes, Fields, Held
<1>6. ASSUME NEW p \in co.publications, HostSendsPublished(p)
      PROVE  SameHomes(co, co')
      BY <1>6 DEF HostSendsPublished, IInv, Apart, SameHomes, Fields, Held
<1> QED BY <1>2, <1>3, <1>4, <1>5, <1>6 DEF Environment

(* Between any two iterations of the actor's loop no child is in transit,  *)
(* and the four maps and the delete holds are as they should be.           *)
THEOREM Inductive == Spec => []IInv
<1>1. ASSUME IInv, [Next]_vars PROVE IInv'
  <2>1. CASE Command BY <1>1, <2>1, CommandApart
  <2>2. CASE HostReport BY <1>1, <2>2, HostReportApart
  <2>3. CASE Deadline BY <1>1, <2>3, DeadlineApart
  <2>4. CASE Environment BY <1>1, <2>4, EnvironmentApart
  <2>5. CASE UNCHANGED vars BY <1>1, <2>5 DEF vars, IInv
  <2> QED BY <1>1, <2>1, <2>2, <2>3, <2>4, <2>5 DEF Next
<1> QED BY <1>1, InitApart, PTL DEF Spec

(* A child is in at most one of the queue, pending, active and completed,  *)
(* for any number of children, sessions, messages and any limits.          *)
THEOREM OneHomeAlways == Spec => []OneHome
<1>1. IInv => OneHome BY DEF IInv, Apart, OneHome
<1> QED BY <1>1, Inductive, PTL

(* OpenSpawnAdmission, Stop, further deletes, the drain's end and its      *)
(* backstop never leave a draining session open to spawns.                 *)
THEOREM DrainHoldsAdmissionAlways == Spec => []DrainHoldsAdmission
<1>1. IInv => DrainHoldsAdmission BY DEF IInv, Apart, Held, DrainHoldsAdmission
<1> QED BY <1>1, Inductive, PTL

=============================================================================
