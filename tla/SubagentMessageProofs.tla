----------------------- MODULE SubagentMessageProofs -----------------------
(***************************************************************************)
(* Theorems about the messages to children, for any children, sessions,    *)
(* messages and limits: every sender that waits is in exactly one place    *)
(* that will answer it, the counts of admissions are right, and what is    *)
(* parked waits for something that will come.                              *)
(***************************************************************************)
EXTENDS SubagentLimitProofs

----------------------------------------------------------------------------
(* The invariant of the methods.                                           *)

(* What the places of a message hold.                                      *)
Sends == [msg : Messages, id : Ids, sender : Senders, source : Sources]
Parks == [msg : Messages, id : Ids, source : Sources, sender : Senders,
          initial : BOOLEAN]
Flights == [msg : Messages, id : Ids, generation : Nat]

(* No message is twice in a place.                                         *)
Once(recs) == \A r, q \in recs : r.msg = q.msg => r = q

(* Exactly the messages of X and those in one of the three places have a   *)
(* sender that waits, and none is in two of them.                          *)
Post(s, X) ==
  /\ DOMAIN s.outcome = Messages
  /\ s.pending_wakes \subseteq Sends /\ Once(s.pending_wakes)
  /\ s.spawn_ready \subseteq Parks /\ Once(s.spawn_ready)
  /\ s.active_messages \subseteq Flights /\ Once(s.active_messages)
  /\ MsgsOf(s.pending_wakes) \cap MsgsOf(s.spawn_ready) = {}
  /\ MsgsOf(s.pending_wakes) \cap MsgsOf(s.active_messages) = {}
  /\ MsgsOf(s.spawn_ready) \cap MsgsOf(s.active_messages) = {}
  /\ X \cap MsgsOf(s.pending_wakes) = {}
  /\ X \cap MsgsOf(s.spawn_ready) = {}
  /\ X \cap MsgsOf(s.active_messages) = {}
  /\ X \subseteq Messages
  /\ \A m \in Messages : s.outcome[m] = "waiting" <=>
       \/ m \in X
       \/ m \in MsgsOf(s.pending_wakes)
       \/ m \in MsgsOf(s.spawn_ready)
       \/ m \in MsgsOf(s.active_messages)

(* The admissions to the child id while its generation was g.              *)
InFlight(msgs, id, g) == {f \in msgs : f.id = id /\ f.generation = g}

ActiveFields ==
  {"req", "cancelled", "reply", "deadline", "handle_only", "definition_background",
   "generation", "finalizing", "in_flight", "clean", "reporter_waits", "wake"}

(* An active record r of id counts its admissions among msgs.              *)
Counts(r, id, msgs, now) ==
  /\ DOMAIN r = ActiveFields
  /\ r.generation \in Nat /\ r.generation < now
  /\ r.in_flight \in Nat /\ r.in_flight <= MaxPerChild
  /\ r.in_flight = Cardinality(InFlight(msgs, id, r.generation))
  /\ r.reporter_waits => r.finalizing /\ r.in_flight > 0

Flight(s) ==
  /\ s.next_generation \in Nat
  /\ \A f \in s.active_messages : f.generation < s.next_generation
  /\ \A id \in DOMAIN s.active :
       Counts(s.active[id], id, s.active_messages, s.next_generation)
  /\ \A id \in DOMAIN s.terminal_outputs :
       /\ id \in DOMAIN s.active
       /\ s.active[id].finalizing
       /\ s.active[id].in_flight > 0

(* A parked send waits for a start that will come, or for a child of Y.    *)
Parked(s, Y) ==
  \A m \in s.spawn_ready :
    \/ m.id \in Y
    \/ m.id \in DOMAIN s.queued \cup DOMAIN s.pending
    \/ /\ m.id \in DOMAIN s.active
       /\ s.active[m.id].wake # None
       /\ s.active[m.id].finalizing => m.id \in DOMAIN s.terminal_outputs

CompletedFields == {"req", "age", "published", "address", "started"}

(* The record that a wake displaced was published.                         *)
Shown(map) ==
  \A id \in DOMAIN map : map[id].wake # None =>
    DOMAIN map[id].wake = CompletedFields /\ map[id].wake.published

(* A completion that is not published yet is being presented, and a parked *)
(* wake, unless it is for a child of Z, waits for a publication.           *)
Promised(s, Z) ==
  /\ \A p \in s.publications : DOMAIN p = {"id", "age", "stage"}
  /\ \A id \in DOMAIN s.completed :
       /\ DOMAIN s.completed[id] = CompletedFields
       /\ ~s.completed[id].published =>
            [id |-> id, age |-> s.completed[id].age, stage |-> "presenting"]
              \in s.publications
  /\ \A m \in s.pending_wakes : m.id \in Z \/ \E p \in s.publications : p.id = m.id
  /\ Shown(s.queued) /\ Shown(s.pending) /\ Shown(s.active)

(* X are the messages and Y the children in transit.                       *)
Mail(s, X, Y) ==
  DOMAIN s = Fields /\ Post(s, X) /\ Flight(s) /\ Parked(s, Y) /\ Promised(s, {})

----------------------------------------------------------------------------
(* Frames.                                                                 *)

(* t differs from s in nothing that Mail looks at.                         *)
Still(s, t) ==
  /\ DOMAIN t = Fields
  /\ t.queued = s.queued /\ t.pending = s.pending /\ t.active = s.active
  /\ t.completed = s.completed /\ t.terminal_outputs = s.terminal_outputs
  /\ t.outcome = s.outcome /\ t.pending_wakes = s.pending_wakes
  /\ t.spawn_ready = s.spawn_ready /\ t.active_messages = s.active_messages
  /\ t.next_generation = s.next_generation /\ t.publications = s.publications

LEMMA StillMail ==
  ASSUME NEW s, NEW t, NEW X, NEW Y, Mail(s, X, Y), Still(s, t)
  PROVE  Mail(t, X, Y)
BY DEF Mail, Still, Post, Flight, Parked, Promised

(* t has the same children that are not completed.                         *)
Keeps(s, t) ==
  /\ DOMAIN t = Fields
  /\ t.queued = s.queued /\ t.pending = s.pending /\ t.active = s.active
  /\ t.terminal_outputs = s.terminal_outputs
  /\ t.pending_wakes = s.pending_wakes /\ t.active_messages = s.active_messages
  /\ t.next_generation = s.next_generation

LEMMA KeepsTrans ==
  ASSUME NEW s, NEW t, NEW u, Keeps(s, t), Keeps(t, u)
  PROVE  Keeps(s, u)
BY DEF Keeps

LEMMA StillTrans ==
  ASSUME NEW s, NEW t, NEW u, Still(s, t), Still(t, u)
  PROVE  Still(s, u)
BY DEF Still

LEMMA StillKeeps ==
  ASSUME NEW s, NEW t, Still(s, t)
  PROVE  Keeps(s, t)
BY DEF Still, Keeps

LEMMA ResolveWaitersStill ==
  ASSUME NEW s, NEW ids, DOMAIN s = Fields
  PROVE  Still(s, resolve_waiters(s, ids))
BY DEF resolve_waiters, Still, Fields

LEMMA TeardownDrainStill ==
  ASSUME NEW s, NEW ps, DOMAIN s = Fields
  PROVE  /\ Still(s, clear_teardown_drain(s, ps))
         /\ Still(s, resolve_teardown_drain_waiters(s, ps))
BY DEF resolve_teardown_drain_waiters, clear_teardown_drain, Still, Fields

LEMMA WorkflowCancelStill ==
  ASSUME NEW s, NEW rs, DOMAIN s = Fields
  PROVE  Still(s, resolve_workflow_cancel_waiters(s, rs))
BY DEF resolve_workflow_cancel_waiters, Still, Fields

(* Fewer children in transit.                                              *)
LEMMA MoreTransit ==
  ASSUME NEW s, NEW X, NEW Y, NEW Z, Mail(s, X, Y), Y \subseteq Z
  PROVE  Mail(s, X, Z)
BY DEF Mail, Parked

----------------------------------------------------------------------------
(* Answers.                                                                *)

LEMMA AnswerMail ==
  ASSUME NEW s, NEW X, NEW Y, Mail(s, X, Y), NEW msgs \in SUBSET X,
         NEW how, how # "waiting"
  PROVE  Mail(Answer(s, msgs, how), X \ msgs, Y) /\ Keeps(s, Answer(s, msgs, how))
<1> DEFINE t == Answer(s, msgs, how)
<1>1. /\ DOMAIN t = Fields
      /\ t.queued = s.queued /\ t.pending = s.pending /\ t.active = s.active
      /\ t.completed = s.completed /\ t.terminal_outputs = s.terminal_outputs
      /\ t.pending_wakes = s.pending_wakes /\ t.spawn_ready = s.spawn_ready
      /\ t.active_messages = s.active_messages
      /\ t.next_generation = s.next_generation /\ t.publications = s.publications
      /\ t.outcome = [m \in Messages |-> IF m \in msgs THEN how ELSE s.outcome[m]]
      BY DEF Mail, Answer, Fields
<1> HIDE DEF t
<1>2. Post(t, X \ msgs)
  <2>1. X \ msgs \subseteq X OBVIOUS
  <2>2. \A m \in Messages : t.outcome[m] = "waiting" <=>
          \/ m \in X \ msgs
          \/ m \in MsgsOf(t.pending_wakes)
          \/ m \in MsgsOf(t.spawn_ready)
          \/ m \in MsgsOf(t.active_messages)
    <3> SUFFICES ASSUME NEW m \in Messages
                 PROVE  t.outcome[m] = "waiting" <=>
                          \/ m \in X \ msgs
                          \/ m \in MsgsOf(t.pending_wakes)
                          \/ m \in MsgsOf(t.spawn_ready)
                          \/ m \in MsgsOf(t.active_messages)
        OBVIOUS
    <3>1. t.outcome[m] = IF m \in msgs THEN how ELSE s.outcome[m] BY <1>1
    <3>2. CASE m \in msgs
      <4>1. /\ m \in X /\ m \notin MsgsOf(s.pending_wakes)
            /\ m \notin MsgsOf(s.spawn_ready) /\ m \notin MsgsOf(s.active_messages)
            BY <3>2 DEF Mail, Post
      <4> QED BY <1>1, <3>1, <3>2, <4>1
    <3>3. CASE m \notin msgs BY <1>1, <3>1, <3>3 DEF Mail, Post
    <3> QED BY <3>2, <3>3
  <2>3. DOMAIN t.outcome = Messages BY <1>1
  <2> QED BY <1>1, <2>1, <2>2, <2>3 DEF Mail, Post
<1>3. Flight(t) /\ Parked(t, Y) /\ Promised(t, {})
      BY <1>1 DEF Mail, Flight, Parked, Promised
<1>4. Mail(t, X \ msgs, Y) /\ Keeps(s, t) BY <1>1, <1>2, <1>3 DEF Mail, Keeps
<1> QED BY <1>4 DEF t

(* Sends that leave the list.                                              *)
LEMMA UnparkMail ==
  ASSUME NEW s, NEW X, NEW Y, Mail(s, X, Y), NEW doomed \in SUBSET s.spawn_ready
  PROVE  LET t == [s EXCEPT !.spawn_ready = @ \ doomed]
         IN  /\ Mail(t, X \cup MsgsOf(doomed), Y) /\ Keeps(s, t)
             /\ t.spawn_ready = s.spawn_ready \ doomed
             /\ t.completed = s.completed /\ t.publications = s.publications
<1> DEFINE t == [s EXCEPT !.spawn_ready = @ \ doomed]
<1>1. /\ DOMAIN t = Fields
      /\ t.queued = s.queued /\ t.pending = s.pending /\ t.active = s.active
      /\ t.completed = s.completed /\ t.terminal_outputs = s.terminal_outputs
      /\ t.pending_wakes = s.pending_wakes /\ t.spawn_ready = s.spawn_ready \ doomed
      /\ t.active_messages = s.active_messages /\ t.outcome = s.outcome
      /\ t.next_generation = s.next_generation /\ t.publications = s.publications
      BY DEF Mail, Fields
<1> HIDE DEF t
<1>2. Post(t, X \cup MsgsOf(doomed))
  <2> DEFINE D == MsgsOf(doomed)
             R == MsgsOf(t.spawn_ready)
             S == MsgsOf(s.spawn_ready)
  <2>1. S = D \cup R BY <1>1 DEF MsgsOf
  <2>2. D \cap R = {} BY <1>1 DEF MsgsOf, Mail, Post, Once
  <2>3. S \subseteq Messages BY DEF MsgsOf, Mail, Post, Parks
  <2>4. t.spawn_ready \subseteq Parks /\ Once(t.spawn_ready)
        BY <1>1 DEF Mail, Post, Once
  <2> HIDE DEF D, R, S
  <2>5. /\ MsgsOf(s.pending_wakes) \cap S = {}
        /\ S \cap MsgsOf(s.active_messages) = {} /\ X \cap S = {}
        /\ \A m \in Messages : s.outcome[m] = "waiting" <=>
             \/ m \in X \/ m \in MsgsOf(s.pending_wakes) \/ m \in S
             \/ m \in MsgsOf(s.active_messages)
        BY DEF Mail, Post, S
  <2>6. /\ DOMAIN t.outcome = Messages
        /\ t.pending_wakes \subseteq Sends /\ Once(t.pending_wakes)
        /\ t.active_messages \subseteq Flights /\ Once(t.active_messages)
        /\ MsgsOf(t.pending_wakes) \cap MsgsOf(t.active_messages) = {}
        /\ X \cap MsgsOf(t.pending_wakes) = {}
        /\ X \cap MsgsOf(t.active_messages) = {}
        /\ X \subseteq Messages
        BY <1>1 DEF Mail, Post
  <2>7. /\ MsgsOf(t.pending_wakes) \cap R = {} /\ R \cap MsgsOf(t.active_messages) = {}
        /\ (X \cup D) \cap MsgsOf(t.pending_wakes) = {}
        /\ (X \cup D) \cap R = {}
        /\ (X \cup D) \cap MsgsOf(t.active_messages) = {}
        /\ X \cup D \subseteq Messages
        BY <1>1, <2>1, <2>2, <2>3, <2>5, <2>6
  <2>8. \A m \in Messages : t.outcome[m] = "waiting" <=>
          \/ m \in X \cup D \/ m \in MsgsOf(t.pending_wakes) \/ m \in R
          \/ m \in MsgsOf(t.active_messages)
        BY <1>1, <2>1, <2>5
  <2> QED BY <2>4, <2>6, <2>7, <2>8 DEF Post, D, R
<1>3. Flight(t) /\ Parked(t, Y) /\ Promised(t, {})
      BY <1>1 DEF Mail, Flight, Parked, Promised
<1>4. Mail(t, X \cup MsgsOf(doomed), Y) /\ Keeps(s, t)
      BY <1>1, <1>2, <1>3 DEF Mail, Keeps
<1> QED BY <1>1, <1>4 DEF t

(* Wakes that leave the list.                                              *)
LEMMA UnwakeMail ==
  ASSUME NEW s, NEW X, NEW Y, DOMAIN s = Fields, Post(s, X), Flight(s), Parked(s, Y),
         NEW doomed \in SUBSET s.pending_wakes, NEW t, DOMAIN t = Fields,
         t.queued = s.queued, t.pending = s.pending, t.active = s.active,
         t.terminal_outputs = s.terminal_outputs,
         t.pending_wakes = s.pending_wakes \ doomed, t.spawn_ready = s.spawn_ready,
         t.active_messages = s.active_messages, t.outcome = s.outcome,
         t.next_generation = s.next_generation, Promised(t, {})
  PROVE  Mail(t, X \cup MsgsOf(doomed), Y)
<1>1. Post(t, X \cup MsgsOf(doomed))
  <2> DEFINE D == MsgsOf(doomed)
             R == MsgsOf(t.pending_wakes)
             S == MsgsOf(s.pending_wakes)
  <2>1. S = D \cup R BY DEF MsgsOf
  <2>2. D \cap R = {} BY DEF MsgsOf, Post, Once
  <2>3. S \subseteq Messages BY DEF MsgsOf, Post, Sends
  <2>4. t.pending_wakes \subseteq Sends /\ Once(t.pending_wakes)
        BY DEF Post, Once
  <2> HIDE DEF D, R, S
  <2>5. /\ S \cap MsgsOf(s.spawn_ready) = {}
        /\ S \cap MsgsOf(s.active_messages) = {} /\ X \cap S = {}
        /\ \A m \in Messages : s.outcome[m] = "waiting" <=>
             \/ m \in X \/ m \in S \/ m \in MsgsOf(s.spawn_ready)
             \/ m \in MsgsOf(s.active_messages)
        BY DEF Post, S
  <2>6. /\ DOMAIN t.outcome = Messages
        /\ t.spawn_ready \subseteq Parks /\ Once(t.spawn_ready)
        /\ t.active_messages \subseteq Flights /\ Once(t.active_messages)
        /\ MsgsOf(t.spawn_ready) \cap MsgsOf(t.active_messages) = {}
        /\ X \cap MsgsOf(t.spawn_ready) = {}
        /\ X \cap MsgsOf(t.active_messages) = {}
        /\ X \subseteq Messages
        BY DEF Post
  <2>7. /\ R \cap MsgsOf(t.spawn_ready) = {} /\ R \cap MsgsOf(t.active_messages) = {}
        /\ (X \cup D) \cap MsgsOf(t.spawn_ready) = {}
        /\ (X \cup D) \cap R = {}
        /\ (X \cup D) \cap MsgsOf(t.active_messages) = {}
        /\ X \cup D \subseteq Messages
        BY <2>1, <2>2, <2>3, <2>5, <2>6
  <2>8. \A m \in Messages : t.outcome[m] = "waiting" <=>
          \/ m \in X \cup D \/ m \in R \/ m \in MsgsOf(t.spawn_ready)
          \/ m \in MsgsOf(t.active_messages)
        BY <2>1, <2>5
  <2> QED BY <2>4, <2>6, <2>7, <2>8 DEF Post, D, R
<1>2. Flight(t) /\ Parked(t, Y) BY DEF Flight, Parked
<1> QED BY <1>1, <1>2 DEF Mail

(* Parked sends to the children of ids are refused.                        *)
LEMMA RejectSpawnReadyMail ==
  ASSUME NEW s, NEW X, NEW Y, NEW ids, Mail(s, X, Y)
  PROVE  /\ Mail(reject_spawn_ready_ids(s, ids), X, Y \ ids)
         /\ Keeps(s, reject_spawn_ready_ids(s, ids))
         /\ \A m \in reject_spawn_ready_ids(s, ids).spawn_ready : m.id \notin ids
         /\ reject_spawn_ready_ids(s, ids).completed = s.completed
         /\ reject_spawn_ready_ids(s, ids).publications = s.publications
<1> DEFINE doomed == {m \in s.spawn_ready : m.id \in ids}
           t == [s EXCEPT !.spawn_ready = @ \ doomed]
           u == Answer(t, MsgsOf(doomed), "Refused")
<1>1. reject_spawn_ready_ids(s, ids) = u BY DEF reject_spawn_ready_ids
<1>2. doomed \in SUBSET s.spawn_ready OBVIOUS
<1>3. /\ Mail(t, X \cup MsgsOf(doomed), Y) /\ Keeps(s, t)
      /\ t.spawn_ready = s.spawn_ready \ doomed
      /\ t.completed = s.completed /\ t.publications = s.publications
      BY <1>2, UnparkMail
<1>4. \A m \in t.spawn_ready : m.id \notin ids BY <1>3
<1> HIDE DEF t, doomed
<1>5. MsgsOf(doomed) \cap X = {} BY <1>2 DEF Mail, Post, MsgsOf
<1>6. /\ Mail(u, (X \cup MsgsOf(doomed)) \ MsgsOf(doomed), Y) /\ Keeps(t, u)
      BY <1>3, AnswerMail
<1>7. (X \cup MsgsOf(doomed)) \ MsgsOf(doomed) = X BY <1>5
<1>8. u.spawn_ready = t.spawn_ready /\ u.completed = t.completed
      /\ u.publications = t.publications
      BY <1>3 DEF Answer, Mail, Fields
<1> HIDE DEF u
<1>9. Mail(u, X, Y) BY <1>6, <1>7
<1>10. Mail(u, X, Y \ ids) BY <1>4, <1>8, <1>9 DEF Mail, Parked
<1> QED BY <1>1, <1>3, <1>4, <1>6, <1>8, <1>10, KeepsTrans

(* Parked wakes of the children of ids are refused.                        *)
LEMMA RejectPendingWakesMail ==
  ASSUME NEW s, NEW X, NEW Y, NEW ids, DOMAIN s = Fields, Post(s, X), Flight(s),
         Parked(s, Y), Promised(s, ids)
  PROVE  /\ Mail(reject_pending_wakes_for_ids(s, ids), X, Y)
         /\ reject_pending_wakes_for_ids(s, ids).queued = s.queued
         /\ reject_pending_wakes_for_ids(s, ids).pending = s.pending
         /\ reject_pending_wakes_for_ids(s, ids).active = s.active
         /\ reject_pending_wakes_for_ids(s, ids).completed = s.completed
<1> DEFINE doomed == {m \in s.pending_wakes : m.id \in ids}
           t == [s EXCEPT !.pending_wakes = @ \ doomed]
           u == Answer(t, MsgsOf(doomed), "Refused")
<1>1. reject_pending_wakes_for_ids(s, ids) = u BY DEF reject_pending_wakes_for_ids
<1>2. doomed \in SUBSET s.pending_wakes OBVIOUS
<1>3. /\ DOMAIN t = Fields
      /\ t.queued = s.queued /\ t.pending = s.pending /\ t.active = s.active
      /\ t.completed = s.completed /\ t.terminal_outputs = s.terminal_outputs
      /\ t.pending_wakes = s.pending_wakes \ doomed /\ t.spawn_ready = s.spawn_ready
      /\ t.active_messages = s.active_messages /\ t.outcome = s.outcome
      /\ t.next_generation = s.next_generation /\ t.publications = s.publications
      BY DEF Fields
<1>4. \A m \in t.pending_wakes : m.id \notin ids BY <1>3
<1> HIDE DEF t
<1>5. Promised(t, {}) BY <1>3, <1>4 DEF Promised
<1> HIDE DEF doomed
<1>6. Mail(t, X \cup MsgsOf(doomed), Y) BY <1>2, <1>3, <1>5, UnwakeMail
<1>7. MsgsOf(doomed) \cap X = {} BY <1>2 DEF Mail, Post, MsgsOf
<1>8. Mail(u, (X \cup MsgsOf(doomed)) \ MsgsOf(doomed), Y) /\ Keeps(t, u)
      BY <1>6, AnswerMail
<1>9. (X \cup MsgsOf(doomed)) \ MsgsOf(doomed) = X BY <1>7
<1>10. u.completed = t.completed BY <1>3 DEF Answer, Fields
<1> QED BY <1>1, <1>3, <1>8, <1>9, <1>10 DEF Keeps

----------------------------------------------------------------------------
(* Completions.                                                            *)

(* A filed completion is presented.                                        *)
LEMMA FileMail ==
  ASSUME NEW s, NEW X, NEW Y, NEW recs, NEW seq, Mail(s, X, Y)
  PROVE  /\ Mail(file_completions(s, recs, seq), X, Y)
         /\ Keeps(s, file_completions(s, recs, seq))
<1> DEFINE ids == DOMAIN recs
           age(id) == s.next_completion_age + IndexIn(seq, id) - 1
           buffered == buffer_completion(s, [id \in ids |-> recs[id].req], seq)
           w == resolve_waiters(s, ids)
           caller == [id \in Ids |->
                        IF id \in ids /\ recs[id].reply /\ s.caller[id] = "listening"
                        THEN "answered" ELSE s.caller[id]]
           purged == purge_completions_for_spawner(buffered, ids)
           done == [id \in ids |->
                      [req |-> recs[id].req, age |-> age(id), published |-> FALSE,
                       address |-> recs[id].address, started |-> recs[id].started]]
           presented == {[id |-> id, age |-> age(id), stage |-> "presenting"] : id \in ids}
           filed == [w EXCEPT
             !.caller = caller,
             !.pending_completions = purged,
             !.completed = Overlay(@, done),
             !.completed_order = @ \o seq,
             !.next_completion_age = @ + Len(seq),
             !.publications = @ \cup presented]
           runs == {recs[id].req.workflow : id \in ids}
           cancels == resolve_workflow_cancel_waiters(filed, runs)
           sessions == {recs[id].req.session : id \in ids}
           drained == resolve_teardown_drain_waiters(cancels, sessions)
<1>1. file_completions(s, recs, seq) = drained BY DEF file_completions
<1>2. Still(s, w) BY ResolveWaitersStill DEF Mail
<1>3. /\ DOMAIN done = ids
      /\ \A id \in ids :
           /\ DOMAIN done[id] = CompletedFields /\ done[id].age = age(id)
           /\ [id |-> id, age |-> age(id), stage |-> "presenting"] \in presented
      BY DEF CompletedFields
<1>4. \A p \in presented : DOMAIN p = {"id", "age", "stage"} OBVIOUS
<1> HIDE DEF w, caller, purged, done, presented, runs, sessions, age
<1>5. /\ DOMAIN filed = Fields
      /\ filed.queued = s.queued /\ filed.pending = s.pending /\ filed.active = s.active
      /\ filed.completed = Overlay(s.completed, done)
      /\ filed.terminal_outputs = s.terminal_outputs
      /\ filed.outcome = s.outcome /\ filed.pending_wakes = s.pending_wakes
      /\ filed.spawn_ready = s.spawn_ready
      /\ filed.active_messages = s.active_messages
      /\ filed.next_generation = s.next_generation
      /\ filed.publications = s.publications \cup presented
      BY <1>2 DEF Still, Fields
<1> HIDE DEF filed
<1>6. Promised(filed, {})
  <2>1. \A p \in filed.publications : DOMAIN p = {"id", "age", "stage"}
        BY <1>4, <1>5 DEF Mail, Promised
  <2>2. ASSUME NEW id \in DOMAIN filed.completed
        PROVE  /\ DOMAIN filed.completed[id] = CompletedFields
               /\ ~filed.completed[id].published =>
                    [id |-> id, age |-> filed.completed[id].age, stage |-> "presenting"]
                      \in filed.publications
    <3>1. CASE id \in ids
      <4>1. filed.completed[id] = done[id] BY <1>3, <1>5, <3>1 DEF Overlay
      <4> QED BY <1>3, <1>5, <3>1, <4>1
    <3>2. CASE id \notin ids
      <4>1. id \in DOMAIN s.completed /\ filed.completed[id] = s.completed[id]
            BY <1>3, <1>5, <2>2, <3>2 DEF Overlay
      <4> QED BY <1>5, <4>1 DEF Mail, Promised
    <3> QED BY <3>1, <3>2
  <2> QED BY <1>5, <2>1, <2>2 DEF Mail, Promised
<1>7. Mail(filed, X, Y) /\ Keeps(s, filed)
      BY <1>5, <1>6 DEF Mail, Post, Flight, Parked, Keeps
<1>8. Still(filed, cancels) BY <1>5, WorkflowCancelStill
<1> HIDE DEF cancels
<1>9. Still(cancels, drained) BY <1>8, TeardownDrainStill DEF Still
<1> HIDE DEF drained
<1>10. Still(filed, drained) BY <1>8, <1>9, StillTrans
<1> QED BY <1>1, <1>7, <1>10, StillMail, StillKeeps, KeepsTrans

(* The displaced records that come back were published.                    *)
LEMMA RestoreMail ==
  ASSUME NEW s, NEW X, NEW Y, NEW displaced, NEW now, Mail(s, X, Y),
         \A id \in DOMAIN displaced :
           DOMAIN displaced[id] = CompletedFields /\ displaced[id].published
  PROVE  /\ Mail(restore_displaced_completion(s, displaced, now), X, Y)
         /\ Keeps(s, restore_displaced_completion(s, displaced, now))
<1> DEFINE ids == DOMAIN displaced
           kept == {id \in ids : retained(displaced[id].age, now[id])}
           back == [id \in kept |-> displaced[id]]
           all == Overlay(s.completed, back)
           w == resolve_waiters(s, ids)
           t == [w EXCEPT !.completed = all,
                          !.completed_order = reinsert(@, all, kept),
                          !.graph = Without(@, ids \ kept)]
<1>1. restore_displaced_completion(s, displaced, now) = t
      BY DEF restore_displaced_completion
<1>2. Still(s, w) BY ResolveWaitersStill DEF Mail
<1>3. \A id \in DOMAIN all :
        \/ id \in DOMAIN s.completed /\ all[id] = s.completed[id]
        \/ DOMAIN all[id] = CompletedFields /\ all[id].published
      BY DEF Overlay
<1> HIDE DEF w, all, kept
<1>4. /\ DOMAIN t = Fields
      /\ t.queued = s.queued /\ t.pending = s.pending /\ t.active = s.active
      /\ t.completed = all /\ t.terminal_outputs = s.terminal_outputs
      /\ t.outcome = s.outcome /\ t.pending_wakes = s.pending_wakes
      /\ t.spawn_ready = s.spawn_ready /\ t.active_messages = s.active_messages
      /\ t.next_generation = s.next_generation /\ t.publications = s.publications
      BY <1>2 DEF Still, Fields
<1> HIDE DEF t
<1>5. Promised(t, {}) BY <1>3, <1>4 DEF Mail, Promised
<1>6. Mail(t, X, Y) /\ Keeps(s, t)
      BY <1>4, <1>5 DEF Mail, Post, Flight, Parked, Keeps
<1> QED BY <1>1, <1>6

(* Entries that end without starting: the sends to the spawns among them   *)
(* are refused.                                                            *)
LEMMA FinishCancelledMail ==
  ASSUME NEW s, NEW X, NEW Y, NEW entries, Mail(s, X, Y), Shown(entries)
  PROVE  /\ Mail(finish_cancelled_queued(s, entries), X,
                 Y \ {id \in DOMAIN entries : entries[id].wake = None})
         /\ Keeps(s, finish_cancelled_queued(s, entries))
<1> DEFINE wakes == {id \in DOMAIN entries : entries[id].wake # None}
           spawns == DOMAIN entries \ wakes
           earlier(id) == {x \in spawns : entries[x].queued_at < entries[id].queued_at}
           old == [id \in wakes |-> entries[id].wake]
           now == [id \in wakes |-> s.next_completion_age + Cardinality(earlier(id))]
           restored == restore_displaced_completion(s, old, now)
           refused == reject_spawn_ready_ids(restored, spawns)
           recs == [id \in spawns |->
                      [req |-> entries[id].req, reply |-> entries[id].reply,
                       address |-> FALSE, started |-> FALSE]]
           t == file_completions(refused, recs, InArrivalOrder(entries, spawns))
<1>1. finish_cancelled_queued(s, entries) = t BY DEF finish_cancelled_queued
<1>2. \A id \in DOMAIN old : DOMAIN old[id] = CompletedFields /\ old[id].published
      BY DEF Shown
<1>3. spawns = {id \in DOMAIN entries : entries[id].wake = None} OBVIOUS
<1> HIDE DEF old, now, recs
<1>4. Mail(restored, X, Y) /\ Keeps(s, restored) BY <1>2, RestoreMail
<1> HIDE DEF restored, spawns
<1>5. Mail(refused, X, Y \ spawns) /\ Keeps(restored, refused)
      BY <1>4, RejectSpawnReadyMail
<1> HIDE DEF refused
<1>6. Mail(t, X, Y \ spawns) /\ Keeps(refused, t) BY <1>5, FileMail
<1> HIDE DEF t
<1>7. Keeps(s, t) BY <1>4, <1>5, <1>6, KeepsTrans
<1> QED BY <1>1, <1>3, <1>6, <1>7

(* Children that start are what parked sends wait for.                     *)
LEMMA StartChildrenMail ==
  ASSUME NEW s, NEW X, NEW Y, NEW recs, Mail(s, X, Y), Shown(recs)
  PROVE  /\ Mail(start_children(s, recs), X, Y \ DOMAIN recs)
         /\ start_children(s, recs).queued = s.queued
<1> DEFINE new == [id \in DOMAIN recs |-> fresh_pending(recs[id])]
           pending == Overlay(s.pending, new)
           t == start_children(s, recs)
<1>1. t = [s EXCEPT !.pending = pending, !.runs = @ \cup DOMAIN recs]
      BY DEF start_children
<1>2. Shown(new) BY DEF Shown, fresh_pending
<1>3. DOMAIN new = DOMAIN recs OBVIOUS
<1> HIDE DEF new
<1>4. Shown(pending) BY <1>2 DEF Shown, Overlay, Mail, Promised
<1>5. DOMAIN pending = DOMAIN s.pending \cup DOMAIN recs BY <1>3 DEF Overlay
<1> HIDE DEF t, pending
<1>6. /\ DOMAIN t = Fields
      /\ t.queued = s.queued /\ t.pending = pending /\ t.active = s.active
      /\ t.completed = s.completed /\ t.terminal_outputs = s.terminal_outputs
      /\ t.outcome = s.outcome /\ t.pending_wakes = s.pending_wakes
      /\ t.spawn_ready = s.spawn_ready /\ t.active_messages = s.active_messages
      /\ t.next_generation = s.next_generation /\ t.publications = s.publications
      BY <1>1 DEF Mail, Fields
<1>7. Parked(t, Y \ DOMAIN recs) BY <1>5, <1>6 DEF Mail, Parked
<1>8. Promised(t, {}) BY <1>4, <1>6 DEF Mail, Promised
<1>9. Post(t, X) /\ Flight(t) BY <1>6 DEF Mail, Post, Flight
<1> QED BY <1>6, <1>7, <1>8, <1>9 DEF Mail, t

(* Entries that leave the queue are in transit.                            *)
LEMMA DequeueMail ==
  ASSUME NEW s, NEW X, NEW Y, NEW ids, Mail(s, X, Y)
  PROVE  LET t == [s EXCEPT !.queued = Without(@, ids)]
         IN  Mail(t, X, Y \cup ids) /\ t.queued = Without(s.queued, ids)
<1> DEFINE t == [s EXCEPT !.queued = Without(@, ids)]
           queued == Without(s.queued, ids)
<1>1. /\ DOMAIN t = Fields
      /\ t.queued = queued /\ t.pending = s.pending /\ t.active = s.active
      /\ t.completed = s.completed /\ t.terminal_outputs = s.terminal_outputs
      /\ t.outcome = s.outcome /\ t.pending_wakes = s.pending_wakes
      /\ t.spawn_ready = s.spawn_ready /\ t.active_messages = s.active_messages
      /\ t.next_generation = s.next_generation /\ t.publications = s.publications
      BY DEF Mail, Fields
<1>2. /\ DOMAIN queued = DOMAIN s.queued \ ids
      /\ Shown(queued)
      BY DEF Without, Shown, Mail, Promised
<1> HIDE DEF t, queued
<1>3. Parked(t, Y \cup ids) BY <1>1, <1>2 DEF Mail, Parked
<1>4. Promised(t, {}) BY <1>1, <1>2 DEF Mail, Promised
<1>5. Post(t, X) /\ Flight(t) BY <1>1 DEF Mail, Post, Flight
<1>6. Mail(t, X, Y \cup ids) BY <1>1, <1>3, <1>4, <1>5 DEF Mail
<1> QED BY <1>1, <1>6 DEF t, queued

(* No queued wake is cancelled.                                            *)
Spared(s) ==
  \A id \in DOMAIN s.queued : s.queued[id].wake # None => ~s.queued[id].cancelled

LEMMA SoundSpared ==
  ASSUME NEW s, Sound(s)
  PROVE  Spared(s)
BY DEF Sound, Shaped, Entry, Spared

LEMMA StartQueuedMail ==
  ASSUME NEW s, NEW X, NEW Y, Mail(s, X, Y), Spared(s)
  PROVE  Mail(start_queued_within_capacity(s), X, Y)
<1> DEFINE live == live_queued(s)
           starting == {id \in live :
             has_capacity(session_running_count(s, s.queued[id].req.session)
                            + Cardinality(queued_ahead(s, id)))}
           cancelled == DOMAIN s.queued \ live
           t == [s EXCEPT !.queued = Without(@, starting \cup cancelled)]
           first == Restrict(s.queued, starting)
           u == start_children(t, first)
           rest == Restrict(s.queued, cancelled)
           v == finish_cancelled_queued(u, rest)
<1>1. start_queued_within_capacity(s) = v BY DEF start_queued_within_capacity
<1>2. starting \subseteq DOMAIN s.queued BY DEF live_queued
<1>3. \A id \in cancelled : s.queued[id].wake = None BY DEF Spared, live_queued
<1> HIDE DEF starting, cancelled
<1>4. Mail(t, X, Y \cup (starting \cup cancelled)) BY DequeueMail
<1>5. DOMAIN first = starting /\ Shown(first)
      BY <1>2 DEF Restrict, Shown, Mail, Promised
<1>6. DOMAIN rest = cancelled /\ Shown(rest)
      /\ {id \in DOMAIN rest : rest[id].wake = None} = cancelled
  <2>1. DOMAIN rest = cancelled BY DEF Restrict
  <2>2. \A id \in cancelled : rest[id] = s.queued[id] BY DEF Restrict
  <2> HIDE DEF rest
  <2> QED BY <1>3, <2>1, <2>2 DEF Shown
<1> HIDE DEF t, first, rest
<1>7. Mail(u, X, (Y \cup (starting \cup cancelled)) \ starting)
      BY <1>4, <1>5, StartChildrenMail
<1> HIDE DEF u
<1>8. Mail(v, X, ((Y \cup (starting \cup cancelled)) \ starting) \ cancelled)
      BY <1>6, <1>7, FinishCancelledMail
<1>9. ((Y \cup (starting \cup cancelled)) \ starting) \ cancelled \subseteq Y OBVIOUS
<1> HIDE DEF v
<1> QED BY <1>1, <1>8, <1>9, MoreTransit

LEMMA RemoveQueuedMail ==
  ASSUME NEW s, NEW X, NEW Y, NEW ids, Mail(s, X, Y), Spared(s)
  PROVE  Mail(remove_queued(s, ids), X, Y)
<1> DEFINE out == ids \cap DOMAIN s.queued
           gone == Restrict(s.queued, out)
           t == [s EXCEPT !.queued = Without(@, DOMAIN gone)]
           u == reject_spawn_ready_ids(t, DOMAIN gone)
           v == finish_cancelled_queued(u, gone)
<1>1. \/ remove_queued(s, ids) = v
      \/ remove_queued(s, ids) = start_queued_within_capacity(v)
      BY DEF remove_queued
<1>2. DOMAIN gone = out /\ Shown(gone) BY DEF Restrict, Shown, Mail, Promised
<1> HIDE DEF out, gone
<1>3. Mail(t, X, Y \cup DOMAIN gone) /\ t.queued = Without(s.queued, DOMAIN gone)
      BY DequeueMail
<1> HIDE DEF t
<1>4. Mail(u, X, (Y \cup DOMAIN gone) \ DOMAIN gone) /\ Keeps(t, u)
      BY <1>3, RejectSpawnReadyMail
<1>5. Mail(u, X, Y)
  <2>1. (Y \cup DOMAIN gone) \ DOMAIN gone \subseteq Y OBVIOUS
  <2> HIDE DEF u
  <2> QED BY <1>4, <2>1, MoreTransit
<1> HIDE DEF u
<1>6. Mail(v, X, Y \ {id \in DOMAIN gone : gone[id].wake = None}) /\ Keeps(u, v)
      BY <1>2, <1>5, FinishCancelledMail
<1>7. Mail(v, X, Y)
  <2>1. Y \ {id \in DOMAIN gone : gone[id].wake = None} \subseteq Y OBVIOUS
  <2> HIDE DEF v
  <2> QED BY <1>6, <2>1, MoreTransit
<1> HIDE DEF v
<1>8. v.queued = Without(s.queued, DOMAIN gone) BY <1>3, <1>4, <1>6 DEF Keeps
<1>9. Spared(v) BY <1>8 DEF Spared, Without
<1> QED BY <1>1, <1>7, <1>9, StartQueuedMail

(* A child that leaves takes its parked sends with it.                     *)
LEMMA FinishChildMail ==
  ASSUME NEW s, NEW X, NEW Y, NEW id, NEW success, Mail(s, X, Y), Spared(s),
         id \notin DOMAIN s.terminal_outputs
  PROVE  Mail(finish_child(s, id, success), X, Y \ {id})
<1> DEFINE r == reject_spawn_ready_ids(s, {id})
           rec == IF id \in DOMAIN s.active THEN s.active[id] ELSE s.pending[id]
           left == [r EXCEPT !.active = Without(@, {id}), !.pending = Without(@, {id})]
           old == [x \in {id} |-> rec.wake]
           now == [x \in {id} |-> s.next_completion_age]
           restored == restore_displaced_completion(left, old, now)
           drained == resolve_teardown_drain_waiters(restored, {rec.wake.req.session})
           recs == [x \in {id} |->
                      [req |-> rec.req, reply |-> rec.reply,
                       address |-> rec.req.workflow = None,
                       started |-> id \in DOMAIN s.active]]
           filed == file_completions(left, recs, <<id>>)
           Z == Y \ {id}
<1>1. \/ finish_child(s, id, success) = r
      \/ /\ id \in DOMAIN s.active \cup DOMAIN s.pending
         /\ rec.wake # None
         /\ finish_child(s, id, success) = start_queued_within_capacity(drained)
      \/ finish_child(s, id, success) = start_queued_within_capacity(filed)
      BY DEF finish_child
<1>2. /\ Mail(r, X, Z) /\ Keeps(s, r)
      /\ \A m \in r.spawn_ready : m.id # id
      BY RejectSpawnReadyMail
<1>3. id \in DOMAIN s.active \cup DOMAIN s.pending /\ rec.wake # None =>
        DOMAIN rec.wake = CompletedFields /\ rec.wake.published
      BY DEF Mail, Promised, Shown
<1> HIDE DEF r, rec
<1>4. /\ DOMAIN left = Fields
      /\ left.queued = r.queued /\ left.pending = Without(r.pending, {id})
      /\ left.active = Without(r.active, {id})
      /\ left.completed = r.completed /\ left.terminal_outputs = r.terminal_outputs
      /\ left.outcome = r.outcome /\ left.pending_wakes = r.pending_wakes
      /\ left.spawn_ready = r.spawn_ready /\ left.active_messages = r.active_messages
      /\ left.next_generation = r.next_generation
      /\ left.publications = r.publications
      BY <1>2 DEF Mail, Fields
<1> HIDE DEF left, Z
<1>5. Mail(left, X, Z)
  <2>1. /\ DOMAIN left.active = DOMAIN r.active \ {id}
        /\ \A x \in DOMAIN left.active : left.active[x] = r.active[x]
        /\ DOMAIN left.pending = DOMAIN r.pending \ {id}
        /\ \A x \in DOMAIN left.pending : left.pending[x] = r.pending[x]
        BY <1>4 DEF Without
  <2>2. id \notin DOMAIN r.terminal_outputs BY <1>2 DEF Keeps
  <2>3. Flight(left) BY <1>2, <1>4, <2>1, <2>2 DEF Mail, Flight
  <2>4. Parked(left, Z)
    <3>1. Parked(r, Z) BY <1>2 DEF Mail
    <3>2. ASSUME NEW m \in r.spawn_ready
          PROVE  \/ m.id \in Z
                 \/ m.id \in DOMAIN left.queued \cup DOMAIN left.pending
                 \/ /\ m.id \in DOMAIN left.active
                    /\ left.active[m.id].wake # None
                    /\ left.active[m.id].finalizing => m.id \in DOMAIN left.terminal_outputs
      <4>1. m.id # id BY <1>2
      <4>2. \/ m.id \in Z
            \/ m.id \in DOMAIN r.queued \cup DOMAIN r.pending
            \/ /\ m.id \in DOMAIN r.active
               /\ r.active[m.id].wake # None
               /\ r.active[m.id].finalizing => m.id \in DOMAIN r.terminal_outputs
            BY <3>1 DEF Parked
      <4>3. CASE m.id \in DOMAIN r.active
        <5>1. m.id \in DOMAIN left.active /\ left.active[m.id] = r.active[m.id]
              BY <2>1, <4>1, <4>3
        <5> QED BY <1>4, <2>1, <4>1, <4>2, <5>1
      <4>4. CASE m.id \notin DOMAIN r.active BY <1>4, <2>1, <4>1, <4>2, <4>4
      <4> QED BY <4>3, <4>4
    <3> QED BY <1>4, <3>2 DEF Parked
  <2>5. Shown(left.active) /\ Shown(left.pending)
        BY <1>2, <2>1 DEF Mail, Promised, Shown
  <2>6. Promised(left, {}) BY <1>2, <1>4, <2>5 DEF Mail, Promised
  <2>7. Post(left, X) BY <1>2, <1>4 DEF Mail, Post
  <2> QED BY <1>4, <2>3, <2>4, <2>6, <2>7 DEF Mail
<1>6. left.queued = s.queued BY <1>2, <1>4 DEF Keeps
<1>7. ASSUME id \in DOMAIN s.active \cup DOMAIN s.pending, rec.wake # None
      PROVE  Mail(start_queued_within_capacity(drained), X, Z)
  <2>1. \A x \in DOMAIN old : DOMAIN old[x] = CompletedFields /\ old[x].published
        BY <1>3, <1>7
  <2> HIDE DEF old, now
  <2>2. Mail(restored, X, Z) /\ Keeps(left, restored) BY <1>5, <2>1, RestoreMail
  <2> HIDE DEF restored
  <2>3. Still(restored, drained) BY <2>2, TeardownDrainStill DEF Mail
  <2> HIDE DEF drained
  <2>4. Mail(drained, X, Z) BY <2>2, <2>3, StillMail
  <2>5. Spared(drained) BY <1>6, <2>2, <2>3 DEF Spared, Still, Keeps
  <2> QED BY <2>4, <2>5, StartQueuedMail
<1>8. Mail(start_queued_within_capacity(filed), X, Z)
  <2> HIDE DEF recs
  <2>1. Mail(filed, X, Z) /\ Keeps(left, filed) BY <1>5, FileMail
  <2> HIDE DEF filed
  <2>2. Spared(filed) BY <1>6, <2>1 DEF Spared, Keeps
  <2> QED BY <2>1, <2>2, StartQueuedMail
<1> HIDE DEF drained, filed
<1>9. Mail(finish_child(s, id, success), X, Z) BY <1>1, <1>2, <1>7, <1>8
<1> QED BY <1>9 DEF Z

(* A run that ended: the child stays while admissions are in flight.       *)
LEMMA TerminalizationMail ==
  ASSUME NEW s, NEW X, NEW Y, NEW id, NEW success, Mail(s, X, Y), Spared(s),
         id \notin DOMAIN s.terminal_outputs
  PROVE  Mail(begin_terminalization(s, id, success), X, Y)
<1> DEFINE child == s.active[id]
           closing == [s EXCEPT !.active[id].finalizing = TRUE]
           held == [closing EXCEPT !.terminal_outputs = Put(@, id, success)]
           ok == success /\ child.clean
<1>1. \/ begin_terminalization(s, id, success) = finish_child(s, id, success)
      \/ /\ id \in DOMAIN s.active
         /\ begin_terminalization(s, id, success) = finish_child(closing, id, ok)
      \/ /\ id \in DOMAIN s.active /\ child.in_flight # 0
         /\ begin_terminalization(s, id, success) = held
      BY DEF begin_terminalization, finish_terminalized_child
<1>2. Mail(finish_child(s, id, success), X, Y)
  <2>1. Mail(finish_child(s, id, success), X, Y \ {id}) BY FinishChildMail
  <2>2. Y \ {id} \subseteq Y OBVIOUS
  <2> QED BY <2>1, <2>2, MoreTransit
<1>3. ASSUME id \in DOMAIN s.active
      PROVE  /\ Mail(finish_child(closing, id, ok), X, Y)
             /\ child.in_flight # 0 => Mail(held, X, Y)
  <2> DEFINE active == [s.active EXCEPT ![id].finalizing = TRUE]
  <2>1. Counts(child, id, s.active_messages, s.next_generation)
        BY <1>3 DEF Mail, Flight
  <2>2. /\ DOMAIN active = DOMAIN s.active
        /\ \A x \in DOMAIN s.active \ {id} : active[x] = s.active[x]
        /\ active[id] = [child EXCEPT !.finalizing = TRUE]
        BY <1>3
  <2>3. /\ DOMAIN active[id] = ActiveFields /\ active[id].finalizing
        /\ active[id].generation = child.generation
        /\ active[id].in_flight = child.in_flight
        /\ active[id].reporter_waits = child.reporter_waits
        /\ active[id].wake = child.wake
        BY <2>1, <2>2 DEF Counts, ActiveFields
  <2>4. /\ DOMAIN closing = Fields
        /\ closing.queued = s.queued /\ closing.pending = s.pending
        /\ closing.active = active /\ closing.completed = s.completed
        /\ closing.terminal_outputs = s.terminal_outputs
        /\ closing.outcome = s.outcome /\ closing.pending_wakes = s.pending_wakes
        /\ closing.spawn_ready = s.spawn_ready
        /\ closing.active_messages = s.active_messages
        /\ closing.next_generation = s.next_generation
        /\ closing.publications = s.publications
        BY DEF Mail, Fields
  <2>5. /\ DOMAIN held = Fields
        /\ held.queued = s.queued /\ held.pending = s.pending
        /\ held.active = active /\ held.completed = s.completed
        /\ held.terminal_outputs = Put(s.terminal_outputs, id, success)
        /\ held.outcome = s.outcome /\ held.pending_wakes = s.pending_wakes
        /\ held.spawn_ready = s.spawn_ready
        /\ held.active_messages = s.active_messages
        /\ held.next_generation = s.next_generation
        /\ held.publications = s.publications
        BY DEF Mail, Fields
  <2> HIDE DEF active, closing, held, ok
  <2>6. Shown(active)
    <3>1. \A x \in DOMAIN active : x \in DOMAIN s.active /\ active[x].wake = s.active[x].wake
          BY <2>2, <2>3
    <3>2. Shown(s.active) BY DEF Mail, Promised
    <3> QED BY <3>1, <3>2 DEF Shown
  <2>7. \A x \in DOMAIN active :
          Counts(active[x], x, s.active_messages, s.next_generation)
    <3>1. Counts(active[id], id, s.active_messages, s.next_generation)
          BY <2>1, <2>3 DEF Counts
    <3> QED BY <2>2, <3>1 DEF Mail, Flight
  <2>8. Mail(closing, X, Y \cup {id})
    <3>1. Post(closing, X) BY <2>4 DEF Mail, Post
    <3>2. Flight(closing)
          BY <2>2, <2>3, <2>4, <2>7 DEF Mail, Flight
    <3>3. Parked(closing, Y \cup {id}) BY <2>2, <2>4 DEF Mail, Parked
    <3>4. Promised(closing, {}) BY <2>4, <2>6 DEF Mail, Promised
    <3> QED BY <2>4, <3>1, <3>2, <3>3, <3>4 DEF Mail
  <2>9. Mail(finish_child(closing, id, ok), X, Y)
    <3>1. Spared(closing) BY <2>4 DEF Spared
    <3>2. Mail(finish_child(closing, id, ok), X, (Y \cup {id}) \ {id})
          BY <2>4, <2>8, <3>1, FinishChildMail
    <3>3. (Y \cup {id}) \ {id} \subseteq Y OBVIOUS
    <3> QED BY <3>2, <3>3, MoreTransit
  <2>10. ASSUME child.in_flight # 0 PROVE Mail(held, X, Y)
    <3>0. /\ DOMAIN held.terminal_outputs = DOMAIN s.terminal_outputs \cup {id}
          BY <2>5 DEF Put
    <3>1. Post(held, X) BY <2>5 DEF Mail, Post
    <3>2. active[id].in_flight > 0 BY <2>1, <2>3, <2>10 DEF Counts
    <3>3. Flight(held)
          BY <1>3, <2>2, <2>3, <2>5, <2>7, <3>0, <3>2 DEF Mail, Flight
    <3>4. Parked(held, Y)
      <4>1. \A x \in DOMAIN active : active[x].wake = s.active[x].wake BY <2>2, <2>3
      <4>2. \A x \in DOMAIN active \ {id} : active[x].finalizing = s.active[x].finalizing
            BY <2>2
      <4>3. Parked(s, Y) BY DEF Mail
      <4> HIDE DEF child
      <4> QED BY <2>2, <2>5, <3>0, <4>1, <4>2, <4>3 DEF Parked
    <3>5. Promised(held, {}) BY <2>5, <2>6 DEF Mail, Promised
    <3> QED BY <2>5, <3>1, <3>3, <3>4, <3>5 DEF Mail
  <2> QED BY <2>9, <2>10
<1> HIDE DEF closing, held, ok
<1> QED BY <1>1, <1>2, <1>3

----------------------------------------------------------------------------
(* Admissions.                                                             *)

(* Messages are finitely many.                                             *)
LEMMA OnceFinite ==
  ASSUME NEW recs, Once(recs), MsgsOf(recs) \subseteq Messages
  PROVE  IsFiniteSet(recs)
<1> DEFINE f == [r \in recs |-> r.msg]
<1>1. f \in [recs -> Messages] BY DEF MsgsOf
<1>2. \A a, b \in recs : f[a] = f[b] => a = b BY DEF Once
<1> HIDE DEF f
<1>3. f \in Injection(recs, Messages) BY <1>1, <1>2 DEF Injection, IsInjective
<1> QED BY <1>3, ConstantsAssumption, FS_Injection

(* The admissions of the messages of T: as many, of the same messages.     *)
Begun(T, id, g) == {[msg |-> m.msg, id |-> id, generation |-> g] : m \in T}

LEMMA NewFlights ==
  ASSUME NEW T, Once(T), IsFiniteSet(T), NEW id, NEW g
  PROVE  /\ IsFiniteSet(Begun(T, id, g))
         /\ Cardinality(Begun(T, id, g)) = Cardinality(T)
         /\ Once(Begun(T, id, g)) /\ MsgsOf(Begun(T, id, g)) = MsgsOf(T)
         /\ \A f \in Begun(T, id, g) : /\ f.id = id /\ f.generation = g
                                      /\ f.msg \in MsgsOf(T)
         /\ id \in Ids /\ g \in Nat /\ MsgsOf(T) \subseteq Messages =>
              Begun(T, id, g) \subseteq Flights
<1> DEFINE new == Begun(T, id, g)
           f == [m \in T |-> [msg |-> m.msg, id |-> id, generation |-> g]]
<1>1. f \in [T -> new] BY DEF Begun
<1>2. \A a, b \in T : f[a] = f[b] => a = b BY DEF Once
<1>3. \A y \in new : \E x \in T : f[x] = y BY DEF Begun
<1>4. \A x \in T : f[x].msg = x.msg /\ f[x].id = id /\ f[x].generation = g OBVIOUS
<1>5. \A x \in T : x.msg \in MsgsOf(T) BY DEF MsgsOf
<1>6. id \in Ids /\ g \in Nat /\ MsgsOf(T) \subseteq Messages => new \subseteq Flights
      BY <1>5 DEF Begun, Flights
<1> HIDE DEF f, new
<1>7. f \in Bijection(T, new)
      BY <1>1, <1>2, <1>3 DEF Bijection, Injection, Surjection, IsInjective
<1>8. ExistsBijection(T, new) BY <1>7 DEF ExistsBijection
<1>9. IsFiniteSet(new) /\ Cardinality(new) = Cardinality(T) BY <1>8, FS_Bijection
<1>10. Once(new) BY <1>3, <1>4 DEF Once
<1>11. \A y \in new : y.id = id /\ y.generation = g /\ y.msg \in MsgsOf(T)
       BY <1>3, <1>4, <1>5
<1>12. MsgsOf(new) = MsgsOf(T)
  <2>1. MsgsOf(new) \subseteq MsgsOf(T) BY <1>11 DEF MsgsOf
  <2>2. \A x \in T : f[x] \in new /\ x.msg = f[x].msg BY <1>1, <1>4
  <2>3. MsgsOf(T) \subseteq MsgsOf(new) BY <2>2 DEF MsgsOf
  <2> QED BY <2>1, <2>3
<1> QED BY <1>6, <1>9, <1>10, <1>11, <1>12 DEF new

(* A child takes the messages that fit under its cap, each is counted, and *)
(* the others are refused.                                                 *)
LEMMA AdmitMail ==
  ASSUME NEW s, NEW X, NEW Y, Mail(s, X, Y), NEW id \in Ids, id \in DOMAIN s.active,
         NEW msgs, Once(msgs), MsgsOf(msgs) \subseteq X
  PROVE  Mail(admit_active_messages(s, id, msgs), X \ MsgsOf(msgs), Y)
<1> DEFINE child == s.active[id]
           ahead(m) == {x \in msgs : x.msg < m.msg}
           taken == {m \in msgs : admissible(child, Cardinality(ahead(m)))}
           g == child.generation
           n == Cardinality(taken)
           new == Begun(taken, id, g)
           more == [child EXCEPT !.in_flight = @ + n]
           active == [s.active EXCEPT ![id] = more]
           u == [s EXCEPT !.active = active, !.active_messages = @ \cup new]
           t == Answer(u, MsgsOf(msgs \ taken), "Refused")
<1>1. CASE msgs = {}
  <2>1. admit_active_messages(s, id, msgs) = s BY <1>1 DEF admit_active_messages
  <2>2. X \ MsgsOf(msgs) = X BY <1>1 DEF MsgsOf
  <2> QED BY <2>1, <2>2
<1>2. CASE msgs # {}
  <2>0. admit_active_messages(s, id, msgs) = t
        BY <1>2 DEF admit_active_messages, begin_admissions, Begun
  <2>1. X \subseteq Messages /\ Messages \subseteq Nat
        BY ConstantsAssumption DEF Mail, Post
  <2>2. Counts(child, id, s.active_messages, s.next_generation)
        BY DEF Mail, Flight
  <2>3. taken \subseteq msgs OBVIOUS
  <2>4. IsFiniteSet(msgs)
    <3>1. MsgsOf(msgs) \subseteq Messages BY <2>1
    <3> QED BY <3>1, OnceFinite
  <2>5. IsFiniteSet(taken) /\ n \in Nat /\ child.in_flight + n <= MaxPerChild
    <3>0. child.in_flight \in Nat /\ child.in_flight <= MaxPerChild /\ MaxPerChild \in Nat
          BY <2>2, ConstantsAssumption DEF Counts
    <3>1. CASE taken = {}
      <4>1. IsFiniteSet(taken) /\ n = 0 BY <3>1, FS_EmptySet
      <4> HIDE DEF child, taken, n
      <4> QED BY <3>0, <4>1
    <3>2. CASE taken # {}
      <4> DEFINE at == [m \in msgs |-> m.msg]
                 k == child.in_flight
      <4>1. at \in [msgs -> Nat] BY <2>1 DEF MsgsOf
      <4>2. \A x, y \in msgs : at[x] = at[y] => x = y BY DEF Once
      <4>3. \A m \in msgs : ahead(m) = Ahead(msgs, at, m) BY DEF Ahead
      <4> HIDE DEF at
      <4>4. taken = Fitting(msgs, at, k, MaxPerChild)
        <5>1. /\ child.req.workflow = None /\ ~child.cancelled /\ ~child.finalizing
              BY <3>2 DEF admissible
        <5>2. \A m \in msgs : admissible(child, Cardinality(ahead(m))) <=>
                k + Cardinality(Ahead(msgs, at, m)) < MaxPerChild
              BY <4>3, <5>1 DEF admissible
        <5> HIDE DEF child, k, ahead
        <5> QED BY <5>2 DEF Fitting
      <4> HIDE DEF k
      <4>5. k \in Nat /\ k <= MaxPerChild /\ MaxPerChild \in Nat BY <3>0 DEF k
      <4> HIDE DEF taken
      <4>6. IsFiniteSet(taken) /\ k + Cardinality(taken) <= MaxPerChild
        <5>1. /\ IsFiniteSet(Fitting(msgs, at, k, MaxPerChild))
              /\ k + Cardinality(Fitting(msgs, at, k, MaxPerChild)) <= MaxPerChild
              BY <2>4, <4>1, <4>2, <4>5, FittingCount
        <5> QED BY <4>4, <5>1
      <4> QED BY <4>6, FS_CardinalityType DEF k
    <3> QED BY <3>1, <3>2
  <2>6. Once(taken) BY <2>3 DEF Once
  <2>7. g \in Nat BY <2>2 DEF Counts
  <2> HIDE DEF taken, g
  <2>8. MsgsOf(taken) \subseteq Messages BY <2>1, <2>3 DEF MsgsOf
  <2>9. /\ IsFiniteSet(new) /\ Cardinality(new) = n
        /\ Once(new) /\ MsgsOf(new) = MsgsOf(taken)
        /\ \A f \in new : f.id = id /\ f.generation = g /\ f.msg \in MsgsOf(taken)
        /\ new \subseteq Flights
        BY <2>5, <2>6, <2>7, <2>8, NewFlights
  <2>11. MsgsOf(taken) \subseteq MsgsOf(msgs) BY <2>3 DEF MsgsOf
  <2>12. MsgsOf(msgs) = MsgsOf(taken) \cup MsgsOf(msgs \ taken)
         /\ MsgsOf(taken) \cap MsgsOf(msgs \ taken) = {}
         BY <2>3 DEF MsgsOf, Once
  <2> HIDE DEF new, n
  <2>13. /\ DOMAIN u = Fields
         /\ u.queued = s.queued /\ u.pending = s.pending /\ u.active = active
         /\ u.completed = s.completed /\ u.terminal_outputs = s.terminal_outputs
         /\ u.outcome = s.outcome /\ u.pending_wakes = s.pending_wakes
         /\ u.spawn_ready = s.spawn_ready
         /\ u.active_messages = s.active_messages \cup new
         /\ u.next_generation = s.next_generation /\ u.publications = s.publications
         BY DEF Mail, Fields
  <2>14. /\ DOMAIN more = ActiveFields /\ more.generation = g
         /\ more.in_flight = child.in_flight + n /\ more.wake = child.wake
         /\ more.finalizing = child.finalizing
         /\ more.reporter_waits = child.reporter_waits
         BY <2>2 DEF Counts, ActiveFields, g
  <2>15. /\ DOMAIN active = DOMAIN s.active /\ active[id] = more
         /\ \A x \in DOMAIN s.active \ {id} : active[x] = s.active[x]
         OBVIOUS
  <2> HIDE DEF u, active, more
  <2>16. Post(u, X \ MsgsOf(taken))
    <3> DEFINE A == MsgsOf(s.active_messages)
               B == MsgsOf(taken)
               U == MsgsOf(u.active_messages)
    <3>1. U = A \cup B BY <2>9, <2>13 DEF MsgsOf
    <3>2. u.active_messages \subseteq Flights BY <2>9, <2>13 DEF Mail, Post
    <3>3. A \cap B = {} BY <2>11 DEF Mail, Post
    <3>4. Once(u.active_messages)
      <4>1. Once(s.active_messages) BY DEF Mail, Post
      <4>2. \A f \in s.active_messages, h \in new : f.msg # h.msg
            BY <2>9, <3>3 DEF MsgsOf
      <4> QED BY <2>9, <2>13, <4>1, <4>2 DEF Once
    <3>5. B \subseteq X BY <2>11
    <3> HIDE DEF A, B, U
    <3>6. /\ MsgsOf(s.pending_wakes) \cap A = {} /\ MsgsOf(s.spawn_ready) \cap A = {}
          /\ X \cap A = {} /\ X \cap MsgsOf(s.pending_wakes) = {}
          /\ X \cap MsgsOf(s.spawn_ready) = {}
          /\ X \subseteq Messages
          /\ \A m \in Messages : s.outcome[m] = "waiting" <=>
               \/ m \in X \/ m \in MsgsOf(s.pending_wakes)
               \/ m \in MsgsOf(s.spawn_ready) \/ m \in A
          BY DEF Mail, Post, A
    <3>7. /\ MsgsOf(u.pending_wakes) \cap U = {} /\ MsgsOf(u.spawn_ready) \cap U = {}
          /\ (X \ B) \cap U = {} /\ (X \ B) \cap MsgsOf(u.pending_wakes) = {}
          /\ (X \ B) \cap MsgsOf(u.spawn_ready) = {}
          /\ X \ B \subseteq Messages
          BY <2>13, <3>1, <3>3, <3>5, <3>6
    <3>8. \A m \in Messages : u.outcome[m] = "waiting" <=>
             \/ m \in X \ B \/ m \in MsgsOf(u.pending_wakes)
             \/ m \in MsgsOf(u.spawn_ready) \/ m \in U
          BY <2>13, <3>1, <3>5, <3>6
    <3>9. /\ DOMAIN u.outcome = Messages
          /\ u.pending_wakes \subseteq Sends /\ Once(u.pending_wakes)
          /\ u.spawn_ready \subseteq Parks /\ Once(u.spawn_ready)
          /\ MsgsOf(u.pending_wakes) \cap MsgsOf(u.spawn_ready) = {}
          BY <2>13 DEF Mail, Post
    <3> QED BY <3>2, <3>4, <3>7, <3>8, <3>9 DEF Post, B, U
  <2>17. \A x \in DOMAIN active :
           Counts(active[x], x, u.active_messages, u.next_generation)
    <3>1. ASSUME NEW x \in DOMAIN active, x # id
          PROVE  Counts(active[x], x, u.active_messages, u.next_generation)
      <4>1. Counts(s.active[x], x, s.active_messages, s.next_generation)
            BY <2>15, <3>1 DEF Mail, Flight
      <4>2. InFlight(u.active_messages, x, s.active[x].generation)
              = InFlight(s.active_messages, x, s.active[x].generation)
            BY <2>9, <2>13, <3>1 DEF InFlight
      <4> QED BY <2>13, <2>15, <3>1, <4>1, <4>2 DEF Counts
    <3>2. Counts(active[id], id, u.active_messages, u.next_generation)
      <4> DEFINE F == InFlight(s.active_messages, id, g)
      <4>1. InFlight(u.active_messages, id, g) = F \cup new
            BY <2>9, <2>13 DEF InFlight
      <4>2. F \cap new = {}
        <5>1. \A f \in F : f.msg \in MsgsOf(s.active_messages) BY DEF InFlight, MsgsOf
        <5>2. MsgsOf(s.active_messages) \cap MsgsOf(taken) = {}
              BY <2>11 DEF Mail, Post
        <5> QED BY <2>9, <5>1, <5>2
      <4>3. IsFiniteSet(F)
        <5>1. Once(s.active_messages) /\ MsgsOf(s.active_messages) \subseteq Messages
              BY DEF Mail, Post, MsgsOf, Flights
        <5>2. IsFiniteSet(s.active_messages) BY <5>1, OnceFinite
        <5>3. F \in SUBSET s.active_messages BY DEF InFlight
        <5> QED BY <5>2, <5>3, FS_Subset
      <4>4. Cardinality(F) = child.in_flight BY <2>2 DEF Counts, g
      <4>5. child.in_flight \in Nat BY <2>2 DEF Counts
      <4> HIDE DEF F
      <4>6. Cardinality(F \cup new) = child.in_flight + n
        <5>1. Cardinality(F \cap new) = 0 BY <4>2, FS_EmptySet
        <5>2. Cardinality(F \cup new)
                = Cardinality(F) + Cardinality(new) - Cardinality(F \cap new)
              BY <2>9, <4>3, FS_Union
        <5> HIDE DEF child
        <5> QED BY <2>5, <2>9, <4>4, <4>5, <5>1, <5>2
      <4>7. more.in_flight \in Nat /\ more.in_flight <= MaxPerChild
            /\ (child.in_flight > 0 => more.in_flight > 0)
        <5> HIDE DEF child
        <5> QED BY <2>5, <2>14, <4>5
      <4>8. /\ child.reporter_waits => child.finalizing /\ child.in_flight > 0
            /\ g \in Nat /\ g < s.next_generation
            BY <2>2 DEF Counts, g
      <4> HIDE DEF child
      <4> QED BY <2>13, <2>14, <2>15, <4>1, <4>6, <4>7, <4>8 DEF Counts
    <3> QED BY <3>1, <3>2
  <2>18. Flight(u)
    <3>1. \A f \in u.active_messages : f.generation < u.next_generation
          BY <2>2, <2>9, <2>13 DEF Mail, Flight, Counts, g
    <3>2. ASSUME NEW x \in DOMAIN u.terminal_outputs
          PROVE  x \in DOMAIN u.active /\ u.active[x].finalizing /\ u.active[x].in_flight > 0
      <4>1. x \in DOMAIN s.active /\ s.active[x].finalizing /\ s.active[x].in_flight > 0
            BY <2>13, <3>2 DEF Mail, Flight
      <4>2. CASE x # id BY <2>13, <2>15, <4>1, <4>2
      <4>3. CASE x = id
        <5>1. child.in_flight \in Nat BY <2>2 DEF Counts
        <5>2. child.in_flight > 0 /\ child.finalizing BY <4>1, <4>3
        <5> HIDE DEF child
        <5>3. more.in_flight > 0 BY <2>5, <2>14, <5>1, <5>2
        <5> QED BY <2>13, <2>14, <2>15, <4>1, <4>3, <5>2, <5>3
      <4> QED BY <4>2, <4>3
    <3> QED BY <2>13, <2>17, <3>1, <3>2 DEF Mail, Flight
  <2>19. /\ \A x \in DOMAIN active : active[x].wake = s.active[x].wake
         /\ \A x \in DOMAIN active : active[x].finalizing = s.active[x].finalizing
         BY <2>14, <2>15
  <2>20. Parked(u, Y) /\ Promised(u, {})
    <3>1. Shown(active) BY <2>15, <2>19 DEF Mail, Promised, Shown
    <3>2. Parked(u, Y) BY <2>13, <2>15, <2>19 DEF Mail, Parked
    <3> QED BY <2>13, <3>1, <3>2 DEF Mail, Promised
  <2>21. Mail(u, X \ MsgsOf(taken), Y) BY <2>13, <2>16, <2>18, <2>20 DEF Mail
  <2>22. MsgsOf(msgs \ taken) \subseteq X \ MsgsOf(taken) BY <2>12
  <2>23. Mail(t, (X \ MsgsOf(taken)) \ MsgsOf(msgs \ taken), Y)
         BY <2>21, <2>22, AnswerMail
  <2>24. (X \ MsgsOf(taken)) \ MsgsOf(msgs \ taken) = X \ MsgsOf(msgs) BY <2>12
  <2> QED BY <2>0, <2>23, <2>24
<1> QED BY <1>1, <1>2

(* A child that runs takes what was parked for its start.                  *)
LEMMA AdmitSpawnReadyMail ==
  ASSUME NEW s, NEW X, NEW Y, Mail(s, X, Y), NEW id \in Ids, id \in DOMAIN s.active
  PROVE  Mail(admit_spawn_ready_messages(s, id), X, Y \ {id})
<1> DEFINE parked == {m \in s.spawn_ready : m.id = id}
           initial == {m \in parked : m.initial}
           rest == parked \ initial
           t == [s EXCEPT !.spawn_ready = @ \ parked]
           u == Answer(t, MsgsOf(initial), "Accepted")
           P == MsgsOf(parked)
           I == MsgsOf(initial)
           R == MsgsOf(rest)
<1>1. admit_spawn_ready_messages(s, id) = admit_active_messages(u, id, rest)
      BY DEF admit_spawn_ready_messages
<1>2. parked \in SUBSET s.spawn_ready OBVIOUS
<1>3. /\ Mail(t, X \cup P, Y) /\ Keeps(s, t) /\ t.spawn_ready = s.spawn_ready \ parked
  <2> HIDE DEF parked
  <2> QED BY <1>2, UnparkMail
<1>4. \A m \in t.spawn_ready : m.id # id BY <1>3
<1>5. Mail(t, X \cup P, Y \ {id}) BY <1>3, <1>4 DEF Mail, Parked
<1>6. Once(parked) BY <1>2 DEF Once, Mail, Post
<1> HIDE DEF parked
<1>7. P = I \cup R /\ I \cap R = {} BY <1>6 DEF MsgsOf, Once
<1>8. Once(rest) BY <1>6 DEF Once
<1>9. P \cap X = {} BY <1>2 DEF Mail, Post, MsgsOf
<1> HIDE DEF t, initial, rest, P, I, R
<1>10. I \subseteq X \cup P BY <1>7
<1>11. Mail(u, (X \cup P) \ I, Y \ {id}) /\ Keeps(t, u) BY <1>5, <1>10, AnswerMail DEF I
<1> HIDE DEF u
<1>12. id \in DOMAIN u.active BY <1>3, <1>11 DEF Keeps
<1>13. MsgsOf(rest) \subseteq (X \cup P) \ I BY <1>7, <1>9 DEF R
<1>14. Mail(admit_active_messages(u, id, rest), ((X \cup P) \ I) \ MsgsOf(rest), Y \ {id})
       BY <1>8, <1>11, <1>12, <1>13, AdmitMail
<1>15. ((X \cup P) \ I) \ MsgsOf(rest) = X BY <1>7, <1>9 DEF R
<1> QED BY <1>1, <1>14, <1>15

----------------------------------------------------------------------------
(* Wakes and sends.                                                        *)

(* t has at most the completed records of s.                               *)
LEMMA ForgetMail ==
  ASSUME NEW s, NEW t, NEW X, NEW Y, Mail(s, X, Y),
         DOMAIN t = Fields, t.queued = s.queued, t.pending = s.pending,
         t.active = s.active, t.terminal_outputs = s.terminal_outputs,
         t.outcome = s.outcome, t.pending_wakes = s.pending_wakes,
         t.spawn_ready = s.spawn_ready, t.active_messages = s.active_messages,
         t.next_generation = s.next_generation, t.publications = s.publications,
         \A x \in DOMAIN t.completed :
           x \in DOMAIN s.completed /\ t.completed[x] = s.completed[x]
  PROVE  Mail(t, X, Y)
<1>1. Promised(t, {}) BY DEF Mail, Promised
<1> QED BY <1>1 DEF Mail, Post, Flight, Parked

(* Sends of X that are parked for the child id.                            *)
LEMMA ParkMail ==
  ASSUME NEW s, NEW X, NEW Y, Mail(s, X, Y), NEW id, NEW new, new \subseteq Parks,
         Once(new), MsgsOf(new) \subseteq X, \A m \in new : m.id = id
  PROVE  LET t == [s EXCEPT !.spawn_ready = @ \cup new]
         IN  Mail(t, X \ MsgsOf(new), Y \cup {id}) /\ Keeps(s, t)
<1> DEFINE t == [s EXCEPT !.spawn_ready = @ \cup new]
<1>1. /\ DOMAIN t = Fields
      /\ t.queued = s.queued /\ t.pending = s.pending /\ t.active = s.active
      /\ t.completed = s.completed /\ t.terminal_outputs = s.terminal_outputs
      /\ t.pending_wakes = s.pending_wakes /\ t.spawn_ready = s.spawn_ready \cup new
      /\ t.active_messages = s.active_messages /\ t.outcome = s.outcome
      /\ t.next_generation = s.next_generation /\ t.publications = s.publications
      BY DEF Mail, Fields
<1> HIDE DEF t
<1>2. Post(t, X \ MsgsOf(new))
  <2> DEFINE A == MsgsOf(s.spawn_ready)
             B == MsgsOf(new)
             U == MsgsOf(t.spawn_ready)
  <2>1. U = A \cup B BY <1>1 DEF MsgsOf
  <2>2. t.spawn_ready \subseteq Parks BY <1>1 DEF Mail, Post
  <2>3. A \cap B = {} BY DEF Mail, Post
  <2>4. Once(t.spawn_ready)
    <3>1. Once(s.spawn_ready) BY DEF Mail, Post
    <3>2. \A m \in s.spawn_ready, h \in new : m.msg # h.msg BY <2>3 DEF MsgsOf
    <3> QED BY <1>1, <3>1, <3>2 DEF Once
  <2> HIDE DEF A, B, U
  <2>5. /\ MsgsOf(s.pending_wakes) \cap A = {} /\ MsgsOf(s.active_messages) \cap A = {}
        /\ X \cap A = {} /\ X \cap MsgsOf(s.pending_wakes) = {}
        /\ X \cap MsgsOf(s.active_messages) = {}
        /\ X \subseteq Messages /\ B \subseteq X
        /\ \A m \in Messages : s.outcome[m] = "waiting" <=>
             \/ m \in X \/ m \in MsgsOf(s.pending_wakes)
             \/ m \in A \/ m \in MsgsOf(s.active_messages)
        BY DEF Mail, Post, A, B
  <2>6. /\ MsgsOf(t.pending_wakes) \cap U = {} /\ U \cap MsgsOf(t.active_messages) = {}
        /\ (X \ B) \cap U = {} /\ (X \ B) \cap MsgsOf(t.pending_wakes) = {}
        /\ (X \ B) \cap MsgsOf(t.active_messages) = {}
        /\ X \ B \subseteq Messages
        BY <1>1, <2>1, <2>3, <2>5
  <2>7. \A m \in Messages : t.outcome[m] = "waiting" <=>
          \/ m \in X \ B \/ m \in MsgsOf(t.pending_wakes)
          \/ m \in U \/ m \in MsgsOf(t.active_messages)
        BY <1>1, <2>1, <2>5
  <2>8. /\ DOMAIN t.outcome = Messages
        /\ t.pending_wakes \subseteq Sends /\ Once(t.pending_wakes)
        /\ t.active_messages \subseteq Flights /\ Once(t.active_messages)
        /\ MsgsOf(t.pending_wakes) \cap MsgsOf(t.active_messages) = {}
        BY <1>1 DEF Mail, Post
  <2> QED BY <2>2, <2>4, <2>6, <2>7, <2>8 DEF Post, B, U
<1>3. Flight(t) /\ Promised(t, {}) BY <1>1 DEF Mail, Flight, Promised
<1>4. Parked(t, Y \cup {id}) BY <1>1 DEF Mail, Parked
<1>5. Mail(t, X \ MsgsOf(new), Y \cup {id}) /\ Keeps(s, t)
      BY <1>1, <1>2, <1>3, <1>4 DEF Mail, Keeps
<1> QED BY <1>5 DEF t

(* An entry that is queued is what parked sends wait for.                  *)
LEMMA EnqueueMail ==
  ASSUME NEW s, NEW X, NEW Y, Mail(s, X, Y), NEW id, NEW entry,
         entry.wake # None => DOMAIN entry.wake = CompletedFields /\ entry.wake.published
  PROVE  Mail([s EXCEPT !.queued = Put(@, id, entry)], X, Y \ {id})
<1> DEFINE queued == Put(s.queued, id, entry)
           t == [s EXCEPT !.queued = Put(@, id, entry)]
<1>1. /\ DOMAIN t = Fields
      /\ t.queued = queued /\ t.pending = s.pending /\ t.active = s.active
      /\ t.completed = s.completed /\ t.terminal_outputs = s.terminal_outputs
      /\ t.outcome = s.outcome /\ t.pending_wakes = s.pending_wakes
      /\ t.spawn_ready = s.spawn_ready /\ t.active_messages = s.active_messages
      /\ t.next_generation = s.next_generation /\ t.publications = s.publications
      BY DEF Mail, Fields
<1>2. DOMAIN queued = DOMAIN s.queued \cup {id} /\ Shown(queued)
      BY DEF Put, Shown, Mail, Promised
<1> HIDE DEF t, queued
<1>3. Parked(t, Y \ {id}) BY <1>1, <1>2 DEF Mail, Parked
<1>4. Promised(t, {}) BY <1>1, <1>2 DEF Mail, Promised
<1>5. Post(t, X) /\ Flight(t) BY <1>1 DEF Mail, Post, Flight
<1>6. Mail(t, X, Y \ {id}) BY <1>1, <1>3, <1>4, <1>5 DEF Mail
<1> QED BY <1>6 DEF t

(* The parked form of sends: as many, of the same messages.                *)
Parkings(msgs, flag) == {Park(m, flag[m]) : m \in msgs}

LEMMA ParkingsFacts ==
  ASSUME NEW msgs, msgs \subseteq Sends, Once(msgs), NEW flag \in [msgs -> BOOLEAN],
         NEW id, \A m \in msgs : m.id = id
  PROVE  /\ Parkings(msgs, flag) \subseteq Parks /\ Once(Parkings(msgs, flag))
         /\ MsgsOf(Parkings(msgs, flag)) = MsgsOf(msgs)
         /\ \A m \in Parkings(msgs, flag) : m.id = id
<1> DEFINE new == Parkings(msgs, flag)
           f == [m \in msgs |-> Park(m, flag[m])]
<1>1. \A m \in msgs : /\ f[m] \in Parks /\ f[m].msg = m.msg /\ f[m].id = m.id
                      /\ f[m] \in new
      BY DEF Park, Parks, Sends, Parkings
<1>2. \A y \in new : \E m \in msgs : y = f[m] BY DEF Parkings
<1> HIDE DEF new, f
<1>3. new \subseteq Parks /\ \A y \in new : y.id = id BY <1>1, <1>2
<1>4. Once(new) BY <1>1, <1>2 DEF Once
<1>5. MsgsOf(new) = MsgsOf(msgs)
  <2>1. \A y \in new : \E m \in msgs : y.msg = m.msg BY <1>1, <1>2
  <2>2. \A m \in msgs : \E y \in new : y.msg = m.msg BY <1>1
  <2> QED BY <2>1, <2>2 DEF MsgsOf
<1> QED BY <1>3, <1>4, <1>5 DEF new

(* The messages for a completed child wait for its publication, are        *)
(* refused, or wait for the start of the wake.                             *)
LEMMA WakeMail ==
  ASSUME NEW s, NEW X, NEW Y, Mail(s, X, Y), NEW id, id \in DOMAIN s.completed,
         NEW msgs, msgs \subseteq Sends, Once(msgs), MsgsOf(msgs) \subseteq X,
         \A m \in msgs : m.id = id, msgs # {}
  PROVE  Mail(wake_completed_child(s, id, msgs), X \ MsgsOf(msgs), Y)
<1> DEFINE old == s.completed[id]
           first == CHOOSE m \in msgs : \A x \in msgs : m.msg <= x.msg
           req == wake_request(old.req)
           decision == admit(s, req)
           new == {Park(first, TRUE)} \cup {Park(m, FALSE) : m \in msgs \ {first}}
           left == [s EXCEPT !.completed = Without(@, {id}),
                             !.completed_order = retain(@, ToSet(@) \ {id})]
           moved == [left EXCEPT !.spawn_ready = @ \cup new]
           entry == [req |-> req, cancelled |-> FALSE, reply |-> FALSE,
                     deadline |-> FALSE, wake |-> old,
                     queued_at |-> next_queued_at(s)]
           parked == [s EXCEPT !.pending_wakes = @ \cup msgs]
           refused == Answer(s, MsgsOf(msgs), "Refused")
           one == [x \in {id} |-> entry]
           started == start_children(moved, one)
           queued == [moved EXCEPT !.queued = Put(@, id, entry)]
           M == MsgsOf(msgs)
<1>0. DOMAIN s = Fields BY DEF Mail
<1>1. \/ ~old.published /\ wake_completed_child(s, id, msgs) = parked
      \/ wake_completed_child(s, id, msgs) = refused
      \/ old.published /\ wake_completed_child(s, id, msgs) = started
      \/ old.published /\ wake_completed_child(s, id, msgs) = queued
  <2>1. moved = [s EXCEPT
        !.completed = Without(@, {id}),
        !.completed_order = retain(@, ToSet(@) \ {id}),
        !.spawn_ready = @ \cup {Park(first, TRUE)}
                          \cup {Park(m, FALSE) : m \in msgs \ {first}}]
    <3> DEFINE a == {Park(first, TRUE)}
               b == {Park(m, FALSE) : m \in msgs \ {first}}
    <3>1. s.spawn_ready \cup (a \cup b) = (s.spawn_ready \cup a) \cup b OBVIOUS
    <3> HIDE DEF a, b
    <3>2. moved = [s EXCEPT
        !.completed = Without(@, {id}),
        !.completed_order = retain(@, ToSet(@) \ {id}),
        !.spawn_ready = @ \cup a \cup b]
          BY <1>0, <3>1 DEF Fields, a, b
    <3> QED BY <3>2 DEF a, b
  <2> HIDE DEF moved, entry, req
  <2> QED BY <2>1 DEF wake_completed_child, entry, req
<1>2. first \in msgs
  <2>1. M \subseteq Nat /\ M # {}
    <3>1. X \subseteq Messages BY DEF Mail, Post
    <3>2. M # {} BY DEF MsgsOf
    <3> QED BY <3>1, <3>2, ConstantsAssumption
  <2>2. PICK k \in M : \A j \in M : k =< j BY <2>1, LeastElement
  <2>3. PICK m \in msgs : m.msg = k BY <2>2 DEF MsgsOf
  <2>4. \A x \in msgs : m.msg <= x.msg BY <2>2, <2>3 DEF MsgsOf
  <2> QED BY <2>4
<1>3. new \subseteq Parks /\ Once(new) /\ MsgsOf(new) = M /\ \A m \in new : m.id = id
  <2> HIDE DEF first
  <2> DEFINE flag == [m \in msgs |-> m = first]
  <2>1. flag \in [msgs -> BOOLEAN] OBVIOUS
  <2>2. new = Parkings(msgs, flag)
    <3>1. flag[first] = TRUE /\ \A m \in msgs \ {first} : flag[m] = FALSE BY <1>2
    <3> HIDE DEF flag
    <3> QED BY <1>2, <3>1 DEF Parkings
  <2> HIDE DEF new, flag
  <2> QED BY <2>1, <2>2, ParkingsFacts
<1>4. /\ DOMAIN old = CompletedFields
      /\ ~old.published =>
           [id |-> id, age |-> old.age, stage |-> "presenting"] \in s.publications
      BY DEF Mail, Promised
<1>5. MsgsOf(msgs) \in SUBSET X OBVIOUS
<1>6. Mail(refused, X \ M, Y) BY <1>5, AnswerMail
<1>7. ASSUME ~old.published PROVE Mail(parked, X \ M, Y)
  <2>1. /\ DOMAIN parked = Fields
        /\ parked.queued = s.queued /\ parked.pending = s.pending
        /\ parked.active = s.active /\ parked.completed = s.completed
        /\ parked.terminal_outputs = s.terminal_outputs
        /\ parked.outcome = s.outcome
        /\ parked.pending_wakes = s.pending_wakes \cup msgs
        /\ parked.spawn_ready = s.spawn_ready
        /\ parked.active_messages = s.active_messages
        /\ parked.next_generation = s.next_generation
        /\ parked.publications = s.publications
        BY <1>0 DEF Fields
  <2> HIDE DEF parked
  <2>2. Post(parked, X \ M)
    <3> DEFINE A == MsgsOf(s.pending_wakes)
               U == MsgsOf(parked.pending_wakes)
    <3>1. U = A \cup M BY <2>1 DEF MsgsOf
    <3>2. parked.pending_wakes \subseteq Sends BY <2>1 DEF Mail, Post
    <3>3. A \cap M = {} BY DEF Mail, Post
    <3>4. Once(parked.pending_wakes)
      <4>1. Once(s.pending_wakes) BY DEF Mail, Post
      <4>2. \A m \in s.pending_wakes, h \in msgs : m.msg # h.msg BY <3>3 DEF MsgsOf
      <4> QED BY <2>1, <4>1, <4>2 DEF Once
    <3> HIDE DEF A, M, U
    <3>5. /\ MsgsOf(s.spawn_ready) \cap A = {} /\ MsgsOf(s.active_messages) \cap A = {}
          /\ X \cap A = {} /\ X \cap MsgsOf(s.spawn_ready) = {}
          /\ X \cap MsgsOf(s.active_messages) = {}
          /\ X \subseteq Messages /\ M \subseteq X
          /\ \A m \in Messages : s.outcome[m] = "waiting" <=>
               \/ m \in X \/ m \in A
               \/ m \in MsgsOf(s.spawn_ready) \/ m \in MsgsOf(s.active_messages)
          BY DEF Mail, Post, A, M
    <3>6. /\ U \cap MsgsOf(parked.spawn_ready) = {}
          /\ U \cap MsgsOf(parked.active_messages) = {}
          /\ (X \ M) \cap U = {} /\ (X \ M) \cap MsgsOf(parked.spawn_ready) = {}
          /\ (X \ M) \cap MsgsOf(parked.active_messages) = {}
          /\ X \ M \subseteq Messages
          BY <2>1, <3>1, <3>3, <3>5
    <3>7. \A m \in Messages : parked.outcome[m] = "waiting" <=>
            \/ m \in X \ M \/ m \in U
            \/ m \in MsgsOf(parked.spawn_ready) \/ m \in MsgsOf(parked.active_messages)
          BY <2>1, <3>1, <3>5
    <3>8. /\ DOMAIN parked.outcome = Messages
          /\ parked.spawn_ready \subseteq Parks /\ Once(parked.spawn_ready)
          /\ parked.active_messages \subseteq Flights /\ Once(parked.active_messages)
          /\ MsgsOf(parked.spawn_ready) \cap MsgsOf(parked.active_messages) = {}
          BY <2>1 DEF Mail, Post
    <3> QED BY <3>2, <3>4, <3>6, <3>7, <3>8 DEF Post, U
  <2>3. \A m \in msgs : \E p \in s.publications : p.id = m.id
    <3>1. [id |-> id, age |-> old.age, stage |-> "presenting"].id = id OBVIOUS
    <3> HIDE DEF old
    <3> QED BY <1>4, <1>7, <3>1
  <2>4. Promised(parked, {}) BY <2>1, <2>3 DEF Mail, Promised
  <2>5. Flight(parked) /\ Parked(parked, Y) BY <2>1 DEF Mail, Flight, Parked
  <2> QED BY <2>1, <2>2, <2>4, <2>5 DEF Mail
<1>8. ASSUME old.published
      PROVE  Mail(started, X \ M, Y) /\ Mail(queued, X \ M, Y)
  <2>1. /\ DOMAIN left = Fields
        /\ left.queued = s.queued /\ left.pending = s.pending
        /\ left.active = s.active /\ left.completed = Without(s.completed, {id})
        /\ left.terminal_outputs = s.terminal_outputs
        /\ left.outcome = s.outcome /\ left.pending_wakes = s.pending_wakes
        /\ left.spawn_ready = s.spawn_ready
        /\ left.active_messages = s.active_messages
        /\ left.next_generation = s.next_generation
        /\ left.publications = s.publications
        BY <1>0 DEF Fields
  <2>2. \A x \in DOMAIN left.completed :
          x \in DOMAIN s.completed /\ left.completed[x] = s.completed[x]
        BY <2>1 DEF Without
  <2> HIDE DEF left
  <2>3. Mail(left, X, Y) BY <2>1, <2>2, ForgetMail
  <2> HIDE DEF new
  <2>4. Mail(moved, X \ MsgsOf(new), Y \cup {id}) BY <1>3, <2>3, ParkMail
  <2>5. Mail(moved, X \ M, Y \cup {id}) BY <1>3, <2>4
  <2>6. entry.wake = old OBVIOUS
  <2> HIDE DEF moved, M, old
  <2>7. DOMAIN one = {id} /\ Shown(one) BY <1>4, <1>8, <2>6 DEF Shown
  <2>8. (Y \cup {id}) \ {id} \subseteq Y OBVIOUS
  <2> HIDE DEF one
  <2>9. Mail(started, X \ M, (Y \cup {id}) \ {id}) BY <2>5, <2>7, StartChildrenMail
  <2> HIDE DEF entry
  <2>10. Mail(queued, X \ M, (Y \cup {id}) \ {id}) BY <1>4, <1>8, <2>5, <2>6, EnqueueMail
  <2> HIDE DEF started, queued
  <2> QED BY <2>8, <2>9, <2>10, MoreTransit
<1> HIDE DEF parked, refused, started, queued, old
<1> QED BY <1>1, <1>6, <1>7, <1>8

(* Messages to one child: each is taken, parked or refused.                *)
LEMMA SendMail ==
  ASSUME NEW s, NEW X, NEW Y, Mail(s, X, Y), NEW id \in Ids,
         NEW msgs, msgs \subseteq Sends, Once(msgs), MsgsOf(msgs) \subseteq X,
         \A m \in msgs : m.id = id
  PROVE  Mail(handle_send_active_message(s, id, msgs), X \ MsgsOf(msgs), Y)
<1> DEFINE owned == {m \in msgs : is_reachable_from(s, id, m.sender)}
           spawning(map) == /\ id \in DOMAIN map
                            /\ map[id].req.workflow = None /\ ~map[id].cancelled
           chosen == {m \in owned : Addressable(s, m)}
           refuse(rest) == Answer(s, MsgsOf(rest), "Refused")
           new == {Park(m, FALSE) : m \in owned}
           t == refuse(msgs \ owned)
           w == refuse(msgs \ chosen)
           parked == [t EXCEPT !.spawn_ready = @ \cup new]
           M == MsgsOf(msgs)
<1>0. DOMAIN s = Fields BY DEF Mail
<1>1. \/ handle_send_active_message(s, id, msgs) = refuse(msgs)
      \/ /\ id \in DOMAIN s.active
         /\ handle_send_active_message(s, id, msgs) = admit_active_messages(t, id, owned)
      \/ /\ id \in DOMAIN s.pending \cup DOMAIN s.queued
         /\ handle_send_active_message(s, id, msgs) = parked
      \/ /\ id \in DOMAIN s.completed /\ chosen # {}
         /\ handle_send_active_message(s, id, msgs) = wake_completed_child(w, id, chosen)
      BY DEF handle_send_active_message
<1>2. owned \subseteq msgs /\ chosen \subseteq msgs OBVIOUS
<1> HIDE DEF owned, chosen
<1>3. ASSUME NEW sub, sub \subseteq msgs
      PROVE  /\ Mail(refuse(msgs \ sub), X \ MsgsOf(msgs \ sub), Y)
             /\ Keeps(s, refuse(msgs \ sub))
             /\ refuse(msgs \ sub).completed = s.completed
             /\ MsgsOf(sub) \subseteq X \ MsgsOf(msgs \ sub)
             /\ (X \ MsgsOf(msgs \ sub)) \ MsgsOf(sub) = X \ M
             /\ sub \subseteq Sends /\ Once(sub) /\ \A m \in sub : m.id = id
  <2>1. /\ M = MsgsOf(sub) \cup MsgsOf(msgs \ sub)
        /\ MsgsOf(sub) \cap MsgsOf(msgs \ sub) = {}
        BY <1>3 DEF MsgsOf, Once
  <2> HIDE DEF M
  <2>2. MsgsOf(msgs \ sub) \in SUBSET X BY <2>1 DEF M
  <2>3. Mail(refuse(msgs \ sub), X \ MsgsOf(msgs \ sub), Y) /\ Keeps(s, refuse(msgs \ sub))
        BY <2>2, AnswerMail
  <2>4. refuse(msgs \ sub).completed = s.completed BY <1>0 DEF Answer, Fields
  <2>5. /\ MsgsOf(sub) \subseteq X \ MsgsOf(msgs \ sub)
        /\ (X \ MsgsOf(msgs \ sub)) \ MsgsOf(sub) = X \ M
        BY <2>1 DEF M
  <2>6. Once(sub) BY <1>3 DEF Once
  <2> QED BY <1>3, <2>3, <2>4, <2>5, <2>6
<1>4. Mail(refuse(msgs), X \ M, Y) BY AnswerMail
<1>5. ASSUME id \in DOMAIN s.active
      PROVE  Mail(admit_active_messages(t, id, owned), X \ M, Y)
  <2> DEFINE Z == X \ MsgsOf(msgs \ owned)
  <2>1. /\ Mail(t, Z, Y) /\ id \in DOMAIN t.active /\ Once(owned)
        /\ MsgsOf(owned) \subseteq Z /\ Z \ MsgsOf(owned) = X \ M
        BY <1>2, <1>3, <1>5 DEF Keeps
  <2> HIDE DEF Z, t
  <2>2. Mail(admit_active_messages(t, id, owned), Z \ MsgsOf(owned), Y)
        BY <2>1, AdmitMail
  <2> QED BY <2>1, <2>2
<1>6. ASSUME id \in DOMAIN s.pending \cup DOMAIN s.queued
      PROVE  Mail(parked, X \ M, Y)
  <2> DEFINE Z == X \ MsgsOf(msgs \ owned)
             flag == [m \in owned |-> FALSE]
  <2>1. /\ Mail(t, Z, Y) /\ Keeps(s, t) /\ Once(owned) /\ owned \subseteq Sends
        /\ MsgsOf(owned) \subseteq Z /\ Z \ MsgsOf(owned) = X \ M
        /\ \A m \in owned : m.id = id
        BY <1>2, <1>3
  <2>2. new = Parkings(owned, flag) BY DEF Parkings
  <2>3. flag \in [owned -> BOOLEAN] OBVIOUS
  <2> HIDE DEF flag, new
  <2>4. /\ new \subseteq Parks /\ Once(new) /\ MsgsOf(new) = MsgsOf(owned)
        /\ \A m \in new : m.id = id
        BY <2>1, <2>2, <2>3, ParkingsFacts
  <2> HIDE DEF Z, t
  <2>5. Mail(parked, Z \ MsgsOf(new), Y \cup {id}) /\ Keeps(t, parked)
        BY <2>1, <2>4, ParkMail
  <2> HIDE DEF parked
  <2>6. id \in DOMAIN parked.pending \cup DOMAIN parked.queued
        BY <1>6, <2>1, <2>5 DEF Keeps
  <2>7. Mail(parked, X \ M, Y \cup {id}) BY <2>1, <2>4, <2>5
  <2> QED BY <2>6, <2>7 DEF Mail, Parked
<1>7. ASSUME id \in DOMAIN s.completed, chosen # {}
      PROVE  Mail(wake_completed_child(w, id, chosen), X \ M, Y)
  <2> DEFINE Z == X \ MsgsOf(msgs \ chosen)
  <2>1. /\ Mail(w, Z, Y) /\ id \in DOMAIN w.completed /\ Once(chosen)
        /\ chosen \subseteq Sends /\ \A m \in chosen : m.id = id
        /\ MsgsOf(chosen) \subseteq Z /\ Z \ MsgsOf(chosen) = X \ M
        BY <1>2, <1>3, <1>7
  <2> HIDE DEF Z, w
  <2>2. Mail(wake_completed_child(w, id, chosen), Z \ MsgsOf(chosen), Y)
        BY <1>7, <2>1, WakeMail
  <2> QED BY <2>1, <2>2
<1> HIDE DEF t, w, refuse, parked
<1> QED BY <1>1, <1>4, <1>5, <1>6, <1>7

(* Parked wakes are retried when the publication is over.                  *)
LEMMA TerminalPublishedMail ==
  ASSUME NEW s, NEW X, NEW Y, Mail(s, X, Y), NEW p \in s.publications,
         p.stage = "sent"
  PROVE  Mail(handle_terminal_published([s EXCEPT !.publications = @ \ {p}], p.id), X, Y)
<1> DEFINE id == p.id
           t == [s EXCEPT !.publications = @ \ {p}]
           parked == {m \in t.pending_wakes : m.id = id}
           u == [t EXCEPT !.pending_wakes = @ \ parked]
<1>1. \/ parked = {} /\ handle_terminal_published(t, id) = t
      \/ handle_terminal_published(t, id) = reject_pending_wakes_for_ids(t, {id})
      \/ /\ parked # {}
         /\ handle_terminal_published(t, id) = handle_send_active_message(u, id, parked)
      BY DEF handle_terminal_published
<1>2. /\ DOMAIN t = Fields
      /\ t.queued = s.queued /\ t.pending = s.pending /\ t.active = s.active
      /\ t.completed = s.completed /\ t.terminal_outputs = s.terminal_outputs
      /\ t.outcome = s.outcome /\ t.pending_wakes = s.pending_wakes
      /\ t.spawn_ready = s.spawn_ready /\ t.active_messages = s.active_messages
      /\ t.next_generation = s.next_generation
      /\ t.publications = s.publications \ {p}
      BY DEF Mail, Fields
<1> HIDE DEF t
<1>3. Post(t, X) /\ Flight(t) /\ Parked(t, Y) BY <1>2 DEF Mail, Post, Flight, Parked
<1>4. Promised(t, {id})
  <2>1. ASSUME NEW x \in DOMAIN s.completed
        PROVE  [id |-> x, age |-> s.completed[x].age, stage |-> "presenting"] # p
    <3> DEFINE q == [id |-> x, age |-> s.completed[x].age, stage |-> "presenting"]
    <3>1. q.stage = "presenting" OBVIOUS
    <3> HIDE DEF q
    <3>2. q # p BY <3>1
    <3> QED BY <3>2 DEF q
  <2>2. \A m \in s.pending_wakes :
          m.id \in {id} \/ \E q \in s.publications \ {p} : q.id = m.id
        BY DEF Mail, Promised
  <2> QED BY <1>2, <2>1, <2>2 DEF Mail, Promised
<1>5. Mail(reject_pending_wakes_for_ids(t, {id}), X, Y)
      BY <1>2, <1>3, <1>4, RejectPendingWakesMail
<1>6. /\ DOMAIN u = Fields
      /\ u.queued = t.queued /\ u.pending = t.pending /\ u.active = t.active
      /\ u.completed = t.completed /\ u.terminal_outputs = t.terminal_outputs
      /\ u.outcome = t.outcome /\ u.pending_wakes = t.pending_wakes \ parked
      /\ u.spawn_ready = t.spawn_ready /\ u.active_messages = t.active_messages
      /\ u.next_generation = t.next_generation /\ u.publications = t.publications
      BY <1>2 DEF Fields
<1>7. \A m \in u.pending_wakes : m.id # id BY <1>6
<1> HIDE DEF u
<1>8. Promised(u, {}) BY <1>4, <1>6, <1>7 DEF Promised
<1>9. parked \subseteq t.pending_wakes /\ \A m \in parked : m.id = id OBVIOUS
<1> HIDE DEF parked
<1>10. Mail(u, X \cup MsgsOf(parked), Y)
  <2>1. parked \in SUBSET t.pending_wakes BY <1>9
  <2> QED BY <1>2, <1>3, <1>6, <1>8, <2>1, UnwakeMail
<1>11. parked \subseteq Sends /\ Once(parked) BY <1>3, <1>9 DEF Post, Once
<1>12. MsgsOf(parked) \cap X = {} BY <1>3, <1>9 DEF Post, MsgsOf
<1>13. ASSUME parked # {} PROVE Mail(handle_send_active_message(u, id, parked), X, Y)
  <2> DEFINE Z == X \cup MsgsOf(parked)
  <2>1. MsgsOf(parked) \subseteq Z /\ Z \ MsgsOf(parked) = X BY <1>12
  <2>2. Mail(u, Z, Y) /\ id \in Ids BY <1>9, <1>10, <1>11, <1>13 DEF Sends
  <2> HIDE DEF Z, id
  <2>3. Mail(handle_send_active_message(u, id, parked), Z \ MsgsOf(parked), Y)
        BY <1>9, <1>11, <2>1, <2>2, SendMail
  <2> QED BY <2>1, <2>3
<1>14. ASSUME parked = {} PROVE Mail(t, X, Y)
  <2>1. Promised(t, {}) BY <1>4, <1>14 DEF Promised, parked
  <2> QED BY <1>2, <1>3, <2>1 DEF Mail
<1>15. Mail(handle_terminal_published(t, id), X, Y) BY <1>1, <1>5, <1>13, <1>14
<1> QED BY <1>15 DEF t

(* An admission that ended is answered and no longer counted.              *)
LEMMA FinishMessageMail ==
  ASSUME NEW s, NEW X, NEW Y, Mail(s, X, Y), Spared(s), NEW f \in s.active_messages,
         NEW how, how # "waiting"
  PROVE  Mail(finish_active_message(s, f, how), X, Y)
<1> DEFINE id == f.id
           child == s.active[id]
           known == id \in DOMAIN s.active /\ child.generation = f.generation
           last == child.in_flight = 1 /\ child.finalizing
           clean == child.clean /\ how # "Uncertain"
           left == [s EXCEPT !.active_messages = @ \ {f}]
           less == [child EXCEPT !.in_flight = @ - 1, !.clean = clean,
                                 !.reporter_waits = @ /\ ~last]
           settled == [Answer(left, {f.msg}, how) EXCEPT
             !.active[f.id].in_flight = @ - 1,
             !.active[f.id].clean = clean,
             !.active[f.id].reporter_waits = @ /\ ~last]
           released == [settled EXCEPT !.terminal_outputs = Without(@, {f.id})]
           other == IF how = "Accepted" THEN "Uncertain" ELSE how
           ok == s.terminal_outputs[id] /\ clean
           M == {f.msg}
<1>0. DOMAIN s = Fields BY DEF Mail
<1>1. \/ ~known /\ finish_active_message(s, f, how) = Answer(left, M, other)
      \/ /\ known /\ last /\ id \in DOMAIN s.terminal_outputs
         /\ finish_active_message(s, f, how) = finish_child(released, id, ok)
      \/ /\ known /\ ~(last /\ id \in DOMAIN s.terminal_outputs)
         /\ finish_active_message(s, f, how) = settled
      BY DEF finish_active_message, finish_terminalized_child
<1>2. /\ f \in Flights /\ Once(s.active_messages)
      /\ IsFiniteSet(s.active_messages)
  <2>1. /\ Once(s.active_messages) /\ MsgsOf(s.active_messages) \subseteq Messages
        BY DEF Mail, Post, MsgsOf, Flights
  <2> QED BY <2>1, OnceFinite DEF Mail, Post
(* Whatever becomes of the child, the message is in transit.               *)
<1>3. ASSUME NEW t, t.outcome = s.outcome, t.pending_wakes = s.pending_wakes,
             t.spawn_ready = s.spawn_ready, t.active_messages = s.active_messages \ {f}
      PROVE  Post(t, X \cup M)
  <2> DEFINE A == MsgsOf(s.active_messages)
             R == MsgsOf(t.active_messages)
  <2>1. A = M \cup R BY <1>3 DEF MsgsOf
  <2>2. M \cap R = {} BY <1>2, <1>3 DEF MsgsOf, Once
  <2>3. A \subseteq Messages BY DEF MsgsOf, Mail, Post, Flights
  <2>4. t.active_messages \subseteq Flights /\ Once(t.active_messages)
        BY <1>3 DEF Mail, Post, Once
  <2> HIDE DEF A, M, R
  <2>5. /\ MsgsOf(s.pending_wakes) \cap A = {} /\ MsgsOf(s.spawn_ready) \cap A = {}
        /\ X \cap A = {}
        /\ \A m \in Messages : s.outcome[m] = "waiting" <=>
             \/ m \in X \/ m \in MsgsOf(s.pending_wakes)
             \/ m \in MsgsOf(s.spawn_ready) \/ m \in A
        BY DEF Mail, Post, A
  <2>6. /\ DOMAIN t.outcome = Messages
        /\ t.pending_wakes \subseteq Sends /\ Once(t.pending_wakes)
        /\ t.spawn_ready \subseteq Parks /\ Once(t.spawn_ready)
        /\ MsgsOf(t.pending_wakes) \cap MsgsOf(t.spawn_ready) = {}
        /\ X \cap MsgsOf(t.pending_wakes) = {}
        /\ X \cap MsgsOf(t.spawn_ready) = {}
        /\ X \subseteq Messages
        BY <1>3 DEF Mail, Post
  <2>7. /\ MsgsOf(t.pending_wakes) \cap R = {} /\ MsgsOf(t.spawn_ready) \cap R = {}
        /\ (X \cup M) \cap MsgsOf(t.pending_wakes) = {}
        /\ (X \cup M) \cap MsgsOf(t.spawn_ready) = {}
        /\ (X \cup M) \cap R = {} /\ X \cup M \subseteq Messages
        BY <1>3, <2>1, <2>2, <2>3, <2>5, <2>6
  <2>8. \A m \in Messages : t.outcome[m] = "waiting" <=>
          \/ m \in X \cup M \/ m \in MsgsOf(t.pending_wakes)
          \/ m \in MsgsOf(t.spawn_ready) \/ m \in R
        BY <1>3, <2>1, <2>5
  <2> QED BY <2>4, <2>6, <2>7, <2>8 DEF Post, R
<1>4. M \subseteq X \cup M /\ (X \cup M) \ M = X
  <2>1. f.msg \in MsgsOf(s.active_messages) BY DEF MsgsOf
  <2>2. f.msg \notin X BY <2>1 DEF Mail, Post
  <2> QED BY <2>2
<1>5. ASSUME NEW x \in DOMAIN s.active, x # id \/ s.active[x].generation # f.generation
      PROVE  Counts(s.active[x], x, s.active_messages \ {f}, s.next_generation)
  <2>1. Counts(s.active[x], x, s.active_messages, s.next_generation)
        BY <1>5 DEF Mail, Flight
  <2>2. InFlight(s.active_messages \ {f}, x, s.active[x].generation)
          = InFlight(s.active_messages, x, s.active[x].generation)
        BY <1>5 DEF InFlight
  <2> QED BY <2>1, <2>2 DEF Counts
<1>6. /\ DOMAIN left = Fields
      /\ left.queued = s.queued /\ left.pending = s.pending /\ left.active = s.active
      /\ left.completed = s.completed /\ left.terminal_outputs = s.terminal_outputs
      /\ left.outcome = s.outcome /\ left.pending_wakes = s.pending_wakes
      /\ left.spawn_ready = s.spawn_ready
      /\ left.active_messages = s.active_messages \ {f}
      /\ left.next_generation = s.next_generation
      /\ left.publications = s.publications
      BY <1>0 DEF Fields
<1>7. ASSUME ~known PROVE Mail(Answer(left, M, other), X, Y)
  <2> HIDE DEF left, M
  <2>1. \A x \in DOMAIN s.active : x # id \/ s.active[x].generation # f.generation
        BY <1>7
  <2>2. \A x \in DOMAIN left.active :
          Counts(left.active[x], x, left.active_messages, left.next_generation)
        BY <1>5, <1>6, <2>1
  <2>3. Flight(left) BY <1>6, <2>2 DEF Mail, Flight
  <2>4. Parked(left, Y) /\ Promised(left, {}) BY <1>6 DEF Mail, Parked, Promised
  <2>5. Post(left, X \cup M) BY <1>3, <1>6
  <2>6. Mail(left, X \cup M, Y) BY <1>6, <2>3, <2>4, <2>5 DEF Mail
  <2>7. other # "waiting" OBVIOUS
  <2> HIDE DEF other
  <2>8. M \in SUBSET (X \cup M) BY <1>4
  <2>9. Mail(Answer(left, M, other), (X \cup M) \ M, Y) BY <2>6, <2>7, <2>8, AnswerMail
  <2> QED BY <1>4, <2>9
<1>8. ASSUME known
      PROVE  IF last /\ id \in DOMAIN s.terminal_outputs
             THEN Mail(released, X, Y \cup {id})
             ELSE Mail(settled, X, Y)
  <2> DEFINE active == [s.active EXCEPT ![id] = less]
             held == IF last /\ id \in DOMAIN s.terminal_outputs
                     THEN Without(s.terminal_outputs, {id}) ELSE s.terminal_outputs
             Z == IF last /\ id \in DOMAIN s.terminal_outputs THEN Y \cup {id} ELSE Y
             t == [left EXCEPT !.active = active, !.terminal_outputs = held]
             u == Answer(t, M, how)
             v == IF last /\ id \in DOMAIN s.terminal_outputs THEN released ELSE settled
  <2>1. id \in DOMAIN s.active /\ child.generation = f.generation BY <1>8
  <2>2. Counts(child, id, s.active_messages, s.next_generation)
        BY <2>1 DEF Mail, Flight
  <2>3. /\ DOMAIN less = ActiveFields /\ less.generation = child.generation
        /\ less.in_flight = child.in_flight - 1 /\ less.wake = child.wake
        /\ less.finalizing = child.finalizing
        /\ less.reporter_waits = (child.reporter_waits /\ ~last)
        BY <2>2 DEF Counts, ActiveFields
  <2>4. /\ DOMAIN active = DOMAIN s.active /\ active[id] = less
        /\ \A x \in DOMAIN s.active \ {id} : active[x] = s.active[x]
        BY <2>1
  <2>5. DOMAIN Answer(left, M, how) = Fields /\ Answer(left, M, how).active = s.active
        /\ Answer(left, M, how).terminal_outputs = s.terminal_outputs
        BY <1>6 DEF Answer, Fields
  <2>6. settled.active = active
    <3> DEFINE a == Answer(left, M, how)
    <3>1. settled.active = [a.active EXCEPT
             ![f.id].in_flight = @ - 1,
             ![f.id].clean = clean,
             ![f.id].reporter_waits = @ /\ ~last]
          BY <2>5 DEF Fields
    <3> HIDE DEF a, clean, last, settled
    <3>2. [s.active EXCEPT
             ![f.id].in_flight = @ - 1,
             ![f.id].clean = clean,
             ![f.id].reporter_waits = @ /\ ~last] = active
          BY <2>1, <2>2 DEF Counts, ActiveFields
    <3>3. a.active = s.active BY <2>5 DEF a
    <3> QED BY <3>1, <3>2, <3>3
  <2>7. Still(u, v)
    <3> HIDE DEF clean, last, less
    <3>1. /\ DOMAIN settled = Fields
          /\ settled.queued = s.queued /\ settled.pending = s.pending
          /\ settled.completed = s.completed
          /\ settled.terminal_outputs = s.terminal_outputs
          /\ settled.outcome = [m \in Messages |-> IF m \in M THEN how ELSE s.outcome[m]]
          /\ settled.pending_wakes = s.pending_wakes
          /\ settled.spawn_ready = s.spawn_ready
          /\ settled.active_messages = s.active_messages \ {f}
          /\ settled.next_generation = s.next_generation
          /\ settled.publications = s.publications
          BY <1>6 DEF Answer, Fields
    <3> HIDE DEF settled
    <3>2. /\ DOMAIN released = Fields
          /\ released.queued = s.queued /\ released.pending = s.pending
          /\ released.active = active /\ released.completed = s.completed
          /\ released.terminal_outputs = Without(s.terminal_outputs, {id})
          /\ released.outcome = settled.outcome
          /\ released.pending_wakes = s.pending_wakes
          /\ released.spawn_ready = s.spawn_ready
          /\ released.active_messages = s.active_messages \ {f}
          /\ released.next_generation = s.next_generation
          /\ released.publications = s.publications
          BY <2>6, <3>1 DEF Fields
    <3> HIDE DEF released, active
    <3>3. /\ DOMAIN u = Fields
          /\ u.queued = s.queued /\ u.pending = s.pending
          /\ u.active = active /\ u.completed = s.completed
          /\ u.terminal_outputs = held
          /\ u.outcome = [m \in Messages |-> IF m \in M THEN how ELSE s.outcome[m]]
          /\ u.pending_wakes = s.pending_wakes
          /\ u.spawn_ready = s.spawn_ready
          /\ u.active_messages = s.active_messages \ {f}
          /\ u.next_generation = s.next_generation
          /\ u.publications = s.publications
          BY <1>6 DEF Answer, Fields
    <3> HIDE DEF u
    <3> QED BY <2>6, <3>1, <3>2, <3>3 DEF Still
  <2>8. Mail(t, X \cup M, Z)
    <3> DEFINE F == InFlight(s.active_messages, id, child.generation)
    <3> HIDE DEF left, active, less, clean
    <3>1. /\ DOMAIN t = Fields
          /\ t.queued = s.queued /\ t.pending = s.pending /\ t.active = active
          /\ t.completed = s.completed /\ t.terminal_outputs = held
          /\ t.outcome = s.outcome /\ t.pending_wakes = s.pending_wakes
          /\ t.spawn_ready = s.spawn_ready
          /\ t.active_messages = s.active_messages \ {f}
          /\ t.next_generation = s.next_generation
          /\ t.publications = s.publications
          BY <1>6 DEF Fields
    <3> HIDE DEF t
    <3>2. f \in F /\ IsFiniteSet(F) /\ Cardinality(F) = child.in_flight
      <4>1. F \in SUBSET s.active_messages BY DEF InFlight
      <4> QED BY <1>2, <2>1, <2>2, <4>1, FS_Subset DEF Counts, InFlight
    <3>3. InFlight(t.active_messages, id, child.generation) = F \ {f}
          BY <3>1 DEF InFlight
    <3>4. Cardinality(F \ {f}) = child.in_flight - 1
          BY <3>2, FS_RemoveElement
    <3>5. /\ child.in_flight \in Nat /\ child.in_flight <= MaxPerChild
          /\ child.reporter_waits => child.finalizing /\ child.in_flight > 0
          /\ child.generation \in Nat /\ child.generation < s.next_generation
          /\ MaxPerChild \in Nat
          BY <2>2, ConstantsAssumption DEF Counts
    <3>6. child.in_flight # 0
      <4>1. F # {} BY <3>2
      <4> QED BY <3>2, <4>1, FS_EmptySet
    <3>7. /\ less.in_flight \in Nat /\ less.in_flight <= MaxPerChild
          /\ child.finalizing /\ ~last => less.in_flight > 0
      <4> HIDE DEF child
      <4> QED BY <2>3, <3>5, <3>6 DEF last
    <3>8. Counts(less, id, t.active_messages, t.next_generation)
      <4>1. less.reporter_waits => less.finalizing /\ less.in_flight > 0
            BY <2>3, <3>5, <3>7
      <4>2. less.in_flight = Cardinality(InFlight(t.active_messages, id, less.generation))
            BY <2>3, <3>3, <3>4
      <4> HIDE DEF child, last
      <4> QED BY <2>3, <3>1, <3>5, <3>7, <4>1, <4>2 DEF Counts
    <3>9. \A x \in DOMAIN t.active :
            Counts(t.active[x], x, t.active_messages, t.next_generation)
      <4> SUFFICES ASSUME NEW x \in DOMAIN t.active
                   PROVE  Counts(t.active[x], x, t.active_messages, t.next_generation)
          OBVIOUS
      <4>1. CASE x = id BY <2>4, <3>1, <3>8, <4>1
      <4>2. CASE x # id BY <1>5, <2>4, <3>1, <4>2
      <4> QED BY <4>1, <4>2
    <3>10. DOMAIN held \subseteq DOMAIN s.terminal_outputs
           /\ (last => id \notin DOMAIN held)
           /\ (\A x \in DOMAIN s.terminal_outputs \ {id} : x \in DOMAIN held)
           /\ (~last => held = s.terminal_outputs)
           BY DEF Without
    <3>11. Flight(t)
      <4>1. ASSUME NEW x \in DOMAIN t.terminal_outputs
            PROVE  /\ x \in DOMAIN t.active /\ t.active[x].finalizing
                   /\ t.active[x].in_flight > 0
        <5>1. /\ x \in DOMAIN s.active /\ s.active[x].finalizing
              /\ s.active[x].in_flight > 0
              BY <3>1, <3>10, <4>1 DEF Mail, Flight
        <5>2. CASE x # id BY <2>4, <3>1, <5>1, <5>2
        <5>3. CASE x = id
          <6>1. ~last BY <3>1, <3>10, <4>1, <5>3
          <6> QED BY <2>3, <2>4, <3>1, <3>7, <5>1, <5>3, <6>1
        <5> QED BY <5>2, <5>3
      <4> QED BY <3>1, <3>9, <4>1 DEF Mail, Flight
    <3>12. /\ \A x \in DOMAIN active : active[x].wake = s.active[x].wake
           /\ \A x \in DOMAIN active : active[x].finalizing = s.active[x].finalizing
           BY <2>3, <2>4
    <3>13. Parked(t, Z)
      <4>1. Parked(s, Y) BY DEF Mail
      <4>2. \A x \in DOMAIN s.terminal_outputs : x \in DOMAIN held \/ x \in Z
        <5> HIDE DEF last
        <5> QED BY <3>10
      <4>3. Y \subseteq Z OBVIOUS
      <4> HIDE DEF Z, held, child, last
      <4> QED BY <2>4, <3>1, <3>12, <4>1, <4>2, <4>3 DEF Parked
    <3>14. Promised(t, {})
      <4>1. Shown(active) BY <2>4, <3>12 DEF Mail, Promised, Shown
      <4> QED BY <3>1, <4>1 DEF Mail, Promised
    <3> HIDE DEF M
    <3>15. Post(t, X \cup M) BY <1>3, <3>1
    <3> QED BY <3>1, <3>11, <3>13, <3>14, <3>15 DEF Mail
  <2> HIDE DEF t, v, M, Z
  <2>9. M \in SUBSET (X \cup M) OBVIOUS
  <2>10. Mail(u, (X \cup M) \ M, Z) BY <2>8, <2>9, AnswerMail
  <2> HIDE DEF u
  <2>11. Mail(v, X, Z) BY <1>4, <2>7, <2>10, StillMail
  <2> HIDE DEF released, settled, last
  <2> QED BY <2>11 DEF v, Z
<1>9. ASSUME known, last, id \in DOMAIN s.terminal_outputs
      PROVE  Mail(finish_child(released, id, ok), X, Y)
  <2>1. Mail(released, X, Y \cup {id}) BY <1>8, <1>9
  <2>2. /\ released.queued = s.queued
        /\ released.terminal_outputs = Without(s.terminal_outputs, {id})
        BY <1>0 DEF Answer, Fields
  <2> HIDE DEF released, ok
  <2>3. Spared(released) /\ id \notin DOMAIN released.terminal_outputs
        BY <2>2 DEF Spared, Without
  <2>4. Mail(finish_child(released, id, ok), X, (Y \cup {id}) \ {id})
        BY <2>1, <2>3, FinishChildMail
  <2>5. (Y \cup {id}) \ {id} \subseteq Y OBVIOUS
  <2> QED BY <2>4, <2>5, MoreTransit
<1>10. ASSUME known, ~(last /\ id \in DOMAIN s.terminal_outputs)
       PROVE  Mail(settled, X, Y)
       BY <1>8, <1>10
<1> HIDE DEF known, last, left, settled, released, ok, other, M
<1> QED BY <1>1, <1>7, <1>9, <1>10

----------------------------------------------------------------------------
(* Sweeps, cancellation and spawns.                                        *)

(* g has the children of f, with the same wakes and the same counts.       *)
SameWakes(f, g) ==
  DOMAIN g = DOMAIN f /\ \A x \in DOMAIN f : g[x].wake = f[x].wake

SameCounts(f, g) ==
  /\ DOMAIN g = DOMAIN f
  /\ \A x \in DOMAIN f :
       /\ DOMAIN f[x] = ActiveFields => DOMAIN g[x] = ActiveFields
       /\ DOMAIN f[x] = ActiveFields =>
            /\ g[x].generation = f[x].generation /\ g[x].in_flight = f[x].in_flight
            /\ g[x].finalizing = f[x].finalizing
            /\ g[x].reporter_waits = f[x].reporter_waits
            /\ g[x].wake = f[x].wake

(* Flags that no message depends on.                                       *)
LEMMA FlagsMail ==
  ASSUME NEW s, NEW t, NEW X, NEW Y, Mail(s, X, Y), DOMAIN t = Fields,
         SameWakes(s.queued, t.queued), SameWakes(s.pending, t.pending),
         SameCounts(s.active, t.active),
         t.completed = s.completed, t.terminal_outputs = s.terminal_outputs,
         t.outcome = s.outcome, t.pending_wakes = s.pending_wakes,
         t.spawn_ready = s.spawn_ready, t.active_messages = s.active_messages,
         t.next_generation = s.next_generation, t.publications = s.publications
  PROVE  Mail(t, X, Y)
<1>1. ASSUME NEW x \in DOMAIN s.active
      PROVE  /\ Counts(t.active[x], x, t.active_messages, t.next_generation)
             /\ t.active[x].in_flight = s.active[x].in_flight
             /\ t.active[x].finalizing = s.active[x].finalizing
             /\ t.active[x].wake = s.active[x].wake
  <2>1. Counts(s.active[x], x, s.active_messages, s.next_generation)
        BY DEF Mail, Flight
  <2> QED BY <2>1 DEF Counts, SameCounts
<1>2. DOMAIN t.active = DOMAIN s.active /\ DOMAIN t.pending = DOMAIN s.pending
      /\ DOMAIN t.queued = DOMAIN s.queued
      BY DEF SameCounts, SameWakes
<1>3. Flight(t) BY <1>1, <1>2 DEF Mail, Flight
<1>4. Parked(t, Y) BY <1>1, <1>2 DEF Mail, Parked
<1>5. Shown(t.queued) /\ Shown(t.pending) BY DEF Mail, Promised, Shown, SameWakes
<1>6. Shown(t.active) BY <1>1, <1>2 DEF Mail, Promised, Shown
<1>7. Promised(t, {}) BY <1>5, <1>6 DEF Mail, Promised
<1>8. Post(t, X) BY DEF Mail, Post
<1> QED BY <1>3, <1>4, <1>7, <1>8 DEF Mail

LEMMA SelfWakes ==
  ASSUME NEW f
  PROVE  SameWakes(f, f) /\ SameCounts(f, f)
BY DEF SameWakes, SameCounts

(* The flags of abandoned, cancelled, detached and muted children.         *)
LEMMA BackgroundWakes ==
  ASSUME NEW s, NEW f, \A x \in DOMAIN f : "wake" \in DOMAIN f[x]
  PROVE  /\ SameWakes(f, background_if_caller_gone(s, f))
         /\ SameCounts(f, background_if_caller_gone(s, f))
<1> DEFINE g == background_if_caller_gone(s, f)
<1>1. DOMAIN g = DOMAIN f BY DEF background_if_caller_gone
<1>2. ASSUME NEW x \in DOMAIN f
      PROVE  /\ DOMAIN g[x] = DOMAIN f[x] /\ g[x].wake = f[x].wake
             /\ DOMAIN f[x] = ActiveFields =>
                  /\ g[x].generation = f[x].generation /\ g[x].in_flight = f[x].in_flight
                  /\ g[x].finalizing = f[x].finalizing
                  /\ g[x].reporter_waits = f[x].reporter_waits
  <2> DEFINE r == f[x]
             cancelled == [r EXCEPT !.reply = FALSE, !.cancelled = TRUE]
             freed == [r EXCEPT !.reply = FALSE, !.handle_only = TRUE, !.deadline = FALSE]
  <2>1. g[x] = r \/ g[x] = cancelled \/ g[x] = freed BY DEF background_if_caller_gone
  <2>2. "wake" \in DOMAIN r OBVIOUS
  <2> HIDE DEF g, r
  <2>3. /\ DOMAIN cancelled = DOMAIN r /\ cancelled.wake = r.wake
        /\ DOMAIN freed = DOMAIN r /\ freed.wake = r.wake
        BY <2>2
  <2>4. ASSUME DOMAIN r = ActiveFields
        PROVE  /\ cancelled.generation = r.generation /\ cancelled.in_flight = r.in_flight
               /\ cancelled.finalizing = r.finalizing
               /\ cancelled.reporter_waits = r.reporter_waits
               /\ freed.generation = r.generation /\ freed.in_flight = r.in_flight
               /\ freed.finalizing = r.finalizing
               /\ freed.reporter_waits = r.reporter_waits
        BY <2>4 DEF ActiveFields
  <2> HIDE DEF cancelled, freed
  <2> QED BY <2>1, <2>3, <2>4 DEF r
<1> HIDE DEF g
<1>3. SameWakes(f, g) /\ SameCounts(f, g) BY <1>1, <1>2 DEF SameWakes, SameCounts
<1> QED BY <1>3 DEF g

LEMMA MarkWakes ==
  ASSUME NEW f, NEW ids, \A x \in DOMAIN f : "wake" \in DOMAIN f[x]
  PROVE  LET g == [id \in DOMAIN f |-> [f[id] EXCEPT !.cancelled = @ \/ id \in ids]]
         IN  SameWakes(f, g) /\ SameCounts(f, g)
<1> DEFINE g == [id \in DOMAIN f |-> [f[id] EXCEPT !.cancelled = @ \/ id \in ids]]
<1>1. DOMAIN g = DOMAIN f OBVIOUS
<1>2. ASSUME NEW x \in DOMAIN f
      PROVE  /\ DOMAIN g[x] = DOMAIN f[x] /\ g[x].wake = f[x].wake
             /\ DOMAIN f[x] = ActiveFields =>
                  /\ g[x].generation = f[x].generation /\ g[x].in_flight = f[x].in_flight
                  /\ g[x].finalizing = f[x].finalizing
                  /\ g[x].reporter_waits = f[x].reporter_waits
  <2> DEFINE r == f[x]
             w == [r EXCEPT !.cancelled = @ \/ x \in ids]
  <2>1. g[x] = w OBVIOUS
  <2>2. "wake" \in DOMAIN r OBVIOUS
  <2> HIDE DEF g, r
  <2>3. DOMAIN w = DOMAIN r /\ w.wake = r.wake BY <2>2
  <2>4. ASSUME DOMAIN r = ActiveFields
        PROVE  /\ w.generation = r.generation /\ w.in_flight = r.in_flight
               /\ w.finalizing = r.finalizing /\ w.reporter_waits = r.reporter_waits
        BY <2>4 DEF ActiveFields
  <2> HIDE DEF w
  <2> QED BY <2>1, <2>3, <2>4 DEF r
<1> HIDE DEF g
<1>3. SameWakes(f, g) /\ SameCounts(f, g) BY <1>1, <1>2 DEF SameWakes, SameCounts
<1> QED BY <1>3 DEF g

LEMMA DetachedWakes ==
  ASSUME NEW f, NEW id, \A x \in DOMAIN f : "wake" \in DOMAIN f[x]
  PROVE  LET g == [x \in DOMAIN f |-> IF x # id THEN f[x] ELSE
               [f[x] EXCEPT !.reply = FALSE, !.handle_only = TRUE, !.deadline = FALSE]]
         IN  SameWakes(f, g) /\ SameCounts(f, g)
<1> DEFINE g == [x \in DOMAIN f |-> IF x # id THEN f[x] ELSE
               [f[x] EXCEPT !.reply = FALSE, !.handle_only = TRUE, !.deadline = FALSE]]
<1>1. DOMAIN g = DOMAIN f OBVIOUS
<1>2. ASSUME NEW x \in DOMAIN f
      PROVE  /\ DOMAIN g[x] = DOMAIN f[x] /\ g[x].wake = f[x].wake
             /\ DOMAIN f[x] = ActiveFields =>
                  /\ g[x].generation = f[x].generation /\ g[x].in_flight = f[x].in_flight
                  /\ g[x].finalizing = f[x].finalizing
                  /\ g[x].reporter_waits = f[x].reporter_waits
  <2> DEFINE r == f[x]
             w == [r EXCEPT !.reply = FALSE, !.handle_only = TRUE, !.deadline = FALSE]
  <2>1. g[x] = r \/ g[x] = w OBVIOUS
  <2>2. "wake" \in DOMAIN r OBVIOUS
  <2> HIDE DEF g, r
  <2>3. DOMAIN w = DOMAIN r /\ w.wake = r.wake BY <2>2
  <2>4. ASSUME DOMAIN r = ActiveFields
        PROVE  /\ w.generation = r.generation /\ w.in_flight = r.in_flight
               /\ w.finalizing = r.finalizing /\ w.reporter_waits = r.reporter_waits
        BY <2>4 DEF ActiveFields
  <2> HIDE DEF w
  <2> QED BY <2>1, <2>3, <2>4 DEF r
<1> HIDE DEF g
<1>3. SameWakes(f, g) /\ SameCounts(f, g) BY <1>1, <1>2 DEF SameWakes, SameCounts
<1> QED BY <1>3 DEF g

LEMMA MutedWakes ==
  ASSUME NEW f, NEW p, \A x \in DOMAIN f : "wake" \in DOMAIN f[x]
  PROVE  LET g == [id \in DOMAIN f |->
                     [f[id] EXCEPT !.req.surface = @ /\ f[id].req.session # p]]
         IN  SameWakes(f, g) /\ SameCounts(f, g)
<1> DEFINE mute(id) == f[id].req.surface /\ f[id].req.session # p
           g == [id \in DOMAIN f |->
                   [f[id] EXCEPT !.req.surface = @ /\ f[id].req.session # p]]
<1>1. DOMAIN g = DOMAIN f OBVIOUS
<1>2. ASSUME NEW x \in DOMAIN f
      PROVE  /\ DOMAIN g[x] = DOMAIN f[x] /\ g[x].wake = f[x].wake
             /\ DOMAIN f[x] = ActiveFields =>
                  /\ g[x].generation = f[x].generation /\ g[x].in_flight = f[x].in_flight
                  /\ g[x].finalizing = f[x].finalizing
                  /\ g[x].reporter_waits = f[x].reporter_waits
  <2> DEFINE b == mute(x)
             r == f[x]
             w == [r EXCEPT !.req.surface = b]
  <2>1. g[x] = w OBVIOUS
  <2>2. "wake" \in DOMAIN r OBVIOUS
  <2> HIDE DEF g, r, b
  <2>3. DOMAIN w = DOMAIN r /\ w.wake = r.wake BY <2>2
  <2>4. ASSUME DOMAIN r = ActiveFields
        PROVE  /\ w.generation = r.generation /\ w.in_flight = r.in_flight
               /\ w.finalizing = r.finalizing /\ w.reporter_waits = r.reporter_waits
        BY <2>4 DEF ActiveFields
  <2> HIDE DEF w
  <2> QED BY <2>1, <2>3, <2>4 DEF r
<1> HIDE DEF g
<1>3. SameWakes(f, g) /\ SameCounts(f, g) BY <1>1, <1>2 DEF SameWakes, SameCounts
<1> QED BY <1>3 DEF g

(* The records of a sound state have the field.                            *)
LEMMA ShapedWakes ==
  ASSUME NEW s, Shaped(s)
  PROVE  /\ \A x \in DOMAIN s.queued : "wake" \in DOMAIN s.queued[x]
         /\ \A x \in DOMAIN s.pending : "wake" \in DOMAIN s.pending[x]
         /\ \A x \in DOMAIN s.active : "wake" \in DOMAIN s.active[x]
BY DEF Shaped, Entry, Displaced

LEMMA ReapMail ==
  ASSUME NEW s, NEW X, NEW Y, Mail(s, X, Y), Sound(s)
  PROVE  Mail(reap_abandoned_callers(s), X, Y)
<1> DEFINE abandoned(id) == s.queued[id].reply /\ s.caller[id] = "gone"
           kept == [id \in DOMAIN s.queued |->
                      [s.queued[id] EXCEPT !.reply = @ /\ ~abandoned(id),
                                           !.deadline = @ /\ ~abandoned(id)]]
           pending == background_if_caller_gone(s, s.pending)
           active == background_if_caller_gone(s, s.active)
           swept == [s EXCEPT !.pending = pending, !.active = active, !.queued = kept]
           ids == {id \in DOMAIN s.queued : s.queued[id].cancelled}
<1>1. reap_abandoned_callers(s) = remove_queued(swept, ids)
      BY DEF reap_abandoned_callers
<1>2. SameWakes(s.pending, pending) /\ SameCounts(s.active, active)
  <2>1. /\ \A x \in DOMAIN s.pending : "wake" \in DOMAIN s.pending[x]
        /\ \A x \in DOMAIN s.active : "wake" \in DOMAIN s.active[x]
        BY ShapedWakes DEF Sound
  <2> QED BY <2>1, BackgroundWakes
<1>3. /\ DOMAIN kept = DOMAIN s.queued
      /\ \A x \in DOMAIN s.queued : /\ kept[x].wake = s.queued[x].wake
                                    /\ kept[x].cancelled = s.queued[x].cancelled
  <2>1. DOMAIN kept = DOMAIN s.queued OBVIOUS
  <2>2. ASSUME NEW x \in DOMAIN s.queued
        PROVE  kept[x].wake = s.queued[x].wake /\ kept[x].cancelled = s.queued[x].cancelled
    <3> DEFINE r == s.queued[x]
               b == abandoned(x)
               w == [r EXCEPT !.reply = @ /\ ~b, !.deadline = @ /\ ~b]
    <3>1. {"wake", "cancelled"} \subseteq DOMAIN r
          BY DEF Sound, Shaped, Entry, Displaced
    <3>2. kept[x] = w OBVIOUS
    <3> HIDE DEF kept, r, b
    <3>3. w.wake = r.wake /\ w.cancelled = r.cancelled BY <3>1
    <3> HIDE DEF w
    <3> QED BY <3>2, <3>3 DEF r
  <2> QED BY <2>1, <2>2
<1> HIDE DEF pending, active, kept
<1>4. /\ DOMAIN swept = Fields
      /\ swept.queued = kept /\ swept.pending = pending /\ swept.active = active
      /\ swept.completed = s.completed /\ swept.terminal_outputs = s.terminal_outputs
      /\ swept.outcome = s.outcome /\ swept.pending_wakes = s.pending_wakes
      /\ swept.spawn_ready = s.spawn_ready
      /\ swept.active_messages = s.active_messages
      /\ swept.next_generation = s.next_generation
      /\ swept.publications = s.publications
      BY DEF Mail, Fields
<1> HIDE DEF swept
<1>5. SameWakes(s.queued, kept) BY <1>3 DEF SameWakes
<1>6. Mail(swept, X, Y) BY <1>2, <1>4, <1>5, FlagsMail
<1>7. Spared(swept)
  <2>1. Spared(s) BY SoundSpared
  <2> QED BY <1>3, <1>4, <2>1 DEF Spared
<1> HIDE DEF ids
<1> QED BY <1>1, <1>6, <1>7, RemoveQueuedMail

(* Cancelling refuses what waits for the children that have not started.   *)
LEMMA CancelMail ==
  ASSUME NEW s, NEW X, NEW Y, NEW ids, NEW entries, Mail(s, X, Y), Sound(s)
  PROVE  /\ Mail(cancel_children(s, ids), X, Y)
         /\ Mail(remove_queued(cancel_children(s, ids), entries), X, Y)
<1> DEFINE marked(f) == [id \in DOMAIN f |-> [f[id] EXCEPT !.cancelled = @ \/ id \in ids]]
           active == marked(s.active)
           pending == marked(s.pending)
           t == [s EXCEPT !.active = active, !.pending = pending]
           gone == ids \cap DOMAIN s.pending
           u == reject_spawn_ready_ids(t, gone)
<1>1. cancel_children(s, ids) = u BY DEF cancel_children
<1>2. SameWakes(s.pending, pending) /\ SameCounts(s.active, active)
  <2>1. /\ \A x \in DOMAIN s.pending : "wake" \in DOMAIN s.pending[x]
        /\ \A x \in DOMAIN s.active : "wake" \in DOMAIN s.active[x]
        BY ShapedWakes DEF Sound
  <2> QED BY <2>1, MarkWakes
<1> HIDE DEF active, pending, gone
<1>3. /\ DOMAIN t = Fields
      /\ t.queued = s.queued /\ t.pending = pending /\ t.active = active
      /\ t.completed = s.completed /\ t.terminal_outputs = s.terminal_outputs
      /\ t.outcome = s.outcome /\ t.pending_wakes = s.pending_wakes
      /\ t.spawn_ready = s.spawn_ready /\ t.active_messages = s.active_messages
      /\ t.next_generation = s.next_generation /\ t.publications = s.publications
      BY DEF Mail, Fields
<1> HIDE DEF t
<1>4. SameWakes(s.queued, t.queued) BY <1>3, SelfWakes
<1>5. Mail(t, X, Y) BY <1>2, <1>3, <1>4, FlagsMail
<1>6. Mail(u, X, Y \ gone) /\ Keeps(t, u) BY <1>5, RejectSpawnReadyMail
<1>7. Mail(u, X, Y)
  <2>1. Y \ gone \subseteq Y OBVIOUS
  <2> HIDE DEF u
  <2> QED BY <1>6, <2>1, MoreTransit
<1> HIDE DEF u
<1>8. Spared(u)
  <2>1. Spared(s) BY SoundSpared
  <2> QED BY <1>3, <1>6, <2>1 DEF Spared, Keeps
<1> QED BY <1>1, <1>7, <1>8, RemoveQueuedMail

(* The parked wakes of a session that stops are refused.                   *)
LEMMA RejectSessionMail ==
  ASSUME NEW s, NEW X, NEW Y, NEW p, Mail(s, X, Y)
  PROVE  /\ Mail(reject_pending_wakes_for_session(s, p), X, Y)
         /\ reject_pending_wakes_for_session(s, p).queued = s.queued
         /\ reject_pending_wakes_for_session(s, p).pending = s.pending
         /\ reject_pending_wakes_for_session(s, p).active = s.active
         /\ reject_pending_wakes_for_session(s, p).completed = s.completed
<1> DEFINE ids == InSession(s.completed, p)
<1>1. reject_pending_wakes_for_session(s, p) = reject_pending_wakes_for_ids(s, ids)
      BY DEF reject_pending_wakes_for_session
<1> HIDE DEF ids
<1>2. Promised(s, ids) BY DEF Mail, Promised
<1> QED BY <1>1, <1>2, RejectPendingWakesMail DEF Mail

(* Eviction refuses the wakes parked for what it evicts.                   *)
LEMMA AfterArmMail ==
  ASSUME NEW s, NEW X, NEW Y, Mail(s, X, Y)
  PROVE  Mail(AfterArm(s), X, Y)
<1> DEFINE t == resolve_drain_waiters(s)
           excess == Cardinality(DOMAIN t.completed) - MaxCompleted
           evicted == {t.completed_order[i] : i \in 1 .. excess}
           told == reject_pending_wakes_for_ids(t, evicted)
           u == [told EXCEPT
                   !.completed = Without(@, evicted),
                   !.completed_order = SubSeq(@, excess + 1, Len(@)),
                   !.graph = Without(@, evicted)]
<1>1. Still(s, t) BY DEF Mail, Still, Fields, resolve_drain_waiters
<1>2. AfterArm(s) = t \/ AfterArm(s) = u
      BY DEF AfterArm, evict_completed_overflow
<1> HIDE DEF t, evicted
<1>3. Mail(t, X, Y) BY <1>1, StillMail
<1>4. Promised(t, evicted) BY <1>3 DEF Mail, Promised
<1>5. Mail(told, X, Y) BY <1>3, <1>4, RejectPendingWakesMail DEF Mail
<1> HIDE DEF told
<1>6. /\ DOMAIN u = Fields
      /\ u.queued = told.queued /\ u.pending = told.pending /\ u.active = told.active
      /\ u.completed = Without(told.completed, evicted)
      /\ u.terminal_outputs = told.terminal_outputs
      /\ u.outcome = told.outcome /\ u.pending_wakes = told.pending_wakes
      /\ u.spawn_ready = told.spawn_ready
      /\ u.active_messages = told.active_messages
      /\ u.next_generation = told.next_generation
      /\ u.publications = told.publications
      BY <1>5 DEF Mail, Fields
<1> HIDE DEF u
<1>7. \A x \in DOMAIN u.completed :
        x \in DOMAIN told.completed /\ u.completed[x] = told.completed[x]
      BY <1>6 DEF Without
<1>8. Mail(u, X, Y) BY <1>5, <1>6, <1>7, ForgetMail
<1> QED BY <1>2, <1>3, <1>8

(* A spawn parks nothing.                                                  *)
LEMMA SpawnMail ==
  ASSUME NEW s, NEW X, NEW Y, NEW id, NEW ingress, Mail(s, X, Y), Spared(s)
  PROVE  Mail(handle_spawn(s, id, ingress), X, Y)
<1> DEFINE req == reparent_nested_spawn(s, ingress)
           entry == [req |-> req, cancelled |-> FALSE, reply |-> TRUE,
                     deadline |-> req.mode = "foreground", wake |-> None,
                     queued_at |-> next_queued_at(s)]
           placed == [s EXCEPT !.graph = Put(@, id, insert_node(s, ingress, req)),
                               !.caller[id] = "listening"]
           one == [x \in {id} |-> entry]
           recs == [x \in {id} |-> [req |-> req, reply |-> TRUE, address |-> FALSE,
                                    started |-> FALSE]]
           filed == file_completions(placed, recs, <<id>>)
           started == start_children(placed, one)
           queued == [placed EXCEPT !.queued = Put(@, id, entry)]
<1>1. \/ handle_spawn(s, id, ingress) = s
      \/ handle_spawn(s, id, ingress) = started
      \/ handle_spawn(s, id, ingress) = queued
      \/ handle_spawn(s, id, ingress) = start_queued_within_capacity(filed)
      BY DEF handle_spawn
<1>2. Still(s, placed) BY DEF Mail, Still, Fields
<1>3. entry.wake = None OBVIOUS
<1> HIDE DEF placed, entry, recs
<1>4. Mail(placed, X, Y) BY <1>2, StillMail
<1>5. DOMAIN one = {id} /\ Shown(one) BY <1>3 DEF Shown
<1> HIDE DEF one
<1>6. Y \ {id} \subseteq Y OBVIOUS
<1>7. Mail(started, X, Y \ {id}) BY <1>4, <1>5, StartChildrenMail
<1>8. Mail(queued, X, Y \ {id}) BY <1>3, <1>4, EnqueueMail
<1>9. Mail(filed, X, Y) /\ Keeps(placed, filed) BY <1>4, FileMail
<1> HIDE DEF filed, started, queued
<1>10. Spared(filed) BY <1>2, <1>9 DEF Spared, Still, Keeps
<1>11. Mail(start_queued_within_capacity(filed), X, Y) BY <1>9, <1>10, StartQueuedMail
<1> QED BY <1>1, <1>6, <1>7, <1>8, <1>11, MoreTransit

----------------------------------------------------------------------------
(* The steps.                                                              *)

(* Between two iterations nothing is in transit.                           *)
MessageInv == LimitInv /\ Mail(co, {}, {})

LEMMA StepMail ==
  ASSUME NEW s, Mail(s, {}, {}), Step(s)
  PROVE  Mail(co', {}, {})
BY AfterArmMail DEF Step

LEMMA StepStill ==
  ASSUME NEW s, NEW t, Mail(s, {}, {}), Still(s, t), Step(t)
  PROVE  Mail(co', {}, {})
BY StillMail, StepMail

LEMMA CommandedMail ==
  ASSUME MessageInv
  PROVE  /\ Mail(Commanded, {}, {}) /\ Sound(Commanded) /\ Spared(Commanded)
         /\ DOMAIN Commanded = Fields
<1>1. LimitInv /\ Mail(co, {}, {}) /\ Sound(co) BY DEF MessageInv, LimitInv, Ready
<1>2. Sound(Commanded) /\ DOMAIN Commanded = Fields BY <1>1, CommandedGoes
<1>3. Mail(Commanded, {}, {}) BY <1>1, ReapMail DEF Commanded
<1> QED BY <1>2, <1>3, SoundSpared

(* Stop.                                                                   *)
LEMMA CancelSessionMail ==
  ASSUME NEW s, NEW p, Mail(s, {}, {}), Sound(s)
  PROVE  Mail(cancel_parent_session(s, p), {}, {})
<1> DEFINE hit(map) == {id \in InSession(map, p) : map[id].req.workflow = None}
           blocked == [s EXCEPT !.spawn_blocked_sessions = @ \cup {p}]
           live == hit(s.active) \cup hit(s.pending)
           entries == hit(s.queued)
           ended == remove_queued(cancel_children(blocked, live), entries)
<1>1. cancel_parent_session(s, p) = reject_pending_wakes_for_session(ended, p)
      BY DEF cancel_parent_session
<1>2. Still(s, blocked) BY DEF Mail, Still, Fields
<1>3. Sound(blocked)
  <2> HIDE DEF blocked
  <2>1. Shaped(blocked) BY <1>2 DEF Sound, Shaped, Still
  <2>2. \A q : session_running(blocked, q) = session_running(s, q)
        BY <1>2 DEF session_running, InSession, Still
  <2>3. Limited(blocked) BY <2>1, <2>2, FewerLimited DEF Sound
  <2> QED BY <1>2, <2>1, <2>3 DEF Sound, Distinct, Still
<1> HIDE DEF blocked, live, entries
<1>4. Mail(blocked, {}, {}) BY <1>2, StillMail
<1>5. Mail(ended, {}, {}) BY <1>3, <1>4, CancelMail
<1> HIDE DEF ended
<1> QED BY <1>1, <1>5, RejectSessionMail

(* Close and delete.                                                       *)
LEMMA TeardownMail ==
  ASSUME NEW s, NEW p, NEW b, Mail(s, {}, {}), Sound(s)
  PROVE  Mail(handle_teardown_session(s, p, b), {}, {})
<1> DEFINE quiet == [s EXCEPT !.pending_completions =
                       purge_completions_for_spawner(@, {p})]
           muted(map) == [id \in DOMAIN map |->
             [map[id] EXCEPT !.req.surface = @ /\ map[id].req.session # p]]
           refused == reject_pending_wakes_for_session(quiet, p)
           active == muted(refused.active)
           pending == muted(refused.pending)
           queued == muted(refused.queued)
           silent == [refused EXCEPT !.active = active, !.pending = pending,
                                     !.queued = queued]
           live == InSession(quiet.active, p) \cup InSession(quiet.pending, p)
           entries == InSession(quiet.queued, p)
           torn == remove_queued(cancel_children(silent, live), entries)
           drain == begin_teardown_drain(torn, p)
<1>1. \/ handle_teardown_session(s, p, b) = drain
      \/ handle_teardown_session(s, p, b) = torn
      BY DEF handle_teardown_session, teardown_session_children
<1>2. Still(s, quiet) BY DEF Mail, Still, Fields
<1> HIDE DEF quiet, live, entries
<1>3. Mail(quiet, {}, {}) BY <1>2, StillMail
<1>4. /\ Mail(refused, {}, {})
      /\ refused.queued = s.queued /\ refused.pending = s.pending
      /\ refused.active = s.active /\ refused.completed = s.completed
      BY <1>2, <1>3, RejectSessionMail DEF Still
<1> HIDE DEF refused
<1>5. Shaped(refused) BY <1>4 DEF Sound, Shaped, Mail
<1>6. /\ SameCounts(refused.active, active) /\ SameWakes(refused.pending, pending)
      /\ SameWakes(refused.queued, queued)
  <2>1. /\ \A x \in DOMAIN refused.queued : "wake" \in DOMAIN refused.queued[x]
        /\ \A x \in DOMAIN refused.pending : "wake" \in DOMAIN refused.pending[x]
        /\ \A x \in DOMAIN refused.active : "wake" \in DOMAIN refused.active[x]
        BY <1>5, ShapedWakes
  <2> QED BY <2>1, MutedWakes
<1>7. /\ SameReqs(refused.active, active) /\ SameReqs(refused.pending, pending)
      /\ SameEntries(refused.queued, queued)
      BY <1>5, SameMaps, MutedSame
<1> HIDE DEF active, pending, queued
<1>8. /\ DOMAIN silent = Fields
      /\ silent.active = active /\ silent.pending = pending /\ silent.queued = queued
      /\ silent.completed = refused.completed /\ silent.runs = refused.runs
      /\ silent.terminal_outputs = refused.terminal_outputs
      /\ silent.spawn_blocked_sessions = refused.spawn_blocked_sessions
      /\ silent.outcome = refused.outcome
      /\ silent.pending_wakes = refused.pending_wakes
      /\ silent.spawn_ready = refused.spawn_ready
      /\ silent.active_messages = refused.active_messages
      /\ silent.next_generation = refused.next_generation
      /\ silent.publications = refused.publications
      BY <1>4 DEF Mail, Fields
<1> HIDE DEF silent
<1>9. Mail(silent, {}, {}) BY <1>4, <1>6, <1>8, FlagsMail
<1>10. Sound(silent)
  <2>1. Load(refused, silent) BY <1>5, <1>7, <1>8, RecordsLoad
  <2>2. \A q : session_running(refused, q) = session_running(s, q)
        BY <1>4 DEF session_running, InSession
  <2>3. Limited(refused) BY <1>5, <2>2, FewerLimited DEF Sound
  <2>4. Sound(refused) BY <1>4, <1>5, <2>3 DEF Sound, Distinct
  <2> QED BY <2>1, <2>4, LoadGoes DEF Goes, Carries
<1>11. Mail(torn, {}, {}) BY <1>9, <1>10, CancelMail
<1> HIDE DEF torn
<1>12. Still(torn, drain) BY <1>11 DEF begin_teardown_drain, Mail, Still, Fields
<1> QED BY <1>1, <1>11, <1>12, StillMail

(* The commands.                                                           *)
LEMMA CommandMail ==
  ASSUME MessageInv, Command
  PROVE  Mail(co', {}, {})
<1> DEFINE s == Commanded
<1>0. Mail(s, {}, {}) /\ Sound(s) /\ Spared(s) /\ DOMAIN s = Fields BY CommandedMail
<1> HIDE DEF s
<1>1. ASSUME NEW id \in Ids, NEW ingress \in Offers, Spawn(id, ingress)
      PROVE  Mail(co', {}, {})
      BY <1>0, <1>1, SpawnMail, StepMail DEF Spawn, s
<1>2. ASSUME NEW q \in Queries, NEW id \in Ids, NEW from \in Senders \cup {None},
             Query(q, id, from)
      PROVE  Mail(co', {}, {})
  <2> DEFINE parked == [s EXCEPT !.query[q] = "listening",
                                 !.waiters = @ \cup {[query |-> q, id |-> id]}]
             told == [s EXCEPT !.query[q] = "answered"]
  <2>1. Still(s, parked) /\ Still(s, told) BY <1>0 DEF Still, Fields
  <2>2. Step(parked) \/ Step(told) BY <1>2 DEF Query, s
  <2> HIDE DEF parked, told
  <2> QED BY <1>0, <2>1, <2>2, StepStill
<1>3. ASSUME NEW id \in Ids, NEW from \in Senders \cup {None}, CancelOne(id, from)
      PROVE  Mail(co', {}, {})
  <2> DEFINE t == remove_queued(cancel_children(s, {id}), {id})
  <2>1. Step(s) \/ Step(t) BY <1>3 DEF CancelOne, cancel_one, s
  <2>2. Mail(t, {}, {}) BY <1>0, CancelMail
  <2> HIDE DEF t
  <2> QED BY <1>0, <2>1, <2>2, StepMail
<1>4. ASSUME NEW prompt \in Prompts, NEW p \in Sessions \cup {None},
             CancelPrompt(prompt, p)
      PROVE  Mail(co', {}, {})
  <2>1. Mail(cancel_parent_prompt(s, prompt, p), {}, {})
        BY <1>0, CancelMail DEF cancel_parent_prompt
  <2> QED BY <1>4, <2>1, StepMail DEF CancelPrompt, s
<1>5. ASSUME NEW p \in Sessions, CancelSession(p)
      PROVE  Mail(co', {}, {})
      BY <1>0, <1>5, CancelSessionMail, StepMail DEF CancelSession, s
<1>6. ASSUME NEW r \in Runs, NEW p \in Sessions \cup {None}, CancelWorkflow(r, p)
      PROVE  Mail(co', {}, {})
  <2> DEFINE t == cancel_workflow_children(s, r, p)
             u == [t EXCEPT !.workflow_cancel_waiters = @ \cup {r}]
  <2>1. Mail(t, {}, {}) BY <1>0, CancelMail DEF cancel_workflow_children
  <2>2. Step(t) \/ Step(u) BY <1>6 DEF CancelWorkflow, s
  <2> HIDE DEF t
  <2>3. Still(t, u) BY <2>1 DEF Mail, Still, Fields
  <2> QED BY <2>1, <2>2, <2>3, StepMail, StepStill
<1>7. ASSUME NEW p \in Sessions, NEW b \in BOOLEAN, TeardownSession(p, b)
      PROVE  Mail(co', {}, {})
      BY <1>0, <1>7, TeardownMail, StepMail DEF TeardownSession, s
<1>8. ASSUME NEW p \in Sessions, OpenSpawnAdmission(p)
      PROVE  Mail(co', {}, {})
  <2> DEFINE t == [s EXCEPT !.spawn_blocked_sessions =
                     IF p \in s.teardown_drains THEN @ ELSE @ \ {p}]
  <2>1. Still(s, t) BY <1>0 DEF Still, Fields
  <2>2. Step(t) BY <1>8 DEF OpenSpawnAdmission, s
  <2> HIDE DEF t
  <2> QED BY <1>0, <2>1, <2>2, StepStill
<1>9. ASSUME NEW p \in Sessions, NEW prompt \in Prompts, WaitPromptDrained(p, prompt)
      PROVE  Mail(co', {}, {})
  <2> DEFINE t == [s EXCEPT !.drain_waiters =
                     @ \cup {[session |-> p, prompt |-> prompt]}]
  <2>1. Still(s, t) BY <1>0 DEF Still, Fields
  <2>2. Step(s) \/ Step(t) BY <1>9 DEF WaitPromptDrained, s
  <2> HIDE DEF t
  <2> QED BY <1>0, <2>1, <2>2, StepMail, StepStill
<1>10. ASSUME NEW p \in Sess, Completions(p)
       PROVE  Mail(co', {}, {})
  <2> DEFINE t == [s EXCEPT !.pending_completions =
                     purge_completions_for_spawner(@, {p})]
  <2>1. Still(s, t) BY <1>0 DEF Still, Fields
  <2>2. Step(t) BY <1>10 DEF Completions, s
  <2> HIDE DEF t
  <2> QED BY <1>0, <2>1, <2>2, StepStill
<1>11. ASSUME NEW m \in Messages, NEW id \in Ids, NEW sender \in Senders,
              NEW source \in Sources, SendActiveMessage(m, id, sender, source)
       PROVE  Mail(co', {}, {})
  <2> DEFINE t == [co EXCEPT !.outcome[m] = "waiting"]
             msg == [msg |-> m, id |-> id, sender |-> sender, source |-> source]
             u == handle_send_active_message(t, id, {msg})
  <2>1. Mail(co, {}, {}) BY DEF MessageInv
  <2>2. Step(u) /\ co.outcome[m] = "none" BY <1>11 DEF SendActiveMessage
  <2>3. /\ DOMAIN t = Fields
        /\ t.queued = co.queued /\ t.pending = co.pending /\ t.active = co.active
        /\ t.completed = co.completed /\ t.terminal_outputs = co.terminal_outputs
        /\ t.outcome = [co.outcome EXCEPT ![m] = "waiting"]
        /\ t.pending_wakes = co.pending_wakes /\ t.spawn_ready = co.spawn_ready
        /\ t.active_messages = co.active_messages
        /\ t.next_generation = co.next_generation
        /\ t.publications = co.publications
        BY <2>1 DEF Mail, Fields
  <2> HIDE DEF t
  <2>4. Post(t, {m})
    <3> DEFINE P == MsgsOf(co.pending_wakes)
               R == MsgsOf(co.spawn_ready)
               A == MsgsOf(co.active_messages)
    <3>1. /\ DOMAIN co.outcome = Messages
          /\ \A x \in Messages : co.outcome[x] = "waiting" <=>
               x \in P \/ x \in R \/ x \in A
          BY <2>1 DEF Mail, Post
    <3>2. m \notin P /\ m \notin R /\ m \notin A BY <2>2, <3>1
    <3>3. DOMAIN t.outcome = Messages /\ t.outcome[m] = "waiting"
          /\ \A x \in Messages \ {m} : t.outcome[x] = co.outcome[x]
          BY <2>3, <3>1
    <3> HIDE DEF P, R, A
    <3>4. \A x \in Messages : t.outcome[x] = "waiting" <=>
            x \in {m} \/ x \in P \/ x \in R \/ x \in A
          BY <3>1, <3>3
    <3>5. {m} \cap P = {} /\ {m} \cap R = {} /\ {m} \cap A = {} /\ {m} \subseteq Messages
          BY <3>2
    <3> QED BY <2>1, <2>3, <3>3, <3>4, <3>5 DEF Mail, Post, P, R, A
  <2>5. Mail(t, {m}, {})
        BY <2>1, <2>3, <2>4 DEF Mail, Flight, Parked, Promised
  <2>6. msg \in Sends /\ msg.msg = m /\ msg.id = id BY DEF Sends
  <2> HIDE DEF msg
  <2>7. MsgsOf({msg}) = {m} /\ Once({msg}) BY <2>6 DEF MsgsOf, Once
  <2>8. Mail(u, {m} \ MsgsOf({msg}), {}) BY <2>5, <2>6, <2>7, SendMail
  <2>9. {m} \ MsgsOf({msg}) = {} BY <2>7
  <2> HIDE DEF u
  <2> QED BY <2>2, <2>8, <2>9, StepMail
<1> QED BY <1>1, <1>2, <1>3, <1>4, <1>5, <1>6, <1>7, <1>8, <1>9, <1>10, <1>11
        DEF Command

(* One active record changes; what is parked for the child is in transit.  *)
LEMMA OneActiveMail ==
  ASSUME NEW s, NEW t, Mail(s, {}, {}), NEW id \in DOMAIN s.active, NEW r,
         DOMAIN t = Fields, t.queued = s.queued, t.pending = s.pending,
         DOMAIN t.active = DOMAIN s.active, t.active[id] = r,
         \A x \in DOMAIN s.active \ {id} : t.active[x] = s.active[x],
         t.completed = s.completed, t.terminal_outputs = s.terminal_outputs,
         t.outcome = s.outcome, t.pending_wakes = s.pending_wakes,
         t.spawn_ready = s.spawn_ready, t.active_messages = s.active_messages,
         t.next_generation = s.next_generation, t.publications = s.publications,
         DOMAIN r = ActiveFields, r.generation = s.active[id].generation,
         r.in_flight = s.active[id].in_flight,
         r.reporter_waits => r.finalizing /\ r.in_flight > 0,
         s.active[id].finalizing => r.finalizing,
         r.wake = None \/ r.wake = s.active[id].wake
  PROVE  Mail(t, {}, {id})
<1>1. Counts(r, id, t.active_messages, t.next_generation)
  <2>1. Counts(s.active[id], id, s.active_messages, s.next_generation)
        BY DEF Mail, Flight
  <2> QED BY <2>1 DEF Counts
<1>2. \A x \in DOMAIN t.active :
        Counts(t.active[x], x, t.active_messages, t.next_generation)
      BY <1>1 DEF Mail, Flight
<1>3. Flight(t)
  <2>1. ASSUME NEW x \in DOMAIN t.terminal_outputs
        PROVE  /\ x \in DOMAIN t.active /\ t.active[x].finalizing
               /\ t.active[x].in_flight > 0
    <3>1. x \in DOMAIN s.active /\ s.active[x].finalizing /\ s.active[x].in_flight > 0
          BY DEF Mail, Flight
    <3> QED BY <3>1
  <2> QED BY <1>2, <2>1 DEF Mail, Flight
<1>4. Parked(t, {id}) BY DEF Mail, Parked
<1>5. Shown(t.active) BY DEF Mail, Promised, Shown
<1>6. Promised(t, {}) BY <1>5 DEF Mail, Promised
<1>7. Post(t, {}) BY DEF Mail, Post
<1> QED BY <1>3, <1>4, <1>6, <1>7 DEF Mail

(* A child that starts has a generation of its own.                        *)
LEMMA StartedMail ==
  ASSUME MessageInv, NEW id \in Ids, NEW definition_background, NEW defer,
         Started(id, definition_background, defer)
  PROVE  Mail(co', {}, {})
<1> DEFINE child == co.pending[id]
           rec == [req |-> child.req, cancelled |-> FALSE, reply |-> child.reply,
                   deadline |-> child.deadline, handle_only |-> child.handle_only,
                   definition_background |-> definition_background,
                   generation |-> co.next_generation, finalizing |-> FALSE,
                   in_flight |-> 0, clean |-> TRUE, reporter_waits |-> FALSE,
                   wake |-> IF defer THEN child.wake ELSE None]
           active == Put(co.active, id, rec)
           t == [co EXCEPT !.pending = Without(@, {id}), !.next_generation = @ + 1,
                           !.active = active]
<1>1. /\ id \in DOMAIN co.pending
      /\ defer => child.wake # None
      /\ \/ Step(reject_spawn_ready_ids(co, {id}))
         \/ defer /\ Step(t)
         \/ Step(admit_spawn_ready_messages(t, id))
      BY DEF Started
<1>2. Mail(co, {}, {}) /\ DOMAIN co.pending \cap DOMAIN co.active = {}
      BY DEF MessageInv, LimitInv, IInv, Apart
<1>3. /\ DOMAIN t = Fields
      /\ t.queued = co.queued /\ t.pending = Without(co.pending, {id})
      /\ t.active = active
      /\ t.completed = co.completed /\ t.terminal_outputs = co.terminal_outputs
      /\ t.outcome = co.outcome /\ t.pending_wakes = co.pending_wakes
      /\ t.spawn_ready = co.spawn_ready /\ t.active_messages = co.active_messages
      /\ t.next_generation = co.next_generation + 1
      /\ t.publications = co.publications
      BY <1>2 DEF Mail, Fields
<1>4. /\ DOMAIN rec = ActiveFields /\ rec.generation = co.next_generation
      /\ rec.in_flight = 0 /\ rec.reporter_waits = FALSE /\ rec.finalizing = FALSE
      /\ rec.wake = IF defer THEN child.wake ELSE None
      BY DEF ActiveFields
<1>5. /\ DOMAIN active = DOMAIN co.active \cup {id} /\ active[id] = rec
      /\ \A x \in DOMAIN co.active : x # id /\ active[x] = co.active[x]
      BY <1>1, <1>2 DEF Put
<1> HIDE DEF t, active, rec
<1>6. Mail(t, {}, {id}) /\ (defer => Mail(t, {}, {}))
  <2>1. /\ co.next_generation \in Nat
        /\ \A f \in co.active_messages : f.generation < co.next_generation
        /\ co.active_messages \subseteq Flights
        BY <1>2 DEF Mail, Flight, Post
  <2>2. Counts(rec, id, t.active_messages, t.next_generation)
    <3>1. InFlight(t.active_messages, id, rec.generation) = {}
          BY <1>3, <1>4, <2>1 DEF InFlight, Flights
    <3>2. Cardinality(InFlight(t.active_messages, id, rec.generation)) = 0
          BY <3>1, FS_EmptySet
    <3>3. 0 <= MaxPerChild BY ConstantsAssumption
    <3> QED BY <1>3, <1>4, <2>1, <3>2, <3>3 DEF Counts
  <2>3. \A x \in DOMAIN t.active :
          Counts(t.active[x], x, t.active_messages, t.next_generation)
    <3> SUFFICES ASSUME NEW x \in DOMAIN t.active
                 PROVE  Counts(t.active[x], x, t.active_messages, t.next_generation)
        OBVIOUS
    <3>1. CASE x = id BY <1>3, <1>5, <2>2, <3>1
    <3>2. CASE x # id
      <4>1. /\ t.active[x] = co.active[x]
            /\ Counts(co.active[x], x, co.active_messages, co.next_generation)
            BY <1>2, <1>3, <1>5, <3>2 DEF Mail, Flight
      <4> QED BY <1>3, <2>1, <4>1 DEF Counts
    <3> QED BY <3>1, <3>2
  <2>4. Flight(t)
    <3>1. \A f \in t.active_messages : f.generation < t.next_generation
          BY <1>3, <2>1 DEF Flights
    <3>2. t.next_generation \in Nat BY <1>3, <2>1
    <3> QED BY <1>2, <1>3, <1>5, <2>3, <3>1, <3>2 DEF Mail, Flight
  <2>5. DOMAIN t.pending = DOMAIN co.pending \ {id} /\ Shown(t.pending)
        BY <1>2, <1>3 DEF Without, Mail, Promised, Shown
  <2>6. Shown(active)
    <3>1. Shown(co.active) /\ Shown(co.pending) BY <1>2 DEF Mail, Promised
    <3>2. rec.wake # None =>
            DOMAIN rec.wake = CompletedFields /\ rec.wake.published
          BY <1>1, <1>4, <3>1 DEF Shown
    <3> QED BY <1>5, <3>1, <3>2 DEF Shown
  <2>7. Promised(t, {}) BY <1>2, <1>3, <2>5, <2>6 DEF Mail, Promised
  <2>8. Post(t, {}) BY <1>2, <1>3 DEF Mail, Post
  <2>9. Parked(t, {id}) BY <1>2, <1>3, <1>5, <2>5 DEF Mail, Parked
  <2>10. defer => Parked(t, {})
    <3> SUFFICES ASSUME defer, NEW m \in t.spawn_ready, m.id = id
                 PROVE  /\ m.id \in DOMAIN t.active /\ t.active[m.id].wake # None
                        /\ ~t.active[m.id].finalizing
        BY <2>9 DEF Parked
    <3> QED BY <1>1, <1>3, <1>4, <1>5
  <2> QED BY <1>3, <2>4, <2>7, <2>8, <2>9, <2>10 DEF Mail
<1>7. Mail(admit_spawn_ready_messages(t, id), {}, {})
  <2>1. id \in DOMAIN t.active BY <1>3, <1>5
  <2>2. Mail(admit_spawn_ready_messages(t, id), {}, {id} \ {id})
        BY <1>6, <2>1, AdmitSpawnReadyMail
  <2>3. {id} \ {id} = {} OBVIOUS
  <2> QED BY <2>2, <2>3
<1>8. Mail(reject_spawn_ready_ids(co, {id}), {}, {})
  <2>1. Mail(reject_spawn_ready_ids(co, {id}), {}, {} \ {id})
        BY <1>2, RejectSpawnReadyMail
  <2>2. {} \ {id} = {} OBVIOUS
  <2> QED BY <2>1, <2>2
<1> QED BY <1>1, <1>6, <1>7, <1>8, StepMail

(* A deferred start that is committed takes what was parked for it, one    *)
(* that is given up refuses it.                                            *)
LEMMA SettleMail ==
  ASSUME MessageInv, NEW id \in Ids, NEW is_committed, SettleDeferredStart(id, is_committed)
  PROVE  Mail(co', {}, {})
<1> DEFINE child == co.active[id]
           kept == [child EXCEPT !.wake = None]
           ended == [child EXCEPT !.req.surface = FALSE, !.cancelled = TRUE,
                                  !.finalizing = TRUE]
           committed == [co EXCEPT !.active[id].wake = None]
           aborted == [co EXCEPT !.active[id].req.surface = FALSE,
                                 !.active[id].cancelled = TRUE,
                                 !.active[id].finalizing = TRUE]
<1>1. /\ id \in DOMAIN co.active
      /\ ~child.finalizing
      /\ \/ Step(admit_spawn_ready_messages(committed, id))
         \/ Step(reject_spawn_ready_ids(aborted, {id}))
      BY DEF SettleDeferredStart
<1>2. Mail(co, {}, {}) /\ DOMAIN co = Fields BY DEF MessageInv, Mail
<1>3. Counts(child, id, co.active_messages, co.next_generation)
      BY <1>1, <1>2 DEF Mail, Flight
<1>4. Mail(committed, {}, {id})
  <2>1. /\ DOMAIN kept = ActiveFields /\ kept.generation = child.generation
        /\ kept.in_flight = child.in_flight /\ kept.finalizing = child.finalizing
        /\ kept.reporter_waits = child.reporter_waits /\ kept.wake = None
        BY <1>3 DEF Counts, ActiveFields
  <2>2. /\ DOMAIN committed = Fields
        /\ committed.queued = co.queued /\ committed.pending = co.pending
        /\ committed.active = [co.active EXCEPT ![id].wake = None]
        /\ committed.completed = co.completed
        /\ committed.terminal_outputs = co.terminal_outputs
        /\ committed.outcome = co.outcome
        /\ committed.pending_wakes = co.pending_wakes
        /\ committed.spawn_ready = co.spawn_ready
        /\ committed.active_messages = co.active_messages
        /\ committed.next_generation = co.next_generation
        /\ committed.publications = co.publications
        BY <1>2 DEF Fields
  <2> HIDE DEF committed
  <2>3. /\ DOMAIN committed.active = DOMAIN co.active /\ committed.active[id] = kept
        /\ \A x \in DOMAIN co.active \ {id} : committed.active[x] = co.active[x]
        BY <1>1, <2>2
  <2>4. kept.reporter_waits => kept.finalizing /\ kept.in_flight > 0
        BY <1>3, <2>1 DEF Counts
  <2> HIDE DEF kept
  <2> QED BY <1>1, <1>2, <2>1, <2>2, <2>3, <2>4, OneActiveMail
<1>5. Mail(aborted, {}, {id})
  <2>1. /\ DOMAIN ended = ActiveFields /\ ended.generation = child.generation
        /\ ended.in_flight = child.in_flight /\ ended.finalizing = TRUE
        /\ ended.reporter_waits = child.reporter_waits /\ ended.wake = child.wake
        BY <1>3 DEF Counts, ActiveFields
  <2>2. /\ DOMAIN aborted = Fields
        /\ aborted.queued = co.queued /\ aborted.pending = co.pending
        /\ aborted.active = [co.active EXCEPT ![id].req.surface = FALSE,
                                              ![id].cancelled = TRUE,
                                              ![id].finalizing = TRUE]
        /\ aborted.completed = co.completed
        /\ aborted.terminal_outputs = co.terminal_outputs
        /\ aborted.outcome = co.outcome
        /\ aborted.pending_wakes = co.pending_wakes
        /\ aborted.spawn_ready = co.spawn_ready
        /\ aborted.active_messages = co.active_messages
        /\ aborted.next_generation = co.next_generation
        /\ aborted.publications = co.publications
        BY <1>2 DEF Fields
  <2> HIDE DEF aborted
  <2>3. /\ DOMAIN aborted.active = DOMAIN co.active /\ aborted.active[id] = ended
        /\ \A x \in DOMAIN co.active \ {id} : aborted.active[x] = co.active[x]
        BY <1>1, <2>2
  <2>4. ended.reporter_waits => ended.finalizing /\ ended.in_flight > 0
        BY <1>3, <2>1 DEF Counts
  <2> HIDE DEF ended
  <2> QED BY <1>1, <1>2, <2>1, <2>2, <2>3, <2>4, OneActiveMail
<1>6. id \in DOMAIN committed.active BY <1>1, <1>2 DEF Fields
<1> HIDE DEF committed, aborted
<1>7. {id} \ {id} = {} OBVIOUS
<1>8. Mail(admit_spawn_ready_messages(committed, id), {}, {id} \ {id})
      BY <1>4, <1>6, AdmitSpawnReadyMail
<1>9. Mail(reject_spawn_ready_ids(aborted, {id}), {}, {id} \ {id})
      BY <1>5, RejectSpawnReadyMail
<1> QED BY <1>1, <1>7, <1>8, <1>9, StepMail

(* The reporter waits only for admissions that are in flight.              *)
LEMMA FinalizingMail ==
  ASSUME MessageInv, NEW id \in Ids, Finalizing(id)
  PROVE  Mail(co', {}, {})
<1> DEFINE child == co.active[id]
           t == [co EXCEPT !.active[id].finalizing = TRUE,
                           !.active[id].reporter_waits = co.active[id].in_flight > 0]
           w == [child EXCEPT !.finalizing = TRUE, !.reporter_waits = child.in_flight > 0]
<1>1. id \in DOMAIN co.active /\ child.wake = None /\ Step(t) BY DEF Finalizing
<1>2. Mail(co, {}, {}) /\ DOMAIN co = Fields BY DEF MessageInv, Mail
<1>3. Counts(child, id, co.active_messages, co.next_generation)
      BY <1>1, <1>2 DEF Mail, Flight
<1>4. /\ DOMAIN w = ActiveFields /\ w.generation = child.generation
      /\ w.in_flight = child.in_flight /\ w.finalizing = TRUE
      /\ w.reporter_waits = (child.in_flight > 0) /\ w.wake = child.wake
      BY <1>3 DEF Counts, ActiveFields
<1>5. /\ DOMAIN t = Fields
      /\ t.queued = co.queued /\ t.pending = co.pending
      /\ t.active = [co.active EXCEPT ![id].finalizing = TRUE,
                                      ![id].reporter_waits = co.active[id].in_flight > 0]
      /\ t.completed = co.completed /\ t.terminal_outputs = co.terminal_outputs
      /\ t.outcome = co.outcome /\ t.pending_wakes = co.pending_wakes
      /\ t.spawn_ready = co.spawn_ready /\ t.active_messages = co.active_messages
      /\ t.next_generation = co.next_generation /\ t.publications = co.publications
      BY <1>2 DEF Fields
<1> HIDE DEF t
<1>6. /\ DOMAIN t.active = DOMAIN co.active /\ t.active[id] = w
      /\ \A x \in DOMAIN co.active \ {id} : t.active[x] = co.active[x]
      BY <1>1, <1>5
<1>7. w.reporter_waits => w.finalizing /\ w.in_flight > 0 BY <1>4
<1> HIDE DEF w
<1>8. Mail(t, {}, {id}) BY <1>1, <1>2, <1>4, <1>5, <1>6, <1>7, OneActiveMail
<1>9. \A m \in t.spawn_ready : m.id = id => m.id \in DOMAIN t.queued \cup DOMAIN t.pending
      BY <1>1, <1>2, <1>5 DEF Mail, Parked
<1>10. Mail(t, {}, {}) BY <1>8, <1>9 DEF Mail, Parked
<1> QED BY <1>1, <1>10, StepMail

(* The host's reports.                                                     *)
LEMMA HostReportMail ==
  ASSUME MessageInv, HostReport
  PROVE  Mail(co', {}, {})
<1>0. /\ Mail(co, {}, {}) /\ DOMAIN co = Fields /\ Spared(co) /\ Polled(co)
      /\ DOMAIN co.pending \cap DOMAIN co.active = {}
      BY SoundSpared DEF MessageInv, Mail, LimitInv, Ready, IInv, Apart
<1>1. ASSUME NEW id \in Ids, NEW b \in BOOLEAN, NEW defer \in BOOLEAN,
             Started(id, b, defer)
      PROVE  Mail(co', {}, {})
      BY <1>1, StartedMail
<1>2. ASSUME NEW id \in Ids, NEW ok \in BOOLEAN, SettleDeferredStart(id, ok)
      PROVE  Mail(co', {}, {})
      BY <1>2, SettleMail
<1>3. ASSUME NEW id \in Ids, Finalizing(id)
      PROVE  Mail(co', {}, {})
      BY <1>3, FinalizingMail
<1>4. ASSUME NEW id \in Ids, NEW success \in BOOLEAN, RunEnded(id, success)
      PROVE  Mail(co', {}, {})
  <2> DEFINE t == [co EXCEPT !.runs = @ \ {id}]
  <2>1. Still(co, t) BY <1>0 DEF Still, Fields
  <2>2. Step(begin_terminalization(t, id, success)) /\ id \in co.runs
        BY <1>4 DEF RunEnded
  <2> HIDE DEF t
  <2>3. Mail(t, {}, {}) /\ Spared(t) BY <1>0, <2>1, StillMail DEF Still, Spared
  <2>4. id \notin DOMAIN t.terminal_outputs BY <1>0, <2>1, <2>2 DEF Polled, Still
  <2> QED BY <2>2, <2>3, <2>4, TerminalizationMail, StepMail
<1>5. ASSUME NEW f \in co.active_messages, NEW how \in {"Accepted", "Refused", "Uncertain"},
             ActiveMessageEnded(f, how)
      PROVE  Mail(co', {}, {})
  <2>1. how # "waiting" OBVIOUS
  <2> QED BY <1>0, <1>5, <2>1, FinishMessageMail, StepMail DEF ActiveMessageEnded
<1>6. ASSUME NEW w \in co.progress, ProgressEnded(w)
      PROVE  Mail(co', {}, {})
  <2> DEFINE t == [co EXCEPT !.progress = @ \ {w},
                     !.query[w.query] = IF @ = "listening" THEN "answered" ELSE @]
  <2>1. Still(co, t) BY <1>0 DEF Still, Fields
  <2>2. Step(t) BY <1>6 DEF ProgressEnded
  <2> HIDE DEF t
  <2> QED BY <1>0, <2>1, <2>2, StepStill
<1>7. ASSUME NEW p \in co.publications, TerminalPublished(p)
      PROVE  Mail(co', {}, {})
      BY <1>0, <1>7, TerminalPublishedMail, StepMail DEF TerminalPublished
<1> QED BY <1>1, <1>2, <1>3, <1>4, <1>5, <1>6, <1>7 DEF HostReport

(* The deadlines.                                                          *)
LEMMA DeadlineMail ==
  ASSUME MessageInv, Deadline
  PROVE  Mail(co', {}, {})
<1> DEFINE s == Commanded
<1>0. Mail(s, {}, {}) /\ Sound(s) /\ DOMAIN s = Fields BY CommandedMail
<1> HIDE DEF s
<1>1. ASSUME ReapAbandonedCallers PROVE Mail(co', {}, {})
      BY <1>0, <1>1, StepMail DEF ReapAbandonedCallers, s
<1>2. ASSUME NEW id \in Ids, ForegroundDeadline(id) PROVE Mail(co', {}, {})
  <2> DEFINE detached(map) == [x \in DOMAIN map |-> IF x # id THEN map[x] ELSE
        [map[x] EXCEPT !.reply = FALSE, !.handle_only = TRUE, !.deadline = FALSE]]
             pending == detached(s.pending)
             active == detached(s.active)
             queued == [x \in DOMAIN s.queued |-> IF x # id THEN s.queued[x] ELSE
                          [s.queued[x] EXCEPT !.reply = FALSE, !.deadline = FALSE]]
             t == [s EXCEPT !.pending = pending, !.active = active, !.queued = queued,
                            !.caller[id] = IF @ = "listening" THEN "answered" ELSE @]
  <2>1. Step(t) \/ Step(s) BY <1>2 DEF ForegroundDeadline, s
  <2>2. /\ \A x \in DOMAIN s.queued : "wake" \in DOMAIN s.queued[x]
        /\ \A x \in DOMAIN s.pending : "wake" \in DOMAIN s.pending[x]
        /\ \A x \in DOMAIN s.active : "wake" \in DOMAIN s.active[x]
        BY <1>0, ShapedWakes DEF Sound
  <2>3. SameWakes(s.pending, pending) /\ SameCounts(s.active, active)
        BY <2>2, DetachedWakes
  <2>4. SameWakes(s.queued, queued)
    <3>1. ASSUME NEW x \in DOMAIN s.queued PROVE queued[x].wake = s.queued[x].wake
      <4> DEFINE r == s.queued[x]
                 w == [r EXCEPT !.reply = FALSE, !.deadline = FALSE]
      <4>1. queued[x] = r \/ queued[x] = w OBVIOUS
      <4>2. "wake" \in DOMAIN r BY <2>2
      <4> HIDE DEF r, queued
      <4>3. w.wake = r.wake BY <4>2
      <4> HIDE DEF w
      <4> QED BY <4>1, <4>3 DEF r
    <3> QED BY <3>1 DEF SameWakes
  <2> HIDE DEF pending, active, queued
  <2>5. /\ DOMAIN t = Fields
        /\ t.pending = pending /\ t.active = active /\ t.queued = queued
        /\ t.completed = s.completed /\ t.terminal_outputs = s.terminal_outputs
        /\ t.outcome = s.outcome /\ t.pending_wakes = s.pending_wakes
        /\ t.spawn_ready = s.spawn_ready /\ t.active_messages = s.active_messages
        /\ t.next_generation = s.next_generation /\ t.publications = s.publications
        BY <1>0 DEF Fields
  <2> HIDE DEF t
  <2>6. Mail(t, {}, {}) BY <1>0, <2>3, <2>4, <2>5, FlagsMail
  <2> QED BY <1>0, <2>1, <2>6, StepMail
<1>3. ASSUME NEW m \in co.spawn_ready, SpawnReadyDeadline(m) PROVE Mail(co', {}, {})
  <2> DEFINE t == [s EXCEPT !.spawn_ready = @ \ {m}]
             u == Answer(t, {m.msg}, "Refused")
  <2>1. Step(s) \/ (m \in s.spawn_ready /\ Step(u)) BY <1>3 DEF SpawnReadyDeadline, s
  <2>2. ASSUME m \in s.spawn_ready PROVE Mail(u, {}, {})
    <3>1. {m} \in SUBSET s.spawn_ready /\ MsgsOf({m}) = {m.msg} BY <2>2 DEF MsgsOf
    <3>2. Mail(t, {} \cup MsgsOf({m}), {}) BY <1>0, <3>1, UnparkMail
    <3>3. {} \cup MsgsOf({m}) = {m.msg} /\ {m.msg} \ {m.msg} = {} BY <3>1
    <3> HIDE DEF t
    <3>4. Mail(t, {m.msg}, {}) BY <3>2, <3>3
    <3>5. Mail(u, {m.msg} \ {m.msg}, {}) BY <3>4, AnswerMail
    <3> HIDE DEF u
    <3> QED BY <3>3, <3>5
  <2> HIDE DEF u
  <2> QED BY <1>0, <2>1, <2>2, StepMail
<1>4. ASSUME NEW p \in co.teardown_drains, TeardownDeadline(p) PROVE Mail(co', {}, {})
      BY <1>0, <1>4, TeardownDrainStill, StepStill DEF TeardownDeadline, s
<1>5. ASSUME NEW w \in co.waiters, WaiterDeadline(w) PROVE Mail(co', {}, {})
  <2> DEFINE t == [s EXCEPT !.waiters = @ \ {w}]
             u == [t EXCEPT !.progress = @ \cup {w}]
             v == [t EXCEPT !.query[w.query] = "answered"]
  <2>1. Still(s, t) BY <1>0 DEF Still, Fields
  <2>2. Step(s) \/ Step(t) \/ Step(u) \/ Step(v) BY <1>5 DEF WaiterDeadline, s
  <2> HIDE DEF t
  <2>3. Still(s, u) /\ Still(s, v) BY <2>1 DEF Still, Fields
  <2> QED BY <1>0, <2>1, <2>2, <2>3, StepMail, StepStill
<1> QED BY <1>1, <1>2, <1>3, <1>4, <1>5 DEF Deadline

(* The environment answers no message; a record is published before its    *)
(* publication is over.                                                    *)
LEMMA EnvironmentMail ==
  ASSUME MessageInv, Environment
  PROVE  Mail(co', {}, {})
<1>0. Mail(co, {}, {}) /\ DOMAIN co = Fields /\ Shaped(co)
      BY DEF MessageInv, Mail, LimitInv, Ready, Sound
<1>1. ASSUME NEW id \in Ids, CallerGone(id) PROVE Mail(co', {}, {})
  <2>1. Still(co, co') BY <1>0, <1>1 DEF CallerGone, Still, Fields
  <2> QED BY <1>0, <2>1, StillMail
<1>2. ASSUME NEW q \in Queries, QueryGone(q) PROVE Mail(co', {}, {})
  <2>1. Still(co, co') BY <1>0, <1>2 DEF QueryGone, Still, Fields
  <2> QED BY <1>0, <2>1, StillMail
<1>3. ASSUME NEW id \in Ids, TokenCancelled(id) PROVE Mail(co', {}, {})
  <2> DEFINE mark(map) == [x \in DOMAIN map |->
                             [map[x] EXCEPT !.cancelled = @ \/ x = id]]
             pending == mark(co.pending)
             active == mark(co.active)
             queued == mark(co.queued)
  <2>1. co' = [co EXCEPT !.queued = queued, !.pending = pending, !.active = active]
        BY <1>3 DEF TokenCancelled
  <2>2. ASSUME NEW f, \A x \in DOMAIN f : "wake" \in DOMAIN f[x]
        PROVE  SameWakes(f, mark(f)) /\ SameCounts(f, mark(f))
    <3> DEFINE g == [x \in DOMAIN f |-> [f[x] EXCEPT !.cancelled = @ \/ x \in {id}]]
    <3>1. mark(f) = g OBVIOUS
    <3>2. SameWakes(f, g) /\ SameCounts(f, g) BY <2>2, MarkWakes
    <3> HIDE DEF g, mark
    <3> QED BY <3>1, <3>2
  <2>3. /\ SameWakes(co.pending, pending) /\ SameWakes(co.queued, queued)
        /\ SameCounts(co.active, active)
    <3>1. /\ \A x \in DOMAIN co.queued : "wake" \in DOMAIN co.queued[x]
          /\ \A x \in DOMAIN co.pending : "wake" \in DOMAIN co.pending[x]
          /\ \A x \in DOMAIN co.active : "wake" \in DOMAIN co.active[x]
          BY <1>0, ShapedWakes
    <3> QED BY <2>2, <3>1
  <2> HIDE DEF pending, active, queued
  <2>4. /\ DOMAIN co' = Fields
        /\ co'.pending = pending /\ co'.active = active /\ co'.queued = queued
        /\ co'.completed = co.completed /\ co'.terminal_outputs = co.terminal_outputs
        /\ co'.outcome = co.outcome /\ co'.pending_wakes = co.pending_wakes
        /\ co'.spawn_ready = co.spawn_ready
        /\ co'.active_messages = co.active_messages
        /\ co'.next_generation = co.next_generation
        /\ co'.publications = co.publications
        BY <1>0, <2>1 DEF Fields
  <2> QED BY <1>0, <2>3, <2>4, FlagsMail
<1>4. ASSUME NEW p \in co.publications, NEW stage, NEW completed,
             co' = [co EXCEPT !.publications = (@ \ {p}) \cup {[p EXCEPT !.stage = stage]},
                              !.completed = completed],
             DOMAIN completed = DOMAIN co.completed,
             \A x \in DOMAIN completed :
               /\ DOMAIN completed[x] = CompletedFields
               /\ completed[x].age = co.completed[x].age
               /\ co.completed[x].published => completed[x].published
               /\ ~completed[x].published =>
                    [id |-> x, age |-> completed[x].age, stage |-> "presenting"] # p
      PROVE  Mail(co', {}, {})
  <2> DEFINE q == [p EXCEPT !.stage = stage]
             publications == (co.publications \ {p}) \cup {q}
  <2>1. DOMAIN p = {"id", "age", "stage"} BY <1>0 DEF Mail, Promised
  <2>2. DOMAIN q = {"id", "age", "stage"} /\ q.id = p.id BY <2>1
  <2>3. /\ DOMAIN co' = Fields
        /\ co'.pending = co.pending /\ co'.active = co.active /\ co'.queued = co.queued
        /\ co'.completed = completed /\ co'.terminal_outputs = co.terminal_outputs
        /\ co'.outcome = co.outcome /\ co'.pending_wakes = co.pending_wakes
        /\ co'.spawn_ready = co.spawn_ready
        /\ co'.active_messages = co.active_messages
        /\ co'.next_generation = co.next_generation
        /\ co'.publications = publications
        BY <1>0, <1>4 DEF Fields
  <2> HIDE DEF q
  <2>4. \A x \in DOMAIN completed : ~completed[x].published =>
          [id |-> x, age |-> completed[x].age, stage |-> "presenting"] \in publications
    <3> SUFFICES ASSUME NEW x \in DOMAIN completed, ~completed[x].published
                 PROVE  [id |-> x, age |-> completed[x].age, stage |-> "presenting"]
                          \in publications
        OBVIOUS
    <3>1. [id |-> x, age |-> co.completed[x].age, stage |-> "presenting"]
            \in co.publications
          BY <1>0, <1>4 DEF Mail, Promised
    <3> QED BY <1>4, <3>1
  <2>5. \A m \in co.pending_wakes : \E r \in publications : r.id = m.id
    <3> SUFFICES ASSUME NEW m \in co.pending_wakes
                 PROVE  \E r \in publications : r.id = m.id
        OBVIOUS
    <3>1. PICK r \in co.publications : r.id = m.id BY <1>0 DEF Mail, Promised
    <3>2. CASE r = p BY <2>2, <3>1, <3>2
    <3>3. CASE r # p BY <3>1, <3>3
    <3> QED BY <3>2, <3>3
  <2>6. \A r \in publications : DOMAIN r = {"id", "age", "stage"}
        BY <1>0, <2>2 DEF Mail, Promised
  <2> HIDE DEF publications
  <2>7. Promised(co', {}) BY <1>0, <1>4, <2>3, <2>4, <2>5, <2>6 DEF Mail, Promised
  <2> QED BY <1>0, <2>3, <2>7 DEF Mail, Post, Flight, Parked
<1>5. ASSUME NEW p \in co.publications, HostStoresPublished(p) PROVE Mail(co', {}, {})
  <2> DEFINE completed == [id \in DOMAIN co.completed |->
               [co.completed[id] EXCEPT
                  !.published = @ \/ (p.id = id /\ p.age = co.completed[id].age)]]
  <2>1. co' = [co EXCEPT !.publications = (@ \ {p}) \cup {[p EXCEPT !.stage = "stored"]},
                         !.completed = completed]
        BY <1>5 DEF HostStoresPublished
  <2>2. DOMAIN completed = DOMAIN co.completed OBVIOUS
  <2>3. ASSUME NEW x \in DOMAIN completed
        PROVE  /\ DOMAIN completed[x] = CompletedFields
               /\ completed[x].age = co.completed[x].age
               /\ co.completed[x].published => completed[x].published
               /\ ~completed[x].published =>
                    [id |-> x, age |-> completed[x].age, stage |-> "presenting"] # p
    <3> DEFINE r == co.completed[x]
               b == p.id = x /\ p.age = r.age
               w == [r EXCEPT !.published = @ \/ b]
               n == [id |-> x, age |-> r.age, stage |-> "presenting"]
    <3>1. DOMAIN r = CompletedFields BY <1>0, <2>3 DEF Mail, Promised
    <3>2. completed[x] = w BY <2>3
    <3>3. n = p => b OBVIOUS
    <3> HIDE DEF completed, r, b, n
    <3>4. DOMAIN w = CompletedFields /\ w.age = r.age /\ (w.published <=> r.published \/ b)
          BY <3>1 DEF CompletedFields
    <3> HIDE DEF w
    <3> QED BY <3>2, <3>3, <3>4 DEF n, r
  <2> HIDE DEF completed
  <2> QED BY <1>4, <2>1, <2>2, <2>3
<1>6. ASSUME NEW p \in co.publications, HostSendsPublished(p) PROVE Mail(co', {}, {})
  <2> DEFINE completed == co.completed
  <2>1. p.stage = "stored" BY <1>6 DEF HostSendsPublished
  <2>2. co' = [co EXCEPT !.publications = (@ \ {p}) \cup {[p EXCEPT !.stage = "sent"]},
                         !.completed = completed]
        BY <1>0, <1>6 DEF HostSendsPublished, Fields
  <2>3. ASSUME NEW x \in DOMAIN completed
        PROVE  /\ DOMAIN completed[x] = CompletedFields
               /\ [id |-> x, age |-> completed[x].age, stage |-> "presenting"] # p
    <3> DEFINE n == [id |-> x, age |-> completed[x].age, stage |-> "presenting"]
    <3>1. n.stage = "presenting" OBVIOUS
    <3> HIDE DEF n
    <3>2. n # p BY <2>1, <3>1
    <3>3. DOMAIN completed[x] = CompletedFields BY <1>0, <2>3 DEF Mail, Promised
    <3> QED BY <3>2, <3>3 DEF n
  <2> QED BY <1>4, <2>2, <2>3
<1> QED BY <1>1, <1>2, <1>3, <1>5, <1>6 DEF Environment
----------------------------------------------------------------------------
(* The theorems.                                                           *)

(* The coordinator starts with no child and no message.                    *)
LEMMA InitMail == Init => MessageInv
<1> SUFFICES ASSUME Init PROVE MessageInv OBVIOUS
<1>1. DOMAIN NoMap = {} BY DEF NoMap
<1>2. /\ DOMAIN co = Fields
      /\ co.queued = NoMap /\ co.pending = NoMap /\ co.active = NoMap
      /\ co.completed = NoMap /\ co.terminal_outputs = NoMap
      /\ co.pending_wakes = {} /\ co.spawn_ready = {} /\ co.active_messages = {}
      /\ co.publications = {} /\ co.next_generation = 0
      /\ co.outcome = [m \in Messages |-> "none"]
      BY DEF Init, Fields
<1>3. MsgsOf({}) = {} BY DEF MsgsOf
<1>4. Post(co, {}) BY <1>2, <1>3 DEF Post, Once
<1>5. Flight(co) BY <1>1, <1>2 DEF Flight
<1>6. Parked(co, {}) /\ Promised(co, {}) BY <1>1, <1>2 DEF Parked, Promised, Shown
<1> QED BY <1>2, <1>4, <1>5, <1>6, InitReady DEF MessageInv, Mail

(* Between any two iterations of the loop every message is in one place,   *)
(* every count is right, and what is parked has something to wait for.     *)
THEOREM MessageInductive == Spec => []MessageInv
<1>1. ASSUME MessageInv, [Next]_vars PROVE MessageInv'
  <2>1. CASE Next
    <3>1. LimitInv' BY <1>1, <2>1, NextKept DEF MessageInv
    <3>2. Mail(co', {}, {})
      <4>1. CASE Command BY <1>1, <4>1, CommandMail
      <4>2. CASE HostReport BY <1>1, <4>2, HostReportMail
      <4>3. CASE Deadline BY <1>1, <4>3, DeadlineMail
      <4>4. CASE Environment BY <1>1, <4>4, EnvironmentMail
      <4> QED BY <2>1, <4>1, <4>2, <4>3, <4>4 DEF Next
    <3> QED BY <3>1, <3>2 DEF MessageInv
  <2>2. CASE UNCHANGED vars
    <3>1. co' = co BY <2>2 DEF vars
    <3>2. LimitInv' BY <1>1, <3>1 DEF MessageInv, LimitInv, IInv
    <3>3. Mail(co', {}, {}) BY <1>1, <3>1 DEF MessageInv
    <3> QED BY <3>2, <3>3 DEF MessageInv
  <2> QED BY <1>1, <2>1, <2>2
<1> QED BY <1>1, InitMail, PTL DEF Spec

(* Exactly the children that can still end on their own have a run future  *)
(* that is polled, and a terminal output is held back only for a           *)
(* finalizing child whose last admission will release it.                  *)
THEOREM RunsAccountedAlways == Spec => []RunsAccounted
<1>1. MessageInv => RunsAccounted
      BY DEF MessageInv, LimitInv, Ready, Polled, Mail, Flight, RunsAccounted
<1> QED BY <1>1, MessageInductive, PTL

(* in_flight of an active child counts exactly the admissions of its       *)
(* generation that have not ended, within the cap per child, so the end of *)
(* the last one is the moment that the waiting reporter is told.           *)
THEOREM AdmissionsCountedAlways == Spec => []AdmissionsCounted
<1>1. MessageInv => AdmissionsCounted
      BY DEF MessageInv, Mail, Flight, Counts, InFlight, AdmissionsCounted
<1> QED BY <1>1, MessageInductive, PTL

(* A message is in a place at most once.                                   *)
LEMMA OnceCount ==
  ASSUME NEW recs, NEW m, Once(recs)
  PROVE  Cardinality({r \in recs : r.msg = m}) = IF m \in MsgsOf(recs) THEN 1 ELSE 0
<1> DEFINE S == {r \in recs : r.msg = m}
<1>1. CASE m \in MsgsOf(recs)
  <2>1. PICK r \in recs : r.msg = m BY <1>1 DEF MsgsOf
  <2>2. S = {r} BY <2>1 DEF Once
  <2> QED BY <1>1, <2>2, FS_Singleton
<1>2. CASE m \notin MsgsOf(recs)
  <2>1. S = {} BY <1>2 DEF MsgsOf
  <2> QED BY <1>2, <2>1, FS_EmptySet
<1> QED BY <1>1, <1>2

(* A sender that waits for its outcome is in exactly one of pending_wakes, *)
(* spawn_ready and the admissions in flight, whatever became of its child; *)
(* none of them holds a message whose sender was answered already.         *)
THEOREM SendersAccountedAlways == Spec => []SendersAccounted
<1>1. ASSUME MessageInv PROVE SendersAccounted
  <2>1. Post(co, {}) BY <1>1 DEF MessageInv, Mail
  <2>2. Once(co.pending_wakes) /\ Once(co.spawn_ready) /\ Once(co.active_messages)
        BY <2>1 DEF Post
  <2>3. ASSUME NEW m \in Messages
        PROVE  Cardinality({r \in co.pending_wakes : r.msg = m})
                 + Cardinality({r \in co.spawn_ready : r.msg = m})
                 + Cardinality({r \in co.active_messages : r.msg = m})
               = IF co.outcome[m] = "waiting" THEN 1 ELSE 0
    <3>1. /\ Cardinality({r \in co.pending_wakes : r.msg = m})
               = IF m \in MsgsOf(co.pending_wakes) THEN 1 ELSE 0
          /\ Cardinality({r \in co.spawn_ready : r.msg = m})
               = IF m \in MsgsOf(co.spawn_ready) THEN 1 ELSE 0
          /\ Cardinality({r \in co.active_messages : r.msg = m})
               = IF m \in MsgsOf(co.active_messages) THEN 1 ELSE 0
          BY <2>2, OnceCount
    <3>2. /\ ~(m \in MsgsOf(co.pending_wakes) /\ m \in MsgsOf(co.spawn_ready))
          /\ ~(m \in MsgsOf(co.pending_wakes) /\ m \in MsgsOf(co.active_messages))
          /\ ~(m \in MsgsOf(co.spawn_ready) /\ m \in MsgsOf(co.active_messages))
          /\ co.outcome[m] = "waiting" <=>
               \/ m \in MsgsOf(co.pending_wakes)
               \/ m \in MsgsOf(co.spawn_ready)
               \/ m \in MsgsOf(co.active_messages)
          BY <2>1 DEF Post
    <3> QED BY <3>1, <3>2
  <2> QED BY <2>3 DEF SendersAccounted
<1> QED BY <1>1, MessageInductive, PTL

(* A message parked for a start has a child that is queued, pending or     *)
(* woken and not settled, or whose held-back output will end it.           *)
THEOREM ParkedSendHasStartAlways == Spec => []ParkedSendHasStart
<1>1. MessageInv => ParkedSendHasStart
      BY DEF MessageInv, Mail, Parked, ParkedSendHasStart
<1> QED BY <1>1, MessageInductive, PTL

(* A message parked until a completion is published has a publication of   *)
(* the child under way, whose report takes the parked wakes up again.      *)
THEOREM ParkedWakeHasPublicationAlways == Spec => []ParkedWakeHasPublication
<1>1. MessageInv => ParkedWakeHasPublication
      BY DEF MessageInv, Mail, Promised, ParkedWakeHasPublication
<1> QED BY <1>1, MessageInductive, PTL
=============================================================================
