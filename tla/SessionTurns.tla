---------------------------- MODULE SessionTurns ----------------------------
(***************************************************************************)
(* One session's turns.  The session actor owns a prompt queue whose front *)
(* row is the running turn's own row, at most one turn task, a             *)
(* finalization gate, the slots of messages steered into the running turn  *)
(* and a buffer of interjections.  Everything runs on one thread, so a     *)
(* section under the state lock is one step, and the actors interleave     *)
(* only where the code awaits:                                             *)
(*                                                                         *)
(*   - the run loop, which handles one command or completion at a time;    *)
(*     `loop.at` says at which await of a handler it is;                   *)
(*   - the turn task, `task.phase`;                                        *)
(*   - a resumed plan approval, which queues a row of its own;             *)
(*   - the kick that follows the start of the MCP servers.                 *)
(*                                                                         *)
(* A prompt, message or interjection is its id.  No goal is active; the    *)
(* idle notification drain is a wake like any other.  What the clients of  *)
(* a behaviour may do is fixed by its scenario.                            *)
(***************************************************************************)
EXTENDS Integers, Sequences, SequencesExt

CONSTANTS
  Prompts,        \* prompts of clients: visible, editable rows
  Wakes,          \* completion wakes of background work: hidden rows
  Messages,       \* messages of the parent agent: visible, protected rows
  Interjections,  \* texts typed into a running turn
  Resumes,        \* restored plan approvals, each queues one hidden row
  None,           \* absence of a prompt
  MaxSteers,      \* MAX_PARENT_STEER_SLOTS
  Scenarios       \* what a behaviour may use: texts, commands, settings

Ids == Prompts \cup Wakes \cup Messages \cup Interjections \cup Resumes

ASSUME IdsAssumption ==
  /\ None \notin Ids
  /\ Prompts \cap (Wakes \cup Messages \cup Interjections \cup Resumes) = {}
  /\ Wakes \cap (Messages \cup Interjections \cup Resumes) = {}
  /\ Messages \cap (Interjections \cup Resumes) = {}
  /\ Interjections \cap Resumes = {}
  /\ MaxSteers \in Nat \ {0}

(* ids: the texts that arrive.  commands: the optional commands clients    *)
(* issue.  steer: queued prompts steer the running turn.  combine:         *)
(* consecutive prompts run as one turn.                                    *)
ASSUME ScenariosAssumption ==
  \A s \in Scenarios :
    s.ids \subseteq Ids /\ s.steer \in BOOLEAN /\ s.combine \in BOOLEAN

VARIABLES
  scenario,     \* the scenario of this behaviour
  queue,        \* pending_inputs
  sendNow,      \* ids whose row carries send_now
  fallback,     \* ids whose row is a hidden interjection fallback
  holds,        \* edit_holds: "none", "live", or "expired" past the TTL
  hookHold,     \* hook_block_hold
  task,         \* running_task, with the phase its future is in
  epoch,        \* turns started so far; the running turn's epoch
  rewindable,
  committed,    \* front_message_committed
  pin,          \* current_prompt_id
  buffer,       \* pending_interjections: entries [id, aim]
  taken,        \* entries the turn took out of the buffer, not yet submitted
  slots,        \* the delivery slots' messages, in order of admission
  slot,         \* the slot of each message
  loop,         \* where the run loop is
  gate,         \* finalization_gate.active
  completions,  \* completion_rx
  resume, mcp,  \* the two background tasks
  reported,     \* wakes the model already knows of
  answer,       \* what the sender of an id was told
  content       \* what became of an id's text

queueVars == <<queue, sendNow, fallback, holds>>
turnVars == <<task, epoch, rewindable, committed, pin>>
bufferVars == <<buffer, taken>>
slotVars == <<slots, slot>>
backVars == <<resume, mcp, reported>>
senderVars == <<answer, content>>
sessionVars == <<queueVars, hookHold, turnVars, bufferVars, slotVars, loop, gate,
                 completions, backVars, senderVars>>
vars == <<scenario, sessionVars>>

----------------------------------------------------------------------------
(* Rows.                                                                   *)

InQueue(id) == id \in ToSet(queue)
FrontRow == IF queue = <<>> THEN None ELSE Head(queue)

(* s without the elements of S; kept[n] is what stays of its first n.       *)
Drop(s, S) ==
  LET kept[n \in 0..Len(s)] ==
        IF n = 0 THEN <<>>
        ELSE IF s[n] \in S THEN kept[n - 1] ELSE Append(kept[n - 1], s[n]) IN
  kept[Len(s)]

is_queue_editable(id) == id \in Prompts /\ id \notin fallback
front_is_rewind_poppable == queue # <<>> /\ is_queue_editable(FrontRow)
is_preemptible_runtime_wake(id) == id \in Wakes \cup Resumes

(* The rows of S that leave the queue: never the running turn's own.       *)
sweep_pending_inputs(S) == (ToSet(queue) \cap S) \ {task.prompt}

Running == task.phase # "none"
NoTask == [prompt |-> None, epoch |-> 0, phase |-> "none"]
Binding(t) == [prompt |-> t.prompt, epoch |-> t.epoch]

(* Faulty variant: send-now ignores the running front. *)
InsertIndex_AtFront(s) == 1

(* Where a row that runs next is inserted: behind the running front.       *)
InsertIndex(s) == IF s # <<>> /\ Running /\ Head(s) = task.prompt THEN 2 ELSE 1

(* A send-now row also queues behind earlier send-now rows.                *)
send_now_insert_index(s) ==
  LET i == InsertIndex(s)
      behind == {k \in i..(Len(s) + 1) :
                   /\ \A j \in i..(k - 1) : s[j] \in sendNow
                   /\ k = Len(s) + 1 \/ s[k] \notin sendNow} IN
  CHOOSE k \in behind : TRUE

front_awaiting_commit == Running /\ ~committed /\ FrontRow = task.prompt

(* Faulty variant: the front is cancelled whether or not it was recorded. *)
send_now_cancels_Always == Running

send_now_cancels_running_turn == Running /\ ~front_awaiting_commit

----------------------------------------------------------------------------
(* What the senders learn, and what becomes of the texts.  "cancelled"     *)
(* stands for every answer but a completion: a cancelled, removed or       *)
(* rewound prompt, a refusal, an error or a dropped channel.               *)

Told(S, how) == [x \in Ids |-> IF x \in S /\ answer[x] = "waiting" THEN how ELSE answer[x]]
Became(S, what) == [x \in Ids |-> IF x \in S /\ content[x] = "live" THEN what ELSE content[x]]

----------------------------------------------------------------------------
(* Delivery slots.                                                         *)

NoSlot == [state |-> "none", bind |-> Binding(NoTask)]
Unslot(S) == [m \in Messages |-> IF m \in S THEN NoSlot ELSE slot[m]]

Bound(b) == {m \in ToSet(slots) : slot[m].bind = b}

(* Faulty variant: a message already delivered falls back as well. *)
Fallbacks_Delivered(S, cause) ==
  LET stays == {m \in ToSet(slots) : m \notin S \/ slot[m].state = "projecting"} IN
  IF cause \in {"completion", "soft_cancel", "rewind"} THEN Drop(slots, stays) ELSE <<>>

(* Faulty variant: only a cancelled turn hands its messages on. *)
Fallbacks_NotOnCompletion(S, cause) ==
  LET stays == {m \in ToSet(slots) : m \notin S \/ slot[m].state # "pending"} IN
  IF cause \in {"soft_cancel", "rewind"} THEN Drop(slots, stays) ELSE <<>>

(* At a turn's end a message still pending becomes a row of the queue,     *)
(* unless the session itself is torn down.                                 *)
Fallbacks(S, cause) ==
  LET stays == {m \in ToSet(slots) : m \notin S \/ slot[m].state # "pending"} IN
  IF cause \in {"completion", "soft_cancel", "rewind"} THEN Drop(slots, stays) ELSE <<>>

(* Faulty variant: only the messages still pending leave their slots. *)
transition_parent_messages_OnlyPending(S) ==
  LET P == {m \in S : slot[m].state = "pending"} IN slots' = Drop(slots, P) /\ slot' = Unslot(P)

(* The slots of S end; the messages that do not fall back are answered.    *)
transition_parent_messages(S) ==
  /\ slots' = Drop(slots, S)
  /\ slot' = Unslot(S)

(* Faulty variant: messages the turn has seen are not answered at its end. *)
Settled_None(S, cause) == {}

Settled(S, cause) == S \ ToSet(Fallbacks(S, cause))

----------------------------------------------------------------------------
(* The turn task's future, dropped by an abort: its scope guard unpins the *)
(* prompt, and interjections it had taken go back in front of the buffer.  *)

InScope == task.phase \in {"work", "interject", "steer", "barrier", "blocked"}
Alive == task.phase \notin {"none", "sent", "aborted"}

AbortedPhase == IF Alive THEN "aborted" ELSE task.phase
UnpinnedByAbort == IF InScope /\ pin = task.prompt THEN None ELSE pin

(* Faulty variant: what the drain had taken is lost with the future. *)
RestoreOnCancel_Forgets(b) == b

RestoreOnCancel(b) == IF Alive THEN taken \o b ELSE b

----------------------------------------------------------------------------
(* Starting the front row.                                                 *)

(* Wakes at the front that the model already knows of.                     *)
StaleFront ==
  LET live == {k \in 1..Len(queue) : queue[k] \notin reported} IN
  IF live = {} THEN ToSet(queue)
  ELSE {queue[k] : k \in {j \in 1..Len(queue) : \A l \in live : j < l}}

(* The plain prompts directly behind a plain front, up to a held one.      *)
Followers(q, held) ==
  IF ~scenario.combine \/ ~is_queue_editable(Head(q)) THEN {}
  ELSE {q[k] : k \in {j \in 2..Len(q) :
                        \A l \in 2..j : is_queue_editable(q[l]) /\ q[l] \notin held}}

(* Faulty variant: the promoter does not look at the gate. *)
StartBlocked_NoGate == Running \/ queue = <<>> \/ hookHold

StartBlocked == Running \/ gate \/ queue = <<>> \/ hookHold

start_turn(q, follow) ==
  /\ queue' = Drop(q, follow)
  /\ task' = [prompt |-> Head(q), epoch |-> epoch + 1, phase |-> "intake"]
  /\ epoch' = epoch + 1
  /\ pin' = Head(q)
  /\ rewindable' = TRUE
  /\ committed' = FALSE

(* Holds on rows that left the queue are dropped, and aged holds expire;   *)
(* a row under a live hold keeps the queue waiting.                        *)
maybe_start_running_task ==
  /\ UNCHANGED <<sendNow, fallback>>
  /\ IF StartBlocked THEN UNCHANGED <<queue, holds, turnVars, senderVars>>
     ELSE LET q == Drop(queue, StaleFront)
              kept == {p \in Prompts : p \in ToSet(q) /\ holds[p] = "live"}
              starts == q # <<>> /\ Head(q) \notin kept
              follow == IF starts THEN Followers(q, kept) ELSE {} IN
          /\ holds' = [p \in Prompts |-> IF p \in kept THEN "live" ELSE "none"]
          /\ answer' = Told(StaleFront \cup follow, "cancelled")
          /\ content' = [x \in Ids |-> IF x \in follow THEN "merged" ELSE
                                       IF x \in StaleFront THEN "discarded" ELSE content[x]]
          /\ IF starts THEN start_turn(q, follow)
             ELSE queue' = q /\ UNCHANGED turnVars

----------------------------------------------------------------------------
(* The finalization gate.                                                  *)

NoBound == Binding(NoTask)
Idle == [at |-> "idle", prompt |-> None, kind |-> "none", bound |-> NoBound]
Loop(at, prompt, kind, bound) ==
  [at |-> at, prompt |-> prompt, kind |-> kind, bound |-> bound]
Then(at) == Loop(at, None, "none", NoBound)

claim_task_finalization(msg) ==
  ~gate /\ FrontRow = msg.prompt /\ Running /\ Binding(task) = msg

claim_cancel_finalization == ~gate /\ (Running => FrontRow = task.prompt)

CancelBinding ==
  IF Running THEN Binding(task) ELSE [prompt |-> FrontRow, epoch |-> 0]

finalization_binding_is_current(b) ==
  /\ gate
  /\ FrontRow = b.prompt
  /\ IF b.epoch = 0 THEN ~Running ELSE Running /\ Binding(task) = b

(* Faulty variant: the turn's task stays in its place. *)
release_finalizing_task_Keeps(b) == task

release_finalizing_task(b) == IF Running /\ Binding(task) = b THEN NoTask ELSE task

----------------------------------------------------------------------------
(* Commands that queue work.                                               *)

AtIdle == loop.at = "idle"

Submit(id) ==
  /\ answer' = [answer EXCEPT ![id] = "waiting"]
  /\ content' = [content EXCEPT ![id] = "live"]

(* A client's prompt releases the hook hold, then waits for the lock.      *)
ReceivePrompt(p, now) ==
  /\ AtIdle
  /\ content[p] = "unsent"
  /\ hookHold' = (hookHold /\ p \in Wakes)
  /\ Submit(p)
  /\ loop' = Loop("queue", p, IF now THEN "send_now" ELSE "none", NoBound)
  /\ UNCHANGED <<queueVars, turnVars, bufferVars, slotVars, gate, completions, backVars>>

(* A client's prompt drops queued runtime wakes, once one of them carries  *)
(* a completion.  Under the steer setting a prompt becomes a send-now when *)
(* the turn is blocked in a wait and no other work is queued.              *)
queue_input ==
  /\ loop.at = "queue"
  /\ \E blocked_in_wait \in {b \in BOOLEAN : b => task.phase = "work" /\ scenario.steer} :
       LET p == loop.prompt
           human == p \in Prompts
           swept == IF human /\ sweep_pending_inputs(Wakes) # {}
                      THEN sweep_pending_inputs(Wakes \cup Resumes) ELSE {}
           q == Drop(queue, swept)
           held == \E r \in ToSet(q) : ~is_preemptible_runtime_wake(r) /\ r # task.prompt
           now == human /\ (loop.kind = "send_now" \/ (blocked_in_wait /\ ~held)) IN
       /\ queue' = IF now THEN InsertAt(q, send_now_insert_index(q), p) ELSE Append(q, p)
       /\ sendNow' = IF now THEN sendNow \cup {p} ELSE sendNow
       /\ answer' = Told(swept, "cancelled")
       /\ content' = Became(swept, "discarded")
       /\ loop' = IF now /\ send_now_cancels_running_turn THEN Then("send_now") ELSE Then("kick")
  /\ UNCHANGED <<fallback, holds, hookHold, turnVars, bufferVars, slotVars, gate,
                 completions, backVars>>

(* Faulty variant: the limit is noticed one message too late. *)
SlotsFull_Late == Len(slots) > MaxSteers

SlotsFull == Len(slots) >= MaxSteers

Duplicate(m) == m \in ToSet(slots) \/ InQueue(m)

(* A message of the parent: into the running turn's slots when it steers,  *)
(* otherwise a row.  A second delivery of a live message is refused.       *)
admit_parent_agent_message(m, op) ==
  /\ AtIdle
  /\ content[m] = "unsent" \/ answer[m] = "waiting"
  /\ ~Duplicate(m)
  /\ IF op = "steer" /\ Running
       THEN IF SlotsFull
              THEN /\ answer' = [answer EXCEPT ![m] = "cancelled"]
                   /\ content' = [content EXCEPT ![m] = "discarded"]
                   /\ UNCHANGED <<queue, slotVars, loop>>
              ELSE /\ slots' = Append(slots, m)
                   /\ slot' = [slot EXCEPT ![m] = [state |-> "pending", bind |-> Binding(task)]]
                   /\ Submit(m) /\ loop' = Then("kick") /\ UNCHANGED queue
       ELSE queue' = Append(queue, m) /\ Submit(m) /\ loop' = Then("kick") /\ UNCHANGED slotVars
  /\ UNCHANGED <<sendNow, fallback, holds, hookHold, turnVars, bufferVars, gate,
                 completions, backVars>>

Entry(id) == [id |-> id, aim |-> epoch]
EntryIds(b) == [k \in 1..Len(b) |-> b[k].id]

(* Stranded interjections become hidden rows that run next, in order.      *)
InsertFallbacks(q, ids) ==
  LET i == InsertIndex(q) IN SubSeq(q, 1, i - 1) \o ids \o SubSeq(q, i, Len(q))

queue_interjection_fallbacks(ids) ==
  /\ queue' = InsertFallbacks(queue, ids)
  /\ sendNow' = sendNow \cup ToSet(ids)
  /\ fallback' = fallback \cup ToSet(ids)

(* An interjection joins the buffer when a prompt is pinned as running.    *)
Interject(i) ==
  /\ AtIdle
  /\ content[i] = "unsent"
  /\ content' = [content EXCEPT ![i] = "live"]
  /\ IF pin # None
       THEN buffer' = Append(buffer, Entry(i)) /\ UNCHANGED <<queue, sendNow, fallback, loop>>
       ELSE /\ queue_interjection_fallbacks(<<i>>)
            /\ loop' = Then("kick")
            /\ UNCHANGED buffer
  /\ UNCHANGED <<holds, hookHold, turnVars, taken, slotVars, gate, completions, backVars, answer>>

(* The end of every handler that may have made a row startable.            *)
Kick ==
  /\ loop.at = "kick"
  /\ maybe_start_running_task
  /\ loop' = Idle
  /\ UNCHANGED <<hookHold, bufferVars, slotVars, gate, completions, backVars>>

----------------------------------------------------------------------------
(* Commands on queued rows.  The running turn's own row is out of reach.   *)

MayIssue(c) == AtIdle /\ c \in scenario.commands
Others == <<turnVars, bufferVars, slotVars, gate, completions, backVars>>

handle_remove_queued_prompt(p) ==
  /\ MayIssue("edit")
  /\ InQueue(p) /\ is_queue_editable(p) /\ task.prompt # p
  /\ queue' = Drop(queue, {p})
  /\ holds' = [holds EXCEPT ![p] = "none"]
  /\ hookHold' = FALSE
  /\ answer' = Told({p}, "cancelled")
  /\ content' = Became({p}, "discarded")
  /\ loop' = Then("kick")
  /\ UNCHANGED <<sendNow, fallback, Others>>

(* Editable rows trade places; every other row keeps its position.         *)
handle_reorder_queue ==
  /\ MayIssue("edit")
  /\ LET free == {k \in 1..Len(queue) : is_queue_editable(queue[k]) /\ queue[k] # task.prompt} IN
     \E move \in [free -> free] :
       /\ \A j, k \in free : move[j] = move[k] => j = k
       /\ \E k \in free : move[k] # k
       /\ queue' = [k \in 1..Len(queue) |-> IF k \in free THEN queue[move[k]] ELSE queue[k]]
  /\ hookHold' = FALSE
  /\ loop' = Then("kick")
  /\ UNCHANGED <<sendNow, fallback, holds, senderVars, Others>>

handle_clear_queue ==
  /\ MayIssue("edit")
  /\ LET gone == {p \in ToSet(queue) : is_queue_editable(p) /\ task.prompt # p} IN
     /\ gone # {}
     /\ queue' = Drop(queue, gone)
     /\ answer' = Told(gone, "cancelled")
     /\ content' = Became(gone, "discarded")
  /\ hookHold' = FALSE
  /\ loop' = Then("kick")
  /\ UNCHANGED <<sendNow, fallback, holds, Others>>

(* Saving an edit: the hold goes even when the row is already running.     *)
handle_edit_queued_prompt(p) ==
  /\ MayIssue("hold")
  /\ InQueue(p) /\ is_queue_editable(p)
  /\ holds' = [holds EXCEPT ![p] = "none"]
  /\ hookHold' = (hookHold /\ task.prompt = p)
  /\ loop' = Then("kick")
  /\ UNCHANGED <<queue, sendNow, fallback, senderVars, Others>>

handle_hold_edit(p) ==
  /\ MayIssue("hold")
  /\ InQueue(p) /\ is_queue_editable(p)
  /\ holds' = [holds EXCEPT ![p] = "live"]
  /\ UNCHANGED <<queue, sendNow, fallback, hookHold, senderVars, loop, Others>>

(* Faulty variant: the queue is not looked at again. *)
handle_release_edit_NoKick(p) ==
  /\ MayIssue("hold")
  /\ InQueue(p) /\ is_queue_editable(p)
  /\ holds' = [holds EXCEPT ![p] = "none"]
  /\ UNCHANGED <<queue, sendNow, fallback, hookHold, senderVars, loop, Others>>

handle_release_edit(p) ==
  /\ MayIssue("hold")
  /\ InQueue(p) /\ is_queue_editable(p)
  /\ holds' = [holds EXCEPT ![p] = "none"]
  /\ loop' = Then("kick")
  /\ UNCHANGED <<queue, sendNow, fallback, hookHold, senderVars, Others>>

(* A hold grows older than EDIT_HOLD_TTL.                                  *)
HoldExpires(p) ==
  /\ holds[p] = "live"
  /\ holds' = [holds EXCEPT ![p] = "expired"]
  /\ UNCHANGED <<queue, sendNow, fallback, hookHold, senderVars, loop, Others>>

(* A queued row is sent now: it runs next, and the turn in its way goes.   *)
handle_interject_queued_prompt(p) ==
  /\ MayIssue("send_now")
  /\ InQueue(p) /\ is_queue_editable(p) /\ task.prompt # p
  /\ LET q == Drop(queue, {p}) IN queue' = InsertAt(q, send_now_insert_index(q), p)
  /\ sendNow' = sendNow \cup {p}
  /\ holds' = [holds EXCEPT ![p] = "none"]
  /\ IF send_now_cancels_running_turn
       THEN loop' = Then("send_now") /\ UNCHANGED hookHold
       ELSE loop' = Then("kick") /\ hookHold' = FALSE
  /\ UNCHANGED <<fallback, senderVars, Others>>

----------------------------------------------------------------------------
(* Cancelling.                                                             *)

AbortTask(b) ==
  /\ task' = [task EXCEPT !.phase = AbortedPhase]
  /\ pin' = UnpinnedByAbort
  /\ buffer' = RestoreOnCancel(b)
  /\ taken' = IF Alive THEN <<>> ELSE taken

(* The claim of a Keep cancel.  A stop that also cancels the children      *)
(* aborts the turn at once, otherwise it runs until the teardown.          *)
ClaimCancel(kind, b) ==
  IF claim_cancel_finalization
    THEN /\ gate' = TRUE
         /\ loop' = Loop("teardown", None, kind, CancelBinding)
         /\ IF kind \in {"stop", "teardown", "shutdown"}
              THEN AbortTask(b)
              ELSE buffer' = b /\ UNCHANGED <<task, pin, taken>>
    ELSE /\ loop' = IF kind = "shutdown" THEN Then("close") ELSE Idle
         /\ buffer' = b
         /\ UNCHANGED <<gate, task, pin, taken>>

(* The command drops the buffered interjections first.                     *)
Cancel(kind) ==
  /\ MayIssue(kind)
  /\ ClaimCancel(kind, <<>>)
  /\ content' = Became(ToSet(EntryIds(buffer)), "discarded")
  /\ UNCHANGED <<queueVars, hookHold, epoch, rewindable, committed, slotVars,
                 completions, backVars, answer>>

(* A send-now keeps them: they become rows that run first.                 *)
cancel_turn_for_send_now ==
  /\ loop.at = "send_now"
  /\ queue_interjection_fallbacks(EntryIds(buffer))
  /\ ClaimCancel("send_now", <<>>)
  /\ UNCHANGED <<holds, hookHold, epoch, rewindable, committed, slotVars,
                 completions, backVars, senderVars>>

(* The teardown of a Keep cancel, under the lock it takes after its        *)
(* awaits.  The handler answers what it took from here before it releases  *)
(* the turn.                                                               *)
Teardown ==
  /\ loop.at = "teardown" /\ loop.kind # "rewind"
  /\ IF finalization_binding_is_current(loop.bound)
       THEN LET all == loop.kind \in {"teardown", "shutdown"}
                cause == IF all THEN "hard_teardown" ELSE "soft_cancel"
                ended == IF all \/ ~Running THEN ToSet(slots) ELSE Bound(Binding(task))
                rows == queue \o Fallbacks(ended, cause)
                cancelled == IF all THEN ToSet(rows)
                             ELSE IF rows = <<>> THEN {} ELSE {Head(rows)}
                wakes == IF loop.kind = "stop" THEN (ToSet(rows) \cap Wakes) \ cancelled ELSE {}
                gone == cancelled \cup Settled(ended, cause) IN
            /\ AbortTask(buffer)
            /\ transition_parent_messages(ended)
            /\ queue' = Drop(rows, cancelled \cup wakes)
            /\ answer' = Told(gone \cup wakes, "cancelled")
            /\ content' = Became(gone \cup wakes, "discarded")
            /\ loop' = [loop EXCEPT !.at = "release"]
       ELSE /\ loop' = IF loop.kind = "shutdown" THEN Then("close") ELSE Idle
            /\ UNCHANGED <<task, pin, bufferVars, slotVars, queue, senderVars>>
  /\ UNCHANGED <<sendNow, fallback, holds, hookHold, epoch, rewindable, committed, gate,
                 completions, backVars>>

(* finish_finalization_lease: first the task, then, a lock later, the gate. *)
Release ==
  /\ loop.at = "release"
  /\ LET b == loop.bound IN
     /\ task' = release_finalizing_task(b)
     /\ pin' = IF pin = b.prompt THEN None ELSE pin
  /\ loop' = [loop EXCEPT !.at = "finish"]
  /\ UNCHANGED <<queueVars, hookHold, epoch, rewindable, committed, bufferVars, slotVars,
                 gate, completions, backVars, senderVars>>

After(kind) ==
  CASE kind = "completion" -> Then("flush")
    [] kind = "shutdown" -> Then("close")
    [] OTHER -> Then("kick")

finish_finalization ==
  /\ loop.at = "finish"
  /\ IF Running THEN loop' = Idle /\ UNCHANGED <<gate, hookHold>>
     ELSE /\ gate' = FALSE
          /\ hookHold' = (hookHold /\ loop.kind # "send_now")
          /\ loop' = After(loop.kind)
  /\ UNCHANGED <<queueVars, turnVars, bufferVars, slotVars, completions, backVars, senderVars>>

(* A rewind that names its prompt.  Queued behind another row, the prompt  *)
(* is just removed; a front that produced output is cancelled instead      *)
(* (below); otherwise turn and row go in one locked section, no lease.     *)
RewindNamed(p) ==
  /\ MayIssue("rewind")
  /\ InQueue(p) /\ p \in Prompts /\ p \notin fallback
  /\ LET flushed == ToSet(EntryIds(buffer))
         bind == [prompt |-> p, epoch |-> epoch]
         ended == Bound(bind) IN
     CASE FrontRow # p ->
            /\ queue' = Drop(queue, {p})
            /\ holds' = [holds EXCEPT ![p] = "none"]
            /\ buffer' = <<>>
            /\ answer' = Told({p}, "cancelled")
            /\ content' = Became(flushed \cup {p}, "discarded")
            /\ loop' = Then("kick")
            /\ UNCHANGED <<slotVars, task, pin, taken, rewindable>>
       [] FrontRow = p /\ rewindable ->
            /\ transition_parent_messages(ended)
            /\ queue' = Drop(queue, {p}) \o Fallbacks(ended, "rewind")
            /\ IF task.prompt = p
                 THEN /\ task' = NoTask
                      /\ pin' = UnpinnedByAbort
                      /\ buffer' = RestoreOnCancel(<<>>)
                      /\ taken' = IF Alive THEN <<>> ELSE taken
                 ELSE buffer' = <<>> /\ UNCHANGED <<task, pin, taken>>
            /\ rewindable' = FALSE
            /\ answer' = Told({p} \cup Settled(ended, "rewind"), "cancelled")
            /\ content' = Became(flushed \cup {p} \cup Settled(ended, "rewind"), "discarded")
            /\ loop' = Then("kick")
            /\ UNCHANGED holds
       [] OTHER ->
            /\ buffer' = <<>>
            /\ content' = Became(flushed, "discarded")
            /\ loop' = Loop("teardown", p, "rewind", NoBound)
            /\ UNCHANGED <<queue, holds, slotVars, task, pin, taken, rewindable, answer>>
  /\ UNCHANGED <<sendNow, fallback, hookHold, epoch, committed, gate, completions, backVars>>

(* A rewind that names no prompt goes straight to the teardown.            *)
RewindLegacy ==
  /\ MayIssue("rewind_legacy")
  /\ buffer' = <<>>
  /\ content' = Became(ToSet(EntryIds(buffer)), "discarded")
  /\ loop' = Loop("teardown", None, "rewind", NoBound)
  /\ UNCHANGED <<queueVars, hookHold, turnVars, taken, slotVars, gate, completions,
                 backVars, answer>>

(* The teardown without a lease: nothing keeps the front from changing     *)
(* while it awaits, so a named prompt must still be the front.             *)
TeardownRewind ==
  /\ loop.at = "teardown" /\ loop.kind = "rewind"
  /\ IF loop.prompt \notin {None, FrontRow}
       THEN UNCHANGED <<task, pin, rewindable, bufferVars, slotVars, queue, senderVars>>
       ELSE LET pops == loop.prompt = None /\ rewindable /\ front_is_rewind_poppable
                cause == IF pops THEN "rewind" ELSE "soft_cancel"
                ended == IF pops \/ ~Running THEN ToSet(slots) ELSE Bound(Binding(task))
                rows == queue \o Fallbacks(ended, cause)
                first == IF rows = <<>> THEN {} ELSE {Head(rows)} IN
            /\ task' = NoTask
            /\ pin' = IF Running /\ pin = task.prompt THEN None ELSE pin
            /\ buffer' = RestoreOnCancel(buffer)
            /\ taken' = IF Alive THEN <<>> ELSE taken
            /\ rewindable' = (rewindable /\ ~pops)
            /\ transition_parent_messages(ended)
            /\ queue' = Drop(rows, first)
            /\ answer' = Told(first \cup Settled(ended, cause), "cancelled")
            /\ content' = Became(first \cup Settled(ended, cause), "discarded")
  /\ loop' = Then("kick")
  /\ UNCHANGED <<sendNow, fallback, holds, hookHold, epoch, committed, gate, completions, backVars>>

----------------------------------------------------------------------------
(* The end of a turn.                                                      *)

(* A completion of a turn that is no longer the running front is dropped.  *)
ReceiveCompletion ==
  /\ AtIdle
  /\ completions # <<>>
  /\ LET msg == Head(completions) IN
     IF claim_task_finalization(msg)
       THEN gate' = TRUE /\ loop' = Loop("complete", None, "completion", msg)
       ELSE UNCHANGED <<gate, loop>>
  /\ completions' = Tail(completions)
  /\ UNCHANGED <<queueVars, hookHold, turnVars, bufferVars, slotVars, backVars, senderVars>>

handle_completion ==
  /\ loop.at = "complete"
  /\ LET p == loop.bound.prompt
         ended == Bound(loop.bound)
         done == (IF FrontRow = p THEN {p} ELSE {}) \cup Settled(ended, "completion") IN
     /\ queue' = Drop(queue, IF FrontRow = p THEN {p} ELSE {}) \o Fallbacks(ended, "completion")
     /\ transition_parent_messages(ended)
     /\ answer' = Told(done, "completed")
     /\ content' = Became({p}, "handled")
  /\ loop' = [loop EXCEPT !.at = "release"]
  /\ UNCHANGED <<sendNow, fallback, holds, hookHold, turnVars, bufferVars, gate,
                 completions, backVars>>

flush_stranded_interjections ==
  /\ loop.at = "flush"
  /\ queue_interjection_fallbacks(EntryIds(buffer))
  /\ buffer' = <<>>
  /\ loop' = Then("kick")
  /\ UNCHANGED <<holds, hookHold, turnVars, taken, slotVars, gate, completions, backVars, senderVars>>

(* The session ends: every slot is answered, runtime wakes are dropped.    *)
Shutdown(cancels) ==
  /\ MayIssue("shutdown")
  /\ IF cancels THEN ClaimCancel("shutdown", buffer)
     ELSE loop' = Then("close") /\ UNCHANGED <<gate, task, pin, bufferVars>>
  /\ UNCHANGED <<queueVars, hookHold, epoch, rewindable, committed, slotVars,
                 completions, backVars, senderVars>>

settle_all_parent_messages ==
  /\ loop.at = "close"
  /\ LET wakes == {r \in ToSet(queue) : is_preemptible_runtime_wake(r)} IN
     /\ queue' = Drop(queue, wakes)
     /\ answer' = Told(ToSet(slots) \cup wakes, "cancelled")
     /\ content' = Became(ToSet(slots) \cup wakes, "discarded")
  /\ transition_parent_messages(ToSet(slots))
  /\ loop' = Then("closed")
  /\ UNCHANGED <<sendNow, fallback, holds, hookHold, turnVars, bufferVars, gate,
                 completions, backVars>>

----------------------------------------------------------------------------
(* The turn task.                                                          *)

TurnAt(phase) == loop.at # "closed" /\ task.phase = phase
Goes(phase) == task' = [task EXCEPT !.phase = phase]
Rest == <<epoch, sendNow, fallback, holds, loop, gate, resume, mcp>>

mark_front_message_committed ==
  /\ TurnAt("intake")
  /\ Goes("committed")
  /\ committed' = TRUE
  /\ content' = Became({task.prompt}, "shown")
  /\ UNCHANGED <<queue, hookHold, rewindable, pin, bufferVars, slotVars, completions, answer,
                 reported, Rest>>

(* The scope guard is created: from here an abort unpins the prompt.       *)
EnterScope ==
  /\ TurnAt("committed")
  /\ Goes("work")
  /\ UNCHANGED <<queue, hookHold, rewindable, committed, pin, bufferVars, slotVars, completions,
                 senderVars, reported, Rest>>

(* A hook refuses the prompt of a user: the queue is put on hold.          *)
PromptBlocked ==
  /\ TurnAt("intake") /\ "block" \in scenario.commands
  /\ task.prompt \in Prompts \cup Interjections
  /\ Goes("blocked")
  /\ hookHold' = TRUE
  /\ UNCHANGED <<queue, rewindable, committed, pin, bufferVars, slotVars, completions,
                 senderVars, reported, Rest>>

(* The turn's first output.                                                *)
close_rewind_window ==
  /\ loop.at # "closed" /\ Alive /\ rewindable
  /\ rewindable' = FALSE
  /\ UNCHANGED <<task, queue, hookHold, committed, pin, bufferVars, slotVars, completions,
                 senderVars, reported, Rest>>

(* The queued prompts that steer the running turn: up to the first row     *)
(* that is protected, sent now, held or a fallback; runtime wakes are      *)
(* passed over, and no prompt steers the turn of a wake or a message.      *)
promote_queued_as_interjections ==
  LET rows == Drop(queue, {r \in ToSet(queue) :
                             r = task.prompt \/ is_preemptible_runtime_wake(r)})
      stops == {k \in 1..Len(rows) :
                  \/ ~is_queue_editable(rows[k])
                  \/ rows[k] \in sendNow
                  \/ holds[rows[k]] # "none"} IN
  IF ~scenario.steer \/ task.prompt \in Wakes \cup Messages THEN <<>>
  ELSE SubSeq(rows, 1, IF stops = {} THEN Len(rows)
                       ELSE (CHOOSE k \in stops : \A j \in stops : k <= j) - 1)

(* A safe point of the turn: promote queued prompts, take the buffer.      *)
SafePoint(promote) ==
  /\ TurnAt("work")
  /\ LET moved == IF promote THEN promote_queued_as_interjections ELSE <<>>
         all == buffer \o [k \in 1..Len(moved) |-> Entry(moved[k])] IN
     /\ all # <<>> \/ slots # <<>>
     /\ queue' = Drop(queue, ToSet(moved))
     /\ answer' = Told(ToSet(moved), "cancelled")
     /\ taken' = all
     /\ Goes(IF all = <<>> THEN "steer" ELSE "interject")
  /\ buffer' = <<>>
  /\ UNCHANGED <<hookHold, rewindable, committed, pin, slotVars, completions, content,
                 reported, Rest>>

(* The taken interjections reach the model, or go back to the buffer when  *)
(* the chat state is gone.                                                 *)
drain_pending_interjections(ok) ==
  /\ TurnAt("interject")
  /\ Goes("steer")
  /\ buffer' = IF ok THEN buffer ELSE taken \o buffer
  /\ content' = IF ok THEN Became(ToSet(EntryIds(taken)), "shown") ELSE content
  /\ taken' = <<>>
  /\ UNCHANGED <<queue, hookHold, rewindable, committed, pin, slotVars, completions, answer,
                 reported, Rest>>

InState(state) == {m \in Bound(Binding(task)) : slot[m].state = state}
SetState(S, state) == [m \in Messages |-> IF m \in S THEN [slot[m] EXCEPT !.state = state] ELSE slot[m]]

begin_delivery ==
  /\ TurnAt("steer")
  /\ Goes(IF InState("pending") = {} THEN "work" ELSE "barrier")
  /\ slot' = SetState(InState("pending"), "projecting")
  /\ UNCHANGED <<queue, hookHold, rewindable, committed, pin, bufferVars, slots, completions,
                 senderVars, reported, Rest>>

(* After the persistence barrier: every projected message is shown, or the *)
(* barrier failed and they stay as they are.                               *)
finish_delivery(ok) ==
  /\ TurnAt("barrier")
  /\ Goes("work")
  /\ slot' = IF ok THEN SetState(InState("projecting"), "delivered") ELSE slot
  /\ content' = [x \in Ids |->
                   IF x \notin InState("projecting") THEN content[x]
                   ELSE IF ok THEN "shown" ELSE "skipped"]
  /\ UNCHANGED <<queue, hookHold, rewindable, committed, pin, bufferVars, slots, completions,
                 answer, reported, Rest>>

(* The model reads a background result: queued wakes for it are dropped.   *)
drop_pending_items_for_consumed_completions(w) ==
  /\ TurnAt("work")
  /\ w \notin reported
  /\ reported' = reported \cup {w}
  /\ queue' = Drop(queue, sweep_pending_inputs({w}))
  /\ answer' = Told(sweep_pending_inputs({w}), "cancelled")
  /\ content' = Became(sweep_pending_inputs({w}), "discarded")
  /\ UNCHANGED <<task, hookHold, rewindable, committed, pin, bufferVars, slotVars, completions, Rest>>

(* The turn returns and its completion is sent; the loop sees it later.    *)
SendCompletion ==
  /\ loop.at # "closed" /\ task.phase \in {"intake", "committed", "work", "blocked"}
  /\ Goes("sent")
  /\ pin' = UnpinnedByAbort
  /\ completions' = Append(completions, Binding(task))
  /\ UNCHANGED <<queue, hookHold, rewindable, committed, bufferVars, slotVars, senderVars,
                 reported, Rest>>

----------------------------------------------------------------------------
(* The background tasks.                                                   *)

(* A restored plan approval is decided: its row, then a kick of its own.   *)
start_resume_turn(r) ==
  /\ loop.at # "closed" /\ resume[r] = "parked"
  /\ resume' = [resume EXCEPT ![r] = "queued"]
  /\ queue' = Append(queue, r)
  /\ content' = [content EXCEPT ![r] = "live"]
  /\ UNCHANGED <<sendNow, fallback, holds, hookHold, turnVars, bufferVars, slotVars, loop, gate,
                 completions, mcp, reported, answer>>

ResumeKick(r) ==
  /\ loop.at # "closed" /\ resume[r] = "queued"
  /\ resume' = [resume EXCEPT ![r] = "done"]
  /\ maybe_start_running_task
  /\ UNCHANGED <<hookHold, bufferVars, slotVars, loop, gate, completions, mcp, reported>>

McpKick ==
  /\ loop.at # "closed" /\ mcp = "starting"
  /\ mcp' = "ready"
  /\ maybe_start_running_task
  /\ UNCHANGED <<hookHold, bufferVars, slotVars, loop, gate, completions, resume, reported>>

----------------------------------------------------------------------------
Init ==
  /\ queue = <<>> /\ sendNow = {} /\ fallback = {}
  /\ holds = [p \in Prompts |-> "none"]
  /\ hookHold = FALSE
  /\ task = NoTask /\ epoch = 0 /\ rewindable = FALSE /\ committed = FALSE /\ pin = None
  /\ buffer = <<>> /\ taken = <<>>
  /\ slots = <<>> /\ slot = [m \in Messages |-> NoSlot]
  /\ loop = Idle /\ gate = FALSE /\ completions = <<>>
  /\ scenario \in Scenarios
  /\ resume = [r \in Resumes |-> IF r \in scenario.ids THEN "parked" ELSE "done"]
  /\ reported = {}
  /\ mcp = IF "mcp" \in scenario.commands THEN "starting" ELSE "ready"
  /\ answer = [x \in Ids |-> "none"]
  /\ content = [x \in Ids |-> IF x \in scenario.ids THEN "unsent" ELSE "absent"]

LoopStep ==
  \/ queue_input
  \/ Kick
  \/ cancel_turn_for_send_now
  \/ Teardown
  \/ TeardownRewind
  \/ Release
  \/ finish_finalization
  \/ handle_completion
  \/ flush_stranded_interjections
  \/ settle_all_parent_messages

Command ==
  \/ \E p \in Prompts, now \in BOOLEAN : (now => "send_now" \in scenario.commands) /\ ReceivePrompt(p, now)
  \/ \E w \in Wakes : ReceivePrompt(w, FALSE)
  \/ \E m \in Messages, op \in {"steer", "queue"} : admit_parent_agent_message(m, op)
  \/ \E i \in Interjections : Interject(i)
  \/ \E p \in Prompts : handle_remove_queued_prompt(p)
  \/ handle_reorder_queue
  \/ handle_clear_queue
  \/ \E p \in Prompts : handle_edit_queued_prompt(p)
  \/ \E p \in Prompts : handle_hold_edit(p)
  \/ \E p \in Prompts : handle_release_edit(p)
  \/ \E p \in Prompts : handle_interject_queued_prompt(p)
  \/ \E kind \in {"soft", "stop", "teardown"} : Cancel(kind)
  \/ \E p \in Prompts : RewindNamed(p)
  \/ RewindLegacy
  \/ \E cancels \in BOOLEAN : Shutdown(cancels)

TurnStep ==
  \/ mark_front_message_committed
  \/ EnterScope
  \/ \E ok \in BOOLEAN : drain_pending_interjections(ok)
  \/ begin_delivery
  \/ \E ok \in BOOLEAN : finish_delivery(ok)

TurnChoice ==
  \/ PromptBlocked
  \/ close_rewind_window
  \/ \E promote \in BOOLEAN : SafePoint(promote)
  \/ \E w \in Wakes : drop_pending_items_for_consumed_completions(w)

BackStep == McpKick \/ \E r \in Resumes : ResumeKick(r)

Next ==
  /\ \/ LoopStep
     \/ Command
     \/ ReceiveCompletion
     \/ TurnStep
     \/ TurnChoice
     \/ SendCompletion
     \/ BackStep
     \/ \E r \in Resumes : start_resume_turn(r)
     \/ \E p \in Prompts : HoldExpires(p)
  /\ UNCHANGED scenario

Spec == Init /\ [][Next]_vars

(* The loop and the tasks are scheduled; a turn ends; the loop gets to a   *)
(* completion although commands are taken first.  No client has to act.    *)
FairSpec ==
  /\ Spec
  /\ WF_sessionVars(LoopStep)
  /\ SF_sessionVars(ReceiveCompletion)
  /\ WF_sessionVars(TurnStep)
  /\ SF_sessionVars(SendCompletion)
  /\ WF_sessionVars(BackStep)

----------------------------------------------------------------------------
(* Properties.                                                             *)

Answers == {"none", "waiting", "completed", "cancelled"}
Contents == {"absent", "unsent", "live", "merged", "shown", "skipped", "handled", "discarded"}
Phases == {"none", "intake", "committed", "work", "interject", "steer", "barrier", "blocked",
           "sent", "aborted"}
Bindings == [prompt : Ids \cup {None}, epoch : Nat]
Entries == [id : Ids, aim : Nat]

(* The state has the shape the code gives it: queue rows and slots are     *)
(* known ids, at most MAX_PARENT_STEER_SLOTS messages are held in slots    *)
(* and the run loop is at one of its awaits.                               *)
TypeOK ==
  /\ scenario \in Scenarios
  /\ queue \in Seq(Ids) /\ sendNow \subseteq Ids /\ fallback \subseteq Ids
  /\ holds \in [Prompts -> {"none", "live", "expired"}]
  /\ hookHold \in BOOLEAN
  /\ task \in [prompt : Ids \cup {None}, epoch : Nat, phase : Phases]
  /\ epoch \in Nat /\ rewindable \in BOOLEAN /\ committed \in BOOLEAN
  /\ pin \in Ids \cup {None}
  /\ buffer \in Seq(Entries) /\ taken \in Seq(Entries)
  /\ slots \in Seq(Messages) /\ Len(slots) <= MaxSteers
  /\ slot \in [Messages -> [state : {"none", "pending", "projecting", "delivered"},
                            bind : Bindings]]
  /\ loop \in [at : {"idle", "queue", "send_now", "teardown", "complete", "release", "finish",
                     "flush", "kick", "close", "closed"},
               prompt : Ids \cup {None},
               kind : {"none", "send_now", "soft", "stop", "teardown", "shutdown", "rewind",
                       "completion"},
               bound : Bindings]
  /\ gate \in BOOLEAN
  /\ completions \in Seq(Bindings)
  /\ resume \in [Resumes -> {"parked", "queued", "done"}]
  /\ mcp \in {"starting", "ready"}
  /\ reported \subseteq Wakes
  /\ answer \in [Ids -> Answers]
  /\ content \in [Ids -> Contents]

(* The running turn's row stays at the front of the queue until the turn   *)
(* is finalized, whatever is inserted, swept, removed, reordered or merged *)
(* meanwhile.  Otherwise its completion is dropped as stale and the        *)
(* session never runs another prompt (claim_task_finalization).            *)
RunningIsFront ==
  Running /\ loop.at \notin {"release", "closed"} => FrontRow = task.prompt

(* The finalization gate is closed exactly while the run loop is inside a  *)
(* finalization that will open it: a lease is never left behind            *)
(* (FinalizationLease).                                                    *)
GateOwned ==
  gate <=> \/ loop.at \in {"complete", "release", "finish"}
           \/ loop.at = "teardown" /\ loop.kind # "rewind"

(* "A committed finalization lease must be finished" (FinalizationLease):  *)
(* a run loop back at its select has no lease open.                        *)
LeaseFinished == AtIdle => ~gate

(* A message waits in a slot only while the turn it was admitted into is   *)
(* running: no end of a turn, by completion, cancel or rewind, leaves one  *)
(* behind bound to a turn that is gone (transition_parent_messages).       *)
SlotsBound ==
  \A m \in ToSet(slots) : Running /\ slot[m].bind = Binding(task)

Places(x) ==
  {<<"queue", k>> : k \in {j \in DOMAIN queue : queue[j] = x}}
    \cup {<<"slots", k>> : k \in {j \in DOMAIN slots : slots[j] = x}}
    \cup {<<"buffer", k>> : k \in {j \in DOMAIN buffer : buffer[j].id = x}}
    \cup {<<"taken", k>> : k \in {j \in DOMAIN taken : taken[j].id = x}}
    \cup (IF loop.at = "queue" /\ loop.prompt = x THEN {<<"loop", 1>>} ELSE {})

(* No text is lost or duplicated on its way between the queue, the slots,  *)
(* the interjection buffer and a drain in progress: what the model has not *)
(* seen and nobody discarded is in exactly one of them.                    *)
TextsAccounted ==
  \A x \in Ids :
    /\ \A a, b \in Places(x) : a = b
    /\ content[x] = "live" => Places(x) # {}

(* A sender still waiting for an answer has a row, a slot or the handler   *)
(* that will answer it; an answered prompt has no row left, unless it is   *)
(* the hidden row of a stranded interjection.                              *)
SendersHeld ==
  \A x \in Prompts \cup Messages \cup Wakes :
    /\ answer[x] = "waiting" =>
         \/ InQueue(x) \/ x \in ToSet(slots)
         \/ loop.at = "queue" /\ loop.prompt = x
    /\ InQueue(x) => answer[x] = "waiting" \/ x \in fallback

(* With the loop idle and nothing running, a queued row that does not      *)
(* start is kept back by a hold: no handler forgot to kick the queue       *)
(* (maybe_start_running_task).                                             *)
QueueKicked ==
  (AtIdle /\ ~Running /\ queue # <<>> /\ \A r \in Resumes : resume[r] # "queued") =>
    hookHold \/ \E p \in Prompts : p = FrontRow /\ holds[p] # "none"

(* A parent told that its message completed had it put to the model,       *)
(* handled as a command, or skipped because persistence failed.            *)
CompletedWasSeen ==
  \A m \in Messages : answer[m] = "completed" => content[m] \in {"shown", "handled", "skipped"}

(* A turn starts only for a text the model has not seen and nobody         *)
(* discarded: a steered message does not also run as a turn of its own,    *)
(* and a removed or cancelled prompt does not run.                         *)
StartsUnseen ==
  [][task'.prompt \notin {None, task.prompt} => content[task'.prompt] = "live"]_vars

(* A send-now never cancels a turn whose prompt is not recorded yet, which *)
(* would destroy the prompt before the model sees it                       *)
(* (front_awaiting_commit).                                                *)
SendNowSparesPrompt ==
  [][loop.at = "teardown" /\ loop.kind = "send_now" /\ loop'.at = "release"
       => content[task.prompt] # "live"]_vars

(* A queued prompt or message is answered, unless the queue is on hold or  *)
(* the session is closed.                                                  *)
SendersAnswered ==
  \A x \in Prompts \cup Messages :
    answer[x] = "waiting" ~>
      \/ answer[x] # "waiting" \/ hookHold \/ loop.at = "closed"
      \/ \E p \in Prompts : holds[p] # "none"
============================================================================
