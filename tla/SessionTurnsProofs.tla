------------------------- MODULE SessionTurnsProofs -------------------------
(***************************************************************************)
(* Proofs about SessionTurns: its safety invariants hold of every instance, *)
(* whatever texts arrive and whatever commands the clients issue.           *)
(*                                                                         *)
(* The invariants lean on each other.  That the running row is at the front *)
(* is why the message of a completion is the turn's own; that is why every  *)
(* slot ends with the turn; that is why a text in a slot is not also a row. *)
(* SessionInv states them together.                                         *)
(***************************************************************************)
EXTENDS SessionSequenceProofs

-----------------------------------------------------------------------------
\* Where a text can be.
Queued == ToSet(queue)
Slotted == ToSet(slots)
Buffered == ToSet(EntryIds(buffer))
InDrain == ToSet(EntryIds(taken))
InHandler == IF loop.at = "queue" THEN {loop.prompt} ELSE {}

Unrepeated ==
  /\ IsInjective(queue) /\ IsInjective(slots)
  /\ IsInjective(EntryIds(buffer)) /\ IsInjective(EntryIds(taken))

\* A text is in one place at most, a live one in one; only the running turn's row
\* may stay queued once it was shown; a sender waits exactly for a row, a slot or
\* the handler.
Text(x) ==
  /\ x \in Queued => x \notin Slotted \cup Buffered \cup InDrain \cup InHandler
  /\ x \in Slotted => x \notin Buffered \cup InDrain \cup InHandler
  /\ x \in Buffered => x \notin InDrain \cup InHandler
  /\ x \in InDrain => x \notin InHandler
  /\ content[x] = "live" =>
       x \in Queued \cup Slotted \cup Buffered \cup InDrain \cup InHandler
  /\ x \in Buffered \cup InDrain \cup InHandler => content[x] = "live"
  /\ x \in Queued =>
       \/ content[x] = "live"
       \/ Running /\ x = task.prompt /\ content[x] = "shown"
  /\ answer[x] = "waiting" => x \in Queued \cup Slotted \cup InHandler
  /\ x \in Slotted \cup InHandler => answer[x] = "waiting"
  /\ x \in Queued /\ x \in Prompts \cup Messages \cup Wakes =>
       answer[x] = "waiting" \/ x \in fallback

\* A slot is bound to the running turn; its state says what the model has seen.
Slot(m) ==
  /\ m \in Slotted =>
       /\ Running /\ slot[m].bind = Binding(task)
       /\ \/ slot[m].state = "pending" /\ content[m] = "live"
          \/ slot[m].state = "projecting" /\ content[m] = "skipped"
          \/ /\ slot[m].state = "projecting" /\ content[m] = "live"
             /\ task.phase \in {"barrier", "aborted"}
          \/ slot[m].state = "delivered" /\ content[m] = "shown"
  /\ answer[m] = "completed" => content[m] \in {"shown", "handled", "skipped"}

TextInv ==
  /\ \A x \in Ids : Text(x)
  /\ \A m \in Messages : Slot(m)
  /\ \A r \in Resumes : resume[r] = "parked" => content[r] = "unsent"

\* The running turn and the completions on their way.
TurnInv ==
  /\ ~ Running => task = NoTask
  /\ Running => /\ task.epoch = epoch /\ epoch # 0 /\ task.prompt \in Ids
                /\ content[task.prompt] # "unsent"
                /\ committed = TRUE => content[task.prompt] # "live"
  /\ taken # <<>> => task.phase = "interject"
  /\ \A msg \in ToSet(completions) :
       /\ msg.epoch # 0 /\ msg.epoch =< epoch
       /\ Running /\ task.epoch = msg.epoch => task.phase = "sent"

\* What the run loop may rely on at each of its awaits.
LoopInv ==
  /\ Running /\ loop.at \notin {"release", "closed"} =>
       queue # <<>> /\ Head(queue) = task.prompt
  /\ loop.at = "complete" =>
       /\ gate = TRUE /\ Running /\ Binding(task) = loop.bound /\ task.phase = "sent"
       /\ loop.kind = "completion"
  /\ loop.at = "release" =>
       /\ gate = TRUE /\ Slotted = {}
       /\ Running => /\ Binding(task) = loop.bound /\ task.prompt \notin Queued
                     /\ task.phase \in {"sent", "aborted"}
  /\ loop.at = "finish" => gate = TRUE /\ ~ Running
  /\ loop.at = "teardown" /\ loop.kind # "rewind" =>
       /\ gate = TRUE
       /\ Running => Binding(task) = loop.bound
       /\ ~ Running => loop.bound.epoch = 0
       /\ loop.kind = "send_now" => Running /\ committed = TRUE
       /\ loop.kind # "send_now" =>
            loop.kind \in {"soft", "stop", "teardown", "shutdown"} \cap scenario.commands
  /\ loop.at = "send_now" => Running /\ committed = TRUE
  /\ loop.at = "queue" => loop.prompt \in Prompts \cup Wakes

\* No plan approval is resumed where turns are cancelled.
Steady ==
  \/ scenario.ids \cap Resumes = {}
  \/ scenario.commands \cap {"soft", "stop", "teardown", "shutdown"} = {}

\* A lease taken while nothing runs names the front, and the front stays.
LeaseInv ==
  /\ \A r \in Resumes : resume[r] # "done" => r \in scenario.ids
  /\ Steady => /\ GateOwned
               /\ QueueKicked
               /\ loop.at = "teardown" /\ loop.kind # "rewind" /\ ~ Running =>
                    FrontRow = loop.bound.prompt

SessionInv == TypeOK /\ Unrepeated /\ TextInv /\ TurnInv /\ LoopInv /\ LeaseInv

-----------------------------------------------------------------------------
(* What the parts of the state are, from TypeOK.                            *)

LEMMA ToSetTyped ==
    ASSUME NEW T, NEW s \in Seq(T)
    PROVE  ToSet(s) \subseteq T /\ (s = <<>> <=> ToSet(s) = {})
<1>1. DOMAIN s = 1 .. Len(s) /\ \A k \in 1 .. Len(s) : s[k] \in T
  BY LenProperties, ElementOfSeq
<1>2. ToSet(s) \subseteq T BY <1>1 DEF ToSet
<1>3. s # <<>> => Head(s) \in ToSet(s) BY TailFacts
<1> QED BY <1>2, <1>3, EmptyFacts

LEMMA Placed ==
    ASSUME TypeOK
    PROVE  /\ Queued \subseteq Ids /\ (queue = <<>> <=> Queued = {})
           /\ Slotted \subseteq Messages /\ (slots = <<>> <=> Slotted = {})
           /\ EntryIds(buffer) \in Seq(Ids) /\ Buffered \subseteq Ids
           /\ EntryIds(taken) \in Seq(Ids) /\ InDrain \subseteq Ids
           /\ taken = <<>> <=> InDrain = {}
           /\ queue # <<>> => Head(queue) \in Queued
<1> DEFINE b == EntryIds(buffer)
           t == EntryIds(taken)
<1>1. /\ queue \in Seq(Ids) /\ slots \in Seq(Messages) /\ buffer \in Seq(Entries)
      /\ taken \in Seq(Entries)
  BY DEF TypeOK
<1>2. b \in Seq(Ids) /\ t \in Seq(Ids) /\ (taken # <<>> => t # <<>>)
  BY <1>1, EntryIdsFacts
<1>3. taken = <<>> => t = <<>> BY EmptyFacts
<1> HIDE DEF b, t
<1>4. ToSet(b) \subseteq Ids /\ ToSet(t) \subseteq Ids /\ (t = <<>> <=> ToSet(t) = {})
  BY <1>2, ToSetTyped
<1>5. /\ ToSet(queue) \subseteq Ids /\ (queue = <<>> <=> ToSet(queue) = {})
      /\ ToSet(slots) \subseteq Messages /\ (slots = <<>> <=> ToSet(slots) = {})
  BY <1>1, ToSetTyped
<1>6. queue # <<>> => Head(queue) \in ToSet(queue) BY <1>1, TailFacts
<1> QED BY <1>2, <1>3, <1>4, <1>5, <1>6
        DEF Queued, Slotted, Buffered, InDrain, b, t

LEMMA PlacesKept ==
    /\ queue' = queue => Queued' = Queued
    /\ slots' = slots => Slotted' = Slotted
    /\ buffer' = buffer => Buffered' = Buffered /\ EntryIds(buffer)' = EntryIds(buffer)
    /\ taken' = taken => InDrain' = InDrain /\ EntryIds(taken)' = EntryIds(taken)
    /\ taken' = <<>> => InDrain' = {} /\ IsInjective(EntryIds(taken)')
    /\ buffer' = <<>> => Buffered' = {} /\ IsInjective(EntryIds(buffer)')
    /\ loop' = loop => InHandler' = InHandler
    /\ loop.at # "queue" => InHandler = {}
    /\ loop'.at # "queue" => InHandler' = {}
    /\ task' = task => Running' = Running /\ Binding(task)' = Binding(task)
<1>1. /\ buffer' = buffer => EntryIds(buffer') = EntryIds(buffer)
      /\ taken' = taken => EntryIds(taken') = EntryIds(taken)
  OBVIOUS
<1>2. /\ buffer' = <<>> => EntryIds(buffer') = <<>>
      /\ taken' = <<>> => EntryIds(taken') = <<>>
  BY EmptyFacts
<1>3. task' = task => Running' = Running /\ Binding(task)' = Binding(task)
  BY DEF Running, Binding
<1>4. /\ loop' = loop => InHandler' = InHandler
      /\ loop.at # "queue" => InHandler = {}
      /\ loop'.at # "queue" => InHandler' = {}
  BY DEF InHandler
<1> QED BY <1>1, <1>2, <1>3, <1>4, EmptyFacts DEF Queued, Slotted, Buffered, InDrain

LEMMA Kinds ==
    /\ Prompts \subseteq Ids /\ Wakes \subseteq Ids /\ Messages \subseteq Ids
    /\ Interjections \subseteq Ids /\ Resumes \subseteq Ids /\ None \notin Ids
    /\ Prompts \cap Messages = {} /\ Prompts \cap Wakes = {} /\ Wakes \cap Messages = {}
    /\ Resumes \cap (Prompts \cup Wakes \cup Messages \cup Interjections) = {}
    /\ Interjections \cap (Prompts \cup Wakes \cup Messages) = {}
BY IdsAssumption DEF Ids

-----------------------------------------------------------------------------
(* Starting the front row.                                                  *)

\* What the promoter does: nothing, or it drops known wakes, merges plain prompts
\* and starts what is then in front, unless that is held.
Started(stale, follow) ==
  /\ ~ Running
  /\ stale \subseteq Queued \cap Wakes /\ follow \subseteq Queued \cap Prompts
  /\ Queued' = Queued \ (stale \cup follow)
  /\ queue' \in Seq(Ids) /\ IsInjective(queue')
  /\ holds' \in [Prompts -> {"none", "live", "expired"}]
  /\ answer' = Told(stale \cup follow, "cancelled")
  /\ content' = [x \in Ids |-> IF x \in follow THEN "merged" ELSE
                               IF x \in stale THEN "discarded" ELSE content[x]]
  /\ \/ /\ UNCHANGED turnVars
        /\ queue' # <<>> => Head(queue') \in Prompts /\ holds'[Head(queue')] = "live"
     \/ /\ queue' # <<>>
        /\ task' = [prompt |-> Head(queue'), epoch |-> epoch + 1, phase |-> "intake"]
        /\ epoch' = epoch + 1 /\ pin' = Head(queue')
        /\ rewindable' = TRUE /\ committed' = FALSE

LEMMA StartFacts ==
    ASSUME TypeOK, Unrepeated, maybe_start_running_task
    PROVE  \/ StartBlocked /\ UNCHANGED <<queue, holds, turnVars, senderVars>>
           \/ ~ StartBlocked /\ \E stale, follow : Started(stale, follow)
<1>1. CASE StartBlocked BY <1>1 DEF maybe_start_running_task
<1>2. CASE ~ StartBlocked
  <2> DEFINE q == Drop(queue, StaleFront)
             kept == {p \in Prompts : p \in ToSet(q) /\ holds[p] = "live"}
             starts == q # <<>> /\ Head(q) \notin kept
             follow == IF starts THEN Followers(q, kept) ELSE {}
  <2>1. /\ holds' = [p \in Prompts |-> IF p \in kept THEN "live" ELSE "none"]
        /\ answer' = Told(StaleFront \cup follow, "cancelled")
        /\ content' = [x \in Ids |-> IF x \in follow THEN "merged" ELSE
                                     IF x \in StaleFront THEN "discarded"
                                     ELSE content[x]]
        /\ IF starts THEN start_turn(q, follow) ELSE queue' = q /\ UNCHANGED turnVars
    BY <1>2 DEF maybe_start_running_task
  <2>2. ~ Running BY <1>2 DEF StartBlocked
  <2>3. queue \in Seq(Ids) /\ IsInjective(queue) /\ reported \subseteq Wakes
    BY DEF TypeOK, Unrepeated
  <2>4. StaleFront \subseteq Queued \cap Wakes
    BY <2>3, StaleFrontFacts DEF Queued
  <2>5. q \in Seq(Ids) /\ IsInjective(q) /\ ToSet(q) = Queued \ StaleFront
    BY <2>3, DropFacts DEF Queued
  <2>6. holds' \in [Prompts -> {"none", "live", "expired"}]
    <3> HIDE DEF kept
    <3> QED BY <2>1
  <2>7. q # <<>> => Head(q) \in ToSet(q)
    <3> HIDE DEF q
    <3> QED BY <2>5, TailFacts
  <2>8. CASE starts
    <3>1. follow = Followers(q, kept) BY <2>8
    <3>2. q # <<>> BY <2>8
    <3>3. start_turn(q, follow) BY <2>1, <2>8
    <3> HIDE DEF q, kept, starts, follow
    <3>4. follow \subseteq ToSet(q) \cap Prompts /\ Head(q) \notin follow
      BY <2>5, <3>1, <3>2, FollowersFacts
    <3>5. /\ queue' \in Seq(Ids) /\ ToSet(queue') = ToSet(q) \ follow
          /\ queue' # <<>> /\ Head(queue') = Head(q) /\ IsInjective(queue')
      <4>1. queue' = Drop(q, follow) BY <3>3 DEF start_turn
      <4> QED BY <2>5, <3>2, <3>4, <4>1, DropFacts
    <3>6. Queued' = Queued \ (StaleFront \cup follow) BY <2>5, <3>5 DEF Queued
    <3>7. follow \subseteq Queued \cap Prompts BY <2>5, <3>4
    <3>8. /\ task' = [prompt |-> Head(queue'), epoch |-> epoch + 1, phase |-> "intake"]
          /\ epoch' = epoch + 1 /\ pin' = Head(queue')
          /\ rewindable' = TRUE /\ committed' = FALSE
      BY <3>3, <3>5 DEF start_turn
    <3>9. Started(StaleFront, follow)
      BY <2>1, <2>2, <2>4, <2>6, <3>5, <3>6, <3>7, <3>8 DEF Started
    <3> QED BY <1>2, <3>9
  <2>9. CASE ~ starts
    <3>1. follow = {} /\ queue' = q /\ UNCHANGED turnVars BY <2>1, <2>9
    <3>2. q # <<>> => Head(q) \in kept BY <2>9
    <3>3. q # <<>> => Head(q) \in Prompts /\ holds'[Head(q)] = "live"
      <4>1. kept \subseteq Prompts OBVIOUS
      <4> HIDE DEF q, kept
      <4> QED BY <2>1, <3>2, <4>1
    <3> HIDE DEF q, kept, starts, follow
    <3>4. Queued' = Queued \ (StaleFront \cup follow)
      BY <2>5, <3>1 DEF Queued
    <3>5. Started(StaleFront, follow)
      BY <2>1, <2>2, <2>4, <2>5, <2>6, <3>1, <3>3, <3>4 DEF Started
    <3> QED BY <1>2, <3>5
  <2> QED BY <2>8, <2>9
<1> QED BY <1>1, <1>2

\* The invariant but for its part on the lease.
CoreInv == TypeOK /\ Unrepeated /\ TextInv /\ TurnInv /\ LoopInv

\* A kick, by the run loop at the end of a handler or by a background task at any
\* of the loop's awaits.
LEMMA KickKeeps ==
    ASSUME CoreInv, maybe_start_running_task,
           UNCHANGED <<scenario, hookHold, bufferVars, slotVars, gate, completions,
                       reported>>,
           loop.at # "closed",
           loop' = loop \/ (loop.at = "kick" /\ loop' = Idle),
           resume' \in [Resumes -> {"parked", "queued", "done"}],
           \A r \in Resumes : resume'[r] = "parked" => resume[r] = "parked",
           mcp' \in {"starting", "ready"}
    PROVE  CoreInv'
<1>1. /\ sendNow' = sendNow /\ fallback' = fallback
      /\ Slotted' = Slotted /\ Buffered' = Buffered /\ InDrain' = InDrain
      /\ InHandler' = InHandler /\ slot' = slot
  <2>1. sendNow' = sendNow /\ fallback' = fallback BY DEF maybe_start_running_task
  <2>2. slots' = slots /\ slot' = slot /\ buffer' = buffer /\ taken' = taken
    BY DEF bufferVars, slotVars
  <2>3. loop' = loop \/ (loop.at # "queue" /\ loop'.at # "queue") BY DEF Idle
  <2> QED BY <2>1, <2>2, <2>3, PlacesKept
<1>2. loop' \in [at : {"idle", "queue", "send_now", "teardown", "complete", "release",
                       "finish", "flush", "kick", "close", "closed"},
                 prompt : Ids \cup {None},
                 kind : {"none", "send_now", "soft", "stop", "teardown", "shutdown",
                         "rewind", "completion"},
                 bound : Bindings]
  BY DEF CoreInv, TypeOK, Idle, NoBound, Binding, NoTask, Bindings
<1>3. CASE StartBlocked /\ UNCHANGED <<queue, holds, turnVars, senderVars>>
  <2>1. Queued' = Queued /\ Running' = Running /\ Binding(task)' = Binding(task)
    BY <1>3 DEF turnVars, Queued, Running, Binding
  <2>2. TypeOK' BY <1>1, <1>2, <1>3 DEF CoreInv, TypeOK, turnVars, slotVars, senderVars,
                                        bufferVars
  <2>3. Unrepeated' BY <1>3 DEF CoreInv, Unrepeated, slotVars, bufferVars, EntryIds
  <2>4. TextInv'
    <3>1. \A x \in Ids : Text(x)'
      BY <1>1, <1>3, <2>1 DEF CoreInv, TextInv, Text, turnVars, senderVars
    <3>2. \A m \in Messages : Slot(m)'
      BY <1>1, <1>3, <2>1 DEF CoreInv, TextInv, Slot, turnVars, senderVars
    <3> QED BY <1>3, <3>1, <3>2 DEF CoreInv, TextInv, senderVars
  <2>5. TurnInv'
    BY <1>3, <2>1 DEF CoreInv, TurnInv, turnVars, senderVars, bufferVars, NoTask
  <2>6. LoopInv'
    BY <1>1, <1>3, <2>1 DEF CoreInv, LoopInv, turnVars, Idle
  <2> QED BY <2>2, <2>3, <2>4, <2>5, <2>6 DEF CoreInv
<1>4. ASSUME NEW stale, NEW follow, ~ StartBlocked, Started(stale, follow)
      PROVE  CoreInv'
  <2>1. /\ ~ Running /\ gate = FALSE /\ task = NoTask /\ Slotted = {}
        /\ loop.at \notin {"complete", "release", "finish", "send_now"}
        /\ ~ (loop.at = "teardown" /\ loop.kind # "rewind")
    <3>1. ~ Running /\ gate = FALSE BY <1>4 DEF StartBlocked, CoreInv, TypeOK
    <3>2. Slotted = {} BY <3>1, Placed DEF CoreInv, TextInv, Slot
    <3> QED BY <3>1, <3>2 DEF CoreInv, TurnInv, LoopInv
  <2>2. queue' # <<>> => Head(queue') \in Queued' /\ Head(queue') \in Ids
    BY <1>4, TailFacts DEF Started, Queued
  <2>3. \A x \in Ids : x \in Queued' => content[x] = "live" /\ content'[x] = "live"
    BY <1>4, <2>1 DEF Started, CoreInv, TextInv, Text
  <2>4. TypeOK'
    <3>1. answer' \in [Ids -> Answers]
      BY <1>4 DEF Started, Told, CoreInv, TypeOK, Answers
    <3>2. content' \in [Ids -> Contents]
      BY <1>4 DEF Started, CoreInv, TypeOK, Contents
    <3>3. /\ task' \in [prompt : Ids \cup {None}, epoch : Nat, phase : Phases]
          /\ epoch' \in Nat /\ rewindable' \in BOOLEAN /\ committed' \in BOOLEAN
          /\ pin' \in Ids \cup {None}
      <4>1. CASE UNCHANGED turnVars BY <4>1 DEF CoreInv, TypeOK, turnVars
      <4>2. CASE /\ queue' # <<>> /\ epoch' = epoch + 1 /\ pin' = Head(queue')
                 /\ task' = [prompt |-> Head(queue'), epoch |-> epoch + 1,
                             phase |-> "intake"]
                 /\ rewindable' = TRUE /\ committed' = FALSE
        <5>1. Head(queue') \in Ids /\ epoch + 1 \in Nat /\ "intake" \in Phases
          BY <2>2, <4>2 DEF CoreInv, TypeOK, Phases
        <5> QED BY <4>2, <5>1
      <4> QED BY <1>4, <4>1, <4>2 DEF Started
    <3> QED BY <1>1, <1>2, <1>4, <3>1, <3>2, <3>3
            DEF Started, CoreInv, TypeOK, slotVars, bufferVars
  <2>5. Unrepeated'
    BY <1>4 DEF Started, CoreInv, Unrepeated, slotVars, bufferVars, EntryIds
  <2>6. TextInv'
    <3>1. ASSUME NEW x \in Ids PROVE Text(x)'
      <4>1. Text(x) BY DEF CoreInv, TextInv
      <4>2. /\ Queued' = Queued \ (stale \cup follow)
            /\ stale \subseteq Queued /\ follow \subseteq Queued
            /\ answer'[x] = IF x \in stale \cup follow /\ answer[x] = "waiting"
                              THEN "cancelled" ELSE answer[x]
            /\ content'[x] = IF x \in follow THEN "merged" ELSE
                             IF x \in stale THEN "discarded" ELSE content[x]
        BY <1>4 DEF Started, Told
      <4> QED BY <1>1, <2>1, <4>1, <4>2 DEF Text
    <3>2. ASSUME NEW m \in Messages PROVE Slot(m)'
      <4>1. Slot(m) /\ m \in Ids BY Kinds DEF CoreInv, TextInv
      <4>2. m \notin stale \cup follow BY <1>4, Kinds DEF Started
      <4>3. answer'[m] = answer[m] /\ content'[m] = content[m]
        BY <1>4, <4>1, <4>2 DEF Started, Told
      <4> QED BY <1>1, <2>1, <4>1, <4>3 DEF Slot
    <3>3. ASSUME NEW r \in Resumes, resume'[r] = "parked" PROVE content'[r] = "unsent"
      <4>1. r \in Ids /\ content[r] = "unsent" BY <3>3, Kinds DEF CoreInv, TextInv
      <4>2. r \notin stale \cup follow BY <1>4, Kinds DEF Started
      <4> QED BY <1>4, <4>1, <4>2 DEF Started
    <3> QED BY <3>1, <3>2, <3>3 DEF TextInv
  <2>7. TurnInv'
    <3>1. CASE UNCHANGED turnVars
      BY <1>4, <2>1, <3>1 DEF CoreInv, TurnInv, turnVars, bufferVars, Running, NoTask
    <3>2. CASE /\ queue' # <<>>
               /\ task' = [prompt |-> Head(queue'), epoch |-> epoch + 1,
                           phase |-> "intake"]
               /\ epoch' = epoch + 1 /\ committed' = FALSE
      <4>1. epoch \in Nat BY DEF CoreInv, TypeOK
      <4>2. content'[task'.prompt] # "unsent" /\ task'.prompt \in Ids
        BY <2>2, <2>3, <3>2
      <4>3. taken' = <<>> BY <2>1 DEF CoreInv, TurnInv, bufferVars, NoTask
      <4>4. \A msg \in ToSet(completions) : msg.epoch # 0 /\ msg.epoch =< epoch
                                            /\ msg.epoch \in Nat
        <5>1. ToSet(completions) \subseteq Bindings
          BY ToSetTyped DEF CoreInv, TypeOK
        <5> QED BY <5>1 DEF CoreInv, TurnInv, Bindings
      <4>5. \A msg \in ToSet(completions') : /\ msg.epoch # 0 /\ msg.epoch =< epoch + 1
                                             /\ msg.epoch # epoch + 1
        BY <4>1, <4>4
      <4> QED BY <3>2, <4>1, <4>2, <4>3, <4>5 DEF TurnInv, Running
    <3> QED BY <1>4, <3>1, <3>2 DEF Started
  <2>8. LoopInv'
    <3>1. Running' => queue' # <<>> /\ Head(queue') = task'.prompt
      BY <1>4, <2>1 DEF Started, turnVars, Running
    <3> QED BY <2>1, <3>1 DEF CoreInv, LoopInv, Idle
  <2> QED BY <2>4, <2>5, <2>6, <2>7, <2>8 DEF CoreInv
<1> QED BY <1>3, <1>4, StartFacts DEF CoreInv

-----------------------------------------------------------------------------
(* Steps that leave a part of the state alone keep its part of the          *)
(* invariant.                                                               *)

Awaits == {"idle", "queue", "send_now", "teardown", "complete", "release", "finish",
           "flush", "kick", "close", "closed"}
Endings == {"none", "send_now", "soft", "stop", "teardown", "shutdown", "rewind",
            "completion"}
Loops == [at : Awaits, prompt : Ids \cup {None}, kind : Endings, bound : Bindings]
Tasks == [prompt : Ids \cup {None}, epoch : Nat, phase : Phases]

LEMMA LoopTyped ==
    /\ TypeOK => loop \in Loops /\ loop.bound \in Bindings /\ task \in Tasks
    /\ TypeOK => Binding(task) \in Bindings
    /\ NoBound \in Bindings /\ Idle \in Loops /\ Idle.at = "idle" /\ NoTask \in Tasks
    /\ \A at \in Awaits : Then(at) \in Loops /\ Then(at).at = at
<1>1. TypeOK => loop \in Loops /\ task \in Tasks
  BY DEF TypeOK, Loops, Tasks, Awaits, Endings
<1>2. TypeOK => loop.bound \in Bindings BY <1>1 DEF Loops
<1>3. TypeOK => Binding(task) \in Bindings BY <1>1 DEF Tasks, Binding, Bindings
<1>4. NoBound \in Bindings BY DEF NoBound, Binding, NoTask, Bindings
<1>5. Idle \in Loops /\ Idle.at = "idle" BY <1>4 DEF Idle, Loops, Awaits, Endings
<1>6. NoTask \in Tasks BY DEF NoTask, Tasks, Phases
<1>7. \A at \in Awaits : Then(at) \in Loops /\ Then(at).at = at
  <2>1. "none" \in Endings BY DEF Endings
  <2> QED BY <1>4, <2>1 DEF Then, Loop, Loops
<1> QED BY <1>1, <1>2, <1>3, <1>4, <1>5, <1>6, <1>7

LEMMA LoopMade ==
    ASSUME NEW at \in Awaits, NEW p \in Ids \cup {None}, NEW k \in Endings,
           NEW b \in Bindings
    PROVE  /\ Loop(at, p, k, b) \in Loops
           /\ Loop(at, p, k, b).at = at /\ Loop(at, p, k, b).prompt = p
           /\ Loop(at, p, k, b).kind = k /\ Loop(at, p, k, b).bound = b
BY DEF Loop, Loops

LEMMA UnrepeatedKept ==
    ASSUME Unrepeated, IsInjective(queue'), slots' = slots, buffer' = buffer,
           taken' = taken
    PROVE  Unrepeated'
BY PlacesKept DEF Unrepeated

\* The texts stay where they are, whatever phase the turn goes through.
LEMMA TextsKept ==
    ASSUME TextInv,
           UNCHANGED <<queue, fallback, slots, slot, buffer, taken, resume, answer,
                       content>>,
           InHandler' = InHandler,
           task'.prompt = task.prompt, Running' = Running,
           Binding(task)' = Binding(task),
           task.phase \in {"barrier", "aborted"} => task'.phase \in {"barrier", "aborted"}
    PROVE  TextInv'
<1>1. Queued' = Queued /\ Slotted' = Slotted /\ Buffered' = Buffered /\ InDrain' = InDrain
  BY PlacesKept
<1>2. \A x \in Ids : Text(x)' BY <1>1 DEF TextInv, Text
<1>3. \A m \in Messages : Slot(m)' BY <1>1 DEF TextInv, Slot
<1> QED BY <1>2, <1>3 DEF TextInv

\* The same turn runs, and no text of its own comes to life.
LEMMA TurnKept ==
    ASSUME TurnInv, UNCHANGED <<task, epoch, committed, taken, completions>>,
           Running => /\ content'[task.prompt] = "live" => content[task.prompt] = "live"
                      /\ content'[task.prompt] = "unsent" =>
                           content[task.prompt] = "unsent"
    PROVE  TurnInv'
BY PlacesKept DEF TurnInv, NoTask

\* The loop goes to an await at which it relies on nothing but the front.
LEMMA LoopLeft ==
    ASSUME loop'.at \in {"idle", "kick", "flush", "close", "closed"},
           Running' /\ loop'.at # "closed" => queue' # <<>> /\ Head(queue') = task'.prompt
    PROVE  LoopInv'
BY DEF LoopInv

\* The loop stays where it is while another actor takes a step.
LEMMA LoopKept ==
    ASSUME LoopInv, UNCHANGED <<scenario, loop, gate, slots>>,
           Running' = Running, Binding(task)' = Binding(task),
           task'.prompt = task.prompt,
           Running => committed' = committed \/ committed' = TRUE,
           task.phase \in {"sent", "aborted"} => task'.phase = task.phase,
           Running /\ queue # <<>> /\ Head(queue) = task.prompt =>
             queue' # <<>> /\ Head(queue') = task.prompt,
           Running /\ task.prompt \notin Queued => task.prompt \notin Queued'
    PROVE  LoopInv'
<1>1. Slotted' = Slotted BY PlacesKept
<1>2. Running' /\ loop'.at \notin {"release", "closed"} =>
        queue' # <<>> /\ Head(queue') = task'.prompt
  BY DEF LoopInv
<1> QED BY <1>1, <1>2 DEF LoopInv

-----------------------------------------------------------------------------
(* Steps that move no text.                                                 *)

\* Commands on edit holds, and a hold that expires.
LEMMA HoldsKeep ==
    ASSUME CoreInv, UNCHANGED scenario, NEW p \in Prompts,
           \/ handle_edit_queued_prompt(p) \/ handle_hold_edit(p)
           \/ handle_release_edit(p) \/ HoldExpires(p)
    PROVE  CoreInv'
<1> USE DEF Others, turnVars, bufferVars, slotVars, backVars, senderVars
<1>1. /\ UNCHANGED <<queue, sendNow, fallback, task, epoch, rewindable, committed, pin,
                     buffer, taken, slots, slot, gate, completions, resume, mcp,
                     reported, answer, content>>
      /\ holds' \in [Prompts -> {"none", "live", "expired"}]
      /\ hookHold' \in BOOLEAN
      /\ loop' = loop \/ (loop.at = "idle" /\ loop' = Then("kick"))
  BY DEF CoreInv, TypeOK, handle_edit_queued_prompt, handle_hold_edit,
         handle_release_edit, HoldExpires, MayIssue, AtIdle
<1>2. loop' \in Loops /\ (loop' = loop \/ (loop.at = "idle" /\ loop'.at = "kick"))
  BY <1>1, LoopTyped DEF CoreInv, Awaits
<1>3. TypeOK' BY <1>1, <1>2 DEF CoreInv, TypeOK, Loops, Awaits, Endings
<1>4. InHandler' = InHandler BY <1>2, PlacesKept
<1>5. /\ Running' = Running /\ Binding(task)' = Binding(task) /\ Queued' = Queued
      /\ task' = task /\ queue' = queue
  BY <1>1, PlacesKept
<1>6. Unrepeated' BY <1>1, UnrepeatedKept DEF CoreInv, Unrepeated
<1>7. TextInv' BY <1>1, <1>4, <1>5, TextsKept DEF CoreInv
<1>8. TurnInv' BY <1>1, TurnKept DEF CoreInv
<1>9. LoopInv'
  <2>1. CASE loop' = loop BY <1>1, <1>5, <2>1, LoopKept DEF CoreInv
  <2>2. CASE loop.at = "idle" /\ loop'.at = "kick"
    BY <1>5, <2>2, LoopLeft DEF CoreInv, LoopInv
  <2> QED BY <1>2, <2>1, <2>2
<1> QED BY <1>3, <1>6, <1>7, <1>8, <1>9 DEF CoreInv

LEMMA GoesFacts ==
    ASSUME TypeOK, NEW phase \in Phases, phase # "none", Running,
           task' = [task EXCEPT !.phase = phase]
    PROVE  /\ task' \in Tasks /\ task'.phase = phase /\ task'.prompt = task.prompt
           /\ task'.epoch = task.epoch /\ Binding(task)' = Binding(task)
           /\ Running' /\ Running' = Running
<1>1. task \in Tasks BY LoopTyped
<1>2. /\ task' \in Tasks /\ task'.phase = phase /\ task'.prompt = task.prompt
      /\ task'.epoch = task.epoch
  BY <1>1 DEF Tasks
<1>3. Running' BY <1>2 DEF Running
<1> QED BY <1>2, <1>3 DEF Running, Binding

\* The turn task goes on, or its completion is sent.
LEMMA PhasesKeep ==
    ASSUME CoreInv, UNCHANGED scenario,
           EnterScope \/ PromptBlocked \/ close_rewind_window \/ SendCompletion
    PROVE  CoreInv'
<1> USE DEF bufferVars, slotVars, senderVars, Rest
<1>1. UNCHANGED <<queue, sendNow, fallback, holds, epoch, committed, buffer, taken, slots,
                  slot, loop, gate, resume, mcp, reported, answer, content>>
  BY DEF EnterScope, PromptBlocked, close_rewind_window, SendCompletion
<1>2. /\ hookHold' \in BOOLEAN /\ rewindable' \in BOOLEAN /\ pin' \in Ids \cup {None}
  BY DEF CoreInv, TypeOK, EnterScope, PromptBlocked, close_rewind_window, SendCompletion,
         UnpinnedByAbort
<1>3. \/ task' = task /\ completions' = completions
      \/ /\ task.phase \in {"intake", "committed", "work", "blocked"}
         /\ \E phase \in {"work", "blocked"} : task' = [task EXCEPT !.phase = phase]
         /\ completions' = completions
      \/ /\ task.phase \in {"intake", "committed", "work", "blocked"}
         /\ task' = [task EXCEPT !.phase = "sent"]
         /\ completions' = Append(completions, Binding(task))
  BY DEF EnterScope, PromptBlocked, close_rewind_window, SendCompletion, Goes, TurnAt
<1>4. task' = task \/ task.phase \in {"intake", "committed", "work", "blocked"}
  BY <1>3
<1>5. /\ task' \in Tasks /\ task'.prompt = task.prompt /\ task'.epoch = task.epoch
      /\ Running' = Running /\ Binding(task)' = Binding(task)
      /\ task' = task \/ task'.phase \in {"work", "blocked", "sent"}
  <2>1. CASE task' = task
    BY <2>1, PlacesKept, LoopTyped DEF CoreInv
  <2>2. CASE task' # task
    <3>1. PICK phase \in {"work", "blocked", "sent"} :
            task' = [task EXCEPT !.phase = phase]
      BY <1>3, <2>2
    <3>2. Running /\ phase \in Phases /\ phase # "none"
      BY <1>4, <2>2 DEF Running, Phases
    <3> QED BY <3>1, <3>2, GoesFacts DEF CoreInv
  <2> QED BY <2>1, <2>2
<1>6. completions \in Seq(Bindings) /\ ToSet(completions) \subseteq Bindings
  BY ToSetTyped DEF CoreInv, TypeOK
<1>7. /\ completions' \in Seq(Bindings)
      /\ \/ ToSet(completions') = ToSet(completions)
         \/ /\ ToSet(completions') = ToSet(completions) \cup {Binding(task)}
            /\ task'.phase = "sent" /\ Running
  <2>1. CASE completions' = completions BY <1>6, <2>1
  <2>2. CASE /\ task.phase \in {"intake", "committed", "work", "blocked"}
             /\ task' = [task EXCEPT !.phase = "sent"]
             /\ completions' = Append(completions, Binding(task))
    <3> DEFINE b == Binding(task)
    <3>1. b \in Bindings BY LoopTyped DEF CoreInv
    <3>2. Running /\ "sent" \in Phases BY <2>2 DEF Running, Phases
    <3>3. task'.phase = "sent" BY <2>2, <3>2, GoesFacts DEF CoreInv
    <3>4. completions' = Append(completions, b) BY <2>2
    <3> HIDE DEF b
    <3>5. completions' \in Seq(Bindings) /\ ToSet(completions') = ToSet(completions) \cup {b}
      BY <1>6, <3>1, <3>4, AppendFacts
    <3> QED BY <3>2, <3>3, <3>5 DEF b
  <2> QED BY <1>3, <2>1, <2>2
<1>8. TypeOK' BY <1>1, <1>2, <1>5, <1>7 DEF CoreInv, TypeOK, Tasks
<1>9. Unrepeated' BY <1>1, UnrepeatedKept DEF CoreInv, Unrepeated
<1>10. InHandler' = InHandler /\ Queued' = Queued BY <1>1, PlacesKept
<1>11. TextInv'
  <2>1. task.phase \in {"barrier", "aborted"} => task'.phase \in {"barrier", "aborted"}
    BY <1>4
  <2> QED BY <1>1, <1>5, <1>10, <2>1, TextsKept DEF CoreInv
<1>12. TurnInv'
  <2>1. taken' = <<>> \/ task' = task
    BY <1>1, <1>4 DEF CoreInv, TurnInv
  <2>2. ~ Running' => task' = NoTask
    BY <1>4, <1>5 DEF CoreInv, TurnInv, Running
  <2>3. Binding(task).epoch = task.epoch BY DEF Binding
  <2>4. ASSUME NEW msg \in ToSet(completions')
        PROVE  /\ msg.epoch # 0 /\ msg.epoch =< epoch
               /\ Running' /\ task'.epoch = msg.epoch => task'.phase = "sent"
    <3>1. CASE msg \in ToSet(completions)
      <4>1. /\ msg.epoch # 0 /\ msg.epoch =< epoch
            /\ Running /\ task.epoch = msg.epoch => task.phase = "sent"
        BY <3>1 DEF CoreInv, TurnInv
      <4> QED BY <1>4, <1>5, <4>1
    <3>2. CASE msg = Binding(task) /\ Running /\ task'.phase = "sent"
      <4>1. msg.epoch = epoch /\ epoch # 0 /\ epoch \in Nat
        BY <2>3, <3>2 DEF CoreInv, TypeOK, TurnInv
      <4> QED BY <3>2, <4>1
    <3> QED BY <1>7, <2>4, <3>1, <3>2
  <2> QED BY <1>1, <1>5, <2>1, <2>2, <2>4 DEF CoreInv, TurnInv
<1>13. LoopInv'
  <2>1. task.phase \in {"sent", "aborted"} => task'.phase = task.phase BY <1>4
  <2> QED BY <1>1, <1>5, <1>10, <2>1, LoopKept DEF CoreInv
<1> QED BY <1>8, <1>9, <1>11, <1>12, <1>13 DEF CoreInv

\* The loop takes a completion, ends a finalization, or goes to its end.
LEMMA LoopOnlyKeeps ==
    ASSUME CoreInv, UNCHANGED scenario,
           ReceiveCompletion \/ finish_finalization
    PROVE  CoreInv'
<1> USE DEF queueVars, turnVars, bufferVars, slotVars, backVars, senderVars
<1>1. UNCHANGED <<queue, sendNow, fallback, holds, task, epoch, rewindable, committed, pin,
                  buffer, taken, slots, slot, resume, mcp, reported, answer, content>>
  BY DEF ReceiveCompletion, finish_finalization
<1>2. /\ Running' = Running /\ Binding(task)' = Binding(task) /\ Queued' = Queued
      /\ Slotted' = Slotted
  BY <1>1, PlacesKept
<1>3. /\ loop' \in Loops /\ gate' \in BOOLEAN /\ hookHold' \in BOOLEAN
      /\ completions' \in Seq(Bindings)
      /\ ToSet(completions') \subseteq ToSet(completions)
      /\ loop.at # "queue" /\ loop'.at # "queue"
      /\ LoopInv'
  <2>1. CASE ReceiveCompletion
    <3> DEFINE msg == Head(completions)
    <3>1. completions \in Seq(Bindings) /\ completions # <<>>
      BY <2>1 DEF CoreInv, TypeOK, ReceiveCompletion
    <3>2. /\ completions' \in Seq(Bindings) /\ msg \in Bindings
          /\ ToSet(completions') \subseteq ToSet(completions)
          /\ msg \in ToSet(completions)
      <4>1. completions' = Tail(completions) BY <2>1 DEF ReceiveCompletion
      <4> QED BY <3>1, <4>1, TailFacts
    <3>3. hookHold' = hookHold /\ loop.at = "idle"
      BY <2>1 DEF ReceiveCompletion, AtIdle
    <3>4. CASE claim_task_finalization(msg)
      <4>1. gate' = TRUE /\ loop' = Loop("complete", None, "completion", msg)
        BY <2>1, <3>4 DEF ReceiveCompletion
      <4>2. /\ loop' \in Loops /\ loop'.at = "complete" /\ loop'.kind = "completion"
            /\ loop'.bound = msg
        <5>1. "complete" \in Awaits /\ "completion" \in Endings BY DEF Awaits, Endings
        <5>2. loop' = Loop("complete", None, "completion", msg) /\ msg \in Bindings
          BY <3>2, <4>1
        <5> HIDE DEF msg
        <5> QED BY <5>1, <5>2, LoopMade
      <4>3. Running /\ Binding(task) = msg BY <3>4 DEF claim_task_finalization
      <4>4. task.phase = "sent"
        <5>1. task.epoch = msg.epoch BY <4>3 DEF Binding
        <5> QED BY <3>2, <4>3, <5>1 DEF CoreInv, TurnInv
      <4>5. queue # <<>> /\ Head(queue) = task.prompt
        BY <3>3, <4>3 DEF CoreInv, LoopInv
      <4>6. LoopInv' BY <1>1, <1>2, <4>1, <4>2, <4>3, <4>4, <4>5 DEF LoopInv
      <4> QED BY <3>2, <3>3, <4>1, <4>2, <4>6 DEF CoreInv, TypeOK
    <3>5. CASE ~ claim_task_finalization(msg)
      <4>1. gate' = gate /\ loop' = loop BY <2>1, <3>5 DEF ReceiveCompletion
      <4>2. LoopInv' BY <1>1, <1>2, <4>1, LoopKept DEF CoreInv
      <4> QED BY <3>2, <3>3, <4>1, <4>2, LoopTyped DEF CoreInv, TypeOK
    <3> QED BY <3>4, <3>5
  <2>2. CASE finish_finalization
    <3>1. loop.at = "finish" /\ ~ Running /\ completions' = completions
      BY <2>2 DEF finish_finalization, CoreInv, LoopInv
    <3>2. gate' = FALSE /\ loop' = After(loop.kind)
          /\ hookHold' = (hookHold /\ loop.kind # "send_now")
      BY <2>2, <3>1 DEF finish_finalization
    <3>3. loop' \in {Then("flush"), Then("close"), Then("kick")}
      BY <3>2 DEF After
    <3>4. loop' \in Loops /\ loop'.at \in {"flush", "close", "kick"}
      BY <3>3, LoopTyped DEF Awaits
    <3>5. LoopInv' BY <1>2, <3>1, <3>4, LoopLeft
    <3> QED BY <3>1, <3>2, <3>4, <3>5 DEF CoreInv, TypeOK
  <2> QED BY <2>1, <2>2
<1>4. TypeOK' BY <1>1, <1>3 DEF CoreInv, TypeOK, Loops, Awaits, Endings
<1>5. Unrepeated' BY <1>1, UnrepeatedKept DEF CoreInv, Unrepeated
<1>6. InHandler' = InHandler BY <1>3, PlacesKept
<1>7. TextInv' BY <1>1, <1>2, <1>6, TextsKept DEF CoreInv
<1>8. TurnInv' BY <1>1, <1>2, <1>3 DEF CoreInv, TurnInv
<1> QED BY <1>3, <1>4, <1>5, <1>7, <1>8 DEF CoreInv

\* The turn's task is released: its row left the queue before.
LEMMA ReleaseKeeps ==
    ASSUME CoreInv, UNCHANGED scenario, Release
    PROVE  CoreInv'
<1> USE DEF queueVars, bufferVars, slotVars, backVars, senderVars
<1>1. /\ UNCHANGED <<queue, sendNow, fallback, holds, hookHold, epoch, rewindable,
                     committed, buffer, taken, slots, slot, gate, completions, resume,
                     mcp, reported, answer, content>>
      /\ loop.at = "release" /\ loop' = [loop EXCEPT !.at = "finish"]
  BY DEF Release
<1>2. task' = NoTask /\ ~ Running' /\ task'.phase = "none"
  <2>1. task' = release_finalizing_task(loop.bound) BY DEF Release
  <2>2. task' = NoTask
    BY <1>1, <2>1 DEF release_finalizing_task, CoreInv, TurnInv, LoopInv
  <2> QED BY <2>2 DEF NoTask, Running
<1>3. pin' \in Ids \cup {None} BY DEF Release, CoreInv, TypeOK
<1>4. loop' \in Loops /\ loop'.at = "finish"
  BY <1>1, LoopTyped DEF CoreInv, Loops, Awaits
<1>5. TypeOK'
  BY <1>1, <1>2, <1>3, <1>4, LoopTyped DEF CoreInv, TypeOK, Loops, Tasks, Awaits, Endings
<1>6. Unrepeated' BY <1>1, UnrepeatedKept DEF CoreInv, Unrepeated
<1>7. /\ Queued' = Queued /\ Slotted' = {} /\ Buffered' = Buffered /\ InDrain' = InDrain
      /\ InHandler' = {} /\ InHandler = {} /\ Slotted = {}
      /\ Running => task.prompt \notin Queued
  BY <1>1, <1>4, PlacesKept DEF CoreInv, LoopInv
<1>8. TextInv'
  <2>1. \A x \in Ids : Text(x)' BY <1>1, <1>2, <1>7 DEF CoreInv, TextInv, Text
  <2>2. \A m \in Messages : Slot(m)' BY <1>1, <1>7 DEF CoreInv, TextInv, Slot
  <2> QED BY <1>1, <2>1, <2>2 DEF CoreInv, TextInv
<1>9. taken = <<>>
  BY <1>1 DEF CoreInv, LoopInv, TurnInv, Running
<1>10. TurnInv' BY <1>1, <1>2, <1>9 DEF CoreInv, TurnInv
<1>11. LoopInv' BY <1>1, <1>2, <1>4, <1>7 DEF CoreInv, LoopInv
<1> QED BY <1>5, <1>6, <1>8, <1>10, <1>11 DEF CoreInv

-----------------------------------------------------------------------------
(* Steps that take rows off the queue.                                      *)

\* The queue without the rows of S, none of them the running turn's.
LEMMA QueueWithout ==
    ASSUME CoreInv, NEW S, Running => task.prompt \notin S
    PROVE  /\ Drop(queue, S) \in Seq(Ids) /\ IsInjective(Drop(queue, S))
           /\ ToSet(Drop(queue, S)) = Queued \ S
           /\ Running /\ queue # <<>> /\ Head(queue) = task.prompt =>
                Drop(queue, S) # <<>> /\ Head(Drop(queue, S)) = task.prompt
<1>1. queue \in Seq(Ids) /\ IsInjective(queue) BY DEF CoreInv, TypeOK, Unrepeated
<1> QED BY <1>1, DropFacts DEF Queued

LEMMA SendersTyped ==
    ASSUME TypeOK, NEW S, NEW how \in Answers, NEW what \in Contents
    PROVE  /\ Told(S, how) \in [Ids -> Answers] /\ Became(S, what) \in [Ids -> Contents]
           /\ \A x \in Ids :
                /\ Told(S, how)[x] =
                     IF x \in S /\ answer[x] = "waiting" THEN how ELSE answer[x]
                /\ Became(S, what)[x] =
                     IF x \in S /\ content[x] = "live" THEN what ELSE content[x]
BY DEF TypeOK, Told, Became

\* Rows are swept, their senders told, their texts discarded.
LEMMA RowsDiscarded ==
    ASSUME TypeOK, TextInv, NEW S, S \subseteq Queued, Running => task.prompt \notin S,
           Queued' = Queued \ S, answer' = Told(S, "cancelled"),
           content' = Became(S, "discarded"),
           UNCHANGED <<fallback, slots, slot, buffer, taken, resume, task>>,
           InHandler' = InHandler
    PROVE  TextInv'
<1>1. Slotted' = Slotted /\ Buffered' = Buffered /\ InDrain' = InDrain
      /\ Running' = Running /\ Binding(task)' = Binding(task)
  BY PlacesKept
<1>2. \A x \in Ids :
        /\ answer'[x] = IF x \in S /\ answer[x] = "waiting" THEN "cancelled" ELSE answer[x]
        /\ content'[x] = IF x \in S /\ content[x] = "live" THEN "discarded" ELSE content[x]
  BY SendersTyped DEF Answers, Contents
<1>3. ASSUME NEW x \in Ids PROVE Text(x)'
  <2>1. Text(x) BY DEF TextInv
  <2>2. CASE x \in S
    <3>1. x \in Queued /\ content[x] = "live" /\ x \notin Queued'
      BY <2>1, <2>2 DEF Text
    <3>2. content'[x] = "discarded" /\ answer'[x] # "waiting" BY <1>2, <2>2, <3>1
    <3>3. x \notin Slotted \cup Buffered \cup InDrain \cup InHandler
      BY <2>1, <3>1 DEF Text
    <3> QED BY <1>1, <3>1, <3>2, <3>3 DEF Text
  <2>3. CASE x \notin S
    <3>1. answer'[x] = answer[x] /\ content'[x] = content[x] BY <1>2, <2>3
    <3>2. x \in Queued' <=> x \in Queued BY <2>3
    <3> QED BY <1>1, <2>1, <3>1, <3>2 DEF Text
  <2> QED BY <2>2, <2>3
<1>4. ASSUME NEW m \in Messages PROVE Slot(m)'
  <2>1. Slot(m) /\ Text(m) /\ m \in Ids BY Kinds DEF TextInv
  <2>2. m \in Slotted => m \notin S BY <2>1 DEF Text
  <2>3. answer'[m] = "completed" => answer[m] = "completed" BY <1>2, <2>1
  <2>4. content[m] # "live" => content'[m] = content[m] BY <1>2, <2>1
  <2>5. m \in Slotted => content'[m] = content[m] BY <1>2, <2>1, <2>2
  <2> QED BY <1>1, <2>1, <2>3, <2>4, <2>5 DEF Slot
<1>5. ASSUME NEW r \in Resumes, resume'[r] = "parked" PROVE content'[r] = "unsent"
  <2>1. content[r] = "unsent" /\ r \in Ids BY <1>5, Kinds DEF TextInv
  <2> QED BY <1>2, <2>1
<1> QED BY <1>3, <1>4, <1>5 DEF TextInv

\* A client removes one row or all; a result the model has read drops its wake.
LEMMA SweepsKeep ==
    ASSUME CoreInv, UNCHANGED scenario,
           \/ \E p \in Prompts : handle_remove_queued_prompt(p)
           \/ handle_clear_queue
           \/ \E w \in Wakes : drop_pending_items_for_consumed_completions(w)
    PROVE  CoreInv'
<1> USE DEF Others, turnVars, bufferVars, slotVars, backVars, senderVars, Rest
<1>1. /\ UNCHANGED <<sendNow, fallback, task, epoch, rewindable, committed, pin,
                     buffer, taken, slots, slot, gate, completions, resume, mcp>>
      /\ holds' \in [Prompts -> {"none", "live", "expired"}]
      /\ hookHold' \in BOOLEAN /\ reported' \subseteq Wakes
      /\ loop' = loop \/ (loop.at = "idle" /\ loop' = Then("kick"))
  BY DEF CoreInv, TypeOK, handle_remove_queued_prompt, handle_clear_queue,
         drop_pending_items_for_consumed_completions, MayIssue, AtIdle
<1>2. PICK S : /\ S \subseteq Queued /\ (Running => task.prompt \notin S)
               /\ queue' = Drop(queue, S)
               /\ answer' = Told(S, "cancelled") /\ content' = Became(S, "discarded")
  <2>1. ASSUME NEW p \in Prompts, handle_remove_queued_prompt(p)
        PROVE  /\ {p} \subseteq Queued /\ (Running => task.prompt \notin {p})
               /\ queue' = Drop(queue, {p})
               /\ answer' = Told({p}, "cancelled") /\ content' = Became({p}, "discarded")
    BY <2>1 DEF handle_remove_queued_prompt, InQueue, Queued
  <2>2. ASSUME handle_clear_queue
        PROVE  \E S : /\ S \subseteq Queued /\ (Running => task.prompt \notin S)
                      /\ queue' = Drop(queue, S)
                      /\ answer' = Told(S, "cancelled")
                      /\ content' = Became(S, "discarded")
    <3> DEFINE gone == {p \in ToSet(queue) : is_queue_editable(p) /\ task.prompt # p}
    <3>1. /\ queue' = Drop(queue, gone) /\ answer' = Told(gone, "cancelled")
          /\ content' = Became(gone, "discarded")
      BY <2>2 DEF handle_clear_queue
    <3>2. gone \subseteq Queued /\ task.prompt \notin gone BY DEF Queued
    <3> HIDE DEF gone
    <3> QED BY <3>1, <3>2
  <2>3. ASSUME NEW w \in Wakes, drop_pending_items_for_consumed_completions(w)
        PROVE  \E S : /\ S \subseteq Queued /\ (Running => task.prompt \notin S)
                      /\ queue' = Drop(queue, S)
                      /\ answer' = Told(S, "cancelled")
                      /\ content' = Became(S, "discarded")
    <3> DEFINE gone == sweep_pending_inputs({w})
    <3>1. /\ queue' = Drop(queue, gone) /\ answer' = Told(gone, "cancelled")
          /\ content' = Became(gone, "discarded")
      BY <2>3 DEF drop_pending_items_for_consumed_completions
    <3>2. gone \subseteq Queued /\ task.prompt \notin gone
      BY DEF Queued, sweep_pending_inputs
    <3> HIDE DEF gone
    <3> QED BY <3>1, <3>2
  <2> QED BY <2>1, <2>2, <2>3
<1>3. /\ queue' \in Seq(Ids) /\ IsInjective(queue') /\ Queued' = Queued \ S
      /\ Running /\ queue # <<>> /\ Head(queue) = task.prompt =>
           queue' # <<>> /\ Head(queue') = task.prompt
  BY <1>2, QueueWithout DEF Queued
<1>4. loop' \in Loops /\ (loop' = loop \/ (loop.at = "idle" /\ loop'.at = "kick"))
  BY <1>1, LoopTyped DEF CoreInv, Awaits
<1>5. /\ answer' \in [Ids -> Answers] /\ content' \in [Ids -> Contents]
      /\ \A x \in Ids : content'[x] = content[x] \/ content'[x] = "discarded"
  BY <1>2, SendersTyped DEF CoreInv, Answers, Contents
<1>6. TypeOK' BY <1>1, <1>3, <1>4, <1>5 DEF CoreInv, TypeOK, Loops, Awaits, Endings
<1>7. Unrepeated' BY <1>1, <1>3, UnrepeatedKept DEF CoreInv
<1>8. InHandler' = InHandler BY <1>4, PlacesKept
<1>9. /\ Running' = Running /\ Binding(task)' = Binding(task) /\ task' = task
  BY <1>1, PlacesKept
<1>10. TextInv' BY <1>1, <1>2, <1>3, <1>8, RowsDiscarded DEF CoreInv
<1>11. TurnInv'
  <2>1. Running => task.prompt \in Ids BY DEF CoreInv, TurnInv
  <2> QED BY <1>1, <1>5, <2>1, TurnKept DEF CoreInv
<1>12. LoopInv'
  <2>1. CASE loop' = loop BY <1>1, <1>3, <1>9, <2>1, LoopKept DEF CoreInv
  <2>2. CASE loop.at = "idle" /\ loop'.at = "kick"
    BY <1>3, <1>9, <2>2, LoopLeft DEF CoreInv, LoopInv
  <2> QED BY <1>4, <2>1, <2>2
<1> QED BY <1>6, <1>7, <1>10, <1>11, <1>12 DEF CoreInv

\* A client reorders the rows.
LEMMA ReorderKeeps ==
    ASSUME CoreInv, UNCHANGED scenario, handle_reorder_queue
    PROVE  CoreInv'
<1> USE DEF Others, turnVars, bufferVars, slotVars, backVars, senderVars
<1>1. /\ UNCHANGED <<sendNow, fallback, holds, task, epoch, rewindable, committed, pin,
                     buffer, taken, slots, slot, gate, completions, resume, mcp,
                     reported, answer, content>>
      /\ hookHold' = FALSE /\ loop.at = "idle" /\ loop' = Then("kick")
  BY DEF handle_reorder_queue, MayIssue, AtIdle
<1>2. /\ queue' \in Seq(Ids) /\ Queued' = Queued /\ IsInjective(queue')
      /\ queue # <<>> /\ Head(queue) = task.prompt =>
           queue' # <<>> /\ Head(queue') = task.prompt
  <2>1. queue \in Seq(Ids) /\ IsInjective(queue) BY DEF CoreInv, TypeOK, Unrepeated
  <2>2. /\ queue' \in Seq(Ids) /\ ToSet(queue') = ToSet(queue)
        /\ IsInjective(queue) => IsInjective(queue')
        /\ queue # <<>> /\ Head(queue) = task.prompt =>
             queue' # <<>> /\ Head(queue') = Head(queue)
    BY <2>1, ReorderFacts
  <2> QED BY <2>1, <2>2 DEF Queued
<1>3. loop' \in Loops /\ loop'.at = "kick" BY <1>1, LoopTyped DEF Awaits
<1>4. TypeOK' BY <1>1, <1>2, <1>3 DEF CoreInv, TypeOK, Loops, Awaits, Endings
<1>5. Unrepeated' BY <1>1, <1>2, UnrepeatedKept DEF CoreInv
<1>6. /\ Running' = Running /\ Binding(task)' = Binding(task) /\ InHandler' = InHandler
      /\ Slotted' = Slotted /\ Buffered' = Buffered /\ InDrain' = InDrain
  BY <1>1, <1>3, PlacesKept
<1>7. TextInv'
  <2>1. \A x \in Ids : Text(x)' BY <1>1, <1>2, <1>6 DEF CoreInv, TextInv, Text
  <2>2. \A m \in Messages : Slot(m)' BY <1>1, <1>6 DEF CoreInv, TextInv, Slot
  <2> QED BY <1>1, <2>1, <2>2 DEF CoreInv, TextInv
<1>8. TurnInv' BY <1>1, TurnKept DEF CoreInv
<1>9. LoopInv' BY <1>1, <1>2, <1>3, <1>6, LoopLeft DEF CoreInv, LoopInv
<1> QED BY <1>4, <1>5, <1>7, <1>8, <1>9 DEF CoreInv

-----------------------------------------------------------------------------
(* Steps that bring a text.                                                 *)

\* A step leaves the text y where it is and as it is.
Same(y) ==
  /\ y \in Queued' <=> y \in Queued
  /\ y \in Slotted' <=> y \in Slotted
  /\ y \in Buffered' <=> y \in Buffered
  /\ y \in InDrain' <=> y \in InDrain
  /\ y \in InHandler' <=> y \in InHandler
  /\ content'[y] = content[y] /\ answer'[y] = answer[y]
  /\ y \in fallback => y \in fallback'
  /\ y \in Messages => slot'[y] = slot[y]

LEMMA SameKept ==
    ASSUME TextInv, NEW y \in Ids, Same(y),
           Running' = Running, task'.prompt = task.prompt,
           Binding(task)' = Binding(task),
           task.phase \in {"barrier", "aborted"} => task'.phase \in {"barrier", "aborted"}
    PROVE  Text(y)' /\ (y \in Messages => Slot(y)')
<1>1. Text(y)' BY DEF TextInv, Text, Same
<1>2. y \in Messages => Slot(y)' BY DEF TextInv, Slot, Same
<1> QED BY <1>1, <1>2

\* A text not sent yet is nowhere, and is not the running turn's.
LEMMA UnsentNowhere ==
    ASSUME CoreInv, NEW x \in Ids, content[x] = "unsent"
    PROVE  /\ x \notin Queued /\ x \notin Slotted /\ x \notin Buffered
           /\ x \notin InDrain /\ x \notin InHandler
           /\ answer[x] # "waiting"
           /\ answer[x] = "completed" => x \notin Messages
           /\ Running => x # task.prompt
<1>1. Text(x) /\ (x \in Messages => Slot(x)) BY DEF CoreInv, TextInv
<1>2. Slotted \subseteq Messages BY Placed DEF CoreInv
<1>3. x \notin Slotted BY <1>1, <1>2 DEF Slot
<1> QED BY <1>1, <1>3 DEF Text, Slot, CoreInv, TurnInv

\* The text x arrives at one place, and the rest stays as it is.
LEMMA TextArrives ==
    ASSUME CoreInv, NEW x \in Ids, content[x] = "unsent",
           content' = [content EXCEPT ![x] = "live"],
           UNCHANGED <<task, epoch, committed, taken, completions>>,
           answer' = answer \/ answer' = [answer EXCEPT ![x] = "waiting"],
           \A y \in Ids : y # x => Same(y),
           resume' = resume \/ resume' = [resume EXCEPT ![x] = "queued"],
           Text(x)', x \in Messages => Slot(x)',
           x \in Resumes => resume'[x] # "parked"
    PROVE  TextInv' /\ TurnInv'
<1>1. Running' = Running /\ Binding(task)' = Binding(task) BY PlacesKept
<1>2. TextInv'
  <2>1. \A y \in Ids : y # x => Text(y)' /\ (y \in Messages => Slot(y)')
    BY <1>1, SameKept DEF CoreInv
  <2>2. ASSUME NEW r \in Resumes, resume'[r] = "parked" PROVE content'[r] = "unsent"
    <3>1. r # x /\ r \in Ids BY <2>2, Kinds
    <3>2. resume[r] = "parked" BY <2>2, <3>1 DEF CoreInv, TypeOK
    <3> QED BY <3>1, <3>2 DEF CoreInv, TextInv, TypeOK
  <2> QED BY <2>1, <2>2, Kinds DEF TextInv
<1>3. TurnInv'
  <2>1. Running => content'[task.prompt] = content[task.prompt]
    BY UnsentNowhere DEF CoreInv, TurnInv, TypeOK
  <2> QED BY <2>1, TurnKept DEF CoreInv
<1> QED BY <1>2, <1>3

\* A client's prompt or a wake reaches the handler.
LEMMA ReceiveKeeps ==
    ASSUME CoreInv, UNCHANGED scenario, NEW p \in Prompts \cup Wakes, NEW now \in BOOLEAN,
           ReceivePrompt(p, now)
    PROVE  CoreInv'
<1> USE DEF queueVars, turnVars, bufferVars, slotVars, backVars
<1>1. /\ UNCHANGED <<queue, sendNow, fallback, holds, task, epoch, rewindable, committed,
                     pin, buffer, taken, slots, slot, gate, completions, resume, mcp,
                     reported>>
      /\ loop.at = "idle" /\ content[p] = "unsent"
      /\ answer' = [answer EXCEPT ![p] = "waiting"]
      /\ content' = [content EXCEPT ![p] = "live"]
  BY DEF ReceivePrompt, AtIdle, Submit
<1>2. p \in Ids BY Kinds
<1>3. loop' \in Loops /\ loop'.at = "queue" /\ loop'.prompt = p
  <2>1. loop' = Loop("queue", p, "send_now", NoBound) \/ loop' = Loop("queue", p, "none", NoBound)
    BY DEF ReceivePrompt
  <2>2. "queue" \in Awaits /\ "send_now" \in Endings /\ "none" \in Endings
    BY DEF Awaits, Endings
  <2>3. NoBound \in Bindings BY LoopTyped
  <2>4. p \in Ids \cup {None} BY <1>2
  <2> QED BY <2>1, <2>2, <2>3, <2>4, LoopMade
<1>4. hookHold' \in BOOLEAN BY DEF CoreInv, TypeOK, ReceivePrompt
<1>5. TypeOK'
  BY <1>1, <1>2, <1>3, <1>4
     DEF CoreInv, TypeOK, Loops, Awaits, Endings, Answers, Contents
<1>6. Unrepeated' BY <1>1, UnrepeatedKept DEF CoreInv, Unrepeated
<1>7. /\ Queued' = Queued /\ Slotted' = Slotted /\ Buffered' = Buffered
      /\ InDrain' = InDrain /\ InHandler = {} /\ InHandler' = {p}
      /\ Running' = Running /\ Binding(task)' = Binding(task)
  BY <1>1, <1>3, PlacesKept DEF InHandler
<1>8. TextInv' /\ TurnInv'
  <2>1. ASSUME NEW y \in Ids, y # p PROVE Same(y)
    <3>1. content'[y] = content[y] /\ answer'[y] = answer[y]
      BY <1>1, <1>2, <2>1 DEF CoreInv, TypeOK
    <3> QED BY <1>1, <1>7, <2>1, <3>1 DEF Same
  <2>2. content'[p] = "live" /\ answer'[p] = "waiting"
    BY <1>1, <1>2 DEF CoreInv, TypeOK
  <2>3. Text(p)' BY <1>1, <1>2, <1>7, <2>2, UnsentNowhere DEF Text
  <2>4. p \notin Messages /\ p \notin Resumes BY Kinds
  <2> QED BY <1>1, <1>2, <2>1, <2>3, <2>4, TextArrives
<1>9. LoopInv' BY <1>1, <1>3, <1>7 DEF CoreInv, LoopInv
<1> QED BY <1>5, <1>6, <1>8, <1>9 DEF CoreInv

\* A resumed plan approval queues its row.
LEMMA ResumeKeeps ==
    ASSUME CoreInv, UNCHANGED scenario, NEW r \in Resumes, start_resume_turn(r)
    PROVE  CoreInv'
<1> USE DEF turnVars, bufferVars, slotVars
<1>1. /\ UNCHANGED <<sendNow, fallback, holds, hookHold, task, epoch, rewindable,
                     committed, pin, buffer, taken, slots, slot, loop, gate, completions,
                     mcp, reported, answer>>
      /\ resume[r] = "parked" /\ resume' = [resume EXCEPT ![r] = "queued"]
      /\ queue' = Append(queue, r) /\ content' = [content EXCEPT ![r] = "live"]
  BY DEF start_resume_turn
<1>2. r \in Ids /\ content[r] = "unsent" BY <1>1, Kinds DEF CoreInv, TextInv
<1>3. /\ queue' \in Seq(Ids) /\ Queued' = Queued \cup {r} /\ IsInjective(queue')
      /\ queue # <<>> => queue' # <<>> /\ Head(queue') = Head(queue)
  <2>1. queue \in Seq(Ids) /\ IsInjective(queue) BY DEF CoreInv, TypeOK, Unrepeated
  <2>2. r \notin ToSet(queue) BY <1>2, UnsentNowhere DEF Queued
  <2> QED BY <1>1, <1>2, <2>1, <2>2, AppendFacts DEF Queued
<1>4. TypeOK' BY <1>1, <1>2, <1>3 DEF CoreInv, TypeOK, Contents
<1>5. Unrepeated' BY <1>1, <1>3, UnrepeatedKept DEF CoreInv
<1>6. /\ Slotted' = Slotted /\ Buffered' = Buffered /\ InDrain' = InDrain
      /\ InHandler' = InHandler /\ Running' = Running
      /\ Binding(task)' = Binding(task) /\ task' = task
  BY <1>1, PlacesKept
<1>7. TextInv' /\ TurnInv'
  <2>1. ASSUME NEW y \in Ids, y # r PROVE Same(y)
    <3>1. content'[y] = content[y] BY <1>1, <1>2, <2>1 DEF CoreInv, TypeOK
    <3> QED BY <1>1, <1>3, <1>6, <2>1, <3>1 DEF Same
  <2>2. content'[r] = "live" /\ answer'[r] = answer[r] /\ resume'[r] = "queued"
    BY <1>1, <1>2 DEF CoreInv, TypeOK
  <2>3. r \notin Messages /\ r \notin Prompts \cup Messages \cup Wakes BY Kinds
  <2>4. Text(r)' BY <1>2, <1>3, <1>6, <2>2, <2>3, UnsentNowhere DEF Text
  <2> QED BY <1>1, <1>2, <2>1, <2>2, <2>3, <2>4, TextArrives
<1>8. LoopInv'
  <2>1. Running => task.prompt # r BY <1>2, UnsentNowhere
  <2> QED BY <1>1, <1>3, <1>6, <2>1, LoopKept DEF CoreInv
<1> QED BY <1>4, <1>5, <1>7, <1>8 DEF CoreInv

\* A message of the parent is refused, becomes a row, or steers the turn.
LEMMA AdmitKeeps ==
    ASSUME CoreInv, UNCHANGED scenario, NEW m \in Messages, NEW op,
           admit_parent_agent_message(m, op)
    PROVE  CoreInv'
<1> USE DEF turnVars, bufferVars, slotVars, backVars
<1>1. /\ UNCHANGED <<sendNow, fallback, holds, hookHold, task, epoch, rewindable,
                     committed, pin, buffer, taken, gate, completions, resume, mcp,
                     reported>>
      /\ loop.at = "idle" /\ m \notin Slotted /\ m \notin Queued
  BY DEF admit_parent_agent_message, AtIdle, Duplicate, InQueue, Slotted, Queued
<1>2. m \in Ids /\ content[m] = "unsent"
  <2>1. m \in Ids BY Kinds
  <2>2. answer[m] # "waiting" BY <1>1, <2>1, PlacesKept DEF CoreInv, TextInv, Text
  <2> QED BY <2>1, <2>2 DEF admit_parent_agent_message
<1>3. /\ Buffered' = Buffered /\ InDrain' = InDrain /\ Running' = Running
      /\ Binding(task)' = Binding(task) /\ InHandler = {} /\ task' = task
  BY <1>1, PlacesKept
<1>4. /\ queue \in Seq(Ids) /\ IsInjective(queue)
      /\ slots \in Seq(Messages) /\ IsInjective(slots)
  BY DEF CoreInv, TypeOK, Unrepeated
<1>5. CASE op = "steer" /\ Running /\ SlotsFull
  <2>1. /\ answer' = [answer EXCEPT ![m] = "cancelled"]
        /\ content' = [content EXCEPT ![m] = "discarded"]
        /\ UNCHANGED <<queue, slots, slot, loop>>
    BY <1>5 DEF admit_parent_agent_message
  <2>2. TypeOK' BY <1>1, <1>2, <2>1 DEF CoreInv, TypeOK, Answers, Contents
  <2>3. Unrepeated' BY <1>1, <2>1, UnrepeatedKept DEF CoreInv, Unrepeated
  <2>4. Queued' = Queued /\ Slotted' = Slotted /\ InHandler' = InHandler
    BY <2>1, PlacesKept
  <2>5. TextInv'
    <3>1. ASSUME NEW y \in Ids, y # m PROVE Text(y)' /\ (y \in Messages => Slot(y)')
      <4>1. content'[y] = content[y] /\ answer'[y] = answer[y]
        BY <2>1, <3>1 DEF CoreInv, TypeOK
      <4>2. Same(y) BY <1>1, <1>3, <2>1, <2>4, <4>1 DEF Same
      <4> QED BY <1>3, <4>2, SameKept DEF CoreInv
    <3>2. content'[m] = "discarded" /\ answer'[m] = "cancelled"
      BY <1>2, <2>1 DEF CoreInv, TypeOK
    <3>3. Text(m)' /\ Slot(m)'
      BY <1>2, <1>3, <2>4, <3>2, UnsentNowhere DEF Text, Slot
    <3>4. ASSUME NEW r \in Resumes, resume'[r] = "parked" PROVE content'[r] = "unsent"
      <4>1. r # m /\ r \in Ids /\ resume[r] = "parked" BY <1>1, <3>4, Kinds
      <4> QED BY <2>1, <4>1 DEF CoreInv, TextInv, TypeOK
    <3> QED BY <3>1, <3>3, <3>4, Kinds DEF TextInv
  <2>6. TurnInv'
    <3>1. Running => content'[task.prompt] = content[task.prompt]
      BY <1>2, <2>1, UnsentNowhere DEF CoreInv, TurnInv, TypeOK
    <3> QED BY <1>1, <3>1, TurnKept DEF CoreInv
  <2>7. LoopInv' BY <1>1, <1>3, <2>1, <2>4, LoopKept DEF CoreInv
  <2> QED BY <2>2, <2>3, <2>5, <2>6, <2>7 DEF CoreInv
<1>6. CASE ~ (op = "steer" /\ Running /\ SlotsFull)
  <2>1. /\ answer' = [answer EXCEPT ![m] = "waiting"]
        /\ content' = [content EXCEPT ![m] = "live"]
        /\ loop' = Then("kick")
        /\ \/ /\ Running /\ ~ SlotsFull
              /\ slots' = Append(slots, m) /\ queue' = queue
              /\ slot' = [slot EXCEPT ![m] = [state |-> "pending", bind |-> Binding(task)]]
           \/ queue' = Append(queue, m) /\ slots' = slots /\ slot' = slot
    BY <1>6 DEF admit_parent_agent_message, Submit
  <2>2. loop' \in Loops /\ loop'.at = "kick" /\ InHandler' = {}
    BY <2>1, LoopTyped, PlacesKept DEF Awaits
  <2>3. /\ queue' \in Seq(Ids) /\ IsInjective(queue')
        /\ slots' \in Seq(Messages) /\ IsInjective(slots') /\ Len(slots') <= MaxSteers
        /\ queue # <<>> => queue' # <<>> /\ Head(queue') = Head(queue)
        /\ slot' \in [Messages -> [state : {"none", "pending", "projecting", "delivered"},
                                   bind : Bindings]]
        /\ \A y \in Messages : y # m => slot'[y] = slot[y]
        /\ \/ /\ Queued' = Queued /\ Slotted' = Slotted \cup {m}
              /\ Running /\ slot'[m] = [state |-> "pending", bind |-> Binding(task)]
           \/ Queued' = Queued \cup {m} /\ Slotted' = Slotted
    <3>1. CASE /\ Running /\ ~ SlotsFull
               /\ slots' = Append(slots, m) /\ queue' = queue
               /\ slot' = [slot EXCEPT ![m] = [state |-> "pending", bind |-> Binding(task)]]
      <4>1. /\ slots' \in Seq(Messages) /\ Len(slots') = Len(slots) + 1
            /\ ToSet(slots') = ToSet(slots) \cup {m} /\ IsInjective(slots')
        BY <1>1, <1>4, <3>1, AppendFacts DEF Slotted
      <4>2. Len(slots') <= MaxSteers
        <5>1. Len(slots) \in Nat /\ MaxSteers \in Nat /\ ~ (Len(slots) >= MaxSteers)
          BY <1>4, <3>1, LenProperties, IdsAssumption DEF SlotsFull
        <5> QED BY <4>1, <5>1
      <4>3. /\ slot' \in [Messages -> [state : {"none", "pending", "projecting", "delivered"},
                                       bind : Bindings]]
            /\ slot'[m] = [state |-> "pending", bind |-> Binding(task)]
            /\ \A y \in Messages : y # m => slot'[y] = slot[y]
        BY <3>1, LoopTyped DEF CoreInv, TypeOK
      <4>4. Queued' = Queued /\ Slotted' = Slotted \cup {m}
        BY <3>1, <4>1, PlacesKept DEF Slotted
      <4> QED BY <1>4, <3>1, <4>1, <4>2, <4>3, <4>4
    <3>2. CASE queue' = Append(queue, m) /\ slots' = slots /\ slot' = slot
      <4>1. /\ queue' \in Seq(Ids) /\ ToSet(queue') = ToSet(queue) \cup {m}
            /\ IsInjective(queue')
            /\ queue # <<>> => queue' # <<>> /\ Head(queue') = Head(queue)
        BY <1>1, <1>2, <1>4, <3>2, AppendFacts DEF Queued
      <4>2. Slotted' = Slotted BY <3>2, PlacesKept
      <4> QED BY <1>4, <3>2, <4>1, <4>2 DEF Queued, CoreInv, TypeOK
    <3> QED BY <2>1, <3>1, <3>2
  <2>4. TypeOK'
    BY <1>1, <1>2, <2>1, <2>2, <2>3
       DEF CoreInv, TypeOK, Loops, Awaits, Endings, Answers, Contents
  <2>5. Unrepeated' BY <1>1, <2>3, PlacesKept DEF CoreInv, Unrepeated
  <2>6. TextInv' /\ TurnInv'
    <3>1. ASSUME NEW y \in Ids, y # m PROVE Same(y)
      <4>1. content'[y] = content[y] /\ answer'[y] = answer[y]
        BY <2>1, <3>1 DEF CoreInv, TypeOK
      <4> QED BY <1>1, <1>3, <2>2, <2>3, <3>1, <4>1 DEF Same
    <3>2. content'[m] = "live" /\ answer'[m] = "waiting"
      BY <1>2, <2>1 DEF CoreInv, TypeOK
    <3>3. Text(m)' BY <1>2, <1>3, <2>2, <2>3, <3>2, UnsentNowhere DEF Text
    <3>4. Slot(m)' BY <1>2, <1>3, <2>3, <3>2, UnsentNowhere DEF Slot
    <3> QED BY <1>1, <1>2, <2>1, <3>1, <3>3, <3>4, TextArrives, Kinds
  <2>7. LoopInv' BY <1>1, <1>3, <2>2, <2>3, LoopLeft DEF CoreInv, LoopInv
  <2> QED BY <2>4, <2>5, <2>6, <2>7 DEF CoreInv
<1> QED BY <1>5, <1>6

\* A row put next: behind the running front, where there is one.
LEMMA RowRunsNext ==
    ASSUME NEW q \in Seq(Ids), IsInjective(q), NEW p \in Ids, p \notin ToSet(q)
    PROVE  /\ InsertAt(q, send_now_insert_index(q), p) \in Seq(Ids)
           /\ ToSet(InsertAt(q, send_now_insert_index(q), p)) = ToSet(q) \cup {p}
           /\ IsInjective(InsertAt(q, send_now_insert_index(q), p))
           /\ Running /\ q # <<>> /\ Head(q) = task.prompt =>
                /\ InsertAt(q, send_now_insert_index(q), p) # <<>>
                /\ Head(InsertAt(q, send_now_insert_index(q), p)) = task.prompt
<1> DEFINE i == send_now_insert_index(q)
<1>1. /\ i \in 1 .. Len(q) + 1
      /\ Running /\ q # <<>> /\ Head(q) = task.prompt => i # 1
  <2>1. /\ InsertIndex(q) \in 1 .. Len(q) + 1
        /\ i \in InsertIndex(q) .. Len(q) + 1
        /\ q # <<>> /\ Running /\ Head(q) = task.prompt => i # 1
    BY InsertIndexFacts
  <2>2. Len(q) \in Nat BY LenProperties
  <2> HIDE DEF i
  <2> QED BY <2>1, <2>2
<1> HIDE DEF i
<1>2. /\ InsertAt(q, i, p) \in Seq(Ids) /\ ToSet(InsertAt(q, i, p)) = ToSet(q) \cup {p}
      /\ IsInjective(InsertAt(q, i, p))
      /\ i # 1 => InsertAt(q, i, p) # <<>> /\ Head(InsertAt(q, i, p)) = Head(q)
  BY <1>1, InsertAtFacts
<1> QED BY <1>1, <1>2 DEF i

LEMMA FallbacksRunNext ==
    ASSUME NEW q \in Seq(Ids), IsInjective(q), NEW e \in Seq(Ids), IsInjective(e),
           ToSet(q) \cap ToSet(e) = {}
    PROVE  /\ InsertFallbacks(q, e) \in Seq(Ids)
           /\ ToSet(InsertFallbacks(q, e)) = ToSet(q) \cup ToSet(e)
           /\ IsInjective(InsertFallbacks(q, e))
           /\ Running /\ q # <<>> /\ Head(q) = task.prompt =>
                InsertFallbacks(q, e) # <<>> /\ Head(InsertFallbacks(q, e)) = task.prompt
<1> DEFINE i == InsertIndex(q)
<1>1. /\ i \in 1 .. Len(q) + 1
      /\ Running /\ q # <<>> /\ Head(q) = task.prompt => i # 1
  BY InsertIndexFacts
<1>2. InsertFallbacks(q, e) = Inserted(q, i, e) BY DEF InsertFallbacks, Inserted
<1> HIDE DEF i
<1>3. /\ Inserted(q, i, e) \in Seq(Ids)
      /\ ToSet(Inserted(q, i, e)) = ToSet(q) \cup ToSet(e)
      /\ IsInjective(Inserted(q, i, e))
      /\ i # 1 => Inserted(q, i, e) # <<>> /\ Head(Inserted(q, i, e)) = Head(q)
  BY <1>1, InsertedFacts
<1> QED BY <1>1, <1>2, <1>3

\* Where a send-now cancels the turn, the turn's prompt was recorded.
LEMMA CancelsRecorded ==
    ASSUME CoreInv, send_now_cancels_running_turn, loop.at \notin {"release", "closed"}
    PROVE  Running /\ committed = TRUE
<1>1. Running /\ ~ front_awaiting_commit BY DEF send_now_cancels_running_turn
<1>2. FrontRow = task.prompt BY <1>1 DEF CoreInv, LoopInv, FrontRow
<1>3. committed \in BOOLEAN BY DEF CoreInv, TypeOK
<1> QED BY <1>1, <1>2, <1>3 DEF front_awaiting_commit

\* The handler queues the prompt it holds, over the runtime wakes it drops.
LEMMA QueueInputKeeps ==
    ASSUME CoreInv, UNCHANGED scenario, queue_input
    PROVE  CoreInv'
<1> USE DEF turnVars, bufferVars, slotVars, backVars
<1> DEFINE p == loop.prompt
<1>1. /\ UNCHANGED <<fallback, holds, hookHold, task, epoch, rewindable, committed, pin,
                     buffer, taken, slots, slot, gate, completions, resume, mcp, reported>>
      /\ loop.at = "queue"
  BY DEF queue_input
<1>2. /\ p \in Prompts \cup Wakes /\ p \in Ids /\ InHandler = {p} /\ p \notin Queued
      /\ content[p] = "live" /\ answer[p] = "waiting"
  <2>1. p \in Prompts \cup Wakes BY <1>1 DEF CoreInv, LoopInv
  <2>2. p \in Ids /\ InHandler = {p} BY <1>1, <2>1, Kinds DEF InHandler
  <2>3. Text(p) /\ p \in InHandler BY <2>2 DEF CoreInv, TextInv
  <2> HIDE DEF p
  <2> QED BY <2>1, <2>2, <2>3 DEF Text
<1>3. PICK S \in SUBSET Queued, now \in BOOLEAN :
        /\ task.prompt \notin S
        /\ queue' = IF now THEN InsertAt(Drop(queue, S),
                                         send_now_insert_index(Drop(queue, S)), p)
                    ELSE Append(Drop(queue, S), p)
        /\ sendNow' = IF now THEN sendNow \cup {p} ELSE sendNow
        /\ answer' = Told(S, "cancelled") /\ content' = Became(S, "discarded")
        /\ loop' = IF now /\ send_now_cancels_running_turn THEN Then("send_now")
                   ELSE Then("kick")
  <2>1. PICK wait \in BOOLEAN :
       LET human == p \in Prompts
           swept == IF human /\ sweep_pending_inputs(Wakes) # {}
                      THEN sweep_pending_inputs(Wakes \cup Resumes) ELSE {}
           q == Drop(queue, swept)
           held == \E r \in ToSet(q) : ~is_preemptible_runtime_wake(r) /\ r # task.prompt
           now == human /\ (loop.kind = "send_now" \/ (wait /\ ~held)) IN
       /\ queue' = IF now THEN InsertAt(q, send_now_insert_index(q), p) ELSE Append(q, p)
       /\ sendNow' = IF now THEN sendNow \cup {p} ELSE sendNow
       /\ answer' = Told(swept, "cancelled")
       /\ content' = Became(swept, "discarded")
       /\ loop' = IF now /\ send_now_cancels_running_turn THEN Then("send_now") ELSE Then("kick")
    BY DEF queue_input
  <2> DEFINE human == p \in Prompts
             swept == IF human /\ sweep_pending_inputs(Wakes) # {}
                        THEN sweep_pending_inputs(Wakes \cup Resumes) ELSE {}
             q == Drop(queue, swept)
             held == \E r \in ToSet(q) : ~is_preemptible_runtime_wake(r) /\ r # task.prompt
             now == human /\ (loop.kind = "send_now" \/ (wait /\ ~held))
  <2>2. swept \subseteq Queued /\ task.prompt \notin swept
    BY DEF sweep_pending_inputs, Queued
  <2>3. /\ queue' = IF now THEN InsertAt(q, send_now_insert_index(q), p) ELSE Append(q, p)
        /\ sendNow' = IF now THEN sendNow \cup {p} ELSE sendNow
        /\ answer' = Told(swept, "cancelled") /\ content' = Became(swept, "discarded")
        /\ loop' = IF now /\ send_now_cancels_running_turn THEN Then("send_now")
                   ELSE Then("kick")
    BY <2>1
  <2>4. now \in BOOLEAN OBVIOUS
  <2> HIDE DEF p, swept, now
  <2> QED BY <2>2, <2>3, <2>4
<1> HIDE DEF p
<1> DEFINE q == Drop(queue, S)
<1>4. /\ q \in Seq(Ids) /\ IsInjective(q) /\ ToSet(q) = Queued \ S
      /\ Running /\ queue # <<>> /\ Head(queue) = task.prompt =>
           q # <<>> /\ Head(q) = task.prompt
  BY <1>3, QueueWithout
<1>5. /\ queue' \in Seq(Ids) /\ IsInjective(queue') /\ Queued' = (Queued \ S) \cup {p}
      /\ Running => queue' # <<>> /\ Head(queue') = task.prompt
  <2>1. Running => q # <<>> /\ Head(q) = task.prompt
    BY <1>1, <1>4 DEF CoreInv, LoopInv
  <2>2. queue' = InsertAt(q, send_now_insert_index(q), p) \/ queue' = Append(q, p)
    BY <1>3
  <2>3. p \notin ToSet(q) BY <1>2, <1>4
  <2> HIDE DEF q
  <2>4. CASE queue' = InsertAt(q, send_now_insert_index(q), p)
    BY <1>2, <1>4, <2>1, <2>3, <2>4, RowRunsNext DEF Queued
  <2>5. CASE queue' = Append(q, p)
    BY <1>2, <1>4, <2>1, <2>3, <2>5, AppendFacts DEF Queued
  <2> QED BY <2>2, <2>4, <2>5
<1>6. /\ loop' \in Loops /\ loop'.at \in {"send_now", "kick"} /\ InHandler' = {}
      /\ loop'.at = "send_now" => send_now_cancels_running_turn
  BY <1>3, LoopTyped, PlacesKept DEF Awaits
<1>7. /\ answer' \in [Ids -> Answers] /\ content' \in [Ids -> Contents]
      /\ \A x \in Ids :
           /\ answer'[x] = IF x \in S /\ answer[x] = "waiting" THEN "cancelled"
                           ELSE answer[x]
           /\ content'[x] = IF x \in S /\ content[x] = "live" THEN "discarded"
                            ELSE content[x]
  BY <1>3, SendersTyped DEF CoreInv, Answers, Contents
<1>8. TypeOK'
  BY <1>1, <1>2, <1>3, <1>5, <1>6, <1>7 DEF CoreInv, TypeOK, Loops, Awaits, Endings
<1>9. Unrepeated' BY <1>1, <1>5, UnrepeatedKept DEF CoreInv
<1>10. /\ Slotted' = Slotted /\ Buffered' = Buffered /\ InDrain' = InDrain
       /\ Running' = Running /\ Binding(task)' = Binding(task) /\ task' = task
  BY <1>1, PlacesKept
<1>11. TextInv'
  <2>1. ASSUME NEW x \in Ids PROVE Text(x)'
    <3>1. Text(x) BY DEF CoreInv, TextInv
    <3>2. CASE x \in S
      <4>1. x \in Queued /\ x # p /\ x # task.prompt BY <1>2, <1>3, <3>2
      <4>2. /\ x \notin Slotted /\ x \notin Buffered /\ x \notin InDrain
            /\ content[x] = "live" /\ x \notin Queued'
        BY <1>5, <3>1, <3>2, <4>1 DEF Text
      <4>3. content'[x] = "discarded" /\ answer'[x] # "waiting" BY <1>7, <3>2, <4>2
      <4> QED BY <1>6, <1>10, <4>2, <4>3 DEF Text
    <3>3. CASE x \notin S
      <4>1. answer'[x] = answer[x] /\ content'[x] = content[x] BY <1>7, <3>3
      <4>2. x \in Queued' <=> x \in Queued \/ x = p BY <1>5, <3>3
      <4> QED BY <1>1, <1>2, <1>6, <1>10, <3>1, <4>1, <4>2 DEF Text
    <3> QED BY <3>2, <3>3
  <2>2. ASSUME NEW m \in Messages PROVE Slot(m)'
    <3>1. Slot(m) /\ Text(m) /\ m \in Ids BY Kinds DEF CoreInv, TextInv
    <3>2. m \in S => m \notin Slotted BY <1>3, <3>1 DEF Text
    <3>3. /\ answer'[m] = "completed" => answer[m] = "completed"
          /\ content[m] # "live" => content'[m] = content[m]
          /\ m \in Slotted => content'[m] = content[m]
      BY <1>7, <3>1, <3>2
    <3> QED BY <1>1, <1>10, <3>1, <3>3 DEF Slot
  <2>3. ASSUME NEW r \in Resumes, resume'[r] = "parked" PROVE content'[r] = "unsent"
    <3>1. content[r] = "unsent" /\ r \in Ids
      BY <1>1, <2>3, Kinds DEF CoreInv, TextInv
    <3> QED BY <1>7, <3>1
  <2> QED BY <2>1, <2>2, <2>3 DEF TextInv
<1>12. TurnInv'
  <2>1. Running => task.prompt \in Ids BY DEF CoreInv, TurnInv
  <2>2. Running => content'[task.prompt] = content[task.prompt]
    BY <1>3, <1>7, <2>1
  <2> QED BY <1>1, <2>2, TurnKept DEF CoreInv
<1>13. LoopInv'
  <2>1. loop'.at = "send_now" => Running /\ committed = TRUE
    BY <1>1, <1>6, CancelsRecorded
  <2> QED BY <1>1, <1>5, <1>6, <1>10, <2>1 DEF LoopInv
<1> QED BY <1>8, <1>9, <1>11, <1>12, <1>13 DEF CoreInv

\* A queued row is sent now.
LEMMA SendNowKeeps ==
    ASSUME CoreInv, UNCHANGED scenario, NEW p \in Prompts,
           handle_interject_queued_prompt(p)
    PROVE  CoreInv'
<1> USE DEF Others, turnVars, bufferVars, slotVars, backVars, senderVars
<1> DEFINE q == Drop(queue, {p})
<1>1. /\ UNCHANGED <<fallback, task, epoch, rewindable, committed, pin, buffer, taken,
                     slots, slot, gate, completions, resume, mcp, reported, answer,
                     content>>
      /\ loop.at = "idle" /\ p \in Queued /\ task.prompt # p
      /\ queue' = InsertAt(q, send_now_insert_index(q), p)
      /\ sendNow' = sendNow \cup {p} /\ holds' = [holds EXCEPT ![p] = "none"]
      /\ hookHold' \in BOOLEAN
      /\ \/ send_now_cancels_running_turn /\ loop' = Then("send_now")
         \/ loop' = Then("kick")
  BY DEF handle_interject_queued_prompt, MayIssue, AtIdle, InQueue, Queued, CoreInv, TypeOK
<1>2. p \in Ids BY Kinds
<1>3. /\ q \in Seq(Ids) /\ IsInjective(q) /\ ToSet(q) = Queued \ {p}
      /\ Running => q # <<>> /\ Head(q) = task.prompt
  BY <1>1, QueueWithout DEF CoreInv, LoopInv
<1>4. /\ queue' \in Seq(Ids) /\ IsInjective(queue') /\ Queued' = Queued
      /\ Running => queue' # <<>> /\ Head(queue') = task.prompt
  <2>1. p \notin ToSet(q) BY <1>3
  <2>2. /\ queue' \in Seq(Ids) /\ IsInjective(queue')
        /\ ToSet(queue') = ToSet(q) \cup {p}
        /\ Running => queue' # <<>> /\ Head(queue') = task.prompt
    <3>1. queue' = InsertAt(q, send_now_insert_index(q), p) BY <1>1
    <3> HIDE DEF q
    <3> QED BY <1>2, <1>3, <2>1, <3>1, RowRunsNext
  <2>3. Queued' = Queued BY <1>1, <1>3, <2>2 DEF Queued
  <2> QED BY <2>2, <2>3
<1> HIDE DEF q
<1>5. /\ loop' \in Loops /\ loop'.at \in {"send_now", "kick"} /\ InHandler' = InHandler
      /\ loop'.at = "send_now" => send_now_cancels_running_turn
  BY <1>1, LoopTyped, PlacesKept DEF Awaits
<1>6. TypeOK' BY <1>1, <1>2, <1>4, <1>5 DEF CoreInv, TypeOK, Loops, Awaits, Endings
<1>7. Unrepeated' BY <1>1, <1>4, UnrepeatedKept DEF CoreInv
<1>8. /\ Slotted' = Slotted /\ Buffered' = Buffered /\ InDrain' = InDrain
      /\ Running' = Running /\ Binding(task)' = Binding(task) /\ task' = task
  BY <1>1, PlacesKept
<1>9. TextInv'
  <2>1. \A x \in Ids : Text(x)' BY <1>1, <1>4, <1>5, <1>8 DEF CoreInv, TextInv, Text
  <2>2. \A m \in Messages : Slot(m)' BY <1>1, <1>8 DEF CoreInv, TextInv, Slot
  <2> QED BY <1>1, <2>1, <2>2 DEF CoreInv, TextInv
<1>10. TurnInv' BY <1>1, TurnKept DEF CoreInv
<1>11. LoopInv'
  <2>1. loop'.at = "send_now" => Running /\ committed = TRUE
    BY <1>1, <1>5, CancelsRecorded
  <2> QED BY <1>1, <1>4, <1>5, <1>8, <2>1 DEF LoopInv
<1> QED BY <1>6, <1>7, <1>9, <1>10, <1>11 DEF CoreInv

-----------------------------------------------------------------------------
(* Interjections, and the turn's safe points.                               *)

LEMMA EntriesJoined ==
    ASSUME NEW b \in Seq(Entries), NEW c \in Seq(Entries)
    PROVE  /\ b \o c \in Seq(Entries)
           /\ ToSet(EntryIds(b \o c)) = ToSet(EntryIds(b)) \cup ToSet(EntryIds(c))
           /\ IsInjective(EntryIds(b)) /\ IsInjective(EntryIds(c))
              /\ ToSet(EntryIds(b)) \cap ToSet(EntryIds(c)) = {} =>
                IsInjective(EntryIds(b \o c))
<1> DEFINE x == EntryIds(b)
           y == EntryIds(c)
<1>1. b \o c \in Seq(Entries) /\ EntryIds(b \o c) = x \o y BY EntryIdsConcat
<1>2. x \in Seq(Ids) /\ y \in Seq(Ids) BY EntryIdsFacts
<1> HIDE DEF x, y
<1>3. /\ ToSet(x \o y) = ToSet(x) \cup ToSet(y)
      /\ IsInjective(x) /\ IsInjective(y) /\ ToSet(x) \cap ToSet(y) = {} =>
           IsInjective(x \o y)
  BY <1>2, ConcatFacts
<1> QED BY <1>1, <1>3 DEF x, y

\* A text is typed into the running turn, or becomes a row that runs next.
LEMMA InterjectKeeps ==
    ASSUME CoreInv, UNCHANGED scenario, NEW i \in Interjections, Interject(i)
    PROVE  CoreInv'
<1> USE DEF turnVars, slotVars, backVars
<1>1. /\ UNCHANGED <<holds, hookHold, task, epoch, rewindable, committed, pin, taken, slots,
                     slot, gate, completions, resume, mcp, reported, answer>>
      /\ loop.at = "idle" /\ content[i] = "unsent"
      /\ content' = [content EXCEPT ![i] = "live"]
      /\ \/ /\ buffer' = Append(buffer, Entry(i))
            /\ UNCHANGED <<queue, sendNow, fallback, loop>>
         \/ /\ queue' = InsertFallbacks(queue, <<i>>)
            /\ sendNow' = sendNow \cup ToSet(<<i>>)
            /\ fallback' = fallback \cup ToSet(<<i>>)
            /\ loop' = Then("kick") /\ buffer' = buffer
  BY DEF Interject, AtIdle, queue_interjection_fallbacks
<1>2. /\ i \in Ids /\ i \notin Messages /\ i \notin Resumes
      /\ i \notin Prompts \cup Messages \cup Wakes
  BY Kinds
<1>3. <<i>> \in Seq(Ids) /\ ToSet(<<i>>) = {i} /\ IsInjective(<<i>>)
  BY <1>2, SingletonFacts
<1>4. /\ i \notin Queued /\ i \notin Slotted /\ i \notin Buffered /\ i \notin InDrain
      /\ answer[i] # "waiting"
  BY <1>1, <1>2, UnsentNowhere
<1>5. /\ InDrain' = InDrain /\ Slotted' = Slotted /\ Running' = Running
      /\ Binding(task)' = Binding(task) /\ task' = task /\ InHandler = {}
  BY <1>1, PlacesKept
<1>6. /\ queue \in Seq(Ids) /\ IsInjective(queue) /\ buffer \in Seq(Entries)
      /\ IsInjective(EntryIds(buffer))
  BY DEF CoreInv, TypeOK, Unrepeated
<1>7. /\ queue' \in Seq(Ids) /\ IsInjective(queue') /\ buffer' \in Seq(Entries)
      /\ IsInjective(EntryIds(buffer)')
      /\ sendNow' \subseteq Ids /\ fallback' \subseteq Ids /\ fallback \subseteq fallback'
      /\ Running /\ queue # <<>> /\ Head(queue) = task.prompt =>
           queue' # <<>> /\ Head(queue') = task.prompt
      /\ loop' \in Loops /\ loop'.at \in {"idle", "kick"}
      /\ \/ Queued' = Queued \cup {i} /\ Buffered' = Buffered
         \/ Queued' = Queued /\ Buffered' = Buffered \cup {i}
  <2>1. CASE /\ buffer' = Append(buffer, Entry(i))
             /\ UNCHANGED <<queue, sendNow, fallback, loop>>
    <3> DEFINE e == Entry(i)
               c == <<e>>
    <3>1. e \in Entries /\ e.id = i BY <1>2 DEF Entry, Entries, CoreInv, TypeOK
    <3>2. buffer' = Append(buffer, e) BY <2>1
    <3> HIDE DEF e
    <3>3. c \in Seq(Entries) /\ EntryIds(c) = <<i>>
      <4>1. c \in Seq(Entries) /\ Len(c) = 1 /\ c[1] = e BY <3>1
      <4>2. EntryIds(c) = [k \in 1 .. 1 |-> c[k].id] BY <4>1 DEF EntryIds
      <4>3. /\ EntryIds(c) \in Seq(Ids) /\ Len(EntryIds(c)) = 1
            /\ \A k \in 1 .. Len(c) : EntryIds(c)[k] = c[k].id
        BY <4>1, EntryIdsFacts
      <4>4. EntryIds(c)[1] = i BY <3>1, <4>1, <4>3
      <4> HIDE DEF c
      <4> QED BY <1>3, <4>1, <4>3, <4>4, SeqEqual
    <3>4. buffer' = buffer \o c BY <1>6, <3>1, <3>2, AppendIsConcat
    <3> HIDE DEF c
    <3>5. /\ buffer' \in Seq(Entries)
          /\ ToSet(EntryIds(buffer')) = ToSet(EntryIds(buffer)) \cup {i}
          /\ IsInjective(EntryIds(buffer'))
      <4>1. ToSet(EntryIds(buffer)) \cap ToSet(EntryIds(c)) = {}
        BY <1>3, <1>4, <3>3 DEF Buffered
      <4> DEFINE joined == buffer \o c
      <4>2. /\ joined \in Seq(Entries)
            /\ ToSet(EntryIds(joined)) = ToSet(EntryIds(buffer)) \cup ToSet(EntryIds(c))
            /\ IsInjective(EntryIds(c)) => IsInjective(EntryIds(joined))
        BY <1>6, <3>3, <4>1, EntriesJoined
      <4>3. buffer' = joined BY <3>4
      <4> HIDE DEF joined
      <4>4. ToSet(EntryIds(c)) = {i} /\ IsInjective(EntryIds(c)) BY <1>3, <3>3
      <4> QED BY <4>2, <4>3, <4>4
    <3>6. Queued' = Queued BY <2>1, PlacesKept
    <3>7. Buffered' = Buffered \cup {i} BY <3>5 DEF Buffered
    <3> QED BY <1>1, <1>6, <2>1, <3>5, <3>6, <3>7, LoopTyped DEF CoreInv, TypeOK
  <2>2. CASE /\ queue' = InsertFallbacks(queue, <<i>>)
             /\ sendNow' = sendNow \cup ToSet(<<i>>)
             /\ fallback' = fallback \cup ToSet(<<i>>)
             /\ loop' = Then("kick") /\ buffer' = buffer
    <3> DEFINE e == <<i>>
    <3>1. e \in Seq(Ids) /\ IsInjective(e) /\ ToSet(queue) \cap ToSet(e) = {}
      BY <1>3, <1>4 DEF Queued
    <3>2. queue' = InsertFallbacks(queue, e) BY <2>2
    <3> HIDE DEF e
    <3>3. /\ queue' \in Seq(Ids) /\ IsInjective(queue')
          /\ ToSet(queue') = ToSet(queue) \cup ToSet(e)
          /\ Running /\ queue # <<>> /\ Head(queue) = task.prompt =>
               queue' # <<>> /\ Head(queue') = task.prompt
      BY <1>6, <3>1, <3>2, FallbacksRunNext
    <3>4. Queued' = Queued \cup {i} BY <1>3, <3>3 DEF Queued, e
    <3>5. Buffered' = Buffered /\ EntryIds(buffer)' = EntryIds(buffer)
      BY <2>2, PlacesKept
    <3>6. loop' \in Loops /\ loop'.at = "kick" BY <2>2, LoopTyped DEF Awaits
    <3> QED BY <1>2, <1>3, <1>6, <2>2, <3>3, <3>4, <3>5, <3>6 DEF CoreInv, TypeOK
  <2> QED BY <1>1, <2>1, <2>2
<1>8. TypeOK'
  BY <1>1, <1>2, <1>7 DEF CoreInv, TypeOK, Loops, Awaits, Endings, Contents
<1>9. Unrepeated' BY <1>1, <1>7, PlacesKept DEF CoreInv, Unrepeated
<1>10. InHandler' = {} BY <1>7, PlacesKept
<1>11. TextInv' /\ TurnInv'
  <2>1. ASSUME NEW y \in Ids, y # i PROVE Same(y)
    <3>1. content'[y] = content[y] BY <1>1, <1>2, <2>1 DEF CoreInv, TypeOK
    <3> QED BY <1>1, <1>5, <1>7, <1>10, <2>1, <3>1 DEF Same
  <2>2. content'[i] = "live" /\ answer'[i] = answer[i]
    BY <1>1, <1>2 DEF CoreInv, TypeOK
  <2>3. Text(i)' BY <1>2, <1>4, <1>5, <1>7, <1>10, <2>2 DEF Text
  <2> QED BY <1>1, <1>2, <2>1, <2>3, TextArrives
<1>12. LoopInv'
  BY <1>1, <1>5, <1>7, LoopLeft DEF CoreInv, LoopInv
<1> QED BY <1>8, <1>9, <1>11, <1>12 DEF CoreInv

\* The buffer becomes rows that run next.
LEMMA FlushFacts ==
    ASSUME CoreInv, queue_interjection_fallbacks(EntryIds(buffer))
    PROVE  /\ queue' \in Seq(Ids) /\ IsInjective(queue') /\ Queued' = Queued \cup Buffered
           /\ sendNow' \subseteq Ids /\ fallback' = fallback \cup Buffered
           /\ fallback' \subseteq Ids
           /\ Running /\ queue # <<>> /\ Head(queue) = task.prompt =>
                queue' # <<>> /\ Head(queue') = task.prompt
<1> DEFINE e == EntryIds(buffer)
<1>1. /\ queue' = InsertFallbacks(queue, e) /\ sendNow' = sendNow \cup ToSet(e)
      /\ fallback' = fallback \cup ToSet(e)
  BY DEF queue_interjection_fallbacks
<1>2. /\ queue \in Seq(Ids) /\ IsInjective(queue) /\ e \in Seq(Ids) /\ IsInjective(e)
  BY Placed DEF CoreInv, TypeOK, Unrepeated
<1>3. ToSet(queue) \cap ToSet(e) = {} /\ ToSet(e) \subseteq Ids /\ ToSet(e) = Buffered
  <2>1. Buffered \subseteq Ids /\ Queued \subseteq Ids BY Placed DEF CoreInv
  <2>2. Queued \cap Buffered = {} BY <2>1 DEF CoreInv, TextInv, Text
  <2> QED BY <2>1, <2>2 DEF Queued, Buffered
<1> HIDE DEF e
<1>4. /\ queue' \in Seq(Ids) /\ IsInjective(queue')
      /\ ToSet(queue') = ToSet(queue) \cup ToSet(e)
      /\ Running /\ queue # <<>> /\ Head(queue) = task.prompt =>
           queue' # <<>> /\ Head(queue') = task.prompt
  BY <1>1, <1>2, <1>3, FallbacksRunNext
<1> QED BY <1>1, <1>3, <1>4 DEF Queued, CoreInv, TypeOK

LEMMA FlushKeeps ==
    ASSUME CoreInv, UNCHANGED scenario, flush_stranded_interjections
    PROVE  CoreInv'
<1> USE DEF turnVars, slotVars, backVars, senderVars
<1>1. /\ UNCHANGED <<holds, hookHold, task, epoch, rewindable, committed, pin, taken, slots,
                     slot, gate, completions, resume, mcp, reported, answer, content>>
      /\ loop.at = "flush" /\ loop' = Then("kick") /\ buffer' = <<>>
      /\ queue_interjection_fallbacks(EntryIds(buffer))
  BY DEF flush_stranded_interjections
<1>2. /\ queue' \in Seq(Ids) /\ IsInjective(queue') /\ Queued' = Queued \cup Buffered
      /\ sendNow' \subseteq Ids /\ fallback' = fallback \cup Buffered
      /\ fallback' \subseteq Ids
      /\ Running /\ queue # <<>> /\ Head(queue) = task.prompt =>
           queue' # <<>> /\ Head(queue') = task.prompt
  BY <1>1, FlushFacts
<1>3. loop' \in Loops /\ loop'.at = "kick" BY <1>1, LoopTyped DEF Awaits
<1>4. /\ Buffered' = {} /\ IsInjective(EntryIds(buffer)') /\ InDrain' = InDrain
      /\ Slotted' = Slotted /\ Running' = Running /\ Binding(task)' = Binding(task)
      /\ InHandler = {} /\ InHandler' = {} /\ task' = task
  BY <1>1, <1>3, PlacesKept
<1>5. TypeOK'
  <2>1. buffer' \in Seq(Entries) BY <1>1
  <2> QED BY <1>1, <1>2, <1>3, <2>1 DEF CoreInv, TypeOK, Loops, Awaits, Endings
<1>6. Unrepeated' BY <1>1, <1>2, <1>4, PlacesKept DEF CoreInv, Unrepeated
<1>7. TextInv'
  <2>1. \A x \in Ids : Text(x)' BY <1>1, <1>2, <1>4 DEF CoreInv, TextInv, Text
  <2>2. \A m \in Messages : Slot(m)' BY <1>1, <1>4 DEF CoreInv, TextInv, Slot
  <2> QED BY <1>1, <2>1, <2>2 DEF CoreInv, TextInv
<1>8. TurnInv' BY <1>1, TurnKept DEF CoreInv
<1>9. LoopInv' BY <1>1, <1>2, <1>3, <1>4, LoopLeft DEF CoreInv, LoopInv
<1> QED BY <1>5, <1>6, <1>7, <1>8, <1>9 DEF CoreInv

\* The running turn goes to another phase.
LEMMA TurnGoes ==
    ASSUME TypeOK, TurnInv, Running, NEW phase \in Phases, phase # "none",
           task' = [task EXCEPT !.phase = phase], UNCHANGED <<epoch, completions>>,
           task.phase = "sent" => phase = "sent",
           committed' = TRUE => content'[task.prompt] # "live",
           content'[task.prompt] # "unsent",
           taken' # <<>> => phase = "interject"
    PROVE  TurnInv'
<1>1. /\ task'.phase = phase /\ task'.prompt = task.prompt /\ task'.epoch = task.epoch
      /\ Running'
  BY GoesFacts
<1>2. \A msg \in ToSet(completions') :
        /\ msg.epoch # 0 /\ msg.epoch =< epoch'
        /\ Running' /\ task'.epoch = msg.epoch => task'.phase = "sent"
  BY <1>1 DEF TurnInv
<1> QED BY <1>1, <1>2 DEF TurnInv

\* A safe point of the turn: queued prompts are promoted, the buffer is taken.
LEMMA SafePointKeeps ==
    ASSUME CoreInv, UNCHANGED scenario, NEW promote \in BOOLEAN, SafePoint(promote)
    PROVE  CoreInv'
<1> USE DEF slotVars, Rest
<1> DEFINE moved == IF promote THEN promote_queued_as_interjections ELSE <<>>
           more == [k \in 1 .. Len(moved) |-> Entry(moved[k])]
           all == buffer \o more
           phase == IF all = <<>> THEN "steer" ELSE "interject"
<1>1. /\ UNCHANGED <<hookHold, rewindable, committed, pin, slots, slot, completions, content,
                     reported, epoch, sendNow, fallback, holds, loop, gate, resume, mcp>>
      /\ buffer' = <<>> /\ loop.at # "closed" /\ task.phase = "work"
      /\ queue' = Drop(queue, ToSet(moved)) /\ answer' = Told(ToSet(moved), "cancelled")
      /\ taken' = all /\ task' = [task EXCEPT !.phase = phase]
  BY DEF SafePoint, TurnAt, Goes
<1>2. /\ moved \in Seq(Ids) /\ ToSet(moved) \subseteq Queued /\ IsInjective(moved)
      /\ task.prompt \notin ToSet(moved)
      /\ ToSet(moved) \subseteq Prompts
  <2>1. /\ promote_queued_as_interjections \in Seq(Ids)
        /\ ToSet(promote_queued_as_interjections) \subseteq ToSet(queue) \cap Prompts
        /\ task.prompt \notin ToSet(promote_queued_as_interjections)
        /\ IsInjective(promote_queued_as_interjections)
    BY PromotedFacts DEF CoreInv, TypeOK, Unrepeated
  <2>2. CASE promote BY <2>1, <2>2 DEF Queued
  <2>3. CASE ~ promote BY <2>3, EmptyFacts
  <2> QED BY <2>2, <2>3
<1>3. more \in Seq(Entries) /\ EntryIds(more) = moved
  <2>1. epoch \in Nat BY DEF CoreInv, TypeOK
  <2> HIDE DEF moved
  <2> QED BY <1>2, <2>1, PromotedEntries
<1>4. phase \in Phases /\ phase \in {"steer", "interject"}
      /\ (all # <<>> => phase = "interject")
  BY DEF Phases
<1>5. /\ buffer \in Seq(Entries) /\ IsInjective(EntryIds(buffer)) /\ Running
      /\ taken = <<>> /\ InDrain = {}
  <2>1. taken = <<>> BY <1>1 DEF CoreInv, TurnInv
  <2> QED BY <1>1, <2>1, Placed DEF CoreInv, TypeOK, Unrepeated, Running
<1>6. ToSet(moved) \cap Buffered = {}
  BY <1>2, Placed DEF CoreInv, TextInv, Text
<1> HIDE DEF moved, phase
<1>7. /\ all \in Seq(Entries) /\ ToSet(EntryIds(all)) = Buffered \cup ToSet(moved)
      /\ IsInjective(EntryIds(all))
  <2> HIDE DEF more
  <2>1. ToSet(EntryIds(buffer)) \cap ToSet(EntryIds(more)) = {}
    BY <1>3, <1>6 DEF Buffered
  <2> QED BY <1>2, <1>3, <1>5, <2>1, EntriesJoined DEF Buffered
<1> HIDE DEF more, all
<1>8. /\ InDrain' = Buffered \cup ToSet(moved) /\ IsInjective(EntryIds(taken)')
      /\ taken' \in Seq(Entries)
  BY <1>1, <1>7 DEF InDrain
<1>9. /\ queue' \in Seq(Ids) /\ IsInjective(queue') /\ Queued' = Queued \ ToSet(moved)
      /\ Running /\ queue # <<>> /\ Head(queue) = task.prompt =>
           queue' # <<>> /\ Head(queue') = task.prompt
  <2>1. /\ queue' \in Seq(Ids) /\ IsInjective(queue')
        /\ ToSet(queue') = Queued \ ToSet(moved)
        /\ Running /\ queue # <<>> /\ Head(queue) = task.prompt =>
             queue' # <<>> /\ Head(queue') = task.prompt
    BY <1>1, <1>2, QueueWithout
  <2> QED BY <2>1 DEF Queued
<1>10. /\ task' \in Tasks /\ task'.phase = phase /\ task'.prompt = task.prompt
       /\ Binding(task)' = Binding(task) /\ Running' = Running
  BY <1>1, <1>4, <1>5, GoesFacts DEF CoreInv
<1>11. /\ Buffered' = {} /\ IsInjective(EntryIds(buffer)') /\ InHandler' = InHandler
       /\ Slotted' = Slotted
  BY <1>1, PlacesKept
<1>12. /\ answer' \in [Ids -> Answers]
       /\ \A x \in Ids : answer'[x] = IF x \in ToSet(moved) /\ answer[x] = "waiting"
                                        THEN "cancelled" ELSE answer[x]
  BY <1>1, SendersTyped DEF CoreInv, Answers, Contents
<1>13. TypeOK'
  <2>1. buffer' \in Seq(Entries) BY <1>1
  <2> QED BY <1>1, <1>8, <1>9, <1>10, <1>12, <2>1 DEF CoreInv, TypeOK, Tasks
<1>14. Unrepeated' BY <1>1, <1>8, <1>9, <1>11 DEF CoreInv, Unrepeated
<1>15. TextInv'
  <2>1. ASSUME NEW x \in Ids PROVE Text(x)'
    <3>1. Text(x) BY DEF CoreInv, TextInv
    <3>2. CASE x \in ToSet(moved)
      <4>1. x \in Queued /\ x # task.prompt BY <1>2, <3>2
      <4>2. answer'[x] # "waiting" BY <1>12, <3>2
      <4> QED BY <1>1, <1>8, <1>9, <1>10, <1>11, <3>1, <3>2, <4>1, <4>2 DEF Text
    <3>3. CASE x \notin ToSet(moved)
      <4>1. answer'[x] = answer[x] BY <1>12, <3>3
      <4>2. (x \in Queued' <=> x \in Queued) /\ (x \in InDrain' <=> x \in Buffered)
            /\ x \notin InDrain
        BY <1>5, <1>8, <1>9, <3>3
      <4> QED BY <1>1, <1>10, <1>11, <3>1, <4>1, <4>2 DEF Text
    <3> QED BY <3>2, <3>3
  <2>2. ASSUME NEW m \in Messages PROVE Slot(m)'
    <3>1. Slot(m) /\ m \in Ids BY Kinds DEF CoreInv, TextInv
    <3>2. answer'[m] = answer[m] BY <1>2, <1>12, <3>1, Kinds
    <3> QED BY <1>1, <1>10, <1>11, <3>1, <3>2 DEF Slot
  <2> QED BY <1>1, <2>1, <2>2 DEF CoreInv, TextInv
<1>16. TurnInv'
  BY <1>1, <1>4, <1>5, TurnGoes DEF CoreInv, TurnInv
<1>17. LoopInv' BY <1>1, <1>9, <1>10, LoopKept DEF CoreInv
<1> QED BY <1>13, <1>14, <1>15, <1>16, <1>17 DEF CoreInv

\* The taken texts reach the model, or go back in front of the buffer.
LEMMA DrainKeeps ==
    ASSUME CoreInv, UNCHANGED scenario, NEW ok \in BOOLEAN,
           drain_pending_interjections(ok)
    PROVE  CoreInv'
<1> USE DEF slotVars, Rest
<1>1. /\ UNCHANGED <<queue, hookHold, rewindable, committed, pin, slots, slot, completions,
                     answer, reported, epoch, sendNow, fallback, holds, loop, gate, resume,
                     mcp>>
      /\ loop.at # "closed" /\ task.phase = "interject" /\ taken' = <<>>
      /\ task' = [task EXCEPT !.phase = "steer"]
      /\ \/ buffer' = buffer /\ content' = Became(InDrain, "shown")
         \/ buffer' = taken \o buffer /\ content' = content
  BY DEF drain_pending_interjections, TurnAt, Goes, InDrain
<1>2. /\ buffer \in Seq(Entries) /\ IsInjective(EntryIds(buffer)) /\ Running
      /\ taken \in Seq(Entries) /\ IsInjective(EntryIds(taken))
      /\ InDrain \cap Buffered = {}
  <2>1. InDrain \cap Buffered = {} BY Placed DEF CoreInv, TextInv, Text
  <2> QED BY <1>1, <2>1 DEF CoreInv, TypeOK, Unrepeated, Running
<1>3. /\ task' \in Tasks /\ task'.phase = "steer" /\ task'.prompt = task.prompt
      /\ Binding(task)' = Binding(task) /\ Running' = Running /\ "steer" \in Phases
  BY <1>1, <1>2, GoesFacts DEF CoreInv, Phases
<1>4. /\ InDrain' = {} /\ IsInjective(EntryIds(taken)') /\ InHandler' = InHandler
      /\ Slotted' = Slotted /\ Queued' = Queued
  BY <1>1, PlacesKept
<1>5. /\ content' \in [Ids -> Contents] /\ buffer' \in Seq(Entries)
      /\ IsInjective(EntryIds(buffer)')
      /\ \/ /\ Buffered' = Buffered
            /\ \A x \in Ids : content'[x] = IF x \in InDrain /\ content[x] = "live"
                                              THEN "shown" ELSE content[x]
         \/ Buffered' = Buffered \cup InDrain /\ content' = content
  <2>1. CASE buffer' = buffer /\ content' = Became(InDrain, "shown")
    <3>1. Buffered' = Buffered /\ EntryIds(buffer)' = EntryIds(buffer)
      BY <2>1, PlacesKept
    <3>2. /\ content' \in [Ids -> Contents]
          /\ \A x \in Ids : content'[x] = IF x \in InDrain /\ content[x] = "live"
                                            THEN "shown" ELSE content[x]
      BY <2>1, SendersTyped DEF CoreInv, Answers, Contents
    <3> QED BY <1>2, <2>1, <3>1, <3>2
  <2>2. CASE buffer' = taken \o buffer /\ content' = content
    <3>1. /\ buffer' \in Seq(Entries)
          /\ ToSet(EntryIds(buffer')) = InDrain \cup Buffered
          /\ IsInjective(EntryIds(buffer'))
      <4>1. ToSet(EntryIds(taken)) \cap ToSet(EntryIds(buffer)) = {}
        BY <1>2 DEF InDrain, Buffered
      <4> QED BY <1>2, <2>2, <4>1, EntriesJoined DEF InDrain, Buffered
    <3> QED BY <2>2, <3>1 DEF CoreInv, TypeOK, Buffered
  <2> QED BY <1>1, <2>1, <2>2
<1>6. TypeOK'
  <2>1. taken' \in Seq(Entries) BY <1>1
  <2> QED BY <1>1, <1>3, <1>5, <2>1 DEF CoreInv, TypeOK, Tasks
<1>7. Unrepeated' BY <1>1, <1>4, <1>5 DEF CoreInv, Unrepeated
<1>8. TextInv'
  <2>1. ASSUME NEW x \in Ids PROVE Text(x)'
    <3>1. Text(x) BY DEF CoreInv, TextInv
    <3> QED BY <1>1, <1>3, <1>4, <1>5, <3>1 DEF Text
  <2>2. ASSUME NEW m \in Messages PROVE Slot(m)'
    <3>1. Slot(m) /\ Text(m) /\ m \in Ids BY Kinds DEF CoreInv, TextInv
    <3>2. /\ m \in Slotted => content'[m] = content[m]
          /\ content[m] # "live" => content'[m] = content[m]
      BY <1>5, <3>1 DEF Text
    <3> QED BY <1>1, <1>3, <1>4, <3>1, <3>2 DEF Slot
  <2>3. ASSUME NEW r \in Resumes, resume'[r] = "parked" PROVE content'[r] = "unsent"
    <3>1. content[r] = "unsent" /\ r \in Ids
      BY <1>1, <2>3, Kinds DEF CoreInv, TextInv
    <3> QED BY <1>5, <3>1
  <2> QED BY <2>1, <2>2, <2>3 DEF TextInv
<1>9. TurnInv'
  <2>1. /\ task.prompt \in Ids /\ content[task.prompt] # "unsent"
        /\ committed = TRUE => content[task.prompt] # "live"
    BY <1>2 DEF CoreInv, TurnInv
  <2>2. /\ content'[task.prompt] # "unsent"
        /\ committed = TRUE => content'[task.prompt] # "live"
    BY <1>5, <2>1
  <2> QED BY <1>1, <1>2, <1>3, <2>2, TurnGoes DEF CoreInv
<1>10. LoopInv' BY <1>1, <1>3, <1>4, LoopKept DEF CoreInv
<1> QED BY <1>6, <1>7, <1>8, <1>9, <1>10 DEF CoreInv

-----------------------------------------------------------------------------
(* What the model is shown: the turn's own prompt, the messages in its slots. *)

LEMMA CommitKeeps ==
    ASSUME CoreInv, UNCHANGED scenario, mark_front_message_committed
    PROVE  CoreInv'
<1> USE DEF slotVars, bufferVars, Rest
<1>1. /\ UNCHANGED <<queue, hookHold, rewindable, pin, buffer, taken, slots, slot,
                     completions, answer, reported, epoch, sendNow, fallback, holds, loop,
                     gate, resume, mcp>>
      /\ loop.at # "closed" /\ task.phase = "intake" /\ committed' = TRUE
      /\ task' = [task EXCEPT !.phase = "committed"]
      /\ content' = Became({task.prompt}, "shown")
  BY DEF mark_front_message_committed, TurnAt, Goes
<1>2. Running /\ task.prompt \in Ids /\ task.prompt \in Queued /\ taken = <<>>
  <2>1. Running BY <1>1 DEF Running
  <2>2. loop.at # "release" BY <1>1, <2>1 DEF CoreInv, LoopInv
  <2>3. queue # <<>> /\ Head(queue) = task.prompt BY <1>1, <2>1, <2>2 DEF CoreInv, LoopInv
  <2> QED BY <1>1, <2>1, <2>3, Placed DEF CoreInv, TurnInv
<1>3. /\ task' \in Tasks /\ task'.phase = "committed" /\ task'.prompt = task.prompt
      /\ Binding(task)' = Binding(task) /\ Running' = Running /\ "committed" \in Phases
  BY <1>1, <1>2, GoesFacts DEF CoreInv, Phases
<1>4. /\ content' \in [Ids -> Contents]
      /\ \A x \in Ids : content'[x] = IF x \in {task.prompt} /\ content[x] = "live"
                                        THEN "shown" ELSE content[x]
  BY <1>1, SendersTyped DEF CoreInv, Answers, Contents
<1>5. /\ Queued' = Queued /\ Slotted' = Slotted /\ Buffered' = Buffered
      /\ InDrain' = InDrain /\ InHandler' = InHandler
  BY <1>1, PlacesKept
<1>6. TypeOK'
  <2>1. committed' \in BOOLEAN BY <1>1
  <2>2. task' \in [prompt : Ids \cup {None}, epoch : Nat, phase : Phases]
    BY <1>3 DEF Tasks
  <2>3. UNCHANGED <<queue, hookHold, rewindable, pin, buffer, taken, slots, slot,
                    completions, answer, reported, epoch, sendNow, fallback, holds, loop,
                    gate, resume, mcp>>
    BY <1>1
  <2> QED BY <1>4, <2>1, <2>2, <2>3 DEF CoreInv, TypeOK
<1>7. Unrepeated' BY <1>1, UnrepeatedKept DEF CoreInv, Unrepeated
<1>8. TextInv'
  <2>1. ASSUME NEW x \in Ids PROVE Text(x)'
    <3>1. Text(x) BY DEF CoreInv, TextInv
    <3>2. CASE x = task.prompt
      <4>1. content'[x] = "shown" BY <1>2, <1>4, <3>1, <3>2 DEF Text
      <4> QED BY <1>1, <1>2, <1>3, <1>5, <3>1, <3>2, <4>1 DEF Text
    <3>3. CASE x # task.prompt
      <4>1. content'[x] = content[x] BY <1>4, <3>3
      <4> QED BY <1>1, <1>3, <1>5, <3>1, <3>3, <4>1 DEF Text
    <3> QED BY <3>2, <3>3
  <2>2. ASSUME NEW m \in Messages PROVE Slot(m)'
    <3>1. Slot(m) /\ Text(m) /\ m \in Ids BY Kinds DEF CoreInv, TextInv
    <3>2. /\ m \in Slotted => content'[m] = content[m]
          /\ content[m] # "live" => content'[m] = content[m]
      BY <1>2, <1>4, <3>1 DEF Text
    <3>3. task.phase \notin {"barrier", "aborted"} BY <1>1
    <3> QED BY <1>1, <1>3, <1>5, <3>1, <3>2, <3>3 DEF Slot
  <2>3. ASSUME NEW r \in Resumes, resume'[r] = "parked" PROVE content'[r] = "unsent"
    <3>1. content[r] = "unsent" /\ r \in Ids
      BY <1>1, <2>3, Kinds DEF CoreInv, TextInv
    <3> QED BY <1>4, <3>1
  <2> QED BY <2>1, <2>2, <2>3 DEF TextInv
<1>9. TurnInv'
  <2>1. content[task.prompt] # "unsent" BY <1>2 DEF CoreInv, TurnInv
  <2>2. content'[task.prompt] # "unsent" /\ content'[task.prompt] # "live"
    BY <1>2, <1>4, <2>1
  <2> QED BY <1>1, <1>2, <1>3, <2>2, TurnGoes DEF CoreInv
<1>10. LoopInv' BY <1>1, <1>3, <1>5, LoopKept DEF CoreInv
<1> QED BY <1>6, <1>7, <1>8, <1>9, <1>10 DEF CoreInv

\* Every message in a slot is bound to the running turn.
LEMMA AllBound ==
    ASSUME CoreInv, Running
    PROVE  Bound(Binding(task)) = Slotted /\ \A m \in Slotted : slot[m].bind = Binding(task)
<1>1. Slotted \subseteq Messages BY Placed DEF CoreInv
<1>2. \A m \in Slotted : slot[m].bind = Binding(task) BY <1>1 DEF CoreInv, TextInv, Slot
<1> QED BY <1>2 DEF Bound, Slotted

Slots == [state : {"none", "pending", "projecting", "delivered"}, bind : Bindings]

LEMMA StatesSet ==
    ASSUME TypeOK, NEW S, NEW state \in {"none", "pending", "projecting", "delivered"}
    PROVE  /\ SetState(S, state) \in [Messages -> Slots]
           /\ \A m \in Messages :
                /\ SetState(S, state)[m].state = IF m \in S THEN state ELSE slot[m].state
                /\ SetState(S, state)[m].bind = slot[m].bind
<1>1. slot \in [Messages -> Slots] BY DEF TypeOK, Slots
<1>2. ASSUME NEW m \in Messages
      PROVE  /\ [slot[m] EXCEPT !.state = state] \in Slots
             /\ [slot[m] EXCEPT !.state = state].state = state
             /\ [slot[m] EXCEPT !.state = state].bind = slot[m].bind
  <2>1. slot[m] \in Slots BY <1>1
  <2> QED BY <2>1 DEF Slots
<1>3. ASSUME NEW m \in Messages
      PROVE  SetState(S, state)[m] =
               IF m \in S THEN [slot[m] EXCEPT !.state = state] ELSE slot[m]
  BY DEF SetState
<1>4. SetState(S, state) \in [Messages -> Slots]
  <2>1. \A m \in Messages :
          (IF m \in S THEN [slot[m] EXCEPT !.state = state] ELSE slot[m]) \in Slots
    BY <1>1, <1>2
  <2> QED BY <2>1 DEF SetState
<1>5. ASSUME NEW m \in Messages
      PROVE  /\ SetState(S, state)[m].state = IF m \in S THEN state ELSE slot[m].state
             /\ SetState(S, state)[m].bind = slot[m].bind
  BY <1>2, <1>3
<1> QED BY <1>4, <1>5

\* Pending messages are projected into the turn.
LEMMA BeginKeeps ==
    ASSUME CoreInv, UNCHANGED scenario, begin_delivery
    PROVE  CoreInv'
<1> USE DEF slotVars, bufferVars, senderVars, Rest
<1> DEFINE S == InState("pending")
           phase == IF S = {} THEN "work" ELSE "barrier"
<1>1. /\ UNCHANGED <<queue, hookHold, rewindable, committed, pin, buffer, taken, slots,
                     completions, answer, content, reported, epoch, sendNow, fallback,
                     holds, loop, gate, resume, mcp>>
      /\ loop.at # "closed" /\ task.phase = "steer"
      /\ task' = [task EXCEPT !.phase = phase] /\ slot' = SetState(S, "projecting")
  BY DEF begin_delivery, TurnAt, Goes
<1>2. Running /\ taken = <<>> BY <1>1 DEF Running, CoreInv, TurnInv
<1>3. S = {m \in Slotted : slot[m].state = "pending"} BY <1>2, AllBound DEF InState
<1>4. phase \in Phases /\ phase # "none" /\ (S # {} => phase = "barrier") BY DEF Phases
<1> HIDE DEF S, phase
<1>5. /\ task' \in Tasks /\ task'.phase = phase /\ task'.prompt = task.prompt
      /\ Binding(task)' = Binding(task) /\ Running' = Running
  BY <1>1, <1>2, <1>4, GoesFacts DEF CoreInv
<1>6. /\ slot' \in [Messages -> Slots]
      /\ \A m \in Messages :
           /\ slot'[m].state = IF m \in S THEN "projecting" ELSE slot[m].state
           /\ slot'[m].bind = slot[m].bind
  BY <1>1, StatesSet DEF CoreInv
<1>7. /\ Queued' = Queued /\ Slotted' = Slotted /\ Buffered' = Buffered
      /\ InDrain' = InDrain /\ InHandler' = InHandler
  BY <1>1, PlacesKept
<1>8. TypeOK' BY <1>1, <1>5, <1>6 DEF CoreInv, TypeOK, Tasks, Slots
<1>9. Unrepeated' BY <1>1, UnrepeatedKept DEF CoreInv, Unrepeated
<1>10. TextInv'
  <2>1. \A x \in Ids : Text(x)' BY <1>1, <1>5, <1>7 DEF CoreInv, TextInv, Text
  <2>2. ASSUME NEW m \in Messages PROVE Slot(m)'
    <3>1. Slot(m) BY DEF CoreInv, TextInv
    <3>2. CASE m \in S
      <4>1. /\ phase = "barrier" /\ m \in Slotted /\ slot[m].state = "pending"
            /\ slot'[m].state = "projecting" /\ slot'[m].bind = slot[m].bind
        BY <1>3, <1>4, <1>6, <3>2
      <4> QED BY <1>1, <1>5, <1>7, <3>1, <4>1 DEF Slot
    <3>3. CASE m \notin S
      <4>1. slot'[m].state = slot[m].state /\ slot'[m].bind = slot[m].bind
        BY <1>6, <3>3
      <4> QED BY <1>1, <1>5, <1>7, <3>1, <4>1 DEF Slot
    <3> QED BY <3>2, <3>3
  <2> QED BY <1>1, <2>1, <2>2 DEF CoreInv, TextInv
<1>11. TurnInv' BY <1>1, <1>2, <1>4, TurnGoes DEF CoreInv, TurnInv
<1>12. LoopInv' BY <1>1, <1>5, <1>7, LoopKept DEF CoreInv
<1> QED BY <1>8, <1>9, <1>10, <1>11, <1>12 DEF CoreInv

\* The persistence barrier is passed, or fails.
LEMMA FinishKeeps ==
    ASSUME CoreInv, UNCHANGED scenario, NEW ok \in BOOLEAN, finish_delivery(ok)
    PROVE  CoreInv'
<1> USE DEF slotVars, bufferVars, Rest
<1> DEFINE S == InState("projecting")
<1>1. /\ UNCHANGED <<queue, hookHold, rewindable, committed, pin, buffer, taken, slots,
                     completions, answer, reported, epoch, sendNow, fallback, holds, loop,
                     gate, resume, mcp>>
      /\ loop.at # "closed" /\ task.phase = "barrier"
      /\ task' = [task EXCEPT !.phase = "work"]
      /\ slot' = IF ok THEN SetState(S, "delivered") ELSE slot
      /\ content' = [x \in Ids |-> IF x \notin S THEN content[x]
                                   ELSE IF ok THEN "shown" ELSE "skipped"]
  BY DEF finish_delivery, TurnAt, Goes
<1>2. Running /\ taken = <<>> BY <1>1 DEF Running, CoreInv, TurnInv
<1>3. S = {m \in Slotted : slot[m].state = "projecting"} /\ S \subseteq Messages
  BY <1>2, AllBound, Placed DEF InState, CoreInv
<1> HIDE DEF S
<1>4. /\ task' \in Tasks /\ task'.phase = "work" /\ task'.prompt = task.prompt
      /\ Binding(task)' = Binding(task) /\ Running' = Running /\ "work" \in Phases
  BY <1>1, <1>2, GoesFacts DEF CoreInv, Phases
<1>5. /\ slot' \in [Messages -> Slots]
      /\ \A m \in Messages :
           /\ slot'[m].state = IF ok /\ m \in S THEN "delivered" ELSE slot[m].state
           /\ slot'[m].bind = slot[m].bind
  <2>1. CASE ok BY <1>1, <2>1, StatesSet DEF CoreInv
  <2>2. CASE ~ ok BY <1>1, <2>2 DEF CoreInv, TypeOK, Slots
  <2> QED BY <2>1, <2>2
<1>6. /\ content' \in [Ids -> Contents]
      /\ \A x \in Ids : content'[x] = IF x \notin S THEN content[x]
                                      ELSE IF ok THEN "shown" ELSE "skipped"
  BY <1>1 DEF CoreInv, TypeOK, Contents
<1>7. /\ Queued' = Queued /\ Slotted' = Slotted /\ Buffered' = Buffered
      /\ InDrain' = InDrain /\ InHandler' = InHandler
  BY <1>1, PlacesKept
<1>8. TypeOK' BY <1>1, <1>4, <1>5, <1>6 DEF CoreInv, TypeOK, Tasks, Slots
<1>9. Unrepeated' BY <1>1, UnrepeatedKept DEF CoreInv, Unrepeated
<1>10. TextInv'
  <2>1. ASSUME NEW x \in Ids PROVE Text(x)'
    <3>1. Text(x) BY DEF CoreInv, TextInv
    <3>2. CASE x \in S
      <4>1. x \in Slotted /\ content'[x] # "live" BY <1>3, <1>6, <3>2
      <4> QED BY <1>1, <1>4, <1>7, <3>1, <4>1 DEF Text
    <3>3. CASE x \notin S
      <4>1. content'[x] = content[x] BY <1>6, <3>3
      <4> QED BY <1>1, <1>4, <1>7, <3>1, <4>1 DEF Text
    <3> QED BY <3>2, <3>3
  <2>2. ASSUME NEW m \in Messages PROVE Slot(m)'
    <3>1. Slot(m) /\ Text(m) /\ m \in Ids BY Kinds DEF CoreInv, TextInv
    <3>2. CASE m \in S
      <4>1. /\ slot'[m].bind = slot[m].bind /\ slot[m].state = "projecting"
            /\ IF ok THEN slot'[m].state = "delivered" /\ content'[m] = "shown"
               ELSE slot'[m].state = "projecting" /\ content'[m] = "skipped"
        BY <1>3, <1>5, <1>6, <3>1, <3>2
      <4> QED BY <1>1, <1>4, <1>7, <3>1, <4>1 DEF Slot
    <3>3. CASE m \notin S
      <4>1. /\ slot'[m].bind = slot[m].bind /\ slot'[m].state = slot[m].state
            /\ content'[m] = content[m]
            /\ m \in Slotted => slot[m].state # "projecting"
        BY <1>3, <1>5, <1>6, <3>1, <3>3
      <4> QED BY <1>1, <1>4, <1>7, <3>1, <4>1 DEF Slot
    <3> QED BY <3>2, <3>3
  <2>3. ASSUME NEW r \in Resumes, resume'[r] = "parked" PROVE content'[r] = "unsent"
    <3>1. content[r] = "unsent" /\ r \in Ids /\ r \notin Messages
      BY <1>1, <2>3, Kinds DEF CoreInv, TextInv
    <3> QED BY <1>3, <1>6, <3>1
  <2> QED BY <2>1, <2>2, <2>3 DEF TextInv
<1>11. TurnInv'
  <2>1. /\ task.prompt \in Ids /\ content[task.prompt] # "unsent"
        /\ committed = TRUE => content[task.prompt] # "live"
    BY <1>2 DEF CoreInv, TurnInv
  <2>2. /\ content'[task.prompt] # "unsent"
        /\ committed = TRUE => content'[task.prompt] # "live"
    BY <1>6, <2>1
  <2> QED BY <1>1, <1>2, <1>4, <2>2, TurnGoes DEF CoreInv
<1>12. LoopInv' BY <1>1, <1>4, <1>7, LoopKept DEF CoreInv
<1> QED BY <1>8, <1>9, <1>10, <1>11, <1>12 DEF CoreInv

-----------------------------------------------------------------------------
(* Cancelling the turn.                                                     *)

\* What the turn had taken goes back in front of b.
LEMMA RestoreFacts ==
    ASSUME CoreInv, NEW b \in Seq(Entries), IsInjective(EntryIds(b)),
           ToSet(EntryIds(b)) \subseteq Buffered,
           buffer' = RestoreOnCancel(b), taken' = IF Alive THEN <<>> ELSE taken
    PROVE  /\ taken' = <<>> /\ InDrain' = {} /\ IsInjective(EntryIds(taken)')
           /\ taken' \in Seq(Entries)
           /\ buffer' \in Seq(Entries) /\ IsInjective(EntryIds(buffer)')
           /\ Buffered' = ToSet(EntryIds(b)) \cup InDrain
<1>1. taken' = <<>> /\ (~ Alive => InDrain = {})
  <2>1. ~ Alive => taken = <<>> BY DEF Alive, CoreInv, TurnInv
  <2> QED BY <2>1, Placed DEF CoreInv
<1>2. taken' \in Seq(Entries)
  <2>1. <<>> \in Seq(Entries) OBVIOUS
  <2> QED BY ONLY <1>1, <2>1
<1>3. InDrain' = {} /\ IsInjective(EntryIds(taken)') BY <1>1, PlacesKept
<1>4. /\ buffer' \in Seq(Entries) /\ IsInjective(EntryIds(buffer'))
      /\ ToSet(EntryIds(buffer')) = ToSet(EntryIds(b)) \cup InDrain
  <2>1. CASE Alive
    <3>1. buffer' = taken \o b BY <2>1 DEF RestoreOnCancel
    <3>2. taken \in Seq(Entries) /\ IsInjective(EntryIds(taken))
      BY DEF CoreInv, TypeOK, Unrepeated
    <3>3. ToSet(EntryIds(taken)) \cap ToSet(EntryIds(b)) = {}
      <4>1. InDrain \cap Buffered = {} BY Placed DEF CoreInv, TextInv, Text
      <4> QED BY <4>1 DEF InDrain
    <3> QED BY <3>1, <3>2, <3>3, EntriesJoined DEF InDrain
  <2>2. CASE ~ Alive BY <1>1, <2>2 DEF RestoreOnCancel
  <2> QED BY <2>1, <2>2
<1>5. EntryIds(buffer)' = EntryIds(buffer') OBVIOUS
<1> QED BY <1>1, <1>2, <1>3, <1>4 DEF Buffered

\* The turn's future is dropped: what it had taken goes back in front of b.
LEMMA AbortFacts ==
    ASSUME CoreInv, NEW b \in Seq(Entries), IsInjective(EntryIds(b)),
           ToSet(EntryIds(b)) \subseteq Buffered, AbortTask(b)
    PROVE  /\ task' \in Tasks /\ task'.prompt = task.prompt /\ task'.epoch = task.epoch
           /\ Running' = Running /\ Binding(task)' = Binding(task)
           /\ ~ Running => task' = task
           /\ Running => task'.phase \in {"sent", "aborted"}
           /\ task.phase \in {"sent", "aborted"} => task'.phase = task.phase
           /\ task.phase # "sent" => task'.phase # "sent"
           /\ pin' \in Ids \cup {None} /\ taken' = <<>>
           /\ buffer' \in Seq(Entries) /\ IsInjective(EntryIds(buffer)')
           /\ Buffered' = ToSet(EntryIds(b)) \cup InDrain
<1>1. /\ task' = [task EXCEPT !.phase = AbortedPhase] /\ pin' = UnpinnedByAbort
      /\ buffer' = RestoreOnCancel(b) /\ taken' = IF Alive THEN <<>> ELSE taken
  BY DEF AbortTask
<1>2. task \in Tasks /\ task.phase \in Phases BY LoopTyped DEF CoreInv, Tasks
<1>3. /\ task' \in Tasks /\ task'.prompt = task.prompt /\ task'.epoch = task.epoch
      /\ Running' = Running /\ Binding(task)' = Binding(task)
      /\ ~ Running => task' = task
      /\ Running => task'.phase \in {"sent", "aborted"}
      /\ task.phase \in {"sent", "aborted"} => task'.phase = task.phase
      /\ task.phase # "sent" => task'.phase # "sent"
  <2>1. CASE Running
    <3>1. /\ AbortedPhase \in Phases /\ AbortedPhase \in {"sent", "aborted"}
          /\ task.phase \in {"sent", "aborted"} => AbortedPhase = task.phase
          /\ task.phase # "sent" => AbortedPhase # "sent"
      BY <1>2, <2>1 DEF AbortedPhase, Alive, Running, Phases
    <3>2. /\ task' \in Tasks /\ task'.phase = AbortedPhase /\ task'.prompt = task.prompt
          /\ task'.epoch = task.epoch /\ Binding(task)' = Binding(task)
          /\ Running' = Running
      BY <1>1, <2>1, <3>1, GoesFacts DEF CoreInv
    <3> QED BY <2>1, <3>1, <3>2
  <2>2. CASE ~ Running
    <3>1. task = NoTask /\ task.phase = "none" BY <2>2 DEF CoreInv, TurnInv, Running
    <3>2. AbortedPhase = "none" BY <3>1 DEF AbortedPhase, Alive
    <3>3. task' = [NoTask EXCEPT !.phase = "none"] BY <1>1, <3>1, <3>2
    <3>4. task' = task BY <3>1, <3>3 DEF NoTask
    <3>5. Running' = Running /\ Binding(task)' = Binding(task) BY <3>4, PlacesKept
    <3> QED BY <1>2, <2>2, <3>1, <3>4, <3>5
  <2> QED BY <2>1, <2>2
<1>4. pin' \in Ids \cup {None} BY <1>1 DEF UnpinnedByAbort, CoreInv, TypeOK
<1>5. /\ taken' = <<>> /\ buffer' \in Seq(Entries) /\ IsInjective(EntryIds(buffer)')
      /\ Buffered' = ToSet(EntryIds(b)) \cup InDrain
  BY <1>1, RestoreFacts
<1> QED BY <1>3, <1>4, <1>5

\* The same turn, perhaps aborted.
LEMMA TurnSame ==
    ASSUME TurnInv, UNCHANGED <<epoch, committed, completions>>,
           task'.prompt = task.prompt, task'.epoch = task.epoch, Running' = Running,
           ~ Running => task' = task,
           task.phase = "sent" => task'.phase = "sent",
           taken' # <<>> => task'.phase = "interject",
           Running => /\ content'[task.prompt] = "live" => content[task.prompt] = "live"
                      /\ content'[task.prompt] = "unsent" =>
                           content[task.prompt] = "unsent"
    PROVE  TurnInv'
BY DEF TurnInv

\* The claim of a cancel: taken, with the lease naming the running turn or the front,
\* or refused.
LEMMA ClaimFacts ==
    ASSUME CoreInv, NEW kind \in {"send_now", "soft", "stop", "teardown", "shutdown"},
           NEW b \in Seq(Entries), IsInjective(EntryIds(b)),
           ToSet(EntryIds(b)) \subseteq Buffered, ClaimCancel(kind, b),
           kind = "send_now" => loop.at = "send_now",
           kind # "send_now" => loop.at = "idle" /\ kind \in scenario.commands,
           UNCHANGED <<scenario, epoch, committed, slots, completions>>,
           queue # <<>> /\ Head(queue) = task.prompt /\ Running =>
             queue' # <<>> /\ Head(queue') = task.prompt,
           Running => /\ content'[task.prompt] = "live" => content[task.prompt] = "live"
                      /\ content'[task.prompt] = "unsent" =>
                           content[task.prompt] = "unsent"
    PROVE  /\ loop' \in Loops /\ gate' \in BOOLEAN /\ task' \in Tasks
           /\ pin' \in Ids \cup {None}
           /\ buffer' \in Seq(Entries) /\ IsInjective(EntryIds(buffer)')
           /\ taken' \in Seq(Entries) /\ IsInjective(EntryIds(taken)')
           /\ task'.prompt = task.prompt /\ Running' = Running
           /\ Binding(task)' = Binding(task)
           /\ task.phase \in {"barrier", "aborted"} => task'.phase \in {"barrier", "aborted"}
           /\ \/ Buffered' = ToSet(EntryIds(b)) /\ InDrain' = InDrain
              \/ Buffered' = ToSet(EntryIds(b)) \cup InDrain /\ InDrain' = {}
           /\ InHandler = {} /\ InHandler' = {}
           /\ TurnInv' /\ LoopInv'
<1>1. /\ loop.at # "queue" /\ (Running => queue # <<>> /\ Head(queue) = task.prompt)
      /\ kind = "send_now" => Running /\ committed = TRUE
  BY DEF CoreInv, LoopInv
<1>2. CASE task' = task /\ pin' = pin /\ taken' = taken /\ buffer' = b
  <2>1. /\ Running' = Running /\ Binding(task)' = Binding(task)
        /\ InDrain' = InDrain /\ EntryIds(taken)' = EntryIds(taken)
    BY <1>2, PlacesKept
  <2>2. Buffered' = ToSet(EntryIds(b)) /\ EntryIds(buffer)' = EntryIds(b)
    BY <1>2 DEF Buffered
  <2>3. TurnInv' BY <1>2, <2>1, TurnSame DEF CoreInv, TurnInv
  <2>4. /\ task' \in Tasks /\ pin' \in Ids \cup {None} /\ taken' \in Seq(Entries)
        /\ IsInjective(EntryIds(taken)')
    BY <1>2, <2>1, LoopTyped DEF CoreInv, TypeOK, Unrepeated
  <2>5. loop' \in Loops /\ gate' \in BOOLEAN /\ loop'.at # "queue" /\ LoopInv'
    <3>1. CASE claim_cancel_finalization
      <4>1. gate' = TRUE /\ loop' = Loop("teardown", None, kind, CancelBinding)
        BY <3>1 DEF ClaimCancel
      <4>2. CancelBinding \in Bindings
        <5>1. FrontRow \in Ids \cup {None} BY Placed DEF FrontRow, CoreInv
        <5>2. CASE Running BY <5>2, LoopTyped DEF CancelBinding, CoreInv
        <5>3. CASE ~ Running BY <5>1, <5>3 DEF CancelBinding, Bindings
        <5> QED BY <5>2, <5>3
      <4>3. "teardown" \in Awaits /\ kind \in Endings BY DEF Awaits, Endings
      <4>4. /\ loop' \in Loops /\ loop'.at = "teardown" /\ loop'.kind = kind
            /\ loop'.bound = CancelBinding
        BY <4>1, <4>2, <4>3, LoopMade
      <4>5. /\ Running => loop'.bound = Binding(task)
            /\ ~ Running => loop'.bound.epoch = 0
        BY <4>4 DEF CancelBinding
      <4>6. LoopInv' BY <1>1, <1>2, <2>1, <4>1, <4>4, <4>5 DEF LoopInv
      <4> QED BY <4>1, <4>4, <4>6
    <3>2. CASE ~ claim_cancel_finalization
      <4>1. gate' = gate /\ loop' \in {Then("close"), Idle}
        BY <3>2 DEF ClaimCancel
      <4>2. loop' \in Loops /\ loop'.at \in {"close", "idle"}
        BY <4>1, LoopTyped DEF Awaits
      <4>3. LoopInv' BY <1>1, <1>2, <2>1, <4>2, LoopLeft
      <4> QED BY <4>1, <4>2, <4>3 DEF CoreInv, TypeOK
    <3> QED BY <3>1, <3>2
  <2>6. InHandler = {} /\ InHandler' = {} BY <1>1, <2>5, PlacesKept
  <2> QED BY <1>2, <2>1, <2>2, <2>3, <2>4, <2>5, <2>6
<1>3. CASE /\ claim_cancel_finalization /\ gate' = TRUE /\ AbortTask(b)
           /\ loop' = Loop("teardown", None, kind, CancelBinding)
           /\ kind \in {"stop", "teardown", "shutdown"}
  <2>1. /\ task' \in Tasks /\ task'.prompt = task.prompt /\ task'.epoch = task.epoch
        /\ Running' = Running /\ Binding(task)' = Binding(task)
        /\ ~ Running => task' = task
        /\ Running => task'.phase \in {"sent", "aborted"}
        /\ task.phase \in {"sent", "aborted"} => task'.phase = task.phase
        /\ task.phase # "sent" => task'.phase # "sent"
        /\ pin' \in Ids \cup {None} /\ taken' = <<>>
        /\ buffer' \in Seq(Entries) /\ IsInjective(EntryIds(buffer)')
        /\ Buffered' = ToSet(EntryIds(b)) \cup InDrain
    BY <1>3, AbortFacts
  <2>2. InDrain' = {} /\ IsInjective(EntryIds(taken)') BY <2>1, PlacesKept
  <2>3. TurnInv' BY <2>1, TurnSame DEF CoreInv
  <2>4. CancelBinding \in Bindings
    <3>1. FrontRow \in Ids \cup {None} BY Placed DEF FrontRow, CoreInv
    <3>2. CASE Running BY <3>2, LoopTyped DEF CancelBinding, CoreInv
    <3>3. CASE ~ Running BY <3>1, <3>3 DEF CancelBinding, Bindings
    <3> QED BY <3>2, <3>3
  <2>5. "teardown" \in Awaits /\ kind \in Endings BY DEF Awaits, Endings
  <2>6. /\ loop' \in Loops /\ loop'.at = "teardown" /\ loop'.kind = kind
        /\ loop'.bound = CancelBinding
    <3>1. loop' = Loop("teardown", None, kind, CancelBinding) BY <1>3
    <3>2. None \in Ids \cup {None} OBVIOUS
    <3> DEFINE next == Loop("teardown", None, kind, CancelBinding)
    <3>3. /\ next \in Loops /\ next.at = "teardown" /\ next.kind = kind
          /\ next.bound = CancelBinding
      BY <2>4, <2>5, <3>2, LoopMade
    <3> QED BY <3>1, <3>3
  <2>7. /\ Running => loop'.bound = Binding(task)
        /\ ~ Running => loop'.bound.epoch = 0
    BY <2>6 DEF CancelBinding
  <2>8. LoopInv' BY <1>1, <1>3, <2>1, <2>6, <2>7 DEF LoopInv
  <2>9. InHandler = {} /\ InHandler' = {} BY <1>1, <2>6, PlacesKept
  <2>10. task.phase \in {"barrier", "aborted"} => task'.phase \in {"barrier", "aborted"}
    BY <2>1 DEF Running
  <2>11. taken' \in Seq(Entries) BY <2>1
  <2>12. gate' \in BOOLEAN BY <1>3
  <2> QED BY <2>1, <2>2, <2>3, <2>6, <2>8, <2>9, <2>10, <2>11, <2>12
<1> QED BY <1>2, <1>3 DEF ClaimCancel

\* A cancel discards the buffer; a shutdown leaves it as it is.
LEMMA CancelKeeps ==
    ASSUME CoreInv, UNCHANGED scenario,
           \/ \E kind \in {"soft", "stop", "teardown"} : Cancel(kind)
           \/ \E cancels \in BOOLEAN : Shutdown(cancels)
    PROVE  CoreInv'
<1> USE DEF queueVars, slotVars, bufferVars, backVars, senderVars
<1> DEFINE Kept == UNCHANGED <<queue, sendNow, fallback, holds, hookHold, epoch, rewindable,
                              committed, slots, slot, completions, resume, mcp, reported,
                              answer>>
           Effect(S) ==
             /\ loop' \in Loops /\ gate' \in BOOLEAN /\ task' \in Tasks
             /\ pin' \in Ids \cup {None}
             /\ buffer' \in Seq(Entries) /\ IsInjective(EntryIds(buffer)')
             /\ taken' \in Seq(Entries) /\ IsInjective(EntryIds(taken)')
             /\ task'.prompt = task.prompt /\ Running' = Running
             /\ Binding(task)' = Binding(task)
             /\ task.phase \in {"barrier", "aborted"} =>
                  task'.phase \in {"barrier", "aborted"}
             /\ \/ Buffered' = S /\ InDrain' = InDrain
                \/ Buffered' = S \cup InDrain /\ InDrain' = {}
             /\ InHandler = {} /\ InHandler' = {}
             /\ TurnInv' /\ LoopInv'
<1>1. /\ Kept /\ content' \in [Ids -> Contents]
      /\ \/ Effect({}) /\ \A x \in Ids : content'[x] = IF x \in Buffered THEN "discarded"
                                                       ELSE content[x]
         \/ Effect(Buffered) /\ content' = content
  <2>1. /\ <<>> \in Seq(Entries) /\ IsInjective(EntryIds(<<>>))
        /\ ToSet(EntryIds(<<>>)) = {} /\ ToSet(EntryIds(<<>>)) \subseteq Buffered
    <3>1. EntryIds(<<>>) = <<>> BY EmptyFacts
    <3> QED BY <3>1, EmptyFacts
  <2>2. buffer \in Seq(Entries) /\ IsInjective(EntryIds(buffer))
    BY DEF CoreInv, TypeOK, Unrepeated
  <2>3. ASSUME NEW kind \in {"soft", "stop", "teardown"}, Cancel(kind)
        PROVE  /\ Kept /\ content' \in [Ids -> Contents] /\ Effect({})
               /\ \A x \in Ids : content'[x] = IF x \in Buffered THEN "discarded"
                                               ELSE content[x]
    <3> DEFINE none == <<>>
    <3>1. /\ Kept /\ ClaimCancel(kind, none) /\ content' = Became(Buffered, "discarded")
          /\ loop.at = "idle" /\ kind \in scenario.commands
      BY <2>3 DEF Cancel, MayIssue, AtIdle, Buffered
    <3>2. /\ content' \in [Ids -> Contents]
          /\ \A x \in Ids : content'[x] = IF x \in Buffered /\ content[x] = "live"
                                            THEN "discarded" ELSE content[x]
      BY <3>1, SendersTyped DEF CoreInv, Answers, Contents
    <3>3. \A x \in Ids : x \in Buffered => content[x] = "live"
      BY DEF CoreInv, TextInv, Text
    <3>4. Running => /\ content'[task.prompt] = "live" => content[task.prompt] = "live"
                     /\ content'[task.prompt] = "unsent" => content[task.prompt] = "unsent"
      <4>1. Running => task.prompt \in Ids BY DEF CoreInv, TurnInv
      <4> QED BY <3>2, <4>1
    <3>5. /\ none \in Seq(Entries) /\ IsInjective(EntryIds(none))
          /\ ToSet(EntryIds(none)) = {} /\ ToSet(EntryIds(none)) \subseteq Buffered
      BY <2>1
    <3> HIDE DEF none
    <3>6. Effect(ToSet(EntryIds(none)))
      BY <3>1, <3>4, <3>5, ClaimFacts
    <3> QED BY <3>1, <3>2, <3>3, <3>5, <3>6
  <2>4. ASSUME NEW cancels \in BOOLEAN, Shutdown(cancels)
        PROVE  /\ Kept /\ content' \in [Ids -> Contents]
               /\ Effect(Buffered) /\ content' = content
    <3>1. /\ Kept /\ content' = content /\ loop.at = "idle"
          /\ "shutdown" \in scenario.commands
          /\ \/ ClaimCancel("shutdown", buffer)
             \/ loop' = Then("close") /\ UNCHANGED <<gate, task, pin, buffer, taken>>
      BY <2>4 DEF Shutdown, MayIssue, AtIdle
    <3>2. content' \in [Ids -> Contents] BY <3>1 DEF CoreInv, TypeOK
    <3>3. CASE ClaimCancel("shutdown", buffer)
      <4>1. ToSet(EntryIds(buffer)) \subseteq Buffered BY DEF Buffered
      <4>2. Effect(ToSet(EntryIds(buffer)))
        BY <2>2, <3>1, <3>3, <4>1, ClaimFacts
      <4> QED BY <3>1, <3>2, <4>2 DEF Buffered
    <3>4. CASE loop' = Then("close") /\ UNCHANGED <<gate, task, pin, buffer, taken>>
      <4>1. loop' \in Loops /\ loop'.at = "close" BY <3>4, LoopTyped DEF Awaits
      <4>2. /\ Buffered' = Buffered /\ EntryIds(buffer)' = EntryIds(buffer)
            /\ InDrain' = InDrain /\ EntryIds(taken)' = EntryIds(taken)
            /\ InHandler = {} /\ InHandler' = {}
            /\ Running' = Running /\ Binding(task)' = Binding(task) /\ task' = task
        BY <3>1, <3>4, <4>1, PlacesKept
      <4>3. /\ gate' \in BOOLEAN /\ task' \in Tasks /\ pin' \in Ids \cup {None}
            /\ buffer' \in Seq(Entries) /\ IsInjective(EntryIds(buffer)')
            /\ taken' \in Seq(Entries) /\ IsInjective(EntryIds(taken)')
        BY <3>4, <4>2, LoopTyped DEF CoreInv, TypeOK, Unrepeated
      <4>4. TurnInv' BY <3>1, <3>4, TurnKept DEF CoreInv
      <4>5. LoopInv' BY <3>1, <4>1, <4>2, LoopLeft DEF CoreInv, LoopInv
      <4> QED BY <3>1, <3>2, <4>1, <4>2, <4>3, <4>4, <4>5
    <3> QED BY <3>1, <3>3, <3>4
  <2> HIDE DEF Kept, Effect
  <2> QED BY <2>3, <2>4
<1>2. /\ loop' \in Loops /\ gate' \in BOOLEAN /\ task' \in Tasks
      /\ pin' \in Ids \cup {None}
      /\ buffer' \in Seq(Entries) /\ IsInjective(EntryIds(buffer)')
      /\ taken' \in Seq(Entries) /\ IsInjective(EntryIds(taken)')
      /\ task'.prompt = task.prompt /\ Running' = Running
      /\ Binding(task)' = Binding(task)
      /\ task.phase \in {"barrier", "aborted"} => task'.phase \in {"barrier", "aborted"}
      /\ InHandler = {} /\ InHandler' = {} /\ TurnInv' /\ LoopInv'
  BY <1>1
<1>3. /\ UNCHANGED <<queue, sendNow, fallback, holds, hookHold, epoch, rewindable, committed,
                     slots, slot, completions, resume, mcp, reported, answer>>
      /\ content' \in [Ids -> Contents]
  BY <1>1
<1>4. \/ /\ \/ Buffered' = InDrain /\ InDrain' = {}
            \/ Buffered' = {} /\ InDrain' = InDrain
         /\ \A x \in Ids : content'[x] = IF x \in Buffered THEN "discarded" ELSE content[x]
      \/ /\ \/ Buffered' = Buffered /\ InDrain' = InDrain
            \/ Buffered' = Buffered \cup InDrain /\ InDrain' = {}
         /\ content' = content
  BY <1>1
<1> HIDE DEF Kept, Effect
<1>5. TypeOK' BY <1>2, <1>3 DEF CoreInv, TypeOK, Loops, Tasks, Awaits, Endings
<1>6. Unrepeated' BY <1>2, <1>3 DEF CoreInv, Unrepeated
<1>7. Queued' = Queued /\ Slotted' = Slotted BY <1>3, PlacesKept
<1>8. TextInv'
  <2>1. ASSUME NEW x \in Ids PROVE Text(x)'
    <3>1. Text(x) BY DEF CoreInv, TextInv
    <3> QED BY <1>2, <1>3, <1>4, <1>7, <3>1 DEF Text
  <2>2. ASSUME NEW m \in Messages PROVE Slot(m)'
    <3>1. Slot(m) /\ Text(m) /\ m \in Ids BY Kinds DEF CoreInv, TextInv
    <3>2. /\ m \in Slotted => content'[m] = content[m]
          /\ content[m] # "live" => content'[m] = content[m]
      BY <1>4, <3>1 DEF Text
    <3> QED BY <1>2, <1>3, <1>7, <3>1, <3>2 DEF Slot
  <2>3. ASSUME NEW r \in Resumes, resume'[r] = "parked" PROVE content'[r] = "unsent"
    <3>1. content[r] = "unsent" /\ r \in Ids /\ Text(r)
      BY <1>3, <2>3, Kinds DEF CoreInv, TextInv
    <3> QED BY <1>4, <3>1 DEF Text
  <2> QED BY <2>1, <2>2, <2>3 DEF TextInv
<1> QED BY <1>2, <1>5, <1>6, <1>8 DEF CoreInv

\* A send-now keeps the buffer: it becomes rows that run first.
LEMMA SendNowCancelKeeps ==
    ASSUME CoreInv, UNCHANGED scenario, cancel_turn_for_send_now
    PROVE  CoreInv'
<1> USE DEF slotVars, backVars, senderVars
<1> DEFINE none == <<>>
<1>1. /\ UNCHANGED <<holds, hookHold, epoch, rewindable, committed, slots, slot, completions,
                     resume, mcp, reported, answer, content>>
      /\ loop.at = "send_now" /\ queue_interjection_fallbacks(EntryIds(buffer))
      /\ ClaimCancel("send_now", none)
  BY DEF cancel_turn_for_send_now
<1>2. /\ queue' \in Seq(Ids) /\ IsInjective(queue') /\ Queued' = Queued \cup Buffered
      /\ sendNow' \subseteq Ids /\ fallback' = fallback \cup Buffered
      /\ fallback' \subseteq Ids
      /\ Running /\ queue # <<>> /\ Head(queue) = task.prompt =>
           queue' # <<>> /\ Head(queue') = task.prompt
  BY <1>1, FlushFacts
<1>3. /\ none \in Seq(Entries) /\ IsInjective(EntryIds(none))
      /\ ToSet(EntryIds(none)) = {} /\ ToSet(EntryIds(none)) \subseteq Buffered
  <2>1. EntryIds(none) = <<>> BY EmptyFacts
  <2> QED BY <2>1, EmptyFacts
<1> HIDE DEF none
<1>4. /\ loop' \in Loops /\ gate' \in BOOLEAN /\ task' \in Tasks
      /\ pin' \in Ids \cup {None}
      /\ buffer' \in Seq(Entries) /\ IsInjective(EntryIds(buffer)')
      /\ taken' \in Seq(Entries) /\ IsInjective(EntryIds(taken)')
      /\ task'.prompt = task.prompt /\ Running' = Running
      /\ Binding(task)' = Binding(task)
      /\ task.phase \in {"barrier", "aborted"} => task'.phase \in {"barrier", "aborted"}
      /\ \/ Buffered' = ToSet(EntryIds(none)) /\ InDrain' = InDrain
         \/ Buffered' = ToSet(EntryIds(none)) \cup InDrain /\ InDrain' = {}
      /\ InHandler = {} /\ InHandler' = {}
      /\ TurnInv' /\ LoopInv'
  BY <1>1, <1>2, <1>3, ClaimFacts
<1>5. TypeOK' BY <1>1, <1>2, <1>4 DEF CoreInv, TypeOK, Loops, Tasks, Awaits, Endings
<1>6. Unrepeated' BY <1>1, <1>2, <1>4 DEF CoreInv, Unrepeated
<1>7. Slotted' = Slotted BY <1>1, PlacesKept
<1>8. TextInv'
  <2>1. ASSUME NEW x \in Ids PROVE Text(x)'
    <3>1. Text(x) BY DEF CoreInv, TextInv
    <3>2. \/ Buffered' = {} /\ InDrain' = InDrain
          \/ Buffered' = InDrain /\ InDrain' = {}
      BY <1>3, <1>4
    <3> QED BY <1>1, <1>2, <1>4, <1>7, <3>1, <3>2 DEF Text
  <2>2. \A m \in Messages : Slot(m)' BY <1>1, <1>4, <1>7 DEF CoreInv, TextInv, Slot
  <2> QED BY <1>1, <2>1, <2>2 DEF CoreInv, TextInv
<1> QED BY <1>4, <1>5, <1>6, <1>8 DEF CoreInv

-----------------------------------------------------------------------------
(* The end of a turn.                                                       *)

\* Every slot ends.
LEMMA SlotsEnd ==
    ASSUME CoreInv, transition_parent_messages(Slotted)
    PROVE  /\ slots' \in Seq(Messages) /\ Len(slots') =< MaxSteers /\ IsInjective(slots')
           /\ Slotted' = {} /\ slot' \in [Messages -> Slots]
<1>1. slots' = Drop(slots, Slotted) /\ slot' = Unslot(Slotted)
  BY DEF transition_parent_messages
<1>2. /\ slots \in Seq(Messages) /\ Len(slots) =< MaxSteers /\ IsInjective(slots)
      /\ slot \in [Messages -> Slots] /\ MaxSteers \in Nat
  BY IdsAssumption DEF CoreInv, TypeOK, Unrepeated, Slots
<1>3. /\ slots' \in Seq(Messages) /\ Len(slots') =< Len(slots) /\ IsInjective(slots')
      /\ ToSet(slots') = ToSet(slots) \ Slotted
  BY <1>1, <1>2, DropFacts
<1>4. Len(slots') \in Nat /\ Len(slots) \in Nat BY <1>2, <1>3, LenProperties
<1>5. Len(slots') =< MaxSteers BY <1>2, <1>3, <1>4
<1>6. Slotted' = {} BY <1>3 DEF Slotted
<1>7. NoSlot \in Slots BY LoopTyped DEF NoSlot, NoBound, Slots
<1>8. slot' \in [Messages -> Slots] BY <1>1, <1>2, <1>7 DEF Unslot
<1> QED BY <1>3, <1>5, <1>6, <1>8

\* The messages that fall back are rows behind what stays of the queue.
LEMMA EndedRows ==
    ASSUME CoreInv, NEW cause, NEW s \in Seq(Ids), IsInjective(s), ToSet(s) \subseteq Queued
    PROVE  /\ ToSet(Fallbacks(Slotted, cause)) \subseteq Slotted
           /\ \A m \in ToSet(Fallbacks(Slotted, cause)) : slot[m].state = "pending"
           /\ cause = "completion" =>
                \A m \in Slotted \ ToSet(Fallbacks(Slotted, cause)) :
                  slot[m].state # "pending"
           /\ cause = "hard_teardown" => ToSet(Fallbacks(Slotted, cause)) = {}
           /\ s \o Fallbacks(Slotted, cause) \in Seq(Ids)
           /\ IsInjective(s \o Fallbacks(Slotted, cause))
           /\ ToSet(s \o Fallbacks(Slotted, cause)) =
                ToSet(s) \cup ToSet(Fallbacks(Slotted, cause))
           /\ s # <<>> => /\ s \o Fallbacks(Slotted, cause) # <<>>
                          /\ Head(s \o Fallbacks(Slotted, cause)) = Head(s)
<1> DEFINE f == Fallbacks(Slotted, cause)
<1>1. slots \in Seq(Messages) /\ IsInjective(slots) BY DEF CoreInv, TypeOK, Unrepeated
<1>2. /\ f \in Seq(Messages) /\ IsInjective(f)
      /\ ToSet(f) = IF cause \in {"completion", "soft_cancel", "rewind"}
                      THEN {m \in ToSet(slots) \cap Slotted : slot[m].state = "pending"}
                      ELSE {}
  BY <1>1, FallbacksFacts
<1> HIDE DEF f
<1>3. f \in Seq(Ids)
  <2>1. Messages \subseteq Ids BY Kinds
  <2> QED BY <1>2, <2>1, LenProperties, ElementOfSeq, SeqDef
<1>4. /\ ToSet(f) \subseteq Slotted /\ \A m \in ToSet(f) : slot[m].state = "pending"
      /\ cause = "completion" => \A m \in Slotted \ ToSet(f) : slot[m].state # "pending"
      /\ cause = "hard_teardown" => ToSet(f) = {}
  BY <1>2 DEF Slotted
<1>5. ToSet(s) \cap ToSet(f) = {}
  <2>1. Slotted \subseteq Ids BY Placed, Kinds DEF CoreInv
  <2>2. Queued \cap Slotted = {} BY <2>1 DEF CoreInv, TextInv, Text
  <2> QED BY <1>4, <2>2
<1>6. /\ s \o f \in Seq(Ids) /\ IsInjective(s \o f)
      /\ ToSet(s \o f) = ToSet(s) \cup ToSet(f)
      /\ s # <<>> => s \o f # <<>> /\ Head(s \o f) = Head(s)
  BY <1>2, <1>3, <1>5, ConcatFacts
<1> QED BY <1>4, <1>6 DEF f

LEMMA TurnGone ==
    ASSUME TurnInv, task' = NoTask, taken' = <<>>, UNCHANGED <<epoch, completions>>
    PROVE  TurnInv'
<1>1. ~ Running' BY DEF Running, NoTask
<1> QED BY <1>1 DEF TurnInv

\* The slots end: fall are queued, the rows gone leave, the other messages are told
\* how, and the texts of over became what.
Ends(fall, gone, over, how, what) ==
  /\ fall \subseteq Slotted /\ \A m \in fall : slot[m].state = "pending"
  /\ gone \subseteq Queued /\ Queued' = (Queued \ gone) \cup fall /\ Slotted' = {}
  /\ InHandler = {} /\ InHandler' = {} /\ UNCHANGED <<fallback, resume>>
  /\ answer' = Told(gone \cup (Slotted \ fall), how)
  /\ content' = Became(over, what)
  /\ \A x \in Ids : x \in gone \cup (Slotted \ fall) /\ content[x] = "live" => x \in over
  /\ over \cap (Queued' \cup Buffered' \cup InDrain') = {}
  /\ \/ Buffered' = Buffered /\ InDrain' = InDrain
     \/ Buffered' = Buffered \cup InDrain /\ InDrain' = {}
     \/ Buffered' = InDrain /\ InDrain' = {} /\ Buffered \subseteq over
  /\ Running /\ task.prompt \in Queued' => Running' /\ task'.prompt = task.prompt
  /\ how = "completed" =>
       \A m \in Messages : m \in gone \cup (Slotted \ fall) =>
         content'[m] \in {"shown", "handled", "skipped"}

LEMMA TextsEnd ==
    ASSUME CoreInv, NEW fall, NEW gone, NEW over,
           NEW how \in {"cancelled", "completed"}, NEW what \in {"discarded", "handled"},
           Ends(fall, gone, over, how, what)
    PROVE  /\ TextInv' /\ answer' \in [Ids -> Answers] /\ content' \in [Ids -> Contents]
           /\ \A x \in Ids : /\ content'[x] = "live" => content[x] = "live"
                             /\ content'[x] = "unsent" => content[x] = "unsent"
<1> USE DEF Ends
<1> DEFINE told == gone \cup (Slotted \ fall)
<1>1. /\ answer' \in [Ids -> Answers] /\ content' \in [Ids -> Contents]
      /\ \A x \in Ids :
           /\ answer'[x] = IF x \in told /\ answer[x] = "waiting" THEN how ELSE answer[x]
           /\ content'[x] = IF x \in over /\ content[x] = "live" THEN what ELSE content[x]
  BY SendersTyped DEF CoreInv, Answers, Contents
<1>2. ASSUME NEW x \in Ids PROVE Text(x)'
  <2>1. Text(x) /\ (x \in Messages => Slot(x)) BY DEF CoreInv, TextInv
  <2>2. CASE x \in told
    <3>1. x \notin Queued' /\ x \notin Buffered /\ x \notin InDrain
      BY <2>1, <2>2 DEF Text
    <3>2. content'[x] # "live" /\ answer'[x] # "waiting"
      BY <1>1, <2>2
    <3>3. x \notin Buffered' /\ x \notin InDrain' BY <3>1
    <3> QED BY <3>1, <3>2, <3>3 DEF Text
  <2>3. CASE x \in fall
    <3>1. x \in Slotted /\ x \in Messages /\ slot[x].state = "pending" BY <2>3, Placed DEF CoreInv
    <3>2. content[x] = "live" BY <2>1, <3>1 DEF Slot
    <3>3. x \in Queued' BY <2>3
    <3>4. x \notin over BY <3>3
    <3>5. content'[x] = "live" BY <1>1, <3>2, <3>4
    <3>6. answer[x] = "waiting" /\ x \notin Buffered /\ x \notin InDrain
          /\ x \notin Queued
      BY <2>1, <3>1 DEF Text
    <3>7. x \notin told BY <2>3, <3>6
    <3>8. answer'[x] = "waiting" BY <1>1, <3>6, <3>7
    <3>9. x \notin Buffered' /\ x \notin InDrain' BY <3>6
    <3> QED BY <3>3, <3>5, <3>8, <3>9 DEF Text
  <2>4. CASE x \notin told /\ x \notin fall
    <3>1. x \notin Slotted /\ answer'[x] = answer[x] BY <1>1, <2>4
    <3>2. x \in Queued' <=> x \in Queued BY <2>4
    <3>3. CASE x \in Queued'
      <4>1. x \notin over /\ x \in Queued BY <3>2, <3>3
      <4>2. content'[x] = content[x] BY <1>1, <4>1
      <4>3. x \notin Buffered' /\ x \notin InDrain' BY <2>1, <4>1 DEF Text
      <4> QED BY <2>1, <3>1, <3>3, <4>1, <4>2, <4>3 DEF Text
    <3>4. CASE x \notin Queued' /\ x \in Buffered' \cup InDrain'
      <4>1. x \in Buffered \cup InDrain /\ x \notin over BY <3>4
      <4>2. content'[x] = content[x] /\ content[x] = "live" /\ answer[x] # "waiting"
        BY <1>1, <2>1, <3>1, <3>2, <3>4, <4>1 DEF Text
      <4>3. x \in Buffered' => x \notin InDrain' BY <2>1 DEF Text
      <4> QED BY <3>1, <3>4, <4>2, <4>3 DEF Text
    <3>5. CASE x \notin Queued' /\ x \notin Buffered' \cup InDrain'
      <4>1. x \in Buffered \cup InDrain => x \in over BY <3>5
      <4>2. content'[x] # "live" BY <1>1, <2>1, <3>1, <3>2, <3>5, <4>1 DEF Text
      <4>3. answer[x] # "waiting" BY <2>1, <3>1, <3>2, <3>5 DEF Text
      <4> QED BY <3>1, <3>5, <4>2, <4>3 DEF Text
    <3> QED BY <3>3, <3>4, <3>5
  <2> QED BY <2>2, <2>3, <2>4
<1>3. ASSUME NEW m \in Messages PROVE Slot(m)'
  <2>1. Slot(m) /\ m \in Ids BY Kinds DEF CoreInv, TextInv
  <2>2. answer'[m] = "completed" => content'[m] \in {"shown", "handled", "skipped"}
    <3>1. CASE answer[m] = "completed"
      BY <1>1, <2>1, <3>1 DEF Slot
    <3>2. CASE answer[m] # "completed"
      BY <1>1, <2>1, <3>2
    <3> QED BY <3>1, <3>2
  <2> QED BY <2>2 DEF Slot
<1>4. ASSUME NEW r \in Resumes, resume'[r] = "parked" PROVE content'[r] = "unsent"
  <2>1. content[r] = "unsent" /\ r \in Ids BY <1>4, Kinds DEF CoreInv, TextInv
  <2> QED BY <1>1, <2>1
<1>5. TextInv' BY <1>2, <1>3, <1>4 DEF TextInv
<1> QED BY <1>1, <1>5

\* A turn ends by its completion.
LEMMA CompletionKeeps ==
    ASSUME CoreInv, UNCHANGED scenario, handle_completion
    PROVE  CoreInv'
<1> USE DEF turnVars, bufferVars, backVars
<1> DEFINE p == task.prompt
           f == Fallbacks(Slotted, "completion")
           fall == ToSet(f)
           told == {p} \cup (Slotted \ fall)
<1>1. /\ loop.at = "complete" /\ gate = TRUE /\ Running /\ Binding(task) = loop.bound
      /\ task.phase = "sent" /\ p \in Ids /\ queue # <<>> /\ Head(queue) = p
      /\ loop.bound.prompt = p /\ FrontRow = p
  <2>1. loop.at = "complete" BY DEF handle_completion
  <2>2. /\ gate = TRUE /\ Running /\ Binding(task) = loop.bound /\ task.phase = "sent"
        /\ queue # <<>> /\ Head(queue) = p
    BY <2>1 DEF CoreInv, LoopInv
  <2>3. loop.bound.prompt = p BY <2>2 DEF Binding
  <2> QED BY <2>1, <2>2, <2>3 DEF CoreInv, TurnInv, FrontRow
<1>2. Bound(loop.bound) = Slotted /\ Settled(Slotted, "completion") = Slotted \ fall
  BY <1>1, AllBound DEF Settled
<1>3. /\ UNCHANGED <<sendNow, fallback, holds, hookHold, task, epoch, rewindable, committed,
                     pin, buffer, taken, gate, completions, resume, mcp, reported>>
      /\ loop' = [loop EXCEPT !.at = "release"]
      /\ queue' = Drop(queue, {p}) \o f /\ transition_parent_messages(Slotted)
      /\ answer' = Told(told, "completed") /\ content' = Became({p}, "handled")
  BY <1>1, <1>2 DEF handle_completion
<1>4. queue \in Seq(Ids) /\ IsInjective(queue) /\ p \in Queued
  BY <1>1, Placed DEF CoreInv, TypeOK, Unrepeated
<1>5. /\ Drop(queue, {p}) \in Seq(Ids) /\ IsInjective(Drop(queue, {p}))
      /\ ToSet(Drop(queue, {p})) = Queued \ {p}
  BY <1>4, DropFacts DEF Queued
<1>6. /\ fall \subseteq Slotted /\ \A m \in fall : slot[m].state = "pending"
      /\ \A m \in Slotted \ fall : slot[m].state # "pending"
      /\ queue' \in Seq(Ids) /\ IsInjective(queue')
      /\ ToSet(queue') = (Queued \ {p}) \cup fall
  <2> DEFINE s == Drop(queue, {p})
  <2>1. s \in Seq(Ids) /\ IsInjective(s) /\ ToSet(s) = Queued \ {p} BY <1>5
  <2>2. queue' = s \o f BY <1>3
  <2>3. ToSet(s) \subseteq Queued BY <2>1
  <2> HIDE DEF s
  <2> QED BY <2>1, <2>2, <2>3, EndedRows
<1> HIDE DEF f, fall
<1>7. Queued' = (Queued \ {p}) \cup fall BY <1>6 DEF Queued
<1>8. p \notin Slotted /\ p \notin Buffered /\ p \notin InDrain
  BY <1>1, <1>4 DEF CoreInv, TextInv, Text
<1>9. p \notin Queued' BY <1>6, <1>7, <1>8
<1>10. /\ slots' \in Seq(Messages) /\ Len(slots') =< MaxSteers /\ IsInjective(slots')
       /\ Slotted' = {} /\ slot' \in [Messages -> Slots]
  BY <1>3, SlotsEnd
<1>11. /\ Buffered' = Buffered /\ InDrain' = InDrain /\ Running' = Running
       /\ EntryIds(buffer)' = EntryIds(buffer) /\ EntryIds(taken)' = EntryIds(taken)
       /\ Binding(task)' = Binding(task)
  BY <1>3, PlacesKept
<1>12. /\ loop' \in Loops /\ loop'.at = "release" /\ loop'.bound = loop.bound
  BY <1>3, LoopTyped DEF CoreInv, Loops, Awaits
<1>13. InHandler = {} /\ InHandler' = {} BY <1>1, <1>12, PlacesKept
<1>14. ASSUME NEW m \in Messages, m \in told
       PROVE  content'[m] \in {"shown", "handled", "skipped"} /\ (content[m] = "live" => m = p)
  <2>1. m \in Ids /\ Text(m) /\ Slot(m) BY Kinds DEF CoreInv, TextInv
  <2>2. content'[m] = IF m = p /\ content[m] = "live" THEN "handled" ELSE content[m]
    BY <1>3, <2>1 DEF Became
  <2>3. CASE m = p BY <1>4, <2>1, <2>2, <2>3 DEF Text
  <2>4. CASE m \in Slotted \ fall
    <3>1. content[m] \in {"shown", "skipped"} BY <1>1, <1>6, <2>1, <2>4 DEF Slot
    <3> QED BY <2>2, <3>1
  <2> QED BY <1>14, <2>3, <2>4
<1>15. \A x \in Ids : x \in told /\ content[x] = "live" => x \in {p}
  <2>1. Slotted \subseteq Messages BY Placed DEF CoreInv
  <2> QED BY <1>14, <2>1
<1>16. {p} \cap (Queued' \cup Buffered' \cup InDrain') = {} BY <1>8, <1>9, <1>11
<1>17. /\ TextInv' /\ answer' \in [Ids -> Answers] /\ content' \in [Ids -> Contents]
       /\ \A x \in Ids : /\ content'[x] = "live" => content[x] = "live"
                         /\ content'[x] = "unsent" => content[x] = "unsent"
  <2>1. {p} \subseteq Queued BY <1>4
  <2>2. Ends(fall, {p}, {p}, "completed", "handled")
    BY <1>3, <1>6, <1>7, <1>9, <1>10, <1>11, <1>13, <1>14, <1>15, <1>16, <2>1 DEF Ends
  <2> QED BY <2>2, TextsEnd
<1>18. TypeOK'
  BY <1>3, <1>6, <1>10, <1>12, <1>17
     DEF CoreInv, TypeOK, Loops, Awaits, Endings, Slots
<1>19. Unrepeated' BY <1>6, <1>10, <1>11 DEF CoreInv, Unrepeated
<1>20. TurnInv' BY <1>1, <1>3, <1>17, TurnKept DEF CoreInv
<1>21. LoopInv'
  BY <1>1, <1>3, <1>9, <1>10, <1>11, <1>12 DEF LoopInv
<1> QED BY <1>17, <1>18, <1>19, <1>20, <1>21 DEF CoreInv

\* A turn ends by a cancel: what left is discarded, and the buffer too where over says so.
LEMMA EndsCancelled ==
    ASSUME CoreInv, NEW fall, NEW gone, NEW told, NEW over,
           told = gone \cup (Slotted \ fall),
           fall \subseteq Slotted, \A m \in fall : slot[m].state = "pending",
           gone \subseteq Queued, Queued' = (Queued \ gone) \cup fall, Slotted' = {},
           InHandler = {}, InHandler' = {}, UNCHANGED <<fallback, resume>>,
           answer' = Told(told, "cancelled"), content' = Became(over, "discarded"),
           \/ over = told /\ Buffered' = Buffered /\ InDrain' = InDrain
           \/ over = told /\ Buffered' = Buffered \cup InDrain /\ InDrain' = {}
           \/ over = told \cup Buffered /\ Buffered' = InDrain /\ InDrain' = {},
           Running /\ task.prompt \in Queued' => Running' /\ task'.prompt = task.prompt
    PROVE  /\ TextInv' /\ answer' \in [Ids -> Answers] /\ content' \in [Ids -> Contents]
           /\ \A x \in Ids : /\ content'[x] = "live" => content[x] = "live"
                             /\ content'[x] = "unsent" => content[x] = "unsent"
<1>1. /\ Queued \subseteq Ids /\ Slotted \subseteq Ids /\ Buffered \subseteq Ids
      /\ InDrain \subseteq Ids
  BY Placed, Kinds DEF CoreInv
<1>2. \A x \in Ids : /\ x \in Queued => x \notin Slotted \cup Buffered \cup InDrain
                     /\ x \in Slotted => x \notin Buffered \cup InDrain
                     /\ x \in Buffered => x \notin InDrain
  BY DEF CoreInv, TextInv, Text
<1>3. over \cap (Queued' \cup Buffered' \cup InDrain') = {}
  <2>1. told \cap Queued' = {} BY <1>1, <1>2
  <2>2. told \cap (Buffered \cup InDrain) = {} BY <1>1, <1>2
  <2>3. Buffered \cap (Queued' \cup InDrain) = {} BY <1>1, <1>2
  <2> QED BY <2>1, <2>2, <2>3
<1>4. Ends(fall, gone, over, "cancelled", "discarded") BY <1>3 DEF Ends
<1> QED BY <1>4, TextsEnd

\* The teardown of a cancel that holds a lease.
LEMMA TeardownKeeps ==
    ASSUME CoreInv, UNCHANGED scenario, Teardown
    PROVE  CoreInv'
<1> USE DEF bufferVars, slotVars, backVars, senderVars
<1>1. /\ UNCHANGED <<sendNow, fallback, holds, hookHold, epoch, rewindable, committed, gate,
                     completions, resume, mcp, reported>>
      /\ loop.at = "teardown" /\ loop.kind # "rewind"
  BY DEF Teardown
<1>2. /\ gate = TRUE /\ (Running => Binding(task) = loop.bound)
      /\ Running => queue # <<>> /\ Head(queue) = task.prompt
      /\ Running => task.prompt \in Ids
  BY <1>1 DEF CoreInv, LoopInv, TurnInv
<1>3. CASE ~ finalization_binding_is_current(loop.bound)
  <2>1. /\ loop' \in {Then("close"), Idle}
        /\ UNCHANGED <<task, pin, buffer, taken, slots, slot, queue, answer, content>>
    BY <1>3 DEF Teardown
  <2>2. loop' \in Loops /\ loop'.at \in {"close", "idle"} BY <2>1, LoopTyped DEF Awaits
  <2>3. InHandler' = InHandler BY <1>1, <2>2, PlacesKept
  <2>4. /\ Running' = Running /\ Binding(task)' = Binding(task) /\ task' = task
        /\ queue' = queue
    BY <2>1, PlacesKept
  <2>5. TypeOK' BY <1>1, <2>1, <2>2 DEF CoreInv, TypeOK, Loops, Awaits, Endings
  <2>6. Unrepeated' BY <2>1, UnrepeatedKept DEF CoreInv, Unrepeated
  <2>7. TextInv' BY <1>1, <2>1, <2>3, <2>4, TextsKept DEF CoreInv
  <2>8. TurnInv' BY <1>1, <2>1, TurnKept DEF CoreInv
  <2>9. LoopInv' BY <1>2, <2>2, <2>4, LoopLeft
  <2> QED BY <2>5, <2>6, <2>7, <2>8, <2>9 DEF CoreInv
<1>4. CASE finalization_binding_is_current(loop.bound)
  <2> DEFINE all == loop.kind \in {"teardown", "shutdown"}
             cause == IF all THEN "hard_teardown" ELSE "soft_cancel"
             ended == IF all \/ ~ Running THEN ToSet(slots) ELSE Bound(Binding(task))
             f == Fallbacks(ended, cause)
             rows == queue \o f
             cancelled == IF all THEN ToSet(rows)
                          ELSE IF rows = <<>> THEN {} ELSE {Head(rows)}
             wakes == IF loop.kind = "stop" THEN (ToSet(rows) \cap Wakes) \ cancelled
                      ELSE {}
             away == cancelled \cup wakes
             fall == ToSet(f)
             told == (cancelled \cup Settled(ended, cause)) \cup wakes
  <2>1. /\ AbortTask(buffer) /\ transition_parent_messages(ended)
        /\ queue' = Drop(rows, away) /\ answer' = Told(told, "cancelled")
        /\ content' = Became(told, "discarded") /\ loop' = [loop EXCEPT !.at = "release"]
    BY <1>4 DEF Teardown
  <2>2. ended = Slotted BY AllBound DEF Slotted
  <2>3. queue \in Seq(Ids) /\ IsInjective(queue) BY DEF CoreInv, TypeOK, Unrepeated
  <2>4. /\ fall \subseteq Slotted /\ \A m \in fall : slot[m].state = "pending"
        /\ all => fall = {}
        /\ rows \in Seq(Ids) /\ IsInjective(rows) /\ ToSet(rows) = Queued \cup fall
        /\ queue # <<>> => rows # <<>> /\ Head(rows) = Head(queue)
    <3> DEFINE g == Fallbacks(Slotted, cause)
    <3>1. f = g BY <2>2
    <3>2. all => cause = "hard_teardown" OBVIOUS
    <3>3. ToSet(queue) \subseteq Queued BY DEF Queued
    <3> HIDE DEF all, cause, ended, f
    <3>4. /\ ToSet(g) \subseteq Slotted /\ \A m \in ToSet(g) : slot[m].state = "pending"
          /\ cause = "hard_teardown" => ToSet(g) = {}
          /\ queue \o g \in Seq(Ids) /\ IsInjective(queue \o g)
          /\ ToSet(queue \o g) = ToSet(queue) \cup ToSet(g)
          /\ queue # <<>> => queue \o g # <<>> /\ Head(queue \o g) = Head(queue)
      BY <2>3, <3>3, EndedRows
    <3> QED BY <3>1, <3>2, <3>4 DEF Queued
  <2>5. told = away \cup (Slotted \ fall)
    BY <2>2 DEF Settled
  <2>6. ~ Running => Slotted = {} BY Placed DEF CoreInv, TextInv, Slot
  <2>7. rows # <<>> => Head(rows) \in Queued
    <3>1. CASE Running BY <1>2, <2>4, <3>1, Placed DEF CoreInv
    <3>2. CASE ~ Running
      <4>1. ToSet(rows) = Queued BY <2>4, <2>6, <3>2
      <4> HIDE DEF rows
      <4> QED BY <2>4, <4>1, TailFacts
    <3> QED BY <3>1, <3>2
  <2>8. away \subseteq Queued /\ (Running => task.prompt \in away)
    <3>1. cancelled \subseteq Queued BY <2>4, <2>7
    <3>2. wakes \subseteq Queued
      <4>1. Slotted \cap Wakes = {} BY Placed, Kinds DEF CoreInv
      <4> QED BY <2>4, <4>1
    <3>3. Running => task.prompt \in cancelled
      <4>1. Running => task.prompt \in Queued BY <1>2, Placed DEF CoreInv
      <4> QED BY <1>2, <2>4, <4>1
    <3> QED BY <3>1, <3>2, <3>3
  <2> HIDE DEF all, cause, ended, f, rows, cancelled, wakes, away, fall, told
  <2>9. /\ queue' \in Seq(Ids) /\ IsInjective(queue') /\ ToSet(queue') = ToSet(rows) \ away
    BY <2>1, <2>4, DropFacts
  <2>10. Queued' = (Queued \ away) \cup fall
    <3>1. Queued \cap Slotted = {}
      BY Placed, Kinds DEF CoreInv, TextInv, Text
    <3> QED BY <2>4, <2>8, <2>9, <3>1 DEF Queued
  <2>11. /\ slots' \in Seq(Messages) /\ Len(slots') =< MaxSteers /\ IsInjective(slots')
         /\ Slotted' = {} /\ slot' \in [Messages -> Slots]
    BY <2>1, <2>2, SlotsEnd
  <2>12. /\ task' \in Tasks /\ task'.prompt = task.prompt /\ task'.epoch = task.epoch
         /\ Running' = Running /\ Binding(task)' = Binding(task)
         /\ ~ Running => task' = task
         /\ Running => task'.phase \in {"sent", "aborted"}
         /\ task.phase \in {"sent", "aborted"} => task'.phase = task.phase
         /\ pin' \in Ids \cup {None} /\ taken' = <<>>
         /\ buffer' \in Seq(Entries) /\ IsInjective(EntryIds(buffer)')
         /\ Buffered' = Buffered \cup InDrain
    <3>1. /\ buffer \in Seq(Entries) /\ IsInjective(EntryIds(buffer))
          /\ ToSet(EntryIds(buffer)) \subseteq Buffered
      BY DEF CoreInv, TypeOK, Unrepeated, Buffered
    <3>2. Buffered = ToSet(EntryIds(buffer)) BY DEF Buffered
    <3> QED BY <2>1, <3>1, <3>2, AbortFacts
  <2>13. /\ InDrain' = {} /\ IsInjective(EntryIds(taken)') BY <2>12, PlacesKept
  <2>14. /\ loop' \in Loops /\ loop'.at = "release" /\ loop'.bound = loop.bound
    BY <2>1, LoopTyped DEF CoreInv, Loops, Awaits
  <2>15. InHandler = {} /\ InHandler' = {} BY <1>1, <2>14, PlacesKept
  <2>16. Running => task.prompt \notin Queued'
    <3>1. Running => task.prompt \notin Slotted
      BY <1>2, Placed DEF CoreInv, TextInv, Text
    <3> QED BY <2>4, <2>8, <2>10, <3>1
  <2>17. /\ TextInv' /\ answer' \in [Ids -> Answers] /\ content' \in [Ids -> Contents]
         /\ \A x \in Ids : /\ content'[x] = "live" => content[x] = "live"
                           /\ content'[x] = "unsent" => content[x] = "unsent"
    BY <1>1, <2>1, <2>4, <2>5, <2>8, <2>10, <2>11, <2>12, <2>13, <2>15, <2>16,
       EndsCancelled
  <2>18. TypeOK'
    <3>1. taken' \in Seq(Entries)
      <4>1. <<>> \in Seq(Entries) OBVIOUS
      <4> QED BY ONLY <2>12, <4>1
    <3> QED BY <1>1, <2>9, <2>11, <2>12, <2>14, <2>17, <3>1
            DEF CoreInv, TypeOK, Loops, Tasks, Awaits, Endings, Slots
  <2>19. Unrepeated' BY <2>9, <2>11, <2>12, <2>13 DEF Unrepeated
  <2>20. TurnInv' BY <1>1, <1>2, <2>12, <2>17, TurnSame DEF CoreInv
  <2>21. LoopInv'
    BY <1>1, <1>2, <2>11, <2>12, <2>14, <2>16 DEF LoopInv
  <2> QED BY <2>17, <2>18, <2>19, <2>20, <2>21 DEF CoreInv
<1> QED BY <1>3, <1>4

\* The teardown of a rewind, which holds no lease.
LEMMA TeardownRewindKeeps ==
    ASSUME CoreInv, UNCHANGED scenario, TeardownRewind
    PROVE  CoreInv'
<1> USE DEF bufferVars, slotVars, backVars, senderVars
<1>1. /\ UNCHANGED <<sendNow, fallback, holds, hookHold, epoch, committed, gate, completions,
                     resume, mcp, reported>>
      /\ loop.at = "teardown" /\ loop.kind = "rewind" /\ loop' = Then("kick")
  BY DEF TeardownRewind
<1>2. /\ Running => queue # <<>> /\ Head(queue) = task.prompt
      /\ Running => task.prompt \in Ids
  BY <1>1 DEF CoreInv, LoopInv, TurnInv
<1>3. loop' \in Loops /\ loop'.at = "kick" BY <1>1, LoopTyped DEF Awaits
<1>4. InHandler = {} /\ InHandler' = {} BY <1>1, <1>3, PlacesKept
<1>5. CASE loop.prompt \notin {None, FrontRow}
  <2>1. UNCHANGED <<task, pin, rewindable, buffer, taken, slots, slot, queue, answer, content>>
    BY <1>5 DEF TeardownRewind
  <2>2. /\ Running' = Running /\ Binding(task)' = Binding(task) /\ task' = task
        /\ queue' = queue
    BY <2>1, PlacesKept
  <2>3. TypeOK' BY <1>1, <1>3, <2>1 DEF CoreInv, TypeOK, Loops, Awaits, Endings
  <2>4. Unrepeated' BY <2>1, UnrepeatedKept DEF CoreInv, Unrepeated
  <2>5. TextInv' BY <1>1, <1>4, <2>1, <2>2, TextsKept DEF CoreInv
  <2>6. TurnInv' BY <1>1, <2>1, TurnKept DEF CoreInv
  <2>7. LoopInv' BY <1>2, <1>3, <2>2, LoopLeft
  <2> QED BY <2>3, <2>4, <2>5, <2>6, <2>7 DEF CoreInv
<1>6. CASE ~ (loop.prompt \notin {None, FrontRow})
  <2> DEFINE pops == loop.prompt = None /\ rewindable /\ front_is_rewind_poppable
             cause == IF pops THEN "rewind" ELSE "soft_cancel"
             ended == IF pops \/ ~ Running THEN ToSet(slots) ELSE Bound(Binding(task))
             f == Fallbacks(ended, cause)
             rows == queue \o f
             first == IF rows = <<>> THEN {} ELSE {Head(rows)}
             fall == ToSet(f)
             told == first \cup Settled(ended, cause)
  <2>1. /\ task' = NoTask /\ pin' \in {pin, None}
        /\ buffer' = RestoreOnCancel(buffer) /\ taken' = IF Alive THEN <<>> ELSE taken
        /\ rewindable' = (rewindable /\ ~ pops) /\ transition_parent_messages(ended)
        /\ queue' = Drop(rows, first) /\ answer' = Told(told, "cancelled")
        /\ content' = Became(told, "discarded")
    BY <1>6 DEF TeardownRewind
  <2>2. ended = Slotted BY AllBound DEF Slotted
  <2>3. queue \in Seq(Ids) /\ IsInjective(queue) BY DEF CoreInv, TypeOK, Unrepeated
  <2>4. /\ fall \subseteq Slotted /\ \A m \in fall : slot[m].state = "pending"
        /\ rows \in Seq(Ids) /\ IsInjective(rows) /\ ToSet(rows) = Queued \cup fall
        /\ queue # <<>> => rows # <<>> /\ Head(rows) = Head(queue)
    <3> DEFINE g == Fallbacks(Slotted, cause)
    <3>1. f = g BY <2>2
    <3>2. ToSet(queue) \subseteq Queued BY DEF Queued
    <3> HIDE DEF pops, cause, ended, f
    <3>3. /\ ToSet(g) \subseteq Slotted /\ \A m \in ToSet(g) : slot[m].state = "pending"
          /\ queue \o g \in Seq(Ids) /\ IsInjective(queue \o g)
          /\ ToSet(queue \o g) = ToSet(queue) \cup ToSet(g)
          /\ queue # <<>> => queue \o g # <<>> /\ Head(queue \o g) = Head(queue)
      BY <2>3, <3>2, EndedRows
    <3> QED BY <3>1, <3>3 DEF Queued
  <2>5. told = first \cup (Slotted \ fall) BY <2>2 DEF Settled
  <2>6. ~ Running => Slotted = {} BY Placed DEF CoreInv, TextInv, Slot
  <2>7. rows # <<>> => Head(rows) \in Queued
    <3>1. CASE Running BY <1>2, <2>4, <3>1, Placed DEF CoreInv
    <3>2. CASE ~ Running
      <4>1. ToSet(rows) = Queued BY <2>4, <2>6, <3>2
      <4> HIDE DEF rows
      <4> QED BY <2>4, <4>1, TailFacts
    <3> QED BY <3>1, <3>2
  <2>8. first \subseteq Queued /\ (Running => task.prompt \in first)
    BY <1>2, <2>4, <2>7
  <2>9. rewindable' \in BOOLEAN BY <2>1 DEF CoreInv, TypeOK
  <2> HIDE DEF pops, cause, ended, f, rows, first, fall, told
  <2>10. queue' \in Seq(Ids) /\ IsInjective(queue') /\ ToSet(queue') = ToSet(rows) \ first
    BY <2>1, <2>4, DropFacts
  <2>11. Queued' = (Queued \ first) \cup fall
    <3>1. Queued \cap Slotted = {} BY Placed, Kinds DEF CoreInv, TextInv, Text
    <3> QED BY <2>4, <2>8, <2>10, <3>1 DEF Queued
  <2>12. /\ slots' \in Seq(Messages) /\ Len(slots') =< MaxSteers /\ IsInjective(slots')
         /\ Slotted' = {} /\ slot' \in [Messages -> Slots]
    BY <2>1, <2>2, SlotsEnd
  <2>13. /\ taken' = <<>> /\ InDrain' = {} /\ IsInjective(EntryIds(taken)')
         /\ taken' \in Seq(Entries) /\ buffer' \in Seq(Entries)
         /\ IsInjective(EntryIds(buffer)') /\ Buffered' = Buffered \cup InDrain
    <3>1. /\ buffer \in Seq(Entries) /\ IsInjective(EntryIds(buffer))
          /\ ToSet(EntryIds(buffer)) \subseteq Buffered
      BY DEF CoreInv, TypeOK, Unrepeated, Buffered
    <3>2. Buffered = ToSet(EntryIds(buffer)) BY DEF Buffered
    <3> QED BY <2>1, <3>1, <3>2, RestoreFacts
  <2>14. Running => task.prompt \notin Queued'
    <3>1. Running => task.prompt \notin Slotted
      BY <1>2, Placed DEF CoreInv, TextInv, Text
    <3> QED BY <2>4, <2>8, <2>11, <3>1
  <2>15. /\ TextInv' /\ answer' \in [Ids -> Answers] /\ content' \in [Ids -> Contents]
    BY <1>1, <1>4, <2>1, <2>4, <2>5, <2>8, <2>11, <2>12, <2>13, <2>14, EndsCancelled
  <2>16. TypeOK'
    <3>1. task' \in Tasks /\ pin' \in Ids \cup {None}
      BY <2>1, LoopTyped DEF CoreInv, TypeOK
    <3> QED BY <1>1, <1>3, <2>9, <2>10, <2>12, <2>13, <2>15, <3>1
            DEF CoreInv, TypeOK, Loops, Tasks, Awaits, Endings, Slots
  <2>17. Unrepeated' BY <2>10, <2>12, <2>13 DEF Unrepeated
  <2>18. TurnInv' BY <1>1, <2>1, <2>13, TurnGone DEF CoreInv
  <2>19. LoopInv'
    <3>1. ~ Running' BY <2>1 DEF Running, NoTask
    <3> QED BY <1>3, <3>1, LoopLeft
  <2> QED BY <2>15, <2>16, <2>17, <2>18, <2>19 DEF CoreInv
<1> QED BY <1>5, <1>6

\* The session closes: the slots are answered, runtime wakes leave the queue.
LEMMA CloseKeeps ==
    ASSUME CoreInv, UNCHANGED scenario, settle_all_parent_messages
    PROVE  CoreInv'
<1> USE DEF turnVars, bufferVars, backVars
<1> DEFINE wakes == {r \in ToSet(queue) : is_preemptible_runtime_wake(r)}
           told == Slotted \cup wakes
<1>1. /\ UNCHANGED <<sendNow, fallback, holds, hookHold, task, epoch, rewindable, committed,
                     pin, buffer, taken, gate, completions, resume, mcp, reported>>
      /\ loop.at = "close" /\ loop' = Then("closed")
      /\ queue' = Drop(queue, wakes) /\ answer' = Told(told, "cancelled")
      /\ content' = Became(told, "discarded") /\ transition_parent_messages(Slotted)
  BY DEF settle_all_parent_messages, Slotted
<1>2. wakes \subseteq Queued BY DEF Queued
<1>3. queue \in Seq(Ids) /\ IsInjective(queue) BY DEF CoreInv, TypeOK, Unrepeated
<1> DEFINE fall == {}
<1>4. /\ fall \subseteq Slotted /\ (\A m \in fall : slot[m].state = "pending")
      /\ told = wakes \cup (Slotted \ fall)
  OBVIOUS
<1> HIDE DEF wakes, told
<1>5. queue' \in Seq(Ids) /\ IsInjective(queue') /\ ToSet(queue') = ToSet(queue) \ wakes
  BY <1>1, <1>3, DropFacts
<1>6. Queued' = (Queued \ wakes) \cup fall BY <1>5 DEF Queued
<1>7. /\ slots' \in Seq(Messages) /\ Len(slots') =< MaxSteers /\ IsInjective(slots')
      /\ Slotted' = {} /\ slot' \in [Messages -> Slots]
  BY <1>1, SlotsEnd
<1>8. loop' \in Loops /\ loop'.at = "closed" BY <1>1, LoopTyped DEF Awaits
<1>9. /\ Buffered' = Buffered /\ InDrain' = InDrain /\ Running' = Running
      /\ EntryIds(buffer)' = EntryIds(buffer) /\ EntryIds(taken)' = EntryIds(taken)
      /\ InHandler = {} /\ InHandler' = {}
  BY <1>1, <1>8, PlacesKept
<1> HIDE DEF fall
<1>10. /\ TextInv' /\ answer' \in [Ids -> Answers] /\ content' \in [Ids -> Contents]
       /\ \A x \in Ids : /\ content'[x] = "live" => content[x] = "live"
                         /\ content'[x] = "unsent" => content[x] = "unsent"
  <2>1. Running /\ task.prompt \in Queued' => Running' /\ task'.prompt = task.prompt
    BY <1>1, <1>9
  <2> QED BY <1>1, <1>2, <1>4, <1>6, <1>7, <1>9, <2>1, EndsCancelled
<1>11. TypeOK'
  BY <1>1, <1>5, <1>7, <1>8, <1>10 DEF CoreInv, TypeOK, Loops, Awaits, Endings, Slots
<1>12. Unrepeated' BY <1>5, <1>7, <1>9 DEF CoreInv, Unrepeated
<1>13. TurnInv'
  <2>1. Running => task.prompt \in Ids BY DEF CoreInv, TurnInv
  <2> QED BY <1>1, <1>10, <2>1, TurnKept DEF CoreInv
<1>14. LoopInv' BY <1>8, LoopLeft
<1> QED BY <1>10, <1>11, <1>12, <1>13, <1>14 DEF CoreInv

\* A rewind discards the buffer and goes to its teardown.
LEMMA RewindWaits ==
    ASSUME CoreInv, NEW p \in Ids \cup {None}, loop.at = "idle",
           UNCHANGED <<scenario, queue, sendNow, fallback, holds, hookHold, task, epoch,
                       rewindable, committed, pin, taken, slots, slot, gate, completions,
                       resume, mcp, reported, answer>>,
           buffer' = <<>>, content' = Became(Buffered, "discarded"),
           loop' = Loop("teardown", p, "rewind", NoBound)
    PROVE  CoreInv'
<1>1. loop' \in Loops /\ loop'.at = "teardown" /\ loop'.kind = "rewind"
  <2>1. "teardown" \in Awaits /\ "rewind" \in Endings BY DEF Awaits, Endings
  <2> QED BY <2>1, LoopMade, LoopTyped
<1>2. /\ Queued' = Queued /\ Slotted' = Slotted /\ Buffered' = {} /\ InDrain' = InDrain
      /\ InHandler = {} /\ InHandler' = {} /\ Running' = Running
      /\ Binding(task)' = Binding(task) /\ IsInjective(EntryIds(buffer)')
      /\ EntryIds(taken)' = EntryIds(taken)
  BY <1>1, PlacesKept
<1>3. /\ content' \in [Ids -> Contents]
      /\ \A x \in Ids : content'[x] = IF x \in Buffered /\ content[x] = "live"
                                        THEN "discarded" ELSE content[x]
  BY SendersTyped DEF CoreInv, Answers, Contents
<1>4. TypeOK'
  <2>1. buffer' \in Seq(Entries)
    <3>1. <<>> \in Seq(Entries) OBVIOUS
    <3> QED BY <3>1
  <2> QED BY <1>1, <1>3, <2>1 DEF CoreInv, TypeOK, Loops, Awaits, Endings
<1>5. Unrepeated' BY <1>2 DEF CoreInv, Unrepeated
<1>6. TextInv'
  <2>1. ASSUME NEW x \in Ids PROVE Text(x)'
    <3>1. Text(x) BY DEF CoreInv, TextInv
    <3>2. content'[x] = IF x \in Buffered THEN "discarded" ELSE content[x]
      BY <1>3, <3>1 DEF Text
    <3> QED BY <1>2, <3>1, <3>2 DEF Text
  <2>2. ASSUME NEW m \in Messages PROVE Slot(m)'
    <3>1. Slot(m) /\ Text(m) /\ m \in Ids BY Kinds DEF CoreInv, TextInv
    <3>2. /\ m \in Slotted => content'[m] = content[m]
          /\ content[m] # "live" => content'[m] = content[m]
      BY <1>3, <3>1 DEF Text
    <3> QED BY <1>2, <3>1, <3>2 DEF Slot
  <2>3. ASSUME NEW r \in Resumes, resume'[r] = "parked" PROVE content'[r] = "unsent"
    <3>1. content[r] = "unsent" /\ r \in Ids BY <2>3, Kinds DEF CoreInv, TextInv
    <3> QED BY <1>3, <3>1
  <2> QED BY <2>1, <2>2, <2>3 DEF TextInv
<1>7. TurnInv'
  <2>1. Running => task.prompt \in Ids BY DEF CoreInv, TurnInv
  <2>2. Running => /\ content'[task.prompt] = "live" => content[task.prompt] = "live"
                   /\ content'[task.prompt] = "unsent" => content[task.prompt] = "unsent"
    BY <1>3, <2>1
  <2> QED BY <2>2, TurnKept DEF CoreInv
<1>8. LoopInv'
  <2>1. Running => queue # <<>> /\ Head(queue) = task.prompt BY DEF CoreInv, LoopInv
  <2> QED BY <1>1, <1>2, <2>1 DEF LoopInv
<1> QED BY <1>4, <1>5, <1>6, <1>7, <1>8 DEF CoreInv

LEMMA RewindLegacyKeeps ==
    ASSUME CoreInv, UNCHANGED scenario, RewindLegacy
    PROVE  CoreInv'
<1> USE DEF queueVars, turnVars, slotVars, backVars
<1>1. /\ UNCHANGED <<queue, sendNow, fallback, holds, hookHold, task, epoch, rewindable,
                     committed, pin, taken, slots, slot, gate, completions, resume, mcp,
                     reported, answer>>
      /\ loop.at = "idle" /\ buffer' = <<>> /\ content' = Became(Buffered, "discarded")
      /\ loop' = Loop("teardown", None, "rewind", NoBound)
  BY DEF RewindLegacy, MayIssue, AtIdle, Buffered
<1>2. None \in Ids \cup {None} OBVIOUS
<1> QED BY <1>1, <1>2, RewindWaits

\* A queued prompt behind another row is just removed, with the buffer.
LEMMA RewindRemoves ==
    ASSUME CoreInv, NEW p \in Prompts, loop.at = "idle", p \in Queued, FrontRow # p,
           UNCHANGED <<scenario, sendNow, fallback, hookHold, task, epoch, rewindable,
                       committed, pin, taken, slots, slot, gate, completions, resume, mcp,
                       reported>>,
           queue' = Drop(queue, {p}), holds' = [holds EXCEPT ![p] = "none"],
           buffer' = <<>>, answer' = Told({p}, "cancelled"),
           content' = Became(Buffered \cup {p}, "discarded"), loop' = Then("kick")
    PROVE  CoreInv'
<1>1. /\ Running => queue # <<>> /\ Head(queue) = task.prompt
      /\ Running => task.prompt \in Ids /\ task.prompt # p
  BY DEF CoreInv, LoopInv, TurnInv, FrontRow
<1>2. /\ queue' \in Seq(Ids) /\ IsInjective(queue') /\ Queued' = Queued \ {p}
      /\ Running => queue' # <<>> /\ Head(queue') = task.prompt
  <2>1. Running => task.prompt \notin {p} BY <1>1
  <2>2. /\ queue' \in Seq(Ids) /\ IsInjective(queue') /\ ToSet(queue') = Queued \ {p}
        /\ Running /\ queue # <<>> /\ Head(queue) = task.prompt =>
             queue' # <<>> /\ Head(queue') = task.prompt
    BY <2>1, QueueWithout
  <2> QED BY <1>1, <2>2 DEF Queued
<1>3. loop' \in Loops /\ loop'.at = "kick" BY LoopTyped DEF Awaits
<1>4. /\ Slotted' = Slotted /\ Buffered' = {} /\ InDrain' = InDrain
      /\ InHandler = {} /\ InHandler' = {} /\ Running' = Running
      /\ Binding(task)' = Binding(task) /\ IsInjective(EntryIds(buffer)')
      /\ EntryIds(taken)' = EntryIds(taken)
  BY <1>3, PlacesKept
<1>5. /\ answer' \in [Ids -> Answers] /\ content' \in [Ids -> Contents]
      /\ \A x \in Ids :
           /\ answer'[x] = IF x \in {p} /\ answer[x] = "waiting" THEN "cancelled"
                           ELSE answer[x]
           /\ content'[x] = IF x \in Buffered \cup {p} /\ content[x] = "live"
                              THEN "discarded" ELSE content[x]
  BY SendersTyped DEF CoreInv, Answers, Contents
<1>6. TypeOK'
  <2>1. buffer' \in Seq(Entries)
    <3>1. <<>> \in Seq(Entries) OBVIOUS
    <3> QED BY <3>1
  <2>2. holds' \in [Prompts -> {"none", "live", "expired"}] BY DEF CoreInv, TypeOK
  <2> QED BY <1>2, <1>3, <1>5, <2>1, <2>2 DEF CoreInv, TypeOK, Loops, Awaits, Endings
<1>7. Unrepeated' BY <1>2, <1>4 DEF CoreInv, Unrepeated
<1>8. TextInv'
  <2>1. ASSUME NEW x \in Ids PROVE Text(x)'
    <3>1. Text(x) BY DEF CoreInv, TextInv
    <3>2. CASE x = p
      <4>1. content[x] = "live" BY <1>1, <3>1, <3>2 DEF Text
      <4>2. content'[x] = "discarded" /\ answer'[x] # "waiting" BY <1>5, <3>2, <4>1
      <4> QED BY <1>2, <1>4, <3>1, <3>2, <4>2 DEF Text
    <3>3. CASE x # p
      <4>1. /\ answer'[x] = answer[x] /\ (x \in Queued' <=> x \in Queued)
            /\ content'[x] = IF x \in Buffered THEN "discarded" ELSE content[x]
        BY <1>2, <1>5, <3>1, <3>3 DEF Text
      <4> QED BY <1>4, <3>1, <4>1 DEF Text
    <3> QED BY <3>2, <3>3
  <2>2. ASSUME NEW m \in Messages PROVE Slot(m)'
    <3>1. Slot(m) /\ Text(m) /\ m \in Ids /\ m # p BY Kinds DEF CoreInv, TextInv
    <3>2. /\ m \in Slotted => content'[m] = content[m]
          /\ content[m] # "live" => content'[m] = content[m]
          /\ answer'[m] = answer[m]
      BY <1>5, <3>1 DEF Text
    <3> QED BY <1>4, <3>1, <3>2 DEF Slot
  <2>3. ASSUME NEW r \in Resumes, resume'[r] = "parked" PROVE content'[r] = "unsent"
    <3>1. content[r] = "unsent" /\ r \in Ids BY <2>3, Kinds DEF CoreInv, TextInv
    <3> QED BY <1>5, <3>1
  <2> QED BY <2>1, <2>2, <2>3 DEF TextInv
<1>9. TurnInv'
  <2>1. Running => /\ content'[task.prompt] = "live" => content[task.prompt] = "live"
                   /\ content'[task.prompt] = "unsent" => content[task.prompt] = "unsent"
    BY <1>1, <1>5
  <2> QED BY <2>1, TurnKept DEF CoreInv
<1>10. LoopInv' BY <1>2, <1>3, <1>4, LoopLeft
<1> QED BY <1>6, <1>7, <1>8, <1>9, <1>10 DEF CoreInv

\* The front is rewound: turn and row go in one section.
LEMMA RewindPops ==
    ASSUME CoreInv, NEW p \in Prompts, loop.at = "idle", p \in Queued, FrontRow = p,
           UNCHANGED <<scenario, sendNow, fallback, holds, hookHold, epoch, committed, gate,
                       completions, resume, mcp, reported>>,
           NEW ended, ended = Bound([prompt |-> p, epoch |-> epoch]),
           transition_parent_messages(ended),
           queue' = Drop(queue, {p}) \o Fallbacks(ended, "rewind"),
           IF task.prompt = p
             THEN /\ task' = NoTask /\ pin' = UnpinnedByAbort
                  /\ buffer' = RestoreOnCancel(<<>>)
                  /\ taken' = IF Alive THEN <<>> ELSE taken
             ELSE buffer' = <<>> /\ UNCHANGED <<task, pin, taken>>,
           rewindable' = FALSE,
           answer' = Told({p} \cup Settled(ended, "rewind"), "cancelled"),
           content' = Became(Buffered \cup {p} \cup Settled(ended, "rewind"), "discarded"),
           loop' = Then("kick")
    PROVE  CoreInv'
<1> DEFINE f == Fallbacks(Slotted, "rewind")
           fall == ToSet(f)
           told == {p} \cup (Slotted \ fall)
           over == told \cup Buffered
           none == <<>>
<1>1. /\ Running => task.prompt = p /\ Binding(task) = [prompt |-> p, epoch |-> epoch]
      /\ ~ Running => task = NoTask /\ task.prompt # p /\ Slotted = {} /\ ~ Alive
      /\ queue # <<>> /\ Head(queue) = p /\ p \in Ids
  <2>1. Running => task.prompt = p
    BY DEF CoreInv, LoopInv, FrontRow
  <2>2. Running => Binding(task) = [prompt |-> p, epoch |-> epoch]
    BY <2>1 DEF Binding, CoreInv, TurnInv
  <2>3. ~ Running => task = NoTask BY DEF CoreInv, TurnInv
  <2>4. p \in Ids /\ p # None BY Kinds
  <2>5. ~ Running => task.prompt # p /\ ~ Alive BY <2>3, <2>4 DEF NoTask, Alive
  <2>6. ~ Running => Slotted = {} BY Placed DEF CoreInv, TextInv, Slot
  <2> QED BY <2>1, <2>2, <2>3, <2>4, <2>5, <2>6 DEF FrontRow
<1>2. ended = Slotted
  <2>1. CASE Running BY <1>1, <2>1, AllBound
  <2>2. CASE ~ Running BY <1>1, <2>2 DEF Bound, Slotted
  <2> QED BY <2>1, <2>2
<1>3. /\ task' = NoTask /\ pin' \in Ids \cup {None} /\ buffer' = RestoreOnCancel(none)
      /\ taken' = IF Alive THEN <<>> ELSE taken
  <2>1. CASE Running BY <1>1, <2>1 DEF UnpinnedByAbort, CoreInv, TypeOK
  <2>2. CASE ~ Running BY <1>1, <2>2 DEF RestoreOnCancel, CoreInv, TypeOK
  <2> QED BY <2>1, <2>2
<1>4. /\ transition_parent_messages(Slotted) /\ queue' = Drop(queue, {p}) \o f
      /\ answer' = Told(told, "cancelled") /\ content' = Became(over, "discarded")
  <2>1. Settled(ended, "rewind") = Slotted \ fall BY <1>2 DEF Settled
  <2>2. Buffered \cup {p} \cup (Slotted \ fall) = over OBVIOUS
  <2>3. f = Fallbacks(ended, "rewind") BY <1>2
  <2> HIDE DEF f, fall, over
  <2> QED BY <1>2, <2>1, <2>2, <2>3
<1>5. /\ Drop(queue, {p}) \in Seq(Ids) /\ IsInjective(Drop(queue, {p}))
      /\ ToSet(Drop(queue, {p})) = Queued \ {p}
  <2>1. queue \in Seq(Ids) /\ IsInjective(queue) BY DEF CoreInv, TypeOK, Unrepeated
  <2> QED BY <2>1, DropFacts DEF Queued
<1>6. /\ fall \subseteq Slotted /\ \A m \in fall : slot[m].state = "pending"
      /\ queue' \in Seq(Ids) /\ IsInjective(queue')
      /\ ToSet(queue') = (Queued \ {p}) \cup fall
  <2> DEFINE s == Drop(queue, {p})
  <2>1. s \in Seq(Ids) /\ IsInjective(s) /\ ToSet(s) = Queued \ {p} BY <1>5
  <2>2. queue' = s \o f BY <1>4
  <2>3. ToSet(s) \subseteq Queued BY <2>1
  <2> HIDE DEF s
  <2> QED BY <2>1, <2>2, <2>3, EndedRows
<1>7. Queued' = (Queued \ {p}) \cup fall BY <1>6 DEF Queued
<1>8. /\ slots' \in Seq(Messages) /\ Len(slots') =< MaxSteers /\ IsInjective(slots')
      /\ Slotted' = {} /\ slot' \in [Messages -> Slots]
  BY <1>4, SlotsEnd
<1>9. /\ none \in Seq(Entries) /\ IsInjective(EntryIds(none))
      /\ ToSet(EntryIds(none)) = {} /\ ToSet(EntryIds(none)) \subseteq Buffered
  <2>1. EntryIds(none) = <<>> BY EmptyFacts
  <2> QED BY <2>1, EmptyFacts
<1> HIDE DEF none, f, fall
<1>10. /\ taken' = <<>> /\ InDrain' = {} /\ IsInjective(EntryIds(taken)')
       /\ taken' \in Seq(Entries) /\ buffer' \in Seq(Entries)
       /\ IsInjective(EntryIds(buffer)') /\ Buffered' = InDrain
  <2>1. /\ taken' = <<>> /\ InDrain' = {} /\ IsInjective(EntryIds(taken)')
        /\ taken' \in Seq(Entries) /\ buffer' \in Seq(Entries)
        /\ IsInjective(EntryIds(buffer)')
        /\ Buffered' = ToSet(EntryIds(none)) \cup InDrain
    BY ONLY CoreInv, <1>3, <1>9, RestoreFacts
  <2> QED BY <1>9, <2>1
<1>11. loop' \in Loops /\ loop'.at = "kick" BY LoopTyped DEF Awaits
<1>12. InHandler = {} /\ InHandler' = {} BY <1>11, PlacesKept
<1>13. /\ TextInv' /\ answer' \in [Ids -> Answers] /\ content' \in [Ids -> Contents]
  <2>1. {p} \subseteq Queued OBVIOUS
  <2>2. p \notin Slotted BY <1>1 DEF CoreInv, TextInv, Text
  <2>3. Running => task.prompt \notin Queued' BY <1>1, <1>6, <1>7, <2>2
  <2>4. told = {p} \cup (Slotted \ fall) /\ over = told \cup Buffered OBVIOUS
  <2> HIDE DEF told, over
  <2> QED BY <1>4, <1>6, <1>7, <1>8, <1>10, <1>12, <2>1, <2>3, <2>4, EndsCancelled
<1>14. TypeOK'
  <2>1. task' \in Tasks BY <1>3, LoopTyped
  <2>2. rewindable' \in BOOLEAN OBVIOUS
  <2> QED BY <1>3, <1>6, <1>8, <1>10, <1>11, <1>13, <2>1, <2>2
          DEF CoreInv, TypeOK, Loops, Tasks, Awaits, Endings, Slots
<1>15. Unrepeated' BY <1>6, <1>8, <1>10 DEF Unrepeated
<1>16. TurnInv' BY <1>3, <1>10, TurnGone DEF CoreInv
<1>17. LoopInv'
  <2>1. ~ Running' BY <1>3 DEF Running, NoTask
  <2> QED BY <1>11, <2>1, LoopLeft
<1> QED BY <1>13, <1>14, <1>15, <1>16, <1>17 DEF CoreInv

\* A rewind that names its prompt.
LEMMA RewindNamedKeeps ==
    ASSUME CoreInv, UNCHANGED scenario, NEW p \in Prompts, RewindNamed(p)
    PROVE  CoreInv'
<1> USE DEF slotVars, backVars, bufferVars
<1> DEFINE ended == Bound([prompt |-> p, epoch |-> epoch])
<1>1. /\ UNCHANGED <<sendNow, fallback, hookHold, epoch, committed, gate, completions, resume,
                     mcp, reported>>
      /\ loop.at = "idle" /\ p \in Queued
  BY DEF RewindNamed, MayIssue, AtIdle, InQueue, Queued
<1>2. CASE FrontRow # p
  <2>1. /\ queue' = Drop(queue, {p}) /\ holds' = [holds EXCEPT ![p] = "none"]
        /\ buffer' = <<>> /\ answer' = Told({p}, "cancelled")
        /\ content' = Became(Buffered \cup {p}, "discarded") /\ loop' = Then("kick")
        /\ UNCHANGED <<slots, slot, task, pin, taken, rewindable>>
    BY <1>2 DEF RewindNamed, Buffered
  <2> QED BY <1>1, <1>2, <2>1, RewindRemoves
<1>3. CASE FrontRow = p /\ rewindable
  <2>1. /\ transition_parent_messages(ended)
        /\ queue' = Drop(queue, {p}) \o Fallbacks(ended, "rewind")
        /\ IF task.prompt = p
             THEN /\ task' = NoTask /\ pin' = UnpinnedByAbort
                  /\ buffer' = RestoreOnCancel(<<>>)
                  /\ taken' = IF Alive THEN <<>> ELSE taken
             ELSE buffer' = <<>> /\ UNCHANGED <<task, pin, taken>>
        /\ rewindable' = FALSE
        /\ answer' = Told({p} \cup Settled(ended, "rewind"), "cancelled")
        /\ content' = Became(Buffered \cup {p} \cup Settled(ended, "rewind"), "discarded")
        /\ loop' = Then("kick") /\ holds' = holds
    BY <1>3 DEF RewindNamed, Buffered
  <2>2. ended = Bound([prompt |-> p, epoch |-> epoch]) OBVIOUS
  <2> HIDE DEF ended
  <2> QED BY <1>1, <1>3, <2>1, <2>2, RewindPops
<1>4. CASE FrontRow = p /\ ~ rewindable
  <2>1. /\ buffer' = <<>> /\ content' = Became(Buffered, "discarded")
        /\ loop' = Loop("teardown", p, "rewind", NoBound)
        /\ UNCHANGED <<queue, holds, slots, slot, task, pin, taken, rewindable, answer>>
    BY <1>4 DEF RewindNamed, Buffered
  <2>2. p \in Ids \cup {None} BY Kinds
  <2> QED BY <1>1, <2>1, <2>2, RewindWaits
<1> QED BY <1>2, <1>3, <1>4

-----------------------------------------------------------------------------
(* The invariant holds initially and is kept by every step.                 *)

LEMMA KicksKeep ==
    ASSUME CoreInv, UNCHANGED scenario, Kick \/ McpKick \/ \E r \in Resumes : ResumeKick(r)
    PROVE  CoreInv'
<1> USE DEF backVars
<1>1. resume \in [Resumes -> {"parked", "queued", "done"}] /\ mcp \in {"starting", "ready"}
  BY DEF CoreInv, TypeOK
<1>2. /\ maybe_start_running_task /\ loop.at # "closed"
      /\ UNCHANGED <<scenario, hookHold, bufferVars, slotVars, gate, completions, reported>>
      /\ loop' = loop \/ (loop.at = "kick" /\ loop' = Idle)
      /\ mcp' \in {"starting", "ready"}
      /\ resume' = resume \/ \E r \in Resumes : resume' = [resume EXCEPT ![r] = "done"]
  BY <1>1 DEF Kick, McpKick, ResumeKick
<1>3. /\ resume' \in [Resumes -> {"parked", "queued", "done"}]
      /\ \A r \in Resumes : resume'[r] = "parked" => resume[r] = "parked"
  BY <1>1, <1>2
<1> QED BY <1>2, <1>3, KickKeeps

LEMMA CoreInitially ==
    ASSUME Init PROVE CoreInv
<1> DEFINE e == <<>>
<1>1. EntryIds(e) = e /\ ToSet(e) = {} /\ IsInjective(e) BY EmptyFacts
<1>2. queue = e /\ slots = e /\ buffer = e /\ taken = e /\ completions = e BY DEF Init
<1> HIDE DEF e
<1>3. /\ Queued = {} /\ Slotted = {} /\ Buffered = {} /\ InDrain = {} /\ InHandler = {}
      /\ ToSet(completions) = {} /\ Unrepeated
  BY <1>1, <1>2 DEF Queued, Slotted, Buffered, InDrain, InHandler, Unrepeated, Init, Idle
<1>4. ~ Running /\ task = NoTask BY DEF Init, Running, NoTask
<1>5. \A x \in Ids : content[x] \in {"unsent", "absent"} /\ answer[x] = "none" BY DEF Init
<1>6. TypeOK
  <2>1. /\ e \in Seq(Ids) /\ e \in Seq(Entries) /\ e \in Seq(Messages)
        /\ e \in Seq(Bindings) /\ Len(e) = 0
    BY DEF e
  <2>2. /\ task \in [prompt : Ids \cup {None}, epoch : Nat, phase : Phases]
        /\ loop \in Loops
    BY LoopTyped DEF Init, Tasks
  <2>3. slot \in [Messages -> Slots]
    <3>1. NoSlot \in Slots BY LoopTyped DEF NoSlot, NoBound, Slots
    <3> QED BY <3>1 DEF Init
  <2>4. /\ answer \in [Ids -> Answers] /\ content \in [Ids -> Contents]
        /\ resume \in [Resumes -> {"parked", "queued", "done"}]
        /\ mcp \in {"starting", "ready"} /\ scenario \in Scenarios
        /\ holds \in [Prompts -> {"none", "live", "expired"}]
    BY DEF Init, Answers, Contents
  <2>5. /\ hookHold \in BOOLEAN /\ rewindable \in BOOLEAN /\ committed \in BOOLEAN
        /\ gate \in BOOLEAN /\ epoch \in Nat /\ pin \in Ids \cup {None}
        /\ sendNow \subseteq Ids /\ fallback \subseteq Ids /\ reported \subseteq Wakes
    BY DEF Init
  <2>6. Len(slots) =< MaxSteers BY <1>2, <2>1, IdsAssumption
  <2> QED BY <1>2, <2>1, <2>2, <2>3, <2>4, <2>5, <2>6
          DEF TypeOK, Loops, Awaits, Endings, Slots
<1>7. TextInv
  <2>1. \A x \in Ids : Text(x) BY <1>3, <1>5 DEF Text
  <2>2. \A m \in Messages : Slot(m) BY <1>3, <1>5, Kinds DEF Slot
  <2>3. \A r \in Resumes : resume[r] = "parked" => content[r] = "unsent"
    BY Kinds DEF Init
  <2> QED BY <2>1, <2>2, <2>3 DEF TextInv
<1>8. TurnInv BY <1>2, <1>3, <1>4 DEF TurnInv, Init, e
<1>9. LoopInv BY <1>4 DEF LoopInv, Init, Idle
<1> QED BY <1>3, <1>6, <1>7, <1>8, <1>9 DEF CoreInv

LEMMA CoreStuttered ==
    ASSUME CoreInv, UNCHANGED vars PROVE CoreInv'
<1> USE DEF vars, sessionVars, queueVars, turnVars, bufferVars, slotVars, backVars, senderVars
<1>1. UNCHANGED <<scenario, queue, sendNow, fallback, holds, hookHold, task, epoch, rewindable,
                  committed, pin, buffer, taken, slots, slot, loop, gate, completions, resume,
                  mcp, reported, answer, content>>
  OBVIOUS
<1>2. /\ Running' = Running /\ Binding(task)' = Binding(task) /\ Queued' = Queued
      /\ InHandler' = InHandler /\ task' = task
  BY <1>1, PlacesKept
<1>3. TypeOK' BY <1>1 DEF CoreInv, TypeOK
<1>4. Unrepeated' BY <1>1, UnrepeatedKept DEF CoreInv, Unrepeated
<1>5. TextInv' BY <1>1, <1>2, TextsKept DEF CoreInv
<1>6. TurnInv' BY <1>1, TurnKept DEF CoreInv
<1>7. LoopInv' BY <1>1, <1>2, LoopKept DEF CoreInv
<1> QED BY <1>3, <1>4, <1>5, <1>6, <1>7 DEF CoreInv

LEMMA CoreStep ==
    ASSUME CoreInv, [Next]_vars PROVE CoreInv'
<1>1. CASE UNCHANGED vars BY <1>1, CoreStuttered
<1>2. CASE Next
  <2>1. UNCHANGED scenario BY <1>2 DEF Next
  <2>2. CASE LoopStep
    BY <2>1, <2>2, QueueInputKeeps, KicksKeep, SendNowCancelKeeps, TeardownKeeps,
       TeardownRewindKeeps, ReleaseKeeps, LoopOnlyKeeps, CompletionKeeps, FlushKeeps,
       CloseKeeps DEF LoopStep
  <2>3. CASE Command
    <3>1. \/ \E p \in Prompts \cup Wakes, now \in BOOLEAN : ReceivePrompt(p, now)
          \/ \E m \in Messages, op \in {"steer", "queue"} : admit_parent_agent_message(m, op)
          \/ \E i \in Interjections : Interject(i)
          \/ \E p \in Prompts : handle_remove_queued_prompt(p)
          \/ handle_reorder_queue
          \/ handle_clear_queue
          \/ \E p \in Prompts : \/ handle_edit_queued_prompt(p) \/ handle_hold_edit(p)
                                \/ handle_release_edit(p) \/ HoldExpires(p)
          \/ \E p \in Prompts : handle_interject_queued_prompt(p)
          \/ \E kind \in {"soft", "stop", "teardown"} : Cancel(kind)
          \/ \E p \in Prompts : RewindNamed(p)
          \/ RewindLegacy
          \/ \E cancels \in BOOLEAN : Shutdown(cancels)
      BY <2>3 DEF Command
    <3>2. ASSUME NEW m \in Messages, NEW op \in {"steer", "queue"},
                 admit_parent_agent_message(m, op)
          PROVE  CoreInv'
      BY <2>1, <3>2, AdmitKeeps
    <3> QED BY <2>1, <3>1, <3>2, ReceiveKeeps, InterjectKeeps, SweepsKeep, ReorderKeeps,
               HoldsKeep, SendNowKeeps, CancelKeeps, RewindNamedKeeps, RewindLegacyKeeps
  <2>4. CASE TurnStep
    BY <2>1, <2>4, CommitKeeps, PhasesKeep, DrainKeeps, BeginKeeps, FinishKeeps DEF TurnStep
  <2>5. CASE TurnChoice
    BY <2>1, <2>5, PhasesKeep, SafePointKeeps, SweepsKeep DEF TurnChoice
  <2>6. CASE BackStep BY <2>1, <2>6, KicksKeep DEF BackStep
  <2>7. CASE ReceiveCompletion \/ SendCompletion
    BY <2>1, <2>7, LoopOnlyKeeps, PhasesKeep
  <2>8. CASE \E r \in Resumes : start_resume_turn(r) BY <2>1, <2>8, ResumeKeeps
  <2>9. CASE \E p \in Prompts : HoldExpires(p) BY <2>1, <2>9, HoldsKeep
  <2> QED BY <1>2, <2>2, <2>3, <2>4, <2>5, <2>6, <2>7, <2>8, <2>9 DEF Next
<1> QED BY <1>1, <1>2

\* The invariant but for the lease: types, the places of the texts, what the turn and
\* the run loop rely on.
THEOREM CoreInvariant == Spec => []CoreInv
<1>1. Init => CoreInv BY CoreInitially
<1>2. CoreInv /\ [Next]_vars => CoreInv' BY CoreStep
<1> QED BY <1>1, <1>2, PTL DEF Spec

-----------------------------------------------------------------------------
(* The properties the runs check.                                           *)

\* The session's state always has the shape the code gives it; no more messages are
\* held in slots than there are slots.
THEOREM TypesKept == Spec => []TypeOK
<1>1. CoreInv => TypeOK BY DEF CoreInv
<1> QED BY <1>1, CoreInvariant, PTL

\* The running turn's row stays at the front of the queue until it is finalized, so its
\* completion is never taken for a stale one.
THEOREM FrontKept == Spec => []RunningIsFront
<1>1. CoreInv => RunningIsFront BY DEF CoreInv, LoopInv, RunningIsFront, FrontRow
<1> QED BY <1>1, CoreInvariant, PTL

\* No end of a turn leaves a message in a slot of a turn that is gone.
THEOREM SlotsStayBound == Spec => []SlotsBound
<1>1. ASSUME CoreInv PROVE SlotsBound
  <2>1. Slotted \subseteq Messages BY <1>1, Placed DEF CoreInv
  <2>2. \A m \in Slotted : Running /\ slot[m].bind = Binding(task)
    BY <1>1, <2>1 DEF CoreInv, TextInv, Slot
  <2> QED BY <2>2 DEF SlotsBound, Slotted
<1> QED BY <1>1, CoreInvariant, PTL

LEMMA PlacedOnce ==
    ASSUME CoreInv, NEW x \in Ids
    PROVE  /\ \A a, b \in Places(x) : a = b
           /\ content[x] = "live" => Places(x) # {}
<1> DEFINE Q == {j \in DOMAIN queue : queue[j] = x}
           S == {j \in DOMAIN slots : slots[j] = x}
           B == {j \in DOMAIN buffer : buffer[j].id = x}
           T == {j \in DOMAIN taken : taken[j].id = x}
           H == loop.at = "queue" /\ loop.prompt = x
<1>1. Text(x) BY DEF CoreInv, TextInv
<1>2. /\ x \in Queued <=> Q # {}
      /\ x \in Slotted <=> S # {}
      /\ x \in InHandler <=> H
  BY DEF Queued, Slotted, InHandler, ToSet
<1>3. /\ x \in Buffered <=> B # {}
      /\ x \in InDrain <=> T # {}
      /\ \A i, j \in B : i = j
      /\ \A i, j \in T : i = j
  <2>1. ASSUME NEW b \in Seq(Entries), IsInjective(EntryIds(b))
        PROVE  /\ x \in ToSet(EntryIds(b)) <=> {j \in DOMAIN b : b[j].id = x} # {}
               /\ \A i, j \in {k \in DOMAIN b : b[k].id = x} : i = j
    <3> DEFINE e == EntryIds(b)
    <3>1. /\ e \in Seq(Ids) /\ Len(e) = Len(b)
          /\ \A k \in 1 .. Len(b) : e[k] = b[k].id
      BY EntryIdsFacts
    <3> HIDE DEF e
    <3>2. DOMAIN b = 1 .. Len(b) /\ DOMAIN e = 1 .. Len(b) BY <3>1, LenProperties
    <3>3. IsInjective(e) BY <2>1 DEF e
    <3>4. \A i, j \in DOMAIN e : e[i] = e[j] => i = j BY <3>3 DEF IsInjective
    <3>5. x \in ToSet(e) <=> {j \in DOMAIN b : b[j].id = x} # {}
      BY <3>1, <3>2 DEF ToSet
    <3>6. \A i, j \in {k \in DOMAIN b : b[k].id = x} : i = j
      BY <3>1, <3>2, <3>4
    <3> QED BY <3>5, <3>6 DEF e
  <2>2. /\ buffer \in Seq(Entries) /\ IsInjective(EntryIds(buffer))
        /\ taken \in Seq(Entries) /\ IsInjective(EntryIds(taken))
    BY DEF CoreInv, TypeOK, Unrepeated
  <2> QED BY <2>1, <2>2 DEF Buffered, InDrain
<1>4. /\ \A i, j \in Q : i = j
      /\ \A i, j \in S : i = j
  BY DEF CoreInv, Unrepeated, IsInjective
<1>5. Places(x) = {<<"queue", k>> : k \in Q} \cup {<<"slots", k>> : k \in S}
                    \cup {<<"buffer", k>> : k \in B} \cup {<<"taken", k>> : k \in T}
                    \cup (IF H THEN {<<"loop", 1>>} ELSE {})
  BY DEF Places
<1> HIDE DEF Q, S, B, T, H
<1>6. /\ Q # {} => S = {} /\ B = {} /\ T = {} /\ ~ H
      /\ S # {} => B = {} /\ T = {} /\ ~ H
      /\ B # {} => T = {} /\ ~ H
      /\ T # {} => ~ H
  BY <1>1, <1>2, <1>3 DEF Text
<1>7. ASSUME NEW a \in Places(x), NEW b \in Places(x) PROVE a = b
  <2>1. CASE Q # {} BY <1>4, <1>5, <1>6, <1>7, <2>1
  <2>2. CASE Q = {} /\ S # {} BY <1>4, <1>5, <1>6, <1>7, <2>2
  <2>3. CASE Q = {} /\ S = {} /\ B # {} BY <1>3, <1>5, <1>6, <1>7, <2>3
  <2>4. CASE Q = {} /\ S = {} /\ B = {} /\ T # {} BY <1>3, <1>5, <1>6, <1>7, <2>4
  <2>5. CASE Q = {} /\ S = {} /\ B = {} /\ T = {} BY <1>5, <1>7, <2>5
  <2> QED BY <2>1, <2>2, <2>3, <2>4, <2>5
<1>8. content[x] = "live" => Places(x) # {}
  <2>1. content[x] = "live" => Q # {} \/ S # {} \/ B # {} \/ T # {} \/ H
    BY <1>1, <1>2, <1>3 DEF Text
  <2> QED BY <1>5, <2>1
<1> QED BY <1>7, <1>8

\* No text is lost or duplicated between the queue, the slots, the buffer, the drain and
\* the handler that received it.
THEOREM TextsStayAccounted == Spec => []TextsAccounted
<1>1. CoreInv => TextsAccounted BY PlacedOnce DEF TextsAccounted
<1> QED BY <1>1, CoreInvariant, PTL

\* A waiting sender has a row, a slot or the handler that will answer it; an answered
\* prompt has no row left.
THEOREM SendersStayHeld == Spec => []SendersHeld
<1>1. ASSUME CoreInv PROVE SendersHeld
  <2>1. ASSUME NEW x \in Prompts \cup Messages \cup Wakes
        PROVE  /\ answer[x] = "waiting" =>
                    \/ InQueue(x) \/ x \in ToSet(slots)
                    \/ loop.at = "queue" /\ loop.prompt = x
               /\ InQueue(x) => answer[x] = "waiting" \/ x \in fallback
    <3>1. Text(x) BY <1>1, Kinds DEF CoreInv, TextInv
    <3> QED BY <3>1 DEF Text, InQueue, Queued, Slotted, InHandler
  <2> QED BY <2>1 DEF SendersHeld
<1> QED BY <1>1, CoreInvariant, PTL

\* A message whose parent was told that it completed was put to the model, handled as a
\* command, or skipped because persistence failed.
THEOREM CompletedWereSeen == Spec => []CompletedWasSeen
<1>1. CoreInv => CompletedWasSeen BY DEF CoreInv, TextInv, Slot, CompletedWasSeen
<1> QED BY <1>1, CoreInvariant, PTL

\* A send-now never tears down a turn whose prompt is not recorded yet.
THEOREM SendNowSpares == Spec => SendNowSparesPrompt
<1>1. CoreInv => (loop.at = "teardown" /\ loop.kind = "send_now" =>
                    content[task.prompt] # "live")
  BY DEF CoreInv, LoopInv, TurnInv
<1>2. CoreInv /\ [Next]_vars =>
        [loop.at = "teardown" /\ loop.kind = "send_now" /\ loop'.at = "release"
           => content[task.prompt] # "live"]_vars
  BY <1>1
<1> QED BY <1>2, CoreInvariant, PTL DEF Spec, SendNowSparesPrompt

\* Only a kick changes the running turn's prompt to another one.
LEMMA PromptsChange ==
    ASSUME CoreInv, Next, task'.prompt \notin {None, task.prompt}
    PROVE  maybe_start_running_task
<1>1. /\ task \in Tasks /\ NoTask.prompt = None
      /\ \A phase : [task EXCEPT !.phase = phase].prompt = task.prompt
  <2>1. task \in Tasks BY LoopTyped DEF CoreInv
  <2>2. NoTask.prompt = None BY DEF NoTask
  <2> QED BY <2>1, <2>2 DEF Tasks
<1>2. task' # task /\ task' # NoTask /\ ~ \E phase : task' = [task EXCEPT !.phase = phase]
  BY <1>1
<1>3. CASE LoopStep
  <2>1. ~ (queue_input \/ finish_finalization \/ handle_completion
             \/ flush_stranded_interjections \/ settle_all_parent_messages)
    BY <1>2 DEF queue_input, finish_finalization, handle_completion,
                flush_stranded_interjections, settle_all_parent_messages, turnVars
  <2>2. ~ (cancel_turn_for_send_now \/ Teardown)
    BY <1>2 DEF cancel_turn_for_send_now, Teardown, ClaimCancel, AbortTask
  <2>3. ~ (TeardownRewind \/ Release)
    BY <1>2 DEF TeardownRewind, Release, release_finalizing_task
  <2> QED BY <1>3, <2>1, <2>2, <2>3 DEF LoopStep, Kick
<1>4. ~ Command
  <2> USE DEF turnVars, Others
  <2>1. \A p \in Prompts \cup Wakes, now \in BOOLEAN : ~ ReceivePrompt(p, now)
    BY <1>2 DEF ReceivePrompt
  <2>2. \A m \in Messages, op \in {"steer", "queue"} : ~ admit_parent_agent_message(m, op)
    BY <1>2 DEF admit_parent_agent_message
  <2>3. \A i \in Interjections : ~ Interject(i) BY <1>2 DEF Interject
  <2>4. ~ handle_reorder_queue /\ ~ handle_clear_queue /\ ~ RewindLegacy
    BY <1>2 DEF handle_reorder_queue, handle_clear_queue, RewindLegacy
  <2>5. \A p \in Prompts :
          ~ (\/ handle_remove_queued_prompt(p) \/ handle_edit_queued_prompt(p)
             \/ handle_hold_edit(p) \/ handle_release_edit(p)
             \/ handle_interject_queued_prompt(p))
    BY <1>2 DEF handle_remove_queued_prompt, handle_edit_queued_prompt, handle_hold_edit,
                handle_release_edit, handle_interject_queued_prompt
  <2>6. \A p \in Prompts : ~ RewindNamed(p) BY <1>2 DEF RewindNamed
  <2>7. \A kind \in {"soft", "stop", "teardown"} : ~ Cancel(kind)
    BY <1>2 DEF Cancel, ClaimCancel, AbortTask
  <2>8. \A cancels \in BOOLEAN : ~ Shutdown(cancels)
    BY <1>2 DEF Shutdown, ClaimCancel, AbortTask
  <2> QED BY <2>1, <2>2, <2>3, <2>4, <2>5, <2>6, <2>7, <2>8 DEF Command
<1>5. ~ TurnStep /\ ~ TurnChoice /\ ~ SendCompletion
  <2>1. ~ TurnStep
    BY <1>2 DEF TurnStep, mark_front_message_committed, EnterScope,
                drain_pending_interjections, begin_delivery, finish_delivery, Goes
  <2>2. ~ TurnChoice
    BY <1>2 DEF TurnChoice, PromptBlocked, close_rewind_window, SafePoint,
                drop_pending_items_for_consumed_completions, Goes
  <2>3. ~ SendCompletion BY <1>2 DEF SendCompletion, Goes
  <2> QED BY <2>1, <2>2, <2>3
<1>6. /\ ~ ReceiveCompletion
      /\ \A r \in Resumes : ~ start_resume_turn(r)
      /\ \A p \in Prompts : ~ HoldExpires(p)
  BY <1>2 DEF ReceiveCompletion, start_resume_turn, HoldExpires, turnVars, Others
<1>7. CASE BackStep BY <1>7 DEF BackStep, McpKick, ResumeKick
<1> QED BY <1>3, <1>4, <1>5, <1>6, <1>7 DEF Next

\* A kick starts a row whose text the model has not seen and nobody discarded.
LEMMA KickStartsLive ==
    ASSUME CoreInv, maybe_start_running_task, task'.prompt \notin {None, task.prompt}
    PROVE  content[task'.prompt] = "live"
<1>1. task' # task OBVIOUS
<1>2. PICK stale, follow : Started(stale, follow)
  BY <1>1, StartFacts DEF CoreInv, turnVars
<1>3. /\ ~ Running /\ queue' # <<>> /\ queue' \in Seq(Ids)
      /\ task' = [prompt |-> Head(queue'), epoch |-> epoch + 1, phase |-> "intake"]
      /\ Queued' \subseteq Queued
  BY <1>1, <1>2 DEF Started, turnVars
<1>4. task'.prompt = Head(queue') BY <1>3
<1>5. Head(queue') \in Queued' BY <1>3, TailFacts DEF Queued
<1>6. task'.prompt \in Queued /\ task'.prompt \in Ids
  BY <1>3, <1>4, <1>5, Placed DEF CoreInv
<1> QED BY <1>3, <1>6 DEF CoreInv, TextInv, Text

\* A turn starts only for a text the model has not seen and nobody discarded: a steered
\* message does not also run as a turn, a removed or cancelled prompt does not run.
THEOREM StartsStayUnseen == Spec => StartsUnseen
<1>1. CoreInv /\ [Next]_vars =>
        [task'.prompt \notin {None, task.prompt} => content[task'.prompt] = "live"]_vars
  BY PromptsChange, KickStartsLive
<1> QED BY <1>1, CoreInvariant, PTL DEF Spec, StartsUnseen

-----------------------------------------------------------------------------
(* The lease.  A plan approval resumed while a cancel is under way can change *)
(* the front it named, and the lease is then never finished; where that cannot *)
(* happen, the gate and the queue are never left behind.                     *)

Leased(l) == \/ l.at \in {"complete", "release", "finish"}
             \/ l.at = "teardown" /\ l.kind # "rewind"

LEMMA LeaseFacts ==
    ASSUME TypeOK
    PROVE  /\ GateOwned <=> (gate = TRUE <=> Leased(loop))
           /\ gate = TRUE \/ gate = FALSE
BY DEF TypeOK, GateOwned, Leased

\* The loop goes to an await other than its select, gate and lease in step.
LEMMA LeaseMade ==
    ASSUME LeaseInv, TypeOK', UNCHANGED <<scenario, resume>>, loop'.at # "idle",
           Steady => (gate' = TRUE <=> Leased(loop')),
           Steady /\ loop'.at = "teardown" /\ loop'.kind # "rewind" /\ ~ Running' =>
             FrontRow' = loop'.bound.prompt
    PROVE  LeaseInv'
<1>1. Steady' = Steady BY DEF Steady
<1>2. QueueKicked' BY DEF QueueKicked, AtIdle
<1>3. Steady => GateOwned'
  <2>1. GateOwned' <=> (gate' = TRUE <=> Leased(loop')) BY DEF TypeOK, GateOwned, Leased
  <2> QED BY <2>1
<1> QED BY <1>1, <1>2, <1>3 DEF LeaseInv

\* The loop goes from one await to another, neither inside a finalization.
LEMMA LeaseLeft ==
    ASSUME TypeOK, LeaseInv, TypeOK', UNCHANGED <<scenario, resume, gate>>,
           ~ Leased(loop), ~ Leased(loop'), loop'.at # "idle"
    PROVE  LeaseInv'
<1>1. Steady => gate # TRUE BY LeaseFacts DEF LeaseInv
<1>2. ~ (loop'.at = "teardown" /\ loop'.kind # "rewind") BY DEF Leased
<1> QED BY <1>1, <1>2, LeaseMade

\* Nothing but the running turn moves.
LEMMA LeaseRuns ==
    ASSUME LeaseInv, TypeOK, UNCHANGED <<scenario, resume, gate, loop>>, Running, Running'
    PROVE  LeaseInv'
<1>1. Steady' = Steady BY DEF Steady
<1>2. QueueKicked' BY DEF QueueKicked
<1>3. GateOwned' = GateOwned BY DEF GateOwned
<1> QED BY <1>1, <1>2, <1>3 DEF LeaseInv

\* Loop, gate, queue and turn stay; a hold may grow older.
LEMMA LeaseWaits ==
    ASSUME LeaseInv, UNCHANGED <<scenario, gate, loop, queue, task, hookHold, resume>>,
           \A p \in Prompts : holds[p] # "none" => holds'[p] # "none"
    PROVE  LeaseInv'
<1>1. Steady' = Steady /\ GateOwned' = GateOwned /\ FrontRow' = FrontRow
      /\ Running' = Running
  BY DEF Steady, GateOwned, FrontRow, Running
<1>2. QueueKicked => QueueKicked' BY <1>1 DEF QueueKicked, AtIdle
<1> QED BY <1>1, <1>2 DEF LeaseInv

\* Commands and other steps of the loop between its awaits.
LEMMA LeaseAtCommands ==
    ASSUME CoreInv, LeaseInv, UNCHANGED scenario, CoreInv',
           \/ queue_input \/ flush_stranded_interjections \/ settle_all_parent_messages
           \/ TeardownRewind \/ handle_reorder_queue \/ handle_clear_queue \/ RewindLegacy
           \/ \E p \in Prompts \cup Wakes, now \in BOOLEAN : ReceivePrompt(p, now)
           \/ \E p \in Prompts : \/ handle_remove_queued_prompt(p)
                                 \/ handle_edit_queued_prompt(p)
                                 \/ handle_release_edit(p)
                                 \/ handle_interject_queued_prompt(p)
                                 \/ RewindNamed(p)
    PROVE  LeaseInv'
<1> USE DEF Others, backVars
<1>1. TypeOK /\ TypeOK' BY DEF CoreInv
<1>2. UNCHANGED <<resume, gate>>
  BY DEF queue_input, flush_stranded_interjections, settle_all_parent_messages,
         TeardownRewind, handle_reorder_queue, handle_clear_queue, RewindLegacy,
         ReceivePrompt, handle_remove_queued_prompt, handle_edit_queued_prompt,
         handle_release_edit, handle_interject_queued_prompt, RewindNamed
<1>3. ~ Leased(loop)
  BY DEF queue_input, flush_stranded_interjections, settle_all_parent_messages,
         TeardownRewind, handle_reorder_queue, handle_clear_queue, RewindLegacy,
         ReceivePrompt, handle_remove_queued_prompt, handle_edit_queued_prompt,
         handle_release_edit, handle_interject_queued_prompt, RewindNamed,
         MayIssue, AtIdle, Leased
<1>4. ~ Leased(loop') /\ loop'.at # "idle"
  <2>1. \/ loop' \in {Then("kick"), Then("send_now"), Then("closed")}
        \/ \E p, k : loop' = Loop("queue", p, k, NoBound)
        \/ \E p : loop' = Loop("teardown", p, "rewind", NoBound)
    BY DEF queue_input, flush_stranded_interjections, settle_all_parent_messages,
           TeardownRewind, handle_reorder_queue, handle_clear_queue, RewindLegacy,
           ReceivePrompt, handle_remove_queued_prompt, handle_edit_queued_prompt,
           handle_release_edit, handle_interject_queued_prompt, RewindNamed
  <2> QED BY <2>1 DEF Then, Loop, Leased
<1> QED BY <1>1, <1>2, <1>3, <1>4, LeaseLeft

\* A message or an interjection arrives; a hold is taken or expires.
LEMMA LeaseAtArrivals ==
    ASSUME CoreInv, LeaseInv, UNCHANGED scenario, CoreInv',
           \/ \E m \in Messages, op \in {"steer", "queue"} : admit_parent_agent_message(m, op)
           \/ \E i \in Interjections : Interject(i)
           \/ \E p \in Prompts : handle_hold_edit(p) \/ HoldExpires(p)
    PROVE  LeaseInv'
<1> USE DEF Others, backVars, turnVars
<1>1. TypeOK /\ TypeOK' BY DEF CoreInv
<1>2. CASE \E m \in Messages, op \in {"steer", "queue"} : admit_parent_agent_message(m, op)
  <2>1. /\ UNCHANGED <<resume, gate, task>> /\ loop.at = "idle"
        /\ loop' = Then("kick") \/ (Running /\ loop' = loop)
    BY <1>2 DEF admit_parent_agent_message, AtIdle
  <2>2. Running' = Running BY <2>1, PlacesKept
  <2>3. CASE Running /\ loop' = loop BY <1>1, <2>1, <2>2, <2>3, LeaseRuns
  <2>4. CASE loop' = Then("kick")
    <3>1. ~ Leased(loop) /\ ~ Leased(loop') /\ loop'.at # "idle"
      BY <2>1, <2>4 DEF Then, Loop, Leased
    <3> QED BY <1>1, <2>1, <3>1, LeaseLeft
  <2> QED BY <2>1, <2>3, <2>4
<1>3. CASE \E i \in Interjections : Interject(i)
  <2>1. /\ UNCHANGED <<resume, gate, task, holds, hookHold>> /\ loop.at = "idle"
        /\ loop' = Then("kick") \/ (queue' = queue /\ loop' = loop)
    BY <1>3 DEF Interject, AtIdle
  <2>2. CASE queue' = queue /\ loop' = loop BY <2>1, <2>2, LeaseWaits
  <2>3. CASE loop' = Then("kick")
    <3>1. ~ Leased(loop) /\ ~ Leased(loop') /\ loop'.at # "idle"
      BY <2>1, <2>3 DEF Then, Loop, Leased
    <3> QED BY <1>1, <2>1, <3>1, LeaseLeft
  <2> QED BY <2>1, <2>2, <2>3
<1>4. CASE \E p \in Prompts : handle_hold_edit(p) \/ HoldExpires(p)
  <2>1. /\ UNCHANGED <<resume, gate, task, queue, hookHold, loop>>
        /\ \E p \in Prompts : \/ holds' = [holds EXCEPT ![p] = "live"]
                              \/ holds' = [holds EXCEPT ![p] = "expired"]
    BY <1>4 DEF handle_hold_edit, HoldExpires
  <2>2. \A p \in Prompts : holds[p] # "none" => holds'[p] # "none"
    BY <1>1, <2>1 DEF TypeOK
  <2> QED BY <2>1, <2>2, LeaseWaits
<1> QED BY <1>2, <1>3, <1>4

\* The running turn takes a step.
LEMMA LeaseAtTurn ==
    ASSUME CoreInv, LeaseInv, UNCHANGED scenario,
           TurnStep \/ TurnChoice \/ SendCompletion
    PROVE  LeaseInv'
<1>1. /\ UNCHANGED <<resume, gate, loop>> /\ Running
  BY DEF TurnStep, TurnChoice, SendCompletion, mark_front_message_committed, EnterScope,
         drain_pending_interjections, begin_delivery, finish_delivery, PromptBlocked,
         close_rewind_window, SafePoint, drop_pending_items_for_consumed_completions,
         TurnAt, Rest, Running, Alive
<1>2. TypeOK BY DEF CoreInv
<1>3. \/ task' = task
      \/ \E phase \in Phases \ {"none"} : task' = [task EXCEPT !.phase = phase]
  <2>1. CASE TurnStep
    BY <2>1 DEF TurnStep, mark_front_message_committed, EnterScope,
                drain_pending_interjections, begin_delivery, finish_delivery, Goes, Phases
  <2>2. CASE TurnChoice
    BY <2>2 DEF TurnChoice, PromptBlocked, close_rewind_window, SafePoint,
                drop_pending_items_for_consumed_completions, Goes, Phases
  <2>3. CASE SendCompletion BY <2>3 DEF SendCompletion, Goes, Phases
  <2> QED BY <2>1, <2>2, <2>3
<1>4. Running' BY <1>1, <1>2, <1>3, GoesFacts, PlacesKept
<1> QED BY <1>1, <1>2, <1>4, LeaseRuns

\* The promoter runs, at the end of a handler or for a background task.
LEMMA LeaseAtKick ==
    ASSUME CoreInv, LeaseInv, UNCHANGED scenario,
           Kick \/ McpKick \/ \E r \in Resumes : ResumeKick(r)
    PROVE  LeaseInv'
<1> USE DEF backVars
<1>1. TypeOK /\ Unrepeated /\ resume \in [Resumes -> {"parked", "queued", "done"}]
  BY DEF CoreInv, TypeOK
<1>2. /\ maybe_start_running_task
      /\ UNCHANGED <<hookHold, gate>>
      /\ loop' = loop \/ (loop.at = "kick" /\ loop' = Idle)
      /\ resume' = resume \/ \E r \in Resumes : resume' = [resume EXCEPT ![r] = "done"]
  BY DEF Kick, McpKick, ResumeKick
<1>3. Steady' = Steady /\ (Leased(loop') <=> Leased(loop))
  BY <1>2 DEF Steady, Leased, Idle
<1>4. \A r \in Resumes : resume'[r] # "done" => r \in scenario'.ids
  BY <1>1, <1>2 DEF LeaseInv
<1>5. Steady => (gate = TRUE <=> Leased(loop)) BY <1>1, LeaseFacts DEF LeaseInv
<1>6. Steady => GateOwned'
  <2>1. Steady => (gate <=> Leased(loop')) BY <1>1, <1>3, <1>5, LeaseFacts
  <2>2. (gate <=> Leased(loop')) => GateOwned' BY <1>2 DEF GateOwned, Leased
  <2> QED BY <2>1, <2>2
<1>7. CASE StartBlocked /\ UNCHANGED <<queue, holds, turnVars, senderVars>>
  <2>1. FrontRow' = FrontRow /\ Running' = Running BY <1>7 DEF FrontRow, Running, turnVars
  <2>2. Steady => QueueKicked'
    <3>1. SUFFICES ASSUME Steady, loop'.at = "idle", ~ Running', queue' # <<>>
                   PROVE  hookHold' = TRUE
      BY DEF QueueKicked, AtIdle
    <3>2. ~ Leased(loop) BY <1>2, <3>1 DEF Leased
    <3>3. gate = FALSE BY <1>1, <1>5, <3>1, <3>2, LeaseFacts
    <3> QED BY <1>1, <1>2, <1>7, <2>1, <3>1, <3>3 DEF StartBlocked, TypeOK
  <2>3. loop'.at = "teardown" => loop' = loop BY <1>2 DEF Idle
  <2> QED BY <1>3, <1>4, <1>6, <2>1, <2>2, <2>3 DEF LeaseInv
<1>8. ASSUME NEW stale, NEW follow, ~ StartBlocked, Started(stale, follow)
      PROVE  LeaseInv'
  <2>1. gate # TRUE BY <1>8 DEF StartBlocked
  <2>2. Steady => ~ Leased(loop') BY <1>3, <1>5, <2>1
  <2>3. Steady => ~ (loop'.at = "teardown" /\ loop'.kind # "rewind") BY <2>2 DEF Leased
  <2>4. QueueKicked'
    <3>1. SUFFICES ASSUME ~ Running', queue' # <<>>
                   PROVE  \E p \in Prompts : p = FrontRow' /\ holds'[p] # "none"
      BY DEF QueueKicked
    <3>2. Head(queue') \in Prompts /\ holds'[Head(queue')] = "live"
      BY <1>8, <3>1 DEF Started, Running
    <3>3. FrontRow' = Head(queue') BY <3>1 DEF FrontRow
    <3> QED BY <3>2, <3>3
  <2> QED BY <1>3, <1>4, <1>6, <2>3, <2>4 DEF LeaseInv
<1> QED BY <1>1, <1>2, <1>7, <1>8, StartFacts

\* A plan approval is decided: its own kick is still to come.
LEMMA LeaseAtResume ==
    ASSUME CoreInv, LeaseInv, UNCHANGED scenario, NEW r \in Resumes, start_resume_turn(r)
    PROVE  LeaseInv'
<1> USE DEF turnVars
<1>1. /\ UNCHANGED <<loop, gate, task>> /\ resume[r] = "parked"
      /\ resume' = [resume EXCEPT ![r] = "queued"]
  BY DEF start_resume_turn
<1>2. resume \in [Resumes -> {"parked", "queued", "done"}] BY DEF CoreInv, TypeOK
<1>3. r \in scenario.ids BY <1>1 DEF LeaseInv
<1>4. \A s \in Resumes : resume'[s] # "done" => s \in scenario'.ids
  BY <1>1, <1>2, <1>3 DEF LeaseInv
<1>5. resume'[r] = "queued" BY <1>1, <1>2
<1>6. QueueKicked' BY <1>5 DEF QueueKicked
<1>7. Steady' = Steady /\ GateOwned' = GateOwned /\ Running' = Running
  BY <1>1 DEF Steady, GateOwned, Running
<1>8. Steady => ~ (loop.at = "teardown" /\ loop.kind # "rewind" /\ ~ Running)
  <2>1. Steady => scenario.commands \cap {"soft", "stop", "teardown", "shutdown"} = {}
    BY <1>3 DEF Steady
  <2> QED BY <2>1 DEF CoreInv, LoopInv
<1> QED BY <1>1, <1>4, <1>6, <1>7, <1>8 DEF LeaseInv

\* A cancel's claim is taken, with a lease on what is in front: at the select the gate
\* is open, and a running turn is the front.
LEMMA LeaseAtClaim ==
    ASSUME CoreInv, LeaseInv, UNCHANGED scenario, CoreInv',
           \/ cancel_turn_for_send_now
           \/ \E kind \in {"soft", "stop", "teardown"} : Cancel(kind)
           \/ \E cancels \in BOOLEAN : Shutdown(cancels)
    PROVE  LeaseInv'
<1> USE DEF backVars, queueVars, slotVars, bufferVars
<1>1. TypeOK /\ TypeOK' BY DEF CoreInv
<1>2. /\ resume' = resume /\ loop.at \in {"idle", "send_now"}
      /\ \/ \E b : \E kind \in {"send_now", "soft", "stop", "teardown", "shutdown"} :
              /\ ClaimCancel(kind, b)
              /\ kind = "send_now" => loop.at = "send_now"
              /\ kind # "send_now" => queue' = queue
         \/ loop' = Then("close") /\ gate' = gate
  BY DEF cancel_turn_for_send_now, Cancel, Shutdown, MayIssue, AtIdle
<1>3. ~ Leased(loop) BY <1>2 DEF Leased
<1>4. CASE loop' = Then("close") /\ gate' = gate
  <2>1. ~ Leased(loop') /\ loop'.at # "idle" BY <1>4 DEF Then, Loop, Leased
  <2> QED BY <1>1, <1>2, <1>3, <1>4, <2>1, LeaseLeft
<1>5. ASSUME NEW kind \in {"send_now", "soft", "stop", "teardown", "shutdown"}, NEW b,
             ClaimCancel(kind, b), kind = "send_now" => loop.at = "send_now",
             kind # "send_now" => queue' = queue
      PROVE  LeaseInv'
  <2>1. CASE claim_cancel_finalization
    <3>1. gate' = TRUE /\ loop' = Loop("teardown", None, kind, CancelBinding)
      BY <1>5, <2>1 DEF ClaimCancel
    <3>2. loop'.at = "teardown" /\ loop'.kind = kind /\ loop'.bound = CancelBinding
      BY <3>1 DEF Loop
    <3>3. Leased(loop') /\ loop'.at # "idle" BY <3>2 DEF Leased
    <3>4. ~ Running' => FrontRow' = loop'.bound.prompt
      <4>1. CASE kind = "send_now"
        BY <3>2, <4>1 DEF CoreInv, LoopInv
      <4>2. CASE kind # "send_now"
        <5>1. FrontRow' = FrontRow BY <1>5, <4>2 DEF FrontRow
        <5>2. ~ Running' => ~ Running
          <6>1. task' = [task EXCEPT !.phase = AbortedPhase] \/ task' = task
            BY <1>5 DEF ClaimCancel, AbortTask
          <6>2. Running => AbortedPhase \in Phases \ {"none"}
            BY <1>1, LoopTyped DEF AbortedPhase, Alive, Running, Tasks, Phases
          <6> QED BY <1>1, <6>1, <6>2, GoesFacts, PlacesKept
        <5>3. ~ Running => CancelBinding.prompt = FrontRow BY DEF CancelBinding
        <5> QED BY <3>2, <5>1, <5>2, <5>3
      <4> QED BY <4>1, <4>2
    <3> QED BY <1>1, <1>2, <3>1, <3>3, <3>4, LeaseMade
  <2>2. CASE ~ claim_cancel_finalization
    <3>1. Steady => gate # TRUE BY <1>1, <1>3, LeaseFacts DEF LeaseInv
    <3>2. Running => FrontRow = task.prompt
      BY <1>2 DEF CoreInv, LoopInv, FrontRow
    <3>3. ~ Steady BY <1>1, <2>2, <3>1, <3>2, LeaseFacts DEF claim_cancel_finalization
    <3>4. ~ Steady' BY <3>3 DEF Steady
    <3> QED BY <1>2, <3>4 DEF LeaseInv
  <2> QED BY <2>1, <2>2
<1> QED BY <1>2, <1>4, <1>5

\* A finalization goes on to its end; the teardown finds the binding it claimed.
LEMMA LeaseAtFinalization ==
    ASSUME CoreInv, LeaseInv, UNCHANGED scenario, CoreInv',
           Teardown \/ Release \/ finish_finalization \/ handle_completion
             \/ ReceiveCompletion
    PROVE  LeaseInv'
<1> USE DEF backVars, queueVars, slotVars, bufferVars, turnVars
<1>1. TypeOK /\ TypeOK' /\ loop \in Loops BY LoopTyped DEF CoreInv
<1>2. Steady => (gate = TRUE <=> Leased(loop)) BY <1>1, LeaseFacts DEF LeaseInv
<1>3. CASE Release \/ handle_completion
  <2>1. /\ UNCHANGED <<resume, gate>> /\ loop.at \in {"release", "complete"}
        /\ loop' = [loop EXCEPT !.at = "finish"] \/ loop' = [loop EXCEPT !.at = "release"]
    BY <1>3 DEF Release, handle_completion
  <2>2. loop'.at \in {"finish", "release"} BY <1>1, <2>1 DEF Loops
  <2>3. Leased(loop) /\ Leased(loop') BY <2>1, <2>2 DEF Leased
  <2> QED BY <1>1, <1>2, <2>1, <2>2, <2>3, LeaseMade
<1>4. CASE finish_finalization
  <2>1. loop.at = "finish" /\ ~ Running BY <1>4 DEF finish_finalization, CoreInv, LoopInv
  <2>2. gate' = FALSE /\ resume' = resume /\ loop' = After(loop.kind)
    BY <1>4, <2>1 DEF finish_finalization
  <2>3. loop' \in {Then("flush"), Then("close"), Then("kick")} BY <2>2 DEF After
  <2>4. ~ Leased(loop') /\ loop'.at # "idle" /\ loop'.at # "teardown"
    BY <2>3 DEF Then, Loop, Leased
  <2> QED BY <1>1, <2>2, <2>4, LeaseMade
<1>5. CASE ReceiveCompletion
  <2>1. /\ UNCHANGED <<resume, queue, task, hookHold, holds>> /\ loop.at = "idle"
        /\ \/ gate' = TRUE /\ \E msg : loop' = Loop("complete", None, "completion", msg)
           \/ UNCHANGED <<gate, loop>>
    BY <1>5 DEF ReceiveCompletion, AtIdle
  <2>2. CASE UNCHANGED <<gate, loop>> BY <2>1, <2>2, LeaseWaits
  <2>3. CASE gate' = TRUE /\ \E msg : loop' = Loop("complete", None, "completion", msg)
    <3>1. loop'.at = "complete" BY <2>3 DEF Loop
    <3>2. Leased(loop') BY <3>1 DEF Leased
    <3> QED BY <1>1, <2>1, <2>3, <3>1, <3>2, LeaseMade
  <2> QED BY <2>1, <2>2, <2>3
<1>6. CASE Teardown
  <2>1. /\ UNCHANGED <<resume, gate>> /\ loop.at = "teardown" /\ loop.kind # "rewind"
    BY <1>6 DEF Teardown
  <2>2. CASE finalization_binding_is_current(loop.bound)
    <3>1. loop' = [loop EXCEPT !.at = "release"] BY <1>6, <2>2 DEF Teardown
    <3>2. loop'.at = "release" BY <1>1, <3>1 DEF Loops
    <3>3. Leased(loop) /\ Leased(loop') BY <2>1, <3>2 DEF Leased
    <3> QED BY <1>1, <1>2, <2>1, <3>2, <3>3, LeaseMade
  <2>3. CASE ~ finalization_binding_is_current(loop.bound)
    <3>1. SUFFICES ASSUME Steady PROVE FALSE
      <4>1. Steady' = Steady BY DEF Steady
      <4> QED BY <2>1, <4>1 DEF LeaseInv
    <3>2. gate = TRUE BY <2>1 DEF CoreInv, LoopInv
    <3>3. CASE Running
      <4>1. /\ Binding(task) = loop.bound /\ FrontRow = task.prompt
            /\ task.epoch # 0
        BY <2>1, <3>3 DEF CoreInv, LoopInv, TurnInv, FrontRow
      <4>2. loop.bound.prompt = task.prompt /\ loop.bound.epoch # 0
        BY <4>1 DEF Binding
      <4> QED BY <2>3, <3>2, <3>3, <4>1, <4>2 DEF finalization_binding_is_current
    <3>4. CASE ~ Running
      <4>1. loop.bound.epoch = 0 BY <2>1, <3>4 DEF CoreInv, LoopInv
      <4>2. FrontRow = loop.bound.prompt BY <2>1, <3>1, <3>4 DEF LeaseInv
      <4> QED BY <2>3, <3>2, <3>4, <4>1, <4>2 DEF finalization_binding_is_current
    <3> QED BY <3>3, <3>4
  <2> QED BY <2>2, <2>3
<1> QED BY <1>3, <1>4, <1>5, <1>6

LEMMA LeaseStep ==
    ASSUME CoreInv, LeaseInv, [Next]_vars PROVE LeaseInv'
<1>1. CASE UNCHANGED vars
  BY <1>1, LeaseWaits
     DEF vars, sessionVars, queueVars, turnVars, backVars
<1>2. CASE Next
  <2>1. UNCHANGED scenario /\ CoreInv' BY <1>2, CoreStep DEF Next
  <2>2. CASE LoopStep
    BY <2>1, <2>2, LeaseAtCommands, LeaseAtKick, LeaseAtClaim, LeaseAtFinalization
       DEF LoopStep
  <2>3. CASE Command
    <3>1. \/ \E p \in Prompts \cup Wakes, now \in BOOLEAN : ReceivePrompt(p, now)
          \/ \E m \in Messages, op \in {"steer", "queue"} : admit_parent_agent_message(m, op)
          \/ \E i \in Interjections : Interject(i)
          \/ handle_reorder_queue \/ handle_clear_queue \/ RewindLegacy
          \/ \E p \in Prompts : \/ handle_remove_queued_prompt(p)
                                \/ handle_edit_queued_prompt(p)
                                \/ handle_release_edit(p)
                                \/ handle_interject_queued_prompt(p)
                                \/ RewindNamed(p)
          \/ \E p \in Prompts : handle_hold_edit(p) \/ HoldExpires(p)
          \/ \E kind \in {"soft", "stop", "teardown"} : Cancel(kind)
          \/ \E cancels \in BOOLEAN : Shutdown(cancels)
      BY <2>3 DEF Command
    <3> QED BY <2>1, <3>1, LeaseAtCommands, LeaseAtArrivals, LeaseAtClaim
  <2>4. CASE TurnStep \/ TurnChoice \/ SendCompletion BY <2>1, <2>4, LeaseAtTurn
  <2>5. CASE BackStep BY <2>1, <2>5, LeaseAtKick DEF BackStep
  <2>6. CASE ReceiveCompletion BY <2>1, <2>6, LeaseAtFinalization
  <2>7. CASE \E r \in Resumes : start_resume_turn(r) BY <2>1, <2>7, LeaseAtResume
  <2>8. CASE \E p \in Prompts : HoldExpires(p) BY <2>1, <2>8, LeaseAtArrivals
  <2> QED BY <1>2, <2>2, <2>3, <2>4, <2>5, <2>6, <2>7, <2>8 DEF Next
<1> QED BY <1>1, <1>2

LEMMA LeaseInitially ==
    ASSUME Init PROVE LeaseInv
<1>1. \A r \in Resumes : resume[r] # "done" => r \in scenario.ids BY DEF Init
<1>2. GateOwned /\ loop.at = "idle" BY DEF Init, GateOwned, Idle
<1>3. QueueKicked BY DEF Init, QueueKicked
<1> QED BY <1>1, <1>2, <1>3 DEF LeaseInv

\* The whole inductive invariant.
THEOREM SessionInvariant == Spec => []SessionInv
<1>1. Init => CoreInv /\ LeaseInv BY CoreInitially, LeaseInitially
<1>2. (CoreInv /\ LeaseInv) /\ [Next]_vars => (CoreInv /\ LeaseInv)'
  BY CoreStep, LeaseStep
<1>3. CoreInv /\ LeaseInv => SessionInv BY DEF CoreInv, SessionInv
<1> QED BY <1>1, <1>2, <1>3, PTL DEF Spec

\* The finalization gate is closed exactly while the run loop is inside a finalization
\* that will open it, in every session in which no plan approval is resumed while turns
\* are cancelled; where both happen the run gate_leak shows a lease left behind.
THEOREM GateStaysOwned == Spec => [](Steady => GateOwned)
<1>1. SessionInv => (Steady => GateOwned) BY DEF SessionInv, LeaseInv
<1> QED BY <1>1, SessionInvariant, PTL

\* In the same sessions no handler forgets to kick the queue: with the loop at its select
\* and nothing running, a row that does not start is kept back by a hold.
THEOREM QueueStaysKicked == Spec => [](Steady => QueueKicked)
<1>1. SessionInv => (Steady => QueueKicked) BY DEF SessionInv, LeaseInv
<1> QED BY <1>1, SessionInvariant, PTL
=============================================================================
