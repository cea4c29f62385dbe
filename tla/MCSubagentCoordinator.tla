----------------------- MODULE MCSubagentCoordinator -----------------------
(***************************************************************************)
(* Instances of SubagentCoordinator for TLC.  The children are symmetric:  *)
(* no definition tells one id from another.                                *)
(***************************************************************************)
EXTENDS SubagentCoordinator, TLC

CONSTANTS main, other, t1, r1

IdSymmetry == Permutations(Ids)

Req(session, prompt, workflow, mode, surface) ==
  [session |-> session, prompt |-> prompt, workflow |-> workflow,
   mode |-> mode, surface |-> surface]

(* The spawn limit and the queue: two sessions, callers that leave, tokens *)
(* cancelled behind the actor's back, Stop and delete.                     *)
QueueOffers ==
  {Req(main, t1, None, "foreground", FALSE), Req(other, None, None, "background", FALSE)}
QueueEvents == {"CancelSession", "Delete", "CallerGone", "TokenCancelled"}

(* Messages to children and wakes of completed ones.                       *)
WakeOffers == {Req(main, None, None, "background", TRUE)}
WakeEvents == {"CancelOne", "CancelSession", "Publish"}

(* Nested children: their records, wakes and completions between turns.    *)
ByChildren == {Req(x, None, None, "background", TRUE) : x \in Ids}
NestedOffers == WakeOffers \cup ByChildren
LateEvents == {"CancelSession", "LateSpawn"}

(* A turn with a caller, a workflow child and nested children: blocking    *)
(* queries, the prompt's drain, every way of cancelling.                   *)
TurnOffers ==
  {Req(main, t1, None, "foreground", FALSE), Req(main, None, r1, "await", FALSE)}
    \cup ByChildren
TurnSenders == {main} \cup Ids
TurnEvents ==
  {"CancelPrompt", "WaitPromptDrained", "QueryGone",
   "DefinitionBackground", "CancelOne", "CancelSession", "Close", "Delete"}
============================================================================
