--------------------------- MODULE MCSessionTurns ---------------------------
(***************************************************************************)
(* Instances of SessionTurns for TLC.  A run explores the behaviours of    *)
(* each of its scenarios.  The prompts are symmetric where every scenario  *)
(* that uses one uses all.                                                 *)
(***************************************************************************)
EXTENDS SessionTurns, TLC

CONSTANTS w1, m1, m2, i1, r1

PromptSymmetry == Permutations(Prompts)

Scenario(ids, commands, steer, combine) ==
  [ids |-> ids, commands |-> commands, steer |-> steer, combine |-> combine]

(* Send-now and rewinds against steering prompts, a message and an         *)
(* interjection; every kind of cancel against wakes, combined prompts and  *)
(* the limit on steered messages; edits while a plan approval is resumed.  *)
SafetyScenarios ==
  {Scenario(Prompts \cup {m1, i1}, {"send_now", "soft", "rewind"}, TRUE, FALSE),
   Scenario(Prompts \cup {w1}, {"stop", "teardown", "shutdown", "rewind_legacy"}, FALSE, TRUE),
   Scenario({w1, m1, m2}, {"soft", "stop"}, TRUE, FALSE),
   Scenario(Prompts \cup {r1}, {"edit", "hold", "block"}, FALSE, TRUE)}

(* A prompt and two messages against cancels; a resumed plan approval      *)
(* behind prompts that a hook may block.                                   *)
LiveScenarios ==
  {Scenario({CHOOSE p \in Prompts : TRUE, m1, m2}, {"stop", "mcp"}, FALSE, FALSE),
   Scenario(Prompts \cup {r1}, {"block"}, FALSE, TRUE)}

(* A resumed plan approval against a cancel.                               *)
LeakScenarios == {Scenario({r1}, {"soft"}, FALSE, FALSE)}
=============================================================================
