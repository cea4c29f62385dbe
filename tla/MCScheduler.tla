----------------------------- MODULE MCScheduler -----------------------------
(***************************************************************************)
(* The scheduler with up to two tasks and two prompts.  The scenarios share  *)
(* out what the environment may do: chains of iterations of one task, and    *)
(* the removals of two.                                                      *)
(***************************************************************************)
EXTENDS Scheduler, TLC

CONSTANTS t1, t2

Recurring == [recurring |-> TRUE, durable |-> FALSE]
Durable == [recurring |-> TRUE, durable |-> TRUE]
OneShot == [recurring |-> FALSE, durable |-> FALSE]

\* Three iterations of a recurring task whose prompt changes under them.
Chain == [shapes |-> t1 :> Recurring, events |-> {"save"},
          runs |-> 3, updates |-> 1, crashes |-> 1]

\* A durable task is deleted or expires beside a one-shot that fires.
Removals == [shapes |-> t1 :> Durable @@ t2 :> OneShot,
             events |-> {"save", "delete", "expire"},
             runs |-> 1, updates |-> 0, crashes |-> 1]

\* The consumer and the actor go away under the removals of one task.
Endings == [shapes |-> t1 :> Durable,
            events |-> {"save", "delete", "expire", "close", "cancel"},
            runs |-> 1, updates |-> 1, crashes |-> 1]

\* A session-only task expires.
SoftExpiry == [shapes |-> t1 :> Recurring, events |-> {"save", "expire"},
               runs |-> 1, updates |-> 0, crashes |-> 1]

MCTasks == {t1, t2}
MCScenarios == {Chain, Removals, Endings, SoftExpiry}

PromptSymmetry == Permutations(Prompts)
=============================================================================
