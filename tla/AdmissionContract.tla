------------------------- MODULE AdmissionContract -------------------------
(***************************************************************************)
(* What the sender of a message to a running child is promised, whatever   *)
(* threads, deadlines and failures lie between it and the child's session. *)
(* Each message has one verdict, reached at most once: its row is inserted *)
(* into the child's session (delivered) or can never be (void).  The       *)
(* sender is answered at most once; "Accepted" only after the row is       *)
(* there, "Refused" only once it can never be, and "Uncertain" never for a *)
(* message that is void.                                                   *)
(***************************************************************************)
CONSTANT Messages

VARIABLES
  verdict,   \* what has become of each message's row
  answer     \* what each sender has been told

vars == <<verdict, answer>>

TypeOK ==
  /\ verdict \in [Messages -> {"undecided", "delivered", "void"}]
  /\ answer \in [Messages -> {"none", "Accepted", "Refused", "Uncertain"}]

Init ==
  /\ verdict = [m \in Messages |-> "undecided"]
  /\ answer = [m \in Messages |-> "none"]

Decide(m) ==
  /\ verdict[m] = "undecided"
  /\ \E v \in {"delivered", "void"} : verdict' = [verdict EXCEPT ![m] = v]
  /\ UNCHANGED answer

(* The answers that are true of a message with verdict v.                  *)
Truthful(v) ==
  {a \in {"Accepted", "Refused", "Uncertain"} :
     /\ a = "Accepted" => v = "delivered"
     /\ a = "Refused" <=> v = "void"}

Tell(m) ==
  /\ answer[m] = "none"
  /\ \E a \in Truthful(verdict[m]) : answer' = [answer EXCEPT ![m] = a]
  /\ UNCHANGED verdict

Next == \E m \in Messages : Decide(m) \/ Tell(m)

Spec == Init /\ [][Next]_vars
=============================================================================
