------------------- MODULE ActiveMessageAdmissionProofs -------------------
(***************************************************************************)
(* Proofs about the admission of messages, for any set of messages.  The   *)
(* inductive invariant ties, message by message, the lease to the place of *)
(* the session's thread, the reply to the lease it was sent under, and     *)
(* what the coordinator believes to both.                                  *)
(***************************************************************************)
EXTENDS ActiveMessageAdmission, TLAPS

(* The lease as the session's thread left it.                              *)
HostInv(m) ==
  /\ host[m] \in {"idle", "queued"} =>
       /\ lease[m] \in {"Open", "Revoked"}
       /\ m \notin rows
       /\ reply[m] = "none"
  /\ host[m] = "claimed" =>
       lease[m] = "Claimed" /\ m \notin rows /\ reply[m] = "none"
  /\ host[m] = "inserted" =>
       lease[m] = "Claimed" /\ m \in rows /\ reply[m] = "none"
  /\ host[m] = "committed" =>
       lease[m] = "Committed" /\ m \in rows /\ reply[m] = "none"
  /\ m \in rows => lease[m] \in {"Claimed", "Committed"}
  /\ lease[m] = "Committed" => m \in rows

(* What a reply says of the lease, and that it is the session's last act.  *)
ReplyInv(m) ==
  /\ host[m] = "done" => reply[m] # "none"
  /\ reply[m] = "Admitted" => lease[m] = "Committed"
  /\ reply[m] \in {"Rejected", "Unsupported"} =>
       lease[m] \in {"Open", "Revoked"}
  /\ reply[m] = "ChannelClosed" => lease[m] \in {"Open", "Revoked", "Claimed"}

(* What the coordinator has concluded, and that it is still true.          *)
PollInv(m) ==
  /\ poll[m] # "done" => answer[m] = "none"
  /\ poll[m] \in {"idle", "pending"} => outcome[m] = "none"
  /\ outcome[m] \in Admissions => reply[m] = outcome[m]
  /\ poll[m] = "settling" => outcome[m] \in Admissions
  /\ poll[m] = "exchanging" => outcome[m] \in Refusals /\ lease[m] = "Open"
  /\ poll[m] = "giving up" => outcome[m] \in {"Cancelled", "DeadlineElapsed"}
  /\ poll[m] \in {"polled", "completed"} =>
       /\ outcome[m] # "none"
       /\ outcome[m] = "Admitted" => is_settled[m]
       /\ is_settled[m] =>
            lease[m] = IF outcome[m] = "Admitted" THEN "Committed" ELSE "Revoked"
       /\ ~is_settled[m] => lease[m] \in {"Claimed", "Committed"}
  /\ poll[m] = "dropped" =>
       IF is_settled[m] THEN lease[m] = "Revoked"
       ELSE lease[m] \in {"Claimed", "Committed"}

IInv ==
  /\ TypeOK
  /\ \A m \in Messages : HostInv(m) /\ ReplyInv(m) /\ PollInv(m)

(* Initially every lease is open, and nothing has been sent or polled.     *)
LEMMA InitInv == Init => IInv
BY DEF Init, IInv, TypeOK, HostInv, ReplyInv, PollInv, Admissions, Refusals

(* A step of one message leaves every other message as it was.             *)
Untouched(n) ==
  /\ lease'[n] = lease[n]
  /\ host'[n] = host[n]
  /\ reply'[n] = reply[n]
  /\ n \in rows' <=> n \in rows
  /\ poll'[n] = poll[n]
  /\ outcome'[n] = outcome[n]
  /\ is_settled'[n] <=> is_settled[n]
  /\ answer'[n] = answer[n]

(* A message that a step leaves as it was keeps its part of the invariant. *)
LEMMA UntouchedKeeps ==
  ASSUME NEW n \in Messages, HostInv(n), ReplyInv(n), PollInv(n), Untouched(n)
  PROVE  HostInv(n)' /\ ReplyInv(n)' /\ PollInv(n)'
<1>1. HostInv(n)'
  BY DEF HostInv, Untouched
<1>2. ReplyInv(n)'
  BY DEF ReplyInv, Untouched
<1>3. PollInv(n)'
  BY DEF PollInv, Untouched, Admissions, Refusals
<1> QED BY <1>1, <1>2, <1>3

(* Each action keeps the invariant: typing, the message it is about, and,  *)
(* by the lemma above, all the others.                                     *)
LEMMA StepInv == IInv /\ Next => IInv'
<1> SUFFICES ASSUME IInv, NEW m \in Messages,
                    \/ admit_active_message(m) \/ DropPending(m)
                    \/ Coordinator(m) \/ Host(m)
             PROVE  IInv'
  BY DEF Next
<1> USE DEF Refusals, Admissions, DefiniteRefusals
<1>t. TypeOK /\ HostInv(m) /\ ReplyInv(m) /\ PollInv(m)
  BY DEF IInv
<1> DEFINE Kept == /\ TypeOK'
                   /\ HostInv(m)' /\ ReplyInv(m)' /\ PollInv(m)'
                   /\ \A n \in Messages \ {m} : Untouched(n)
<1> SUFFICES Kept
  <2>1. ASSUME Kept, NEW n \in Messages
        PROVE  HostInv(n)' /\ ReplyInv(n)' /\ PollInv(n)'
    <3>1. CASE n = m
      BY <2>1, <3>1
    <3>2. CASE n # m
      BY <2>1, <3>2, UntouchedKeeps DEF IInv
    <3> QED BY <3>1, <3>2
  <2> QED BY <2>1 DEF IInv
<1>1. CASE admit_active_message(m)
  BY <1>t, <1>1 DEF admit_active_message, TypeOK, HostInv, ReplyInv, PollInv, Untouched
<1>2. CASE DropPending(m)
  BY <1>t, <1>2 DEF DropPending, revoke, TypeOK, HostInv, ReplyInv, PollInv, Untouched
<1>3. CASE SendRefuses(m)
  BY <1>t, <1>3 DEF SendRefuses, TypeOK, HostInv, ReplyInv, PollInv, Untouched
<1>4. CASE SendCommand(m)
  BY <1>t, <1>4 DEF SendCommand, TypeOK, HostInv, ReplyInv, PollInv, Untouched
<1>5. CASE PollReady(m)
  BY <1>t, <1>5 DEF PollReady, TypeOK, HostInv, ReplyInv, PollInv, Untouched
<1>6. CASE PollGivesUp(m)
  <2>1. PICK o \in {"Cancelled", "DeadlineElapsed"} :
          outcome' = [outcome EXCEPT ![m] = o]
    BY <1>6 DEF PollGivesUp
  <2>2. TypeOK' /\ HostInv(m)' /\ ReplyInv(m)'
    BY <1>t, <1>6, <2>1 DEF PollGivesUp, TypeOK, HostInv, ReplyInv
  <2>3. PollInv(m)'
    BY <1>t, <1>6, <2>1 DEF PollGivesUp, TypeOK, PollInv
  <2>4. \A n \in Messages \ {m} : Untouched(n)
    BY <1>t, <1>6, <2>1 DEF PollGivesUp, TypeOK, Untouched
  <2> QED BY <2>2, <2>3, <2>4
<1>7. CASE settle(m)
  BY <1>t, <1>7 DEF settle, TypeOK, HostInv, ReplyInv, PollInv, Untouched
<1>8. CASE settle_exchange(m)
  BY <1>t, <1>8 DEF settle_exchange, TypeOK, HostInv, ReplyInv, PollInv, Untouched
<1>9. CASE PollRevokes(m)
  BY <1>t, <1>9 DEF PollRevokes, revoke, TypeOK, HostInv, ReplyInv, PollInv, Untouched
<1>10. CASE DropPolled(m)
  BY <1>t, <1>10 DEF DropPolled, revoke, TypeOK, HostInv, ReplyInv, PollInv, Untouched
<1>11. CASE AnswerDropped(m)
  BY <1>t, <1>11 DEF AnswerDropped, TypeOK, HostInv, ReplyInv, PollInv, Untouched
<1>12. CASE finish_active_message(m)
  <2>1. PICK known \in BOOLEAN :
          answer' = [answer EXCEPT ![m] =
            IF known
            THEN protocol_outcome_from_completion(outcome[m], is_settled[m])
            ELSE lost_completion_outcome(outcome[m], is_settled[m])]
    BY <1>12 DEF finish_active_message
  <2>2. answer' \in [Messages -> {"none", "Accepted", "AdmissionUncertain"}
                                 \cup DefiniteRefusals]
    BY <1>t, <2>1 DEF TypeOK, protocol_outcome_from_completion, lost_completion_outcome
  <2>3. TypeOK' /\ HostInv(m)' /\ ReplyInv(m)'
    BY <1>t, <1>12, <2>2 DEF finish_active_message, TypeOK, HostInv, ReplyInv
  <2>4. PollInv(m)'
    BY <1>t, <1>12 DEF finish_active_message, TypeOK, PollInv
  <2>5. \A n \in Messages \ {m} : Untouched(n)
    BY <1>t, <1>12, <2>1 DEF finish_active_message, TypeOK, Untouched
  <2> QED BY <2>3, <2>4, <2>5
<1>13. CASE HostRefuses(m)
  <2>1. PICK r \in {"ChannelClosed", "Rejected"} :
          reply' = [reply EXCEPT ![m] = r]
    BY <1>13 DEF HostRefuses
  <2>2. TypeOK' /\ HostInv(m)' /\ ReplyInv(m)'
    BY <1>t, <1>13, <2>1 DEF HostRefuses, TypeOK, HostInv, ReplyInv
  <2>3. PollInv(m)'
    BY <1>t, <1>13, <2>1 DEF HostRefuses, TypeOK, HostInv, PollInv
  <2>4. \A n \in Messages \ {m} : Untouched(n)
    BY <1>t, <1>13, <2>1 DEF HostRefuses, TypeOK, Untouched
  <2> QED BY <2>2, <2>3, <2>4
<1>14. CASE HostClaims(m)
  BY <1>t, <1>14 DEF HostClaims, TypeOK, HostInv, ReplyInv, PollInv, Untouched
<1>15. CASE HostFindsRevoked(m)
  BY <1>t, <1>15 DEF HostFindsRevoked, TypeOK, HostInv, ReplyInv, PollInv, Untouched
<1>16. CASE HostInserts(m)
  BY <1>t, <1>16 DEF HostInserts, TypeOK, HostInv, ReplyInv, PollInv, Untouched
<1>17. CASE HostCommits(m)
  BY <1>t, <1>17 DEF HostCommits, TypeOK, HostInv, ReplyInv, PollInv, Untouched
<1>18. CASE HostReplies(m)
  BY <1>t, <1>18 DEF HostReplies, TypeOK, HostInv, ReplyInv, PollInv, Untouched
<1>19. CASE HostPanics(m)
  BY <1>t, <1>19 DEF HostPanics, TypeOK, HostInv, ReplyInv, PollInv, Untouched
<1> QED
  BY <1>1, <1>2, <1>3, <1>4, <1>5, <1>6, <1>7, <1>8, <1>9, <1>10, <1>11, <1>12,
     <1>13, <1>14, <1>15, <1>16, <1>17, <1>18, <1>19 DEF Coordinator, Host

(* The invariant of the lease protocol holds in every reachable state.     *)
THEOREM Inductive == Spec => []IInv
<1>1. IInv /\ [Next]_vars => IInv'
  <2>1. CASE Next
    BY <2>1, StepInv
  <2>2. CASE UNCHANGED vars
    BY <2>2 DEF vars, IInv, TypeOK, HostInv, ReplyInv, PollInv
  <2> QED BY <2>1, <2>2
<1> QED BY InitInv, <1>1, PTL DEF Spec

(* Every lease, place, reply and answer stays in its type, for any set of  *)
(* messages.                                                               *)
THEOREM TypeOKAlways == Spec => []TypeOK
<1>1. IInv => TypeOK
  BY DEF IInv
<1> QED BY Inductive, <1>1, PTL

(* A completion that carries the session's reply is settled, unless the    *)
(* session's thread died with the lease claimed.                           *)
THEOREM HostReplySettlesAlways == Spec => []HostReplySettles
<1>1. IInv => HostReplySettles
  BY DEF IInv, HostReplySettles, TypeOK, HostInv, ReplyInv, PollInv, Admissions, Refusals
<1> QED BY Inductive, <1>1, PTL

(* The mapping of one message: an untouched message keeps its image.       *)
LEMMA ImageSame ==
  ASSUME NEW n \in Messages, Untouched(n)
  PROVE  Verdict'[n] = Verdict[n] /\ Answer'[n] = Answer[n]
BY DEF Untouched, Verdict, Answer

(* A step that leaves every image but that of m, and the answer of m,      *)
(* alone is a stutter of the contract or the decision about m.             *)
LEMMA DecisionRefines ==
  ASSUME NEW m \in Messages,
         \A n \in Messages : Answer'[n] = Answer[n],
         \A n \in Messages \ {m} : Verdict'[n] = Verdict[n],
         \/ Verdict'[m] = Verdict[m]
         \/ Verdict[m] = "undecided" /\ Verdict'[m] \in {"delivered", "void"}
  PROVE  [Contract!Next]_(Contract!vars)
<1>1. Answer' = Answer
  BY DEF Answer
<1>2. CASE Verdict'[m] = Verdict[m]
  <2>1. Verdict' = Verdict
    BY <1>2 DEF Verdict
  <2> QED BY <1>1, <2>1 DEF Contract!vars
<1>3. CASE Verdict[m] = "undecided" /\ Verdict'[m] \in {"delivered", "void"}
  <2>1. Verdict' = [Verdict EXCEPT ![m] = Verdict'[m]]
    BY DEF Verdict
  <2>2. Contract!Decide(m)
    BY <1>1, <1>3, <2>1 DEF Contract!Decide
  <2> QED BY <2>2 DEF Contract!Next
<1> QED BY <1>2, <1>3

(* A step that changes only the answer of m, to a truthful one, is the     *)
(* contract's answer to m.                                                 *)
LEMMA AnswerRefines ==
  ASSUME NEW m \in Messages,
         \A n \in Messages : Verdict'[n] = Verdict[n],
         \A n \in Messages \ {m} : Answer'[n] = Answer[n],
         Answer[m] = "none",
         Answer'[m] \in Contract!Truthful(Verdict[m])
  PROVE  Contract!Next
<1>1. Verdict' = Verdict
  BY DEF Verdict
<1>2. Answer' = [Answer EXCEPT ![m] = Answer'[m]]
  BY DEF Answer
<1>3. Contract!Tell(m)
  BY <1>1, <1>2 DEF Contract!Tell
<1> QED BY <1>3 DEF Contract!Next


(* Every step of the lease protocol is a step of the contract or a         *)
(* stutter.  Only three actions move a verdict: the insertion of the row   *)
(* and the two revocations; only two tell the sender anything.             *)
LEMMA StepRefines == IInv /\ IInv' /\ Next => [Contract!Next]_(Contract!vars)
<1> SUFFICES ASSUME IInv, IInv', NEW m \in Messages,
                    \/ admit_active_message(m) \/ DropPending(m)
                    \/ Coordinator(m) \/ Host(m)
             PROVE  [Contract!Next]_(Contract!vars)
  BY DEF Next
<1>t. TypeOK /\ HostInv(m) /\ PollInv(m) /\ HostInv(m)'
  BY DEF IInv
<1>1. CASE UNCHANGED answer
  <2>1. \A n \in Messages : Answer'[n] = Answer[n]
    BY <1>1 DEF Answer
  <2>2. \A n \in Messages \ {m} : Verdict'[n] = Verdict[n]
    <3>1. \A n \in Messages \ {m} : lease'[n] = lease[n] /\ (n \in rows' <=> n \in rows)
      BY <1>t, <1>1 DEF TypeOK, Coordinator, Host, admit_active_message, DropPending,
         SendRefuses, SendCommand, PollReady, PollGivesUp, settle, settle_exchange,
         PollRevokes, DropPolled, AnswerDropped, finish_active_message, HostRefuses,
         HostClaims, HostFindsRevoked, HostInserts, HostCommits, HostReplies, HostPanics
    <3> QED BY <3>1 DEF Verdict
  <2>3. \/ Verdict'[m] = Verdict[m]
        \/ Verdict[m] = "undecided" /\ Verdict'[m] \in {"delivered", "void"}
    <3>1. m \in rows => m \in rows'
      BY <1>t DEF Coordinator, Host, admit_active_message, DropPending,
         SendRefuses, SendCommand, PollReady, PollGivesUp, settle, settle_exchange,
         PollRevokes, DropPolled, AnswerDropped, finish_active_message, HostRefuses,
         HostClaims, HostFindsRevoked, HostInserts, HostCommits, HostReplies, HostPanics
    <3>2. lease[m] = "Revoked" => lease'[m] = "Revoked"
      BY <1>t DEF TypeOK, HostInv, Coordinator, Host, admit_active_message, DropPending,
         revoke, SendRefuses, SendCommand, PollReady, PollGivesUp, settle,
         settle_exchange, PollRevokes, DropPolled, AnswerDropped,
         finish_active_message, HostRefuses, HostClaims, HostFindsRevoked,
         HostInserts, HostCommits, HostReplies, HostPanics
    <3> QED BY <1>t, <3>1, <3>2 DEF Verdict, HostInv
  <2> QED BY <2>1, <2>2, <2>3, DecisionRefines
<1>2. CASE AnswerDropped(m) \/ finish_active_message(m)
  <2>1. \A n \in Messages : Verdict'[n] = Verdict[n]
    BY <1>2 DEF AnswerDropped, finish_active_message, Verdict
  <2>2. \A n \in Messages \ {m} : Answer'[n] = Answer[n]
    BY <1>t, <1>2 DEF TypeOK, AnswerDropped, finish_active_message, Answer
  <2>3. Answer[m] = "none"
    BY <1>t, <1>2 DEF AnswerDropped, finish_active_message, PollInv, Answer,
       DefiniteRefusals
  <2>4. CASE AnswerDropped(m)
    <3>1. Answer'[m] = IF is_settled[m] THEN "Refused" ELSE "Uncertain"
      BY <1>t, <2>4 DEF TypeOK, AnswerDropped, Answer, DefiniteRefusals
    <3>2. Answer'[m] \in Contract!Truthful(Verdict[m])
      BY <1>t, <2>4, <3>1 DEF AnswerDropped, HostInv, PollInv, Verdict,
         Contract!Truthful
    <3> QED BY <2>1, <2>2, <2>3, <3>2, AnswerRefines
  <2>5. CASE finish_active_message(m)
    <3>1. PICK known \in BOOLEAN :
            answer' = [answer EXCEPT ![m] =
              IF known
              THEN protocol_outcome_from_completion(outcome[m], is_settled[m])
              ELSE lost_completion_outcome(outcome[m], is_settled[m])]
      BY <2>5 DEF finish_active_message
    <3>2. ASSUME ~is_settled[m]
          PROVE  Answer'[m] \in Contract!Truthful(Verdict[m])
      <4>1. Answer'[m] = "Uncertain"
        BY <1>t, <3>1, <3>2 DEF TypeOK, Answer, protocol_outcome_from_completion,
           lost_completion_outcome, DefiniteRefusals
      <4>2. Verdict[m] # "void"
        BY <1>t, <2>5, <3>2 DEF finish_active_message, PollInv, Verdict
      <4> QED BY <4>1, <4>2 DEF Contract!Truthful
    <3>3. ASSUME is_settled[m], outcome[m] = "Admitted"
          PROVE  Answer'[m] \in Contract!Truthful(Verdict[m])
      <4>1. Answer'[m] \in {"Accepted", "Uncertain"}
        BY <1>t, <3>1, <3>3 DEF TypeOK, Answer, protocol_outcome_from_completion,
           lost_completion_outcome, DefiniteRefusals
      <4>2. Verdict[m] = "delivered"
        BY <1>t, <2>5, <3>3 DEF finish_active_message, HostInv, PollInv, Verdict
      <4> QED BY <4>1, <4>2 DEF Contract!Truthful
    <3>4. ASSUME is_settled[m], outcome[m] # "Admitted"
          PROVE  Answer'[m] \in Contract!Truthful(Verdict[m])
      <4>1. Answer'[m] = "Refused"
        BY <1>t, <3>1, <3>4 DEF TypeOK, Answer, protocol_outcome_from_completion,
           lost_completion_outcome, DefiniteRefusals
      <4>2. Verdict[m] = "void"
        BY <1>t, <2>5, <3>4 DEF finish_active_message, HostInv, PollInv, Verdict
      <4> QED BY <4>1, <4>2 DEF Contract!Truthful
    <3> QED BY <2>1, <2>2, <2>3, <3>2, <3>3, <3>4, AnswerRefines
  <2> QED BY <1>2, <2>4, <2>5
<1> QED
  BY <1>1, <1>2 DEF Coordinator, Host, admit_active_message, DropPending,
     SendRefuses, SendCommand, PollReady, PollGivesUp, settle, settle_exchange,
     PollRevokes, DropPolled, HostRefuses, HostClaims, HostFindsRevoked,
     HostInserts, HostCommits, HostReplies, HostPanics

(* The lease protocol implements the contract with the sender, for any set *)
(* of messages: no interleaving of the session's thread with polls,        *)
(* deadlines, cancellations and shutdown makes an answer untrue.           *)
THEOREM ContractKeptAlways == Spec => ContractKept
<1>1. Init => Contract!Init
  BY DEF Init, Contract!Init, Verdict, Answer, DefiniteRefusals
<1>2. IInv /\ IInv' /\ [Next]_vars => [Contract!Next]_(Contract!vars)
  <2>1. CASE UNCHANGED vars
    BY <2>1 DEF vars, Contract!vars, Verdict, Answer
  <2> QED BY <2>1, StepRefines
<1> QED BY Inductive, <1>1, <1>2, PTL DEF Spec, ContractKept, Contract!Spec
=============================================================================
