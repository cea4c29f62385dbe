---------------------- MODULE ActiveMessageAdmission ----------------------
(***************************************************************************)
(* The admission of messages to running children: one lease per message,   *)
(* an atomic cell shared by the coordinator, which polls an                *)
(* ActiveMessageFuture, and by the child's session, which inserts the row  *)
(* on its own thread.  The session claims the lease, inserts, commits and  *)
(* replies; the coordinator may give up at any time (cancellation,         *)
(* deadline, its own shutdown) and revokes the lease if it is still open.  *)
(* Every load, store and compare-exchange of the cell is a step.           *)
(*                                                                         *)
(* Which check of the session refuses a message (receipt channel, identity,*)
(* steer slots) is left open: a refusal may happen whenever the code could *)
(* make it.                                                                *)
(***************************************************************************)
CONSTANT Messages      \* the messages that callers may send

VARIABLES
  lease,       \* ActiveMessageAdmissionLease::state of each message
  host,        \* where the child's session is with the delivery
  reply,       \* what the session has sent on the response channel
  rows,        \* the messages whose row is in the child's session
  poll,        \* where the coordinator is with the ActiveMessageFuture
  outcome,     \* ActiveMessageCompletion::outcome
  is_settled,  \* ActiveMessageCompletion::is_settled
  answer       \* what the sender has received

vars == <<lease, host, reply, rows, poll, outcome, is_settled, answer>>

(* The refusals among the values of ActiveMessageAdmission.                *)
Refusals == {"Unsupported", "ChannelClosed", "Rejected"}
Admissions == {"Admitted"} \cup Refusals

(* The protocol outcomes that tell the sender that nothing was delivered.  *)
DefiniteRefusals == {"Unsupported", "ChannelClosed", "NotActiveOrFinalizing",
                     "NotAcceptedBeforeDeadline"}

TypeOK ==
  /\ lease \in [Messages -> {"Open", "Claimed", "Committed", "Revoked"}]
  /\ host \in [Messages -> {"idle", "queued", "claimed", "inserted",
                            "committed", "done"}]
  /\ reply \in [Messages -> {"none"} \cup Admissions]
  /\ rows \subseteq Messages
  /\ poll \in [Messages -> {"idle", "pending", "settling", "exchanging",
                            "giving up", "polled", "completed", "dropped",
                            "done"}]
  /\ outcome \in [Messages -> {"none", "Cancelled", "DeadlineElapsed"}
                              \cup Admissions]
  /\ is_settled \in [Messages -> BOOLEAN]
  /\ answer \in [Messages -> {"none", "Accepted", "AdmissionUncertain"}
                             \cup DefiniteRefusals]

Init ==
  /\ lease = [m \in Messages |-> "Open"]
  /\ host = [m \in Messages |-> "idle"]
  /\ reply = [m \in Messages |-> "none"]
  /\ rows = {}
  /\ poll = [m \in Messages |-> "idle"]
  /\ outcome = [m \in Messages |-> "none"]
  /\ is_settled = [m \in Messages |-> FALSE]
  /\ answer = [m \in Messages |-> "none"]

-----------------------------------------------------------------------------
(* The coordinator admits the message: an open lease and a future.         *)
admit_active_message(m) ==
  /\ poll[m] = "idle"
  /\ poll' = [poll EXCEPT ![m] = "pending"]
  /\ UNCHANGED <<lease, host, reply, rows, outcome, is_settled, answer>>

(* The first poll runs MessageDeliveryHandle::send up to its await: it     *)
(* refuses the envelope, finds the session's channel closed, or hands the  *)
(* delivery to the session.                                                *)
SendRefuses(m) ==
  /\ poll[m] = "pending"
  /\ host[m] = "idle"
  /\ host' = [host EXCEPT ![m] = "done"]
  /\ \E r \in Refusals : reply' = [reply EXCEPT ![m] = r]
  /\ UNCHANGED <<lease, rows, poll, outcome, is_settled, answer>>

SendCommand(m) ==
  /\ poll[m] = "pending"
  /\ host[m] = "idle"
  /\ host' = [host EXCEPT ![m] = "queued"]
  /\ UNCHANGED <<lease, reply, rows, poll, outcome, is_settled, answer>>

(* A poll that finds the reply goes on to settle the lease.                *)
PollReady(m) ==
  /\ poll[m] = "pending"
  /\ reply[m] # "none"
  /\ outcome' = [outcome EXCEPT ![m] = reply[m]]
  /\ poll' = [poll EXCEPT ![m] = "settling"]
  /\ UNCHANGED <<lease, host, reply, rows, is_settled, answer>>

(* Faulty variant: waits for the session once it has claimed the lease. *)
PollGivesUp_OnlyOpen(m) ==
  /\ poll[m] = "pending"
  /\ host[m] # "idle"
  /\ reply[m] = "none"
  /\ lease[m] = "Open"
  /\ outcome' = [outcome EXCEPT ![m] = "DeadlineElapsed"]
  /\ poll' = [poll EXCEPT ![m] = "giving up"]
  /\ UNCHANGED <<lease, host, reply, rows, is_settled, answer>>

(* A poll that finds no reply but the child's cancellation, or the         *)
(* admission deadline, gives up.  The reply may still arrive before the    *)
(* revocation.                                                             *)
PollGivesUp(m) ==
  /\ poll[m] = "pending"
  /\ host[m] # "idle"
  /\ reply[m] = "none"
  /\ \E o \in {"Cancelled", "DeadlineElapsed"} :
       outcome' = [outcome EXCEPT ![m] = o]
  /\ poll' = [poll EXCEPT ![m] = "giving up"]
  /\ UNCHANGED <<lease, host, reply, rows, is_settled, answer>>

(* settle: the load decides, except for a refusal that finds the lease     *)
(* open, which goes on to a compare-exchange.                              *)
settle(m) ==
  /\ poll[m] = "settling"
  /\ IF outcome[m] \in Refusals /\ lease[m] = "Open"
     THEN /\ poll' = [poll EXCEPT ![m] = "exchanging"]
          /\ UNCHANGED is_settled
     ELSE /\ poll' = [poll EXCEPT ![m] = "polled"]
          /\ is_settled' = [is_settled EXCEPT ![m] =
                              IF outcome[m] = "Admitted"
                              THEN lease[m] = "Committed"
                              ELSE lease[m] = "Revoked"]
  /\ UNCHANGED <<lease, host, reply, rows, outcome, answer>>

settle_exchange(m) ==
  /\ poll[m] = "exchanging"
  /\ lease' = [lease EXCEPT ![m] = IF @ = "Open" THEN "Revoked" ELSE @]
  /\ is_settled' = [is_settled EXCEPT ![m] = lease[m] = "Open"]
  /\ poll' = [poll EXCEPT ![m] = "polled"]
  /\ UNCHANGED <<host, reply, rows, outcome, answer>>

(* Faulty variant: revokes with a plain store. *)
revoke_Stores(state) == [state |-> "Revoked", is_ok |-> TRUE]

(* What a revocation leaves in the lease and returns: one compare-exchange.*)
revoke(state) ==
  IF state = "Open" THEN [state |-> "Revoked", is_ok |-> TRUE]
  ELSE [state |-> state, is_ok |-> state = "Revoked"]

(* The last act of a poll that gave up.                                    *)
PollRevokes(m) ==
  /\ poll[m] = "giving up"
  /\ LET r == revoke(lease[m]) IN
       /\ lease' = [lease EXCEPT ![m] = r.state]
       /\ is_settled' = [is_settled EXCEPT ![m] = r.is_ok]
  /\ poll' = [poll EXCEPT ![m] = "polled"]
  /\ UNCHANGED <<host, reply, rows, outcome, answer>>

(* The finished future is dropped, which revokes once more, before its     *)
(* completion reaches the actor.                                           *)
DropPolled(m) ==
  /\ poll[m] = "polled"
  /\ lease' = [lease EXCEPT ![m] = revoke(lease[m]).state]
  /\ poll' = [poll EXCEPT ![m] = "completed"]
  /\ UNCHANGED <<host, reply, rows, outcome, is_settled, answer>>

(* The actor goes away between polls: the pending future is dropped.       *)
DropPending(m) ==
  /\ poll[m] = "pending"
  /\ LET r == revoke(lease[m]) IN
       /\ lease' = [lease EXCEPT ![m] = r.state]
       /\ is_settled' = [is_settled EXCEPT ![m] = r.is_ok]
  /\ poll' = [poll EXCEPT ![m] = "dropped"]
  /\ UNCHANGED <<host, reply, rows, outcome, answer>>

AnswerDropped(m) ==
  /\ poll[m] = "dropped"
  /\ answer' = [answer EXCEPT ![m] = IF is_settled[m] THEN "ChannelClosed"
                                     ELSE "AdmissionUncertain"]
  /\ poll' = [poll EXCEPT ![m] = "done"]
  /\ UNCHANGED <<lease, host, reply, rows, outcome, is_settled>>

(* Faulty variant: passes the session's refusal through unclassified. *)
protocol_outcome_from_completion_Raw(o, settled) ==
  IF ~settled THEN "AdmissionUncertain"
  ELSE IF o = "Admitted" THEN "Accepted" ELSE o

protocol_outcome_from_completion(o, settled) ==
  IF ~settled THEN "AdmissionUncertain"
  ELSE IF o = "Admitted" THEN "Accepted"
  ELSE IF o = "Rejected" THEN "NotActiveOrFinalizing"
  ELSE IF o \in {"Unsupported", "ChannelClosed"} THEN o
  ELSE "NotAcceptedBeforeDeadline"

lost_completion_outcome(o, settled) ==
  IF o = "Admitted" THEN "AdmissionUncertain"
  ELSE protocol_outcome_from_completion(o, settled)

(* The actor takes the completion; known is whether the child is still     *)
(* active in the generation the message was admitted to.                   *)
finish_active_message(m) ==
  /\ poll[m] = "completed"
  /\ \E known \in BOOLEAN :
       answer' = [answer EXCEPT ![m] =
         IF known
         THEN protocol_outcome_from_completion(outcome[m], is_settled[m])
         ELSE lost_completion_outcome(outcome[m], is_settled[m])]
  /\ poll' = [poll EXCEPT ![m] = "done"]
  /\ UNCHANGED <<lease, host, reply, rows, outcome, is_settled>>

-----------------------------------------------------------------------------
(* The child's session.  Before the claim it may refuse (closed receipt    *)
(* channel, identity already there, no steer slot) or go away, which drops *)
(* the response channel and reads as ChannelClosed.                        *)
HostRefuses(m) ==
  /\ host[m] = "queued"
  /\ host' = [host EXCEPT ![m] = "done"]
  /\ \E r \in {"ChannelClosed", "Rejected"} :
       reply' = [reply EXCEPT ![m] = r]
  /\ UNCHANGED <<lease, rows, poll, outcome, is_settled, answer>>

(* commit_admission: claim the lease, and insert only if that succeeded.   *)
HostClaims(m) ==
  /\ host[m] = "queued"
  /\ lease[m] = "Open"
  /\ lease' = [lease EXCEPT ![m] = "Claimed"]
  /\ host' = [host EXCEPT ![m] = "claimed"]
  /\ UNCHANGED <<reply, rows, poll, outcome, is_settled, answer>>

HostFindsRevoked(m) ==
  /\ host[m] = "queued"
  /\ lease[m] # "Open"
  /\ host' = [host EXCEPT ![m] = "done"]
  /\ reply' = [reply EXCEPT ![m] = "Rejected"]
  /\ UNCHANGED <<lease, rows, poll, outcome, is_settled, answer>>

HostInserts(m) ==
  /\ host[m] = "claimed"
  /\ rows' = rows \cup {m}
  /\ host' = [host EXCEPT ![m] = "inserted"]
  /\ UNCHANGED <<lease, reply, poll, outcome, is_settled, answer>>

HostCommits(m) ==
  /\ host[m] = "inserted"
  /\ lease' = [lease EXCEPT ![m] = "Committed"]
  /\ host' = [host EXCEPT ![m] = "committed"]
  /\ UNCHANGED <<reply, rows, poll, outcome, is_settled, answer>>

(* Faulty variant: replies before the lease is committed. *)
HostReplies_Early(m) ==
  /\ host[m] = "inserted"
  /\ reply' = [reply EXCEPT ![m] = "Admitted"]
  /\ host' = [host EXCEPT ![m] = "done"]
  /\ UNCHANGED <<lease, rows, poll, outcome, is_settled, answer>>

HostReplies(m) ==
  /\ host[m] = "committed"
  /\ reply' = [reply EXCEPT ![m] = "Admitted"]
  /\ host' = [host EXCEPT ![m] = "done"]
  /\ UNCHANGED <<lease, rows, poll, outcome, is_settled, answer>>

(* A panic of the insertion unwinds the session's thread: the lease stays  *)
(* claimed and the response channel closes.                                *)
HostPanics(m) ==
  /\ host[m] \in {"claimed", "inserted"}
  /\ host' = [host EXCEPT ![m] = "done"]
  /\ reply' = [reply EXCEPT ![m] = "ChannelClosed"]
  /\ UNCHANGED <<lease, rows, poll, outcome, is_settled, answer>>

-----------------------------------------------------------------------------
Coordinator(m) ==
  \/ SendRefuses(m) \/ SendCommand(m)
  \/ PollReady(m) \/ PollGivesUp(m)
  \/ settle(m) \/ settle_exchange(m) \/ PollRevokes(m) \/ DropPolled(m)
  \/ AnswerDropped(m) \/ finish_active_message(m)

Host(m) ==
  \/ HostRefuses(m) \/ HostClaims(m) \/ HostFindsRevoked(m) \/ HostInserts(m)
  \/ HostCommits(m) \/ HostReplies(m) \/ HostPanics(m)

Next ==
  \E m \in Messages :
    admit_active_message(m) \/ DropPending(m) \/ Coordinator(m) \/ Host(m)

Spec == Init /\ [][Next]_vars

(* The coordinator's executor keeps polling a future that is ready, and    *)
(* the deadline makes every future ready.  Nothing is assumed of the       *)
(* child's session.                                                        *)
FairSpec == Spec /\ \A m \in Messages : WF_vars(Coordinator(m))

-----------------------------------------------------------------------------
(* The contract with the sender.  The verdict is read off the row and the  *)
(* lease; the refusals are one answer.                                     *)
Verdict ==
  [m \in Messages |-> IF m \in rows THEN "delivered"
                      ELSE IF lease[m] = "Revoked" THEN "void"
                      ELSE "undecided"]

Answer ==
  [m \in Messages |-> IF answer[m] = "AdmissionUncertain" THEN "Uncertain"
                      ELSE IF answer[m] \in DefiniteRefusals THEN "Refused"
                      ELSE answer[m]]

Contract == INSTANCE AdmissionContract WITH verdict <- Verdict, answer <- Answer

(* The lease protocol keeps the contract: a row and a definite refusal     *)
(* exclude each other for good, an acceptance follows its row, and an      *)
(* uncertain answer is given only for a message that was claimed.          *)
ContractKept == Contract!Spec

(* The host's word settles: unless its thread died, a completion that      *)
(* carries the host's reply is settled, so a child that finishes is not    *)
(* marked unclean by admissions its session answered (finish_admission).   *)
HostReplySettles ==
  \A m \in Messages :
    /\ poll[m] \in {"polled", "completed"}
    /\ outcome[m] \in Admissions
    => is_settled[m] \/ (outcome[m] = "ChannelClosed" /\ lease[m] = "Claimed")

(* Every sender gets an outcome, even if the child's session never runs    *)
(* again: the deadline and the revocation do not wait for it.              *)
EverySenderAnswered ==
  \A m \in Messages : poll[m] = "pending" ~> answer[m] # "none"
=============================================================================
