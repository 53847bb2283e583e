----------------------------- MODULE DeliveryOutbox -----------------------------
(***************************************************************************)
(* The integration outbox of v3/backend/app/exposure_management.py: rows   *)
(* of exposure_delivery_events that the runners' main loop delivers to a   *)
(* webhook, one claim, one HTTP request and one settling write at a time.  *)
(*                                                                         *)
(* next_attempt_at is abstracted to whether it has passed.  The claim puts *)
(* it 5 minutes ahead, so a sender stalled for longer (a hanging name      *)
(* lookup, a suspended process) loses the row to another runner and still  *)
(* settles it when it wakes up: a stall.                                   *)
(*                                                                         *)
(* create_exposure_integration, the only writer of integrations, refuses   *)
(* an outbound one without endpoint or secret and nothing deactivates one: *)
(* the branch for missing credentials is unreachable and left out.         *)
(***************************************************************************)
EXTENDS Naturals, FiniteSets

CONSTANTS
  Count,         \* number of delivery events, numbered by created_at; their
                 \* transactions may commit in any order
  Runners,       \* runner processes
  MaxAttempts,   \* the attempt whose failure is terminal, 5 in the code
  MaxCrashes,    \* bound on runner crashes
  MaxStalls      \* bound on claims that outlive their 5 minutes

Event == 1 .. Count

ASSUME OutboxAssumption ==
  /\ Count \in Nat
  /\ MaxAttempts \in Nat \ {0}
  /\ MaxCrashes \in Nat
  /\ MaxStalls \in Nat

VARIABLES
  status,    \* exposure_delivery_events.status, "none" before the insert
  attempts,  \* exposure_delivery_events.attempts
  due,       \* next_attempt_at <= now()
  pc,        \* where a runner stands in deliver_one_pending_integration
  held,      \* the row a runner claimed, 0 for none
  attempt,   \* its local attempt number
  accepted,  \* events the endpoint has taken at least once
  crashes,
  stalls

outbox == <<status, attempts, due>>
sender == <<pc, held, attempt>>
vars == <<outbox, sender, accepted, crashes, stalls>>

TypeOK ==
  /\ status \in [Event -> {"none", "pending", "delivered", "abandoned"}]
  /\ attempts \in [Event -> Nat]
  /\ due \in [Event -> BOOLEAN]
  /\ pc \in [Runners -> {"idle", "sending", "sent", "failed"}]
  /\ held \in [Runners -> Event \cup {0}]
  /\ attempt \in [Runners -> Nat]
  /\ accepted \subseteq Event
  /\ crashes \in 0 .. MaxCrashes
  /\ stalls \in 0 .. MaxStalls
  /\ \A r \in Runners : pc[r] # "idle" => held[r] \in Event

Init ==
  /\ status = [e \in Event |-> "none"]
  /\ attempts = [e \in Event |-> 0]
  /\ due = [e \in Event |-> FALSE]
  /\ pc = [r \in Runners |-> "idle"]
  /\ held = [r \in Runners |-> 0]
  /\ attempt = [r \in Runners |-> 0]
  /\ accepted = {}
  /\ crashes = 0
  /\ stalls = 0

--------------------------------------------------------------------------------
\* A row for an active webhook; a second insert meets the idempotency key and
\* does nothing.
enqueue_integration_deliveries(e) ==
  /\ status[e] = "none"
  /\ status' = [status EXCEPT ![e] = "pending"]
  /\ due' = [due EXCEPT ![e] = TRUE]
  /\ UNCHANGED <<attempts, sender, accepted, crashes, stalls>>

InFlight(e) == \E r \in Runners : pc[r] # "idle" /\ held[r] = e

\* next_attempt_at passes, possibly under a stalled sender.
BecomesDue(e) ==
  /\ status[e] = "pending"
  /\ ~due[e]
  /\ \/ ~InFlight(e) /\ stalls' = stalls
     \/ InFlight(e) /\ stalls < MaxStalls /\ stalls' = stalls + 1
  /\ due' = [due EXCEPT ![e] = TRUE]
  /\ UNCHANGED <<status, attempts, sender, accepted, crashes>>

\* Mutation: a row that was claimed before is never selected again.
FirstAttemptOnly(e) ==
  /\ status[e] = "pending" /\ due[e] /\ attempts[e] = 0
  /\ \A d \in Event : status[d] = "pending" /\ due[d] /\ attempts[d] = 0 => e <= d

\* The row the SELECT returns: due, pending, oldest first.
Selected(e) ==
  /\ status[e] = "pending" /\ due[e]
  /\ \A d \in Event : status[d] = "pending" /\ due[d] => e <= d

\* Mutation: next_attempt_at is not moved ahead by the claim.
ClaimWithoutLease(r, e) ==
  /\ pc[r] = "idle"
  /\ Selected(e)
  /\ attempts' = [attempts EXCEPT ![e] = @ + 1]
  /\ pc' = [pc EXCEPT ![r] = "sending"]
  /\ held' = [held EXCEPT ![r] = e]
  /\ attempt' = [attempt EXCEPT ![r] = attempts[e] + 1]
  /\ UNCHANGED <<status, due, accepted, crashes, stalls>>

Claim(r, e) ==
  /\ pc[r] = "idle"
  /\ Selected(e)
  /\ attempts' = [attempts EXCEPT ![e] = @ + 1]
  /\ due' = [due EXCEPT ![e] = FALSE]
  /\ pc' = [pc EXCEPT ![r] = "sending"]
  /\ held' = [held EXCEPT ![r] = e]
  /\ attempt' = [attempt EXCEPT ![r] = attempts[e] + 1]
  /\ UNCHANGED <<status, accepted, crashes, stalls>>

\* Mutation: a request that raised is taken for one that went through.
SendIgnoringErrors(r) ==
  /\ pc[r] = "sending"
  /\ pc' = [pc EXCEPT ![r] = "sent"]
  /\ accepted' \in {accepted, accepted \cup {held[r]}}
  /\ UNCHANGED <<outbox, held, attempt, crashes, stalls>>

\* The request: a 2xx answer, or an exception, raised before or after the
\* endpoint took the event (the answer can be lost).
send_integration_delivery(r) ==
  /\ pc[r] = "sending"
  /\ \/ /\ pc' = [pc EXCEPT ![r] = "sent"]
        /\ accepted' = accepted \cup {held[r]}
     \/ /\ pc' = [pc EXCEPT ![r] = "failed"]
        /\ accepted' \in {accepted, accepted \cup {held[r]}}
  /\ UNCHANGED <<outbox, held, attempt, crashes, stalls>>

\* Mutation: the sender loses its row and goes on.
ReleaseRow(r) ==
  /\ held' = [held EXCEPT ![r] = 0]
  /\ UNCHANGED <<pc, attempt>>

\* The call returns.
Release(r) ==
  /\ pc' = [pc EXCEPT ![r] = "idle"]
  /\ held' = [held EXCEPT ![r] = 0]
  /\ attempt' = [attempt EXCEPT ![r] = 0]

\* The settling UPDATEs name only the row's id.
MarkDelivered(r) ==
  /\ pc[r] = "sent"
  /\ status' = [status EXCEPT ![held[r]] = "delivered"]
  /\ Release(r)
  /\ UNCHANGED <<attempts, due, accepted, crashes, stalls>>

\* Mutation: off by one.
GiveUpEarly(n) == n + 1 >= MaxAttempts

GiveUp(n) == n >= MaxAttempts

MarkFailed(r) ==
  /\ pc[r] = "failed"
  /\ status' = [status EXCEPT ![held[r]] =
                  IF GiveUp(attempt[r]) THEN "abandoned" ELSE "pending"]
  /\ due' = [due EXCEPT ![held[r]] = FALSE]
  /\ Release(r)
  /\ UNCHANGED <<attempts, accepted, crashes, stalls>>

\* A runner dies between the claim and the settling write and is restarted.
Crash(r) ==
  /\ pc[r] # "idle"
  /\ crashes < MaxCrashes
  /\ crashes' = crashes + 1
  /\ Release(r)
  /\ UNCHANGED <<outbox, accepted, stalls>>

--------------------------------------------------------------------------------
Deliver(r) ==
  \/ \E e \in Event : Claim(r, e)
  \/ send_integration_delivery(r)
  \/ MarkDelivered(r)
  \/ MarkFailed(r)

Next ==
  \/ \E e \in Event : enqueue_integration_deliveries(e) \/ BecomesDue(e)
  \/ \E r \in Runners : Deliver(r) \/ Crash(r)

Spec == Init /\ [][Next]_vars

\* The main loop calls deliver_one_pending_integration on every round, the
\* request has a timeout, and time passes.
Fairness ==
  /\ \A r \in Runners : WF_vars(Deliver(r))
  /\ \A e \in Event : WF_vars(BecomesDue(e))

FairSpec == Spec /\ Fairness
--------------------------------------------------------------------------------
\* A row says delivered only if the endpoint took the event, whichever sender,
\* stalled or not, wrote it (deliver_one_pending_integration).
DeliveredWasAccepted ==
  \A e \in Event : status[e] = "delivered" => e \in accepted

\* An event is given up on only after MaxAttempts claims: a stalled sender's late
\* failure, which carries its own attempt number, never abandons it early.
GivenUpOnlyAfterRetries ==
  \A e \in Event : status[e] = "abandoned" => attempts[e] >= MaxAttempts

\* The retries are bounded: every claim beyond MaxAttempts is paid for by a
\* crash after a claim or by a stalled sender, which may also revive an
\* abandoned row with its late failure.
RetriesBounded ==
  \A e \in Event : attempts[e] <= MaxAttempts + crashes + stalls

\* The outbox drains: every event is in the end delivered or abandoned for
\* good, however attempts fail, runners crash and late senders overwrite.
EveryEventSettles ==
  \A e \in Event : <>[](status[e] # "pending")
================================================================================
