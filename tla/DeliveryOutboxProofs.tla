-------------------------- MODULE DeliveryOutboxProofs --------------------------
(***************************************************************************)
(* Theorems about DeliveryOutbox, for every number of events, runners,     *)
(* attempts, crashes and stalls.  The settling writes are keyed by the     *)
(* row's id alone, so what makes them safe is what each sender carries: an *)
(* answer the endpoint gave, and an attempt number no greater than the     *)
(* row's.                                                                  *)
(***************************************************************************)
EXTENDS DeliveryOutbox, FiniteSetTheorems, TLAPS

\* A sender about to write "delivered" got its answer for that row.
SentWasAccepted ==
  \A r \in Runners : pc[r] = "sent" => held[r] \in accepted

\* A stalled sender's attempt number lags behind its row's, never ahead.
AttemptsCounted ==
  \A r \in Runners : pc[r] # "idle" => attempt[r] <= attempts[held[r]]

IInv ==
  /\ TypeOK
  /\ SentWasAccepted
  /\ AttemptsCounted
  /\ DeliveredWasAccepted
  /\ GivenUpOnlyAfterRetries

LEMMA Initially == Init => IInv
  BY OutboxAssumption
  DEF Init, IInv, TypeOK, SentWasAccepted, AttemptsCounted,
      DeliveredWasAccepted, GivenUpOnlyAfterRetries, Event

LEMMA Inductive == IInv /\ [Next]_vars => IInv'
<1> SUFFICES ASSUME IInv, [Next]_vars PROVE IInv'
  OBVIOUS
<1> USE OutboxAssumption
<1>e. Event \subseteq Nat \ {0}
  BY DEF Event
<1>1. CASE UNCHANGED vars
  BY <1>1 DEF IInv, TypeOK, SentWasAccepted, AttemptsCounted,
              DeliveredWasAccepted, GivenUpOnlyAfterRetries, vars, outbox, sender
<1>2. ASSUME NEW e \in Event, enqueue_integration_deliveries(e) PROVE IInv'
  BY <1>2 DEF enqueue_integration_deliveries, IInv, TypeOK, SentWasAccepted,
              AttemptsCounted, DeliveredWasAccepted, GivenUpOnlyAfterRetries,
              sender
<1>3. ASSUME NEW e \in Event, BecomesDue(e) PROVE IInv'
  <2>1. stalls' \in 0 .. MaxStalls
    BY <1>3 DEF BecomesDue, IInv, TypeOK
  <2> QED
    BY <1>3, <2>1 DEF BecomesDue, IInv, TypeOK, SentWasAccepted,
                      AttemptsCounted, DeliveredWasAccepted,
                      GivenUpOnlyAfterRetries, sender
<1>4. ASSUME NEW r \in Runners, NEW e \in Event, Claim(r, e) PROVE IInv'
  <2> USE <1>4 DEF Claim
  <2>1. TypeOK'
    BY DEF IInv, TypeOK
  <2>2. SentWasAccepted'
    BY DEF IInv, TypeOK, SentWasAccepted
  <2>3. AttemptsCounted'
    <3> SUFFICES ASSUME NEW q \in Runners, pc'[q] # "idle"
                 PROVE  attempt'[q] <= attempts'[held'[q]]
      BY DEF AttemptsCounted
    <3>1. CASE q = r
      BY <3>1 DEF IInv, TypeOK
    <3>2. CASE q # r
      <4>1. /\ attempt'[q] = attempt[q] /\ held'[q] = held[q]
            /\ pc[q] # "idle" /\ held[q] \in Event
        BY <3>2 DEF IInv, TypeOK
      <4>2. attempt[q] <= attempts[held[q]]
        BY <4>1 DEF IInv, AttemptsCounted
      <4>3. /\ attempt[q] \in Nat /\ attempts[held[q]] \in Nat
            /\ attempts'[held[q]] \in {attempts[held[q]], attempts[held[q]] + 1}
        BY <4>1 DEF IInv, TypeOK
      <4> QED BY <4>1, <4>2, <4>3
    <3> QED BY <3>1, <3>2
  <2>4. DeliveredWasAccepted'
    BY DEF IInv, DeliveredWasAccepted
  <2>5. GivenUpOnlyAfterRetries'
    BY DEF IInv, TypeOK, GivenUpOnlyAfterRetries
  <2> QED BY <2>1, <2>2, <2>3, <2>4, <2>5 DEF IInv
<1>5. ASSUME NEW r \in Runners, send_integration_delivery(r) PROVE IInv'
  <2>1. /\ held[r] \in Event
        /\ accepted \subseteq accepted'
        /\ accepted' \subseteq Event
    BY <1>5 DEF send_integration_delivery, IInv, TypeOK
  <2>2. pc'[r] = "sent" => held[r] \in accepted'
    BY <1>5 DEF send_integration_delivery, IInv, TypeOK
  <2>3. /\ pc' \in [Runners -> {"idle", "sending", "sent", "failed"}]
        /\ \A q \in Runners : q # r => pc'[q] = pc[q]
        /\ pc[r] # "idle"
        /\ UNCHANGED <<outbox, held, attempt, crashes, stalls>>
    BY <1>5 DEF send_integration_delivery, IInv, TypeOK
  <2> QED
    BY <2>1, <2>2, <2>3 DEF IInv, TypeOK, SentWasAccepted, AttemptsCounted,
                            DeliveredWasAccepted, GivenUpOnlyAfterRetries, outbox
<1>6. ASSUME NEW r \in Runners, MarkDelivered(r) PROVE IInv'
  <2>1. held[r] \in Event /\ held[r] \in accepted
    BY <1>6 DEF MarkDelivered, IInv, TypeOK, SentWasAccepted
  <2> QED
    BY <1>6, <2>1 DEF MarkDelivered, Release, IInv, TypeOK, SentWasAccepted,
                      AttemptsCounted, DeliveredWasAccepted,
                      GivenUpOnlyAfterRetries
<1>7. ASSUME NEW r \in Runners, MarkFailed(r) PROVE IInv'
  <2> USE <1>7 DEF MarkFailed, Release
  <2>1. held[r] \in Event
    BY DEF IInv, TypeOK
  <2>2. GiveUp(attempt[r]) => attempts[held[r]] >= MaxAttempts
    BY <2>1 DEF GiveUp, IInv, TypeOK, AttemptsCounted
  <2>3. (TypeOK /\ SentWasAccepted /\ AttemptsCounted)'
    BY <2>1 DEF IInv, TypeOK, SentWasAccepted, AttemptsCounted
  <2>4. (DeliveredWasAccepted /\ GivenUpOnlyAfterRetries)'
    BY <2>1, <2>2 DEF IInv, TypeOK, DeliveredWasAccepted, GivenUpOnlyAfterRetries
  <2> QED BY <2>3, <2>4 DEF IInv
<1>8. ASSUME NEW r \in Runners, Crash(r) PROVE IInv'
  BY <1>8 DEF Crash, Release, IInv, TypeOK, SentWasAccepted, AttemptsCounted,
              DeliveredWasAccepted, GivenUpOnlyAfterRetries, outbox
<1> QED
  BY <1>1, <1>2, <1>3, <1>4, <1>5, <1>6, <1>7, <1>8 DEF Next, Deliver

\* The strengthened invariant of DeliveryOutbox.
THEOREM Invariance == Spec => []IInv
  BY Initially, Inductive, PTL DEF Spec

\* Every variable keeps its type.
THEOREM TypeCorrect == Spec => []TypeOK
<1>1. IInv => TypeOK
  BY DEF IInv
<1> QED BY <1>1, Invariance, PTL

\* A delivered event reached its endpoint, whichever sender recorded it.
THEOREM Delivered == Spec => []DeliveredWasAccepted
<1>1. IInv => DeliveredWasAccepted
  BY DEF IInv
<1> QED BY <1>1, Invariance, PTL

\* No late failure abandons an event before its last attempt.
THEOREM GivenUp == Spec => []GivenUpOnlyAfterRetries
<1>1. IInv => GivenUpOnlyAfterRetries
  BY DEF IInv
<1> QED BY <1>1, Invariance, PTL
--------------------------------------------------------------------------------
(***************************************************************************)
(* The bound on the retries.  A row goes past MaxAttempts claims only if   *)
(* somebody paid for it: the claim that should have been the last crashed, *)
(* or was overtaken while it stalled, or a sender overtaken earlier, whose *)
(* own number is below MaxAttempts, failed late and revived the row.  The  *)
(* invariant keeps the account of every row: the stalls of the overtaken   *)
(* senders that may still revive it, and the claim already paid for.       *)
(***************************************************************************)

\* Runner r is delivering e and claimed it as attempt n.
Sends(r, e, n) == pc[r] # "idle" /\ held[r] = e /\ attempt[r] = n

\* No two senders of a row carry the same attempt number, and a row that was
\* never inserted was never claimed.
OwnAttempt ==
  /\ \A r \in Runners : pc[r] # "idle" =>
       /\ attempt[r] \in 1 .. attempts[held[r]]
       /\ \A q \in Runners : Sends(q, held[r], attempt[r]) => q = r
  /\ \A e \in Event : status[e] = "none" => attempts[e] = 0

\* The attempts of e that were overtaken in flight and whose failure would not
\* give up.
LateAttempts(e) ==
  {n \in 1 .. MaxAttempts - 1 :
     n < attempts[e] /\ \E r \in Runners : Sends(r, e, n)}

\* The last claim of e is still in flight.
Current(e) == \E r \in Runners : Sends(r, e, attempts[e])

\* Whether the crashes and stalls already pay for the next claim of e.
Prepaid(e) ==
  IF attempts[e] < MaxAttempts
    THEN due[e] /\ Current(e)
    ELSE status[e] = "pending" /\ (due[e] \/ ~Current(e))

\* The claims of e beyond MaxAttempts.
Excess(e) ==
  IF attempts[e] > MaxAttempts THEN attempts[e] - MaxAttempts ELSE 0

Paid(e) ==
  Excess(e) + Cardinality(LateAttempts(e)) + (IF Prepaid(e) THEN 1 ELSE 0)
    <= crashes + stalls

RetryInv == OwnAttempt /\ \A e \in Event : Paid(e)

\* The late attempts of a row are finitely many.
LEMMA LateFinite ==
  ASSUME NEW e \in Event
  PROVE  /\ IsFiniteSet(LateAttempts(e))
         /\ Cardinality(LateAttempts(e)) \in Nat
<1>1. LateAttempts(e) \subseteq 1 .. MaxAttempts - 1
  BY DEF LateAttempts
<1>2. 1 \in Int /\ MaxAttempts - 1 \in Int
  BY OutboxAssumption
<1>3. IsFiniteSet(1 .. MaxAttempts - 1)
  BY <1>2, FS_Interval
<1>4. IsFiniteSet(LateAttempts(e))
  BY <1>1, <1>3, FS_Subset
<1> QED BY <1>4, FS_CardinalityType

\* A step that brings no new late attempt and prepays no claim keeps the account.
LEMMA StillPaid ==
  ASSUME TypeOK, TypeOK', NEW e \in Event, Paid(e),
         LateAttempts(e)' \subseteq LateAttempts(e),
         attempts'[e] = attempts[e],
         \/ /\ Prepaid(e)' => Prepaid(e)
            /\ crashes' + stalls' >= crashes + stalls
         \/ crashes' + stalls' > crashes + stalls
  PROVE  Paid(e)'
<1>1. /\ Cardinality(LateAttempts(e)) \in Nat
      /\ IsFiniteSet(LateAttempts(e))
  BY LateFinite
<1>2. /\ Cardinality(LateAttempts(e)') \in Nat
      /\ Cardinality(LateAttempts(e)') <= Cardinality(LateAttempts(e))
  BY <1>1, FS_Subset, FS_CardinalityType
<1>3. Excess(e)' = Excess(e) /\ Excess(e) \in Nat
  BY OutboxAssumption DEF Excess, TypeOK
<1>4. /\ crashes \in Nat /\ stalls \in Nat /\ crashes' \in Nat /\ stalls' \in Nat
  BY OutboxAssumption DEF TypeOK
<1> DEFINE late == Cardinality(LateAttempts(e))
           lateN == Cardinality(LateAttempts(e)')
           pre == IF Prepaid(e) THEN 1 ELSE 0
           preN == IF Prepaid(e)' THEN 1 ELSE 0
<1>5. Excess(e) + late + pre <= crashes + stalls
  BY DEF Paid
<1>6. Excess(e) + lateN + preN <= crashes' + stalls'
  <2>1. late \in Nat /\ lateN \in Nat /\ lateN <= late
    BY <1>1, <1>2
  <2>2. pre \in {0, 1} /\ preN \in {0, 1}
    OBVIOUS
  <2>3. \/ preN <= pre /\ crashes' + stalls' >= crashes + stalls
        \/ crashes' + stalls' > crashes + stalls
    OBVIOUS
  <2> HIDE DEF late, lateN, pre, preN
  <2> QED BY <1>3, <1>4, <1>5, <2>1, <2>2, <2>3
<1> QED BY <1>3, <1>6 DEF Paid
\* The senders' numbers stay distinct: a claim takes the row's next number.
LEMMA OwnAttemptKept ==
  ASSUME TypeOK, OwnAttempt, [Next]_vars
  PROVE  OwnAttempt'
<1> USE OutboxAssumption
<1>1. CASE UNCHANGED vars
  BY <1>1 DEF OwnAttempt, Sends, vars, outbox, sender
<1>2. ASSUME NEW e \in Event, enqueue_integration_deliveries(e)
      PROVE  OwnAttempt'
  BY <1>2 DEF enqueue_integration_deliveries, TypeOK, OwnAttempt, Sends, sender
<1>3. ASSUME NEW e \in Event, BecomesDue(e) PROVE OwnAttempt'
  BY <1>3 DEF BecomesDue, OwnAttempt, Sends, sender
<1>4. ASSUME NEW r \in Runners, NEW e \in Event, Claim(r, e)
      PROVE  OwnAttempt'
  <2> USE <1>4 DEF Claim
  <2>1. /\ \A d \in Event : attempts[d] \in Nat /\ attempts'[d] \in Nat
        /\ \A d \in Event : attempts[d] <= attempts'[d]
        /\ attempts'[e] = attempts[e] + 1
    BY DEF TypeOK
  <2>2. /\ pc[r] = "idle" /\ held'[r] = e /\ attempt'[r] = attempts[e] + 1
        /\ \A q \in Runners : q # r =>
             pc'[q] = pc[q] /\ held'[q] = held[q] /\ attempt'[q] = attempt[q]
    BY DEF TypeOK
  <2>3. \A q \in Runners : q # r /\ pc[q] # "idle" =>
          /\ held[q] \in Event /\ attempt[q] \in Nat
          /\ attempt[q] \in 1 .. attempts[held[q]]
    BY DEF TypeOK, OwnAttempt
  <2>4. ASSUME NEW q \in Runners, pc'[q] # "idle"
        PROVE  attempt'[q] \in 1 .. attempts'[held'[q]]
    <3>1. CASE q = r
      BY <2>1, <2>2, <3>1
    <3>2. CASE q # r
      BY <2>1, <2>2, <2>3, <2>4, <3>2
    <3> QED BY <3>1, <3>2
  <2>5. ASSUME NEW q \in Runners, NEW p \in Runners, pc'[q] # "idle",
               Sends(p, held[q], attempt[q])'
        PROVE  p = q
    <3>1. CASE p # r /\ q # r
      BY <2>2, <2>5, <3>1 DEF OwnAttempt, Sends
    <3>2. CASE p = r /\ q # r
      BY <2>1, <2>2, <2>3, <2>5, <3>2 DEF Sends
    <3>3. CASE p # r /\ q = r
      BY <2>1, <2>2, <2>3, <2>5, <3>3 DEF Sends
    <3> QED BY <3>1, <3>2, <3>3
  <2>6. \A d \in Event : status'[d] = "none" => attempts'[d] = 0
    BY DEF Selected, TypeOK, OwnAttempt
  <2> QED BY <2>4, <2>5, <2>6 DEF OwnAttempt
<1>5. ASSUME NEW r \in Runners, send_integration_delivery(r)
      PROVE  OwnAttempt'
  <2>1. \A q \in Runners : pc'[q] # "idle" <=> pc[q] # "idle"
    BY <1>5 DEF send_integration_delivery, TypeOK
  <2>2. UNCHANGED <<outbox, held, attempt>>
    BY <1>5 DEF send_integration_delivery
  <2> QED BY <2>1, <2>2 DEF OwnAttempt, Sends, outbox
<1>6. ASSUME NEW r \in Runners, Release(r), attempts' = attempts,
             \A e \in Event : status'[e] = "none" => status[e] = "none"
      PROVE  OwnAttempt'
  BY <1>6 DEF Release, TypeOK, OwnAttempt, Sends
<1>7. ASSUME NEW r \in Runners, MarkDelivered(r) PROVE OwnAttempt'
  <2>1. \A e \in Event : status'[e] = "none" => status[e] = "none"
    BY <1>7 DEF MarkDelivered, TypeOK
  <2> QED BY <1>6, <1>7, <2>1 DEF MarkDelivered
<1>8. ASSUME NEW r \in Runners, MarkFailed(r) PROVE OwnAttempt'
  <2>1. \A e \in Event : status'[e] = "none" => status[e] = "none"
    BY <1>8 DEF MarkFailed, TypeOK
  <2> QED BY <1>6, <1>8, <2>1 DEF MarkFailed
<1>9. ASSUME NEW r \in Runners, Crash(r) PROVE OwnAttempt'
  BY <1>6, <1>9 DEF Crash, outbox
<1> QED
  BY <1>1, <1>2, <1>3, <1>4, <1>5, <1>7, <1>8, <1>9 DEF Next, Deliver

\* A runner that returns takes its own attempt out of flight and no other.
LEMMA Returns ==
  ASSUME TypeOK, OwnAttempt, NEW r \in Runners, pc[r] # "idle", Release(r),
         attempts' = attempts, NEW e \in Event
  PROVE  /\ LateAttempts(e)' \subseteq LateAttempts(e)
         /\ Current(e)' => Current(e)
         /\ held[r] # e => (Current(e)' <=> Current(e))
         /\ held[r] = e => attempt[r] \notin LateAttempts(e)'
<1>1. ASSUME NEW q \in Runners, NEW n
      PROVE  Sends(q, e, n)' <=> q # r /\ Sends(q, e, n)
  BY DEF Release, TypeOK, Sends
<1>2. held[r] # e => \A n : ~Sends(r, e, n)
  BY DEF Sends
<1>3. held[r] = e => \A q \in Runners : Sends(q, e, attempt[r]) => q = r
  BY DEF OwnAttempt
<1> QED BY <1>1, <1>2, <1>3 DEF LateAttempts, Current

\* A claim is paid for before it is made: the sender it overtakes was stalled,
\* or the claim is one of the first MaxAttempts.
LEMMA ClaimPaid ==
  ASSUME IInv, IInv', OwnAttempt, NEW e \in Event, Paid(e),
         NEW r \in Runners, Claim(r, e)
  PROVE  Paid(e)'
<1> USE OutboxAssumption
<1>1. /\ attempts[e] \in Nat /\ attempts'[e] = attempts[e] + 1
      /\ status[e] = "pending" /\ due[e] /\ ~due'[e]
      /\ pc[r] = "idle" /\ pc'[r] = "sending"
      /\ held'[r] = e /\ attempt'[r] = attempts[e] + 1
      /\ crashes' = crashes /\ stalls' = stalls
      /\ crashes \in Nat /\ stalls \in Nat
  BY DEF Claim, Selected, IInv, TypeOK
<1>2. ASSUME NEW n \in Nat, n <= attempts[e], NEW q \in Runners
      PROVE  Sends(q, e, n)' <=> Sends(q, e, n)
  BY <1>1, <1>2 DEF Claim, IInv, TypeOK, Sends
<1>3. ~Prepaid(e)'
  BY <1>1 DEF Prepaid, Current, Sends
<1>4. /\ IsFiniteSet(LateAttempts(e))
      /\ Cardinality(LateAttempts(e)) \in Nat
  BY LateFinite
<1> DEFINE late == Cardinality(LateAttempts(e))
           lateN == Cardinality(LateAttempts(e)')
           pre == IF Prepaid(e) THEN 1 ELSE 0
<1>5. Excess(e) + late + pre <= crashes + stalls
  BY DEF Paid
<1>6. CASE attempts[e] < MaxAttempts
  <2>1. Excess(e) = 0 /\ Excess(e)' = 0
    BY <1>1, <1>6 DEF Excess
  <2>2. lateN \in Nat /\ lateN <= late + pre
    <3>1. CASE Current(e)
      <4>1. LateAttempts(e)' \subseteq LateAttempts(e) \cup {attempts[e]}
        BY <1>1, <1>2 DEF LateAttempts
      <4>2. /\ IsFiniteSet(LateAttempts(e) \cup {attempts[e]})
            /\ \/ Cardinality(LateAttempts(e) \cup {attempts[e]}) = late
               \/ Cardinality(LateAttempts(e) \cup {attempts[e]}) = late + 1
        BY <1>4, FS_AddElement
      <4>3. lateN \in Nat /\ lateN <= Cardinality(LateAttempts(e) \cup {attempts[e]})
        BY <4>1, <4>2, FS_Subset, FS_CardinalityType
      <4>4. pre = 1
        BY <1>1, <1>6, <3>1 DEF Prepaid
      <4>5. late \in Nat
        BY <1>4
      <4> HIDE DEF late, lateN, pre
      <4> QED BY <4>2, <4>3, <4>4, <4>5
    <3>2. CASE ~Current(e)
      <4>1. LateAttempts(e)' \subseteq LateAttempts(e)
        BY <1>1, <1>2, <3>2 DEF LateAttempts, Current
      <4>2. lateN \in Nat /\ lateN <= late
        BY <1>4, <4>1, FS_Subset, FS_CardinalityType
      <4>3. pre \in {0, 1} /\ late \in Nat
        BY <1>4
      <4> HIDE DEF late, lateN, pre
      <4> QED BY <4>2, <4>3
    <3> QED BY <3>1, <3>2
  <2>3. late \in Nat /\ pre \in {0, 1}
    BY <1>4
  <2>4. lateN <= crashes' + stalls'
    <3> HIDE DEF late, lateN, pre
    <3> QED BY <1>1, <1>5, <2>1, <2>2, <2>3
  <2> QED BY <1>3, <2>1, <2>2, <2>4 DEF Paid
<1>7. CASE attempts[e] >= MaxAttempts
  <2>1. Excess(e)' = Excess(e) + 1 /\ Excess(e) \in Nat
    BY <1>1, <1>7 DEF Excess
  <2>2. LateAttempts(e)' = LateAttempts(e)
    BY <1>1, <1>2, <1>7 DEF LateAttempts
  <2>3. pre = 1
    BY <1>1, <1>7 DEF Prepaid
  <2>4. late \in Nat /\ lateN = late
    BY <1>4, <2>2
  <2>5. Excess(e)' + lateN <= crashes' + stalls'
    <3> HIDE DEF late, lateN, pre
    <3> QED BY <1>1, <1>5, <2>1, <2>3, <2>4
  <2> QED BY <1>3, <2>1, <2>4, <2>5 DEF Paid
<1> QED BY <1>1, <1>6, <1>7

\* A failure is paid for too: it gives up, or it takes a late attempt out of
\* flight, whose stall pays for the claim that the failure makes possible.
LEMMA FailurePaid ==
  ASSUME IInv, IInv', OwnAttempt, NEW r \in Runners, MarkFailed(r),
         NEW e \in Event, held[r] = e, Paid(e)
  PROVE  Paid(e)'
<1> USE OutboxAssumption
<1>1. /\ pc[r] # "idle" /\ Release(r) /\ attempts' = attempts
      /\ attempts[e] \in Nat /\ attempt[r] \in 1 .. attempts[e]
      /\ ~due'[e]
      /\ status'[e] = IF attempt[r] >= MaxAttempts THEN "abandoned" ELSE "pending"
      /\ crashes' = crashes /\ stalls' = stalls
  BY DEF MarkFailed, GiveUp, IInv, TypeOK, OwnAttempt
<1>2. /\ LateAttempts(e)' \subseteq LateAttempts(e)
      /\ attempt[r] \notin LateAttempts(e)'
  BY <1>1, Returns DEF IInv
<1>3. CASE attempts[e] < MaxAttempts \/ attempt[r] >= MaxAttempts
  <2>1. ~Prepaid(e)'
    BY <1>1, <1>3 DEF Prepaid
  <2>2. crashes' + stalls' >= crashes + stalls
    BY <1>1 DEF IInv, TypeOK
  <2> QED BY <1>1, <1>2, <2>1, <2>2, StillPaid DEF IInv
<1>4. CASE attempts[e] >= MaxAttempts /\ attempt[r] < MaxAttempts
  <2> DEFINE late == Cardinality(LateAttempts(e))
             lateN == Cardinality(LateAttempts(e)')
             pre == IF Prepaid(e) THEN 1 ELSE 0
             preN == IF Prepaid(e)' THEN 1 ELSE 0
  <2>1. attempt[r] \in LateAttempts(e)
    BY <1>1, <1>4 DEF LateAttempts, Sends
  <2>2. IsFiniteSet(LateAttempts(e)) /\ late \in Nat
    BY LateFinite
  <2>3. /\ IsFiniteSet(LateAttempts(e) \ {attempt[r]})
        /\ Cardinality(LateAttempts(e) \ {attempt[r]}) = late - 1
    BY <2>1, <2>2, FS_RemoveElement
  <2>4. LateAttempts(e)' \subseteq LateAttempts(e) \ {attempt[r]}
    BY <1>2
  <2>5. lateN \in Nat /\ lateN <= late - 1
    BY <2>3, <2>4, FS_Subset, FS_CardinalityType
  <2>6. Excess(e)' = Excess(e) /\ Excess(e) \in Nat
    BY <1>1 DEF Excess
  <2>7. pre \in {0, 1} /\ preN \in {0, 1} /\ crashes \in Nat /\ stalls \in Nat
    BY DEF IInv, TypeOK
  <2>8. Excess(e) + late + pre <= crashes + stalls
    BY DEF Paid
  <2>9. Excess(e)' + lateN + preN <= crashes' + stalls'
    <3> HIDE DEF late, lateN, pre, preN
    <3> QED BY <1>1, <2>2, <2>5, <2>6, <2>7, <2>8
  <2> QED BY <2>9 DEF Paid
<1> QED BY <1>1, <1>3, <1>4 DEF IInv, TypeOK

LEMMA RetryInvInductive == IInv /\ RetryInv /\ [Next]_vars => RetryInv'
<1> SUFFICES ASSUME IInv, RetryInv, [Next]_vars PROVE RetryInv'
  OBVIOUS
<1> USE OutboxAssumption
<1>i. IInv' /\ TypeOK /\ TypeOK'
  BY Inductive DEF IInv
<1>o. OwnAttempt /\ OwnAttempt'
  BY <1>i, OwnAttemptKept DEF RetryInv
<1>n. crashes \in Nat /\ stalls \in Nat
  BY <1>i DEF TypeOK
<1> SUFFICES ASSUME NEW d \in Event PROVE Paid(d)'
  BY <1>o DEF RetryInv
<1>p. Paid(d)
  BY DEF RetryInv
\* A step that leaves the row and its senders alone leaves its account alone.
<1>s. ASSUME attempts'[d] = attempts[d], status'[d] = status[d], due'[d] = due[d],
             crashes' + stalls' >= crashes + stalls,
             \A q \in Runners, n \in Nat : Sends(q, d, n)' <=> Sends(q, d, n)
      PROVE  Paid(d)'
  <2>1. attempts[d] \in Nat
    BY <1>i DEF TypeOK
  <2>2. LateAttempts(d)' \subseteq LateAttempts(d)
    BY <1>s DEF LateAttempts
  <2>3. Current(d)' <=> Current(d)
    BY <1>s, <2>1 DEF Current
  <2>4. Prepaid(d)' => Prepaid(d)
    BY <1>s, <2>3 DEF Prepaid
  <2> QED BY <1>i, <1>p, <1>s, <2>2, <2>4, StillPaid
<1>1. CASE UNCHANGED vars
  <2>1. /\ UNCHANGED <<status, attempts, due, pc, held, attempt, crashes, stalls>>
        /\ crashes' + stalls' >= crashes + stalls
    BY <1>1, <1>n DEF vars, outbox, sender
  <2> QED BY <1>s, <2>1 DEF Sends
<1>2. ASSUME NEW e \in Event, enqueue_integration_deliveries(e) PROVE Paid(d)'
  <2>1. /\ UNCHANGED <<attempts, pc, held, attempt, crashes, stalls>>
        /\ crashes' + stalls' >= crashes + stalls
        /\ d # e => status'[d] = status[d] /\ due'[d] = due[d]
    <3>1. UNCHANGED <<attempts, pc, held, attempt, crashes, stalls>>
      BY <1>2 DEF enqueue_integration_deliveries, sender
    <3>2. d # e => status'[d] = status[d] /\ due'[d] = due[d]
      BY <1>2, <1>i DEF enqueue_integration_deliveries, TypeOK
    <3> QED BY <1>n, <3>1, <3>2
  <2>2. CASE d # e
    BY <1>s, <2>1, <2>2 DEF Sends
  <2>3. CASE d = e
    <3>1. attempts[d] = 0
      BY <1>2, <1>o, <2>3 DEF enqueue_integration_deliveries, OwnAttempt
    <3>2. ~Current(d)'
      BY <1>o, <2>1, <3>1 DEF Current, Sends, OwnAttempt
    <3>3. ~Prepaid(d)'
      BY <2>1, <3>1, <3>2 DEF Prepaid
    <3>4. LateAttempts(d)' \subseteq LateAttempts(d)
      BY <2>1 DEF LateAttempts, Sends
    <3> QED BY <1>i, <1>p, <2>1, <3>3, <3>4, StillPaid
  <2> QED BY <2>2, <2>3
<1>3. ASSUME NEW e \in Event, BecomesDue(e) PROVE Paid(d)'
  <2>1. /\ UNCHANGED <<status, attempts, pc, held, attempt, crashes>>
        /\ crashes' + stalls' >= crashes + stalls
        /\ InFlight(e) => crashes' + stalls' > crashes + stalls
        /\ d # e => due'[d] = due[d]
    <3>1. UNCHANGED <<status, attempts, pc, held, attempt, crashes>>
      BY <1>3 DEF BecomesDue, sender
    <3>2. d # e => due'[d] = due[d]
      BY <1>3, <1>i DEF BecomesDue, TypeOK
    <3>3. (stalls' = stalls /\ ~InFlight(e)) \/ stalls' = stalls + 1
      BY <1>3 DEF BecomesDue
    <3> QED BY <1>n, <3>1, <3>2, <3>3
  <2>2. CASE d # e
    BY <1>s, <2>1, <2>2 DEF Sends
  <2>3. CASE d = e
    <3>1. LateAttempts(d)' \subseteq LateAttempts(d)
      BY <2>1 DEF LateAttempts, Sends
    <3>2. CASE InFlight(d)
      BY <1>i, <1>p, <2>1, <2>3, <3>1, <3>2, StillPaid
    <3>3. CASE ~InFlight(d)
      <4>1. ~Current(d) /\ ~Current(d)'
        BY <2>1, <3>3 DEF InFlight, Current, Sends
      <4>2. Prepaid(d)' => Prepaid(d)
        BY <2>1, <4>1 DEF Prepaid
      <4> QED BY <1>i, <1>p, <2>1, <3>1, <4>2, StillPaid
    <3> QED BY <3>2, <3>3
  <2> QED BY <2>2, <2>3
<1>4. ASSUME NEW r \in Runners, NEW e \in Event, Claim(r, e) PROVE Paid(d)'
  <2>1. CASE d = e
    BY <1>4, <1>i, <1>o, <1>p, <2>1, ClaimPaid
  <2>2. CASE d # e
    <3>1. /\ attempts'[d] = attempts[d] /\ status'[d] = status[d]
          /\ due'[d] = due[d] /\ crashes' + stalls' >= crashes + stalls
      BY <1>4, <1>i, <1>n, <2>2 DEF Claim, TypeOK
    <3>2. \A q \in Runners, n \in Nat : Sends(q, d, n)' <=> Sends(q, d, n)
      BY <1>4, <1>i, <2>2 DEF Claim, TypeOK, Sends
    <3> QED BY <1>s, <3>1, <3>2
  <2> QED BY <2>1, <2>2
<1>5. ASSUME NEW r \in Runners, send_integration_delivery(r) PROVE Paid(d)'
  <2>1. /\ UNCHANGED <<status, attempts, due, held, attempt, crashes, stalls>>
        /\ crashes' + stalls' >= crashes + stalls
        /\ \A q \in Runners : pc'[q] # "idle" <=> pc[q] # "idle"
    BY <1>5, <1>i, <1>n DEF send_integration_delivery, outbox, TypeOK
  <2> QED BY <1>s, <2>1 DEF Sends
\* A return without a failure leaves the row no better paid for.
<1>6. ASSUME NEW r \in Runners, pc[r] # "idle", Release(r), attempts' = attempts,
             \/ crashes' + stalls' > crashes + stalls
             \/ /\ crashes' + stalls' >= crashes + stalls
                /\ due'[d] = due[d]
                /\ (status'[d] = status[d] /\ held[r] # d) \/ status'[d] # "pending"
      PROVE  Paid(d)'
  <2>1. /\ LateAttempts(d)' \subseteq LateAttempts(d)
        /\ Current(d)' => Current(d)
        /\ held[r] # d => (Current(d)' <=> Current(d))
    BY <1>6, <1>i, <1>o, Returns
  <2>2. CASE crashes' + stalls' > crashes + stalls
    BY <1>6, <1>i, <1>p, <2>1, <2>2, StillPaid
  <2>3. CASE /\ crashes' + stalls' >= crashes + stalls
             /\ due'[d] = due[d]
             /\ (status'[d] = status[d] /\ held[r] # d) \/ status'[d] # "pending"
    <3>1. Prepaid(d)' => Prepaid(d)
      BY <1>6, <2>1, <2>3 DEF Prepaid
    <3> QED BY <1>6, <1>i, <1>p, <2>1, <2>3, <3>1, StillPaid
  <2> QED BY <1>6, <2>2, <2>3
<1>7. ASSUME NEW r \in Runners, MarkDelivered(r) PROVE Paid(d)'
  <2>1. held[r] \in Event
    BY <1>7, <1>i DEF MarkDelivered, TypeOK
  <2>2. /\ crashes' + stalls' >= crashes + stalls
        /\ due'[d] = due[d] /\ attempts' = attempts /\ pc[r] # "idle" /\ Release(r)
        /\ (status'[d] = status[d] /\ held[r] # d) \/ status'[d] # "pending"
    BY <1>7, <1>i, <1>n, <2>1 DEF MarkDelivered, TypeOK
  <2> QED BY <1>6, <2>2
<1>8. ASSUME NEW r \in Runners, MarkFailed(r) PROVE Paid(d)'
  <2>1. CASE held[r] = d
    BY <1>8, <1>i, <1>o, <1>p, <2>1, FailurePaid
  <2>2. CASE held[r] # d
    <3>1. /\ crashes' + stalls' >= crashes + stalls
          /\ due'[d] = due[d] /\ attempts' = attempts /\ pc[r] # "idle" /\ Release(r)
          /\ status'[d] = status[d]
      <4>1. held[r] \in Event /\ pc[r] # "idle"
        BY <1>8, <1>i DEF MarkFailed, TypeOK
      <4>2. due'[d] = due[d] /\ status'[d] = status[d]
        BY <1>8, <1>i, <2>2, <4>1 DEF MarkFailed, TypeOK
      <4>3. Release(r) /\ UNCHANGED <<attempts, crashes, stalls>>
        BY <1>8 DEF MarkFailed
      <4> QED BY <1>n, <4>1, <4>2, <4>3
    <3> QED BY <1>6, <2>2, <3>1
  <2> QED BY <2>1, <2>2
<1>9. ASSUME NEW r \in Runners, Crash(r) PROVE Paid(d)'
  <2>1. /\ crashes' + stalls' > crashes + stalls
        /\ attempts' = attempts /\ pc[r] # "idle" /\ Release(r)
    BY <1>9, <1>n DEF Crash, outbox
  <2> QED BY <1>6, <2>1
<1> QED
  BY <1>1, <1>2, <1>3, <1>4, <1>5, <1>7, <1>8, <1>9 DEF Next, Deliver

\* The retries of an event are bounded: claims beyond MaxAttempts are paid for,
\* one by one, by crashes and by claims that outlived their 5 minutes.
THEOREM Retries == Spec => []RetriesBounded
<1> USE OutboxAssumption
<1>1. Init => RetryInv
  <2> SUFFICES ASSUME Init PROVE RetryInv
    OBVIOUS
  <2>1. OwnAttempt
    BY DEF Init, OwnAttempt
  <2>2. ASSUME NEW e \in Event PROVE Paid(e)
    <3>1. LateAttempts(e) = {}
      BY DEF Init, LateAttempts, Sends
    <3>2. Cardinality(LateAttempts(e)) = 0
      BY <3>1, FS_EmptySet
    <3>3. Excess(e) = 0 /\ ~Prepaid(e) /\ crashes = 0 /\ stalls = 0
      BY DEF Init, Excess, Prepaid
    <3> QED BY <3>2, <3>3 DEF Paid
  <2> QED BY <2>1, <2>2 DEF RetryInv
<1>2. IInv /\ RetryInv => RetriesBounded
  <2> SUFFICES ASSUME IInv, RetryInv, NEW e \in Event
               PROVE  attempts[e] <= MaxAttempts + crashes + stalls
    BY DEF RetriesBounded
  <2>1. /\ attempts[e] \in Nat /\ crashes \in Nat /\ stalls \in Nat
    BY DEF IInv, TypeOK
  <2>2. Cardinality(LateAttempts(e)) \in Nat
    BY LateFinite
  <2>3. Excess(e) \in Nat /\ attempts[e] <= MaxAttempts + Excess(e)
    BY <2>1 DEF Excess
  <2>4. Excess(e) + Cardinality(LateAttempts(e)) + (IF Prepaid(e) THEN 1 ELSE 0)
          <= crashes + stalls
    BY DEF RetryInv, Paid
  <2>5. Excess(e) <= crashes + stalls
    BY <2>1, <2>2, <2>3, <2>4
  <2> QED BY <2>1, <2>3, <2>5
<1> QED BY <1>1, <1>2, RetryInvInductive, Invariance, PTL DEF Spec
================================================================================
