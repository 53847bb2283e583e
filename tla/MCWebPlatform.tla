------------------------------ MODULE MCWebPlatform ------------------------------
(***************************************************************************)
(* WebPlatform for TLC.  Each initial state is one small instance: what    *)
(* the tenant may run and what may happen to it.                           *)
(***************************************************************************)
EXTENDS WebPlatform

Instance(active, queued, operationStatus, budget) ==
  [policy |-> [active |-> active, queued |-> queued],
   operation |-> operationStatus,
   budget |-> [b \in Bounded |-> IF b \in DOMAIN budget THEN budget[b] ELSE 0]]

MCInstances == {
  \* two scans contend for one slot
  Instance(1, 2, None, [scan |-> 2]),
  \* one scan after the other, a worker or the API lost
  Instance(1, 1, None, [scan |-> 2, crash |-> 1]),
  \* two scans and a slot that goes under its worker or is not released
  Instance(1, 1, None, [scan |-> 2, lapse |-> 1]),
  \* admission at its limit
  Instance(2, 1, None, [scan |-> 2]),
  \* a cancellation and a lost worker
  Instance(1, 1, None, [scan |-> 1, cancel |-> 1, crash |-> 1]),
  \* a second delivery or a slow worker, and a lost worker
  Instance(1, 1, None, [scan |-> 1, delay |-> 1, crash |-> 1]),
  \* an operation from planning to its stop
  Instance(1, 1, "planning", [scan |-> 1, transition |-> 4]),
  \* the report of a recovered scan
  Instance(1, 1, None, [scan |-> 1, recovery |-> 1, report |-> 2]),
  \* a process lost while it queues or renders a report
  Instance(1, 1, None, [scan |-> 1, outage |-> 1, report |-> 2]),
  \* a scan too old for the backfill
  Instance(1, 1, None, [scan |-> 1, outage |-> 1, report |-> 1, newer |-> 1]),
  \* a cancelled report
  Instance(1, 1, None, [scan |-> 1, report |-> 1, retract |-> 1])}
================================================================================
