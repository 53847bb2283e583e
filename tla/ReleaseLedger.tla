------------------------------ MODULE ReleaseLedger ------------------------------
(***************************************************************************)
(* What the evaluator promises about release decisions, without requests,  *)
(* locks or transactions: a ledger that only grows, one decision at a      *)
(* time.  A decision rests on a dataset, and on the client or adapter it   *)
(* came through, that were approved before; on the grades of a semantic    *)
(* run only if those were final, on the same dataset, and do not ask for   *)
(* the review of a pass; and it is the only one for its package.           *)
(* EvaluatorIntake implements it (EvaluatorIntake!Ledger).                 *)
(***************************************************************************)
CONSTANTS
  Entry,   \* datasets, clients and adapters
  None     \* no client or adapter, no package

VARIABLES
  approved,  \* entries that were approved, by an eligible user or by the
             \* migration that inserted them
  graded,    \* final grades of semantic runs: run, dataset, review
  ledger     \* the decisions

vars == <<approved, graded, ledger>>

Init ==
  /\ approved \in SUBSET Entry
  /\ graded = {}
  /\ ledger = {}

\* Once approved, an entry counts as such, though it may be disabled later.
Approve ==
  /\ \E x \in Entry : approved' = approved \cup {x}
  /\ UNCHANGED <<graded, ledger>>

\* A run is graded once.
Grade ==
  /\ \E g \in graded' :
       /\ graded' = graded \cup {g}
       /\ \A h \in graded : h.run # g.run
  /\ UNCHANGED <<approved, ledger>>

\* The decision d may be taken.
Justified(d) ==
  /\ d.dataset \in approved
  /\ d.by \in approved \cup {None}
  /\ d.run # 0 => \E g \in graded :
       /\ g.run = d.run /\ g.dataset = d.dataset
       /\ g.review => d.decision # "pass"

\* d is a new decision, and the first about its package.
Fresh(d) ==
  \A c \in ledger : c.id # d.id /\ (d.package # None => c.package # d.package)

Decide ==
  /\ \E d \in ledger' :
       /\ ledger' = ledger \cup {d}
       /\ Justified(d) /\ Fresh(d)
  /\ UNCHANGED <<approved, graded>>

Next == Approve \/ Grade \/ Decide

Spec == Init /\ [][Next]_vars
================================================================================
