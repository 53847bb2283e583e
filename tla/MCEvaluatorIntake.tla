--------------------------- MODULE MCEvaluatorIntake ---------------------------
(***************************************************************************)
(* EvaluatorIntake for TLC.                                                *)
(***************************************************************************)
EXTENDS EvaluatorIntake, TLC

CONSTANTS u1, u2, d1, d2, d3, i1, g1, a1

Instance(ready, budget) ==
  [ready |-> ready,
   budget |-> [b \in Bounded |-> IF b \in DOMAIN budget THEN budget[b] ELSE 0]]

MCInstances == {
  \* two entries registered, approved and disabled by two users
  Instance({}, [register |-> 2, approve |-> 3, disable |-> 1]),
  \* a client identity from its registration to its first package
  Instance({d1}, [register |-> 1, approve |-> 2, disable |-> 1, upload |-> 2]),
  \* two clients, two packages, four uploads
  Instance({d1, i1, g1}, [disable |-> 1, upload |-> 4]),
  \* an adapter disabled while it is invoked, a dataset that may not be sent
  Instance({d1, d2, a1}, [disable |-> 1, live |-> 3]),
  \* semantic runs and evaluations on two datasets
  Instance({d1, d2}, [semantic |-> 2, direct |-> 3]),
  \* the report of an evaluation, rendered three times
  Instance({d1}, [direct |-> 1, report |-> 3]),
  \* a dataset of the workspace migration next to one approved by two users
  Instance({d1, d3, i1, a1},
           [upload |-> 1, live |-> 1, semantic |-> 1, direct |-> 1])}

MCClassification == d1 :> "internal" @@ d2 :> "restricted" @@ d3 :> "synthetic"

Symmetry == Permutations(Users) \cup Permutations(Requests) \cup Permutations(Packages)
================================================================================
