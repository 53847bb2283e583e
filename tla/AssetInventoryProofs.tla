-------------------------- MODULE AssetInventoryProofs --------------------------
(***************************************************************************)
(* Theorems about AssetInventory, for every set of assessments and hosts.  *)
(* The invariant joins the two safety properties with what makes them      *)
(* inductive: a row that may be assessed was cleared by a person, and an   *)
(* assessment that has a scan or an inventory has its root declared.       *)
(***************************************************************************)
EXTENDS AssetInventory, TLAPS

\* Rows that start_inventory_asset_assessment accepts, rows whose approval an
\* upsert may carry into the graph, and roots.
RowsAreCleared ==
  \A a \in Assessments, h \in Hosts :
    /\ Assessable(a, h) => <<a, h>> \in cleared
    /\ local[a][h] = "approved" => h \in vouched

RootsAreCleared ==
  \A a \in Assessments : Created(a) => <<a, Root[a]>> \in cleared

IInv ==
  /\ TypeOK
  /\ RowsAreCleared
  /\ RootsAreCleared
  /\ ScannedWasCleared
  /\ VerifiedWasVouched

LEMMA UpsertTyped ==
  ASSUME TypeOK, NEW h \in Hosts, NEW own \in LocalOwnership
  PROVE  Upsert(h, own) \in GlobalOwnership
  BY DEF TypeOK, Upsert, _global_ownership_status, _combine_ownership,
         LocalOwnership, GlobalOwnership

\* Merging makes an asset verified only if the graph or the row already was.
LEMMA UpsertVerified ==
  ASSUME TypeOK, NEW h \in Hosts, NEW own \in LocalOwnership,
         Upsert(h, own) = "verified"
  PROVE  global[h] = "verified" \/ own = "approved"
  BY DEF TypeOK, Upsert, _global_ownership_status, _combine_ownership,
         LocalOwnership, GlobalOwnership

\* Merging never lifts an exclusion.
LEMMA UpsertExcluded ==
  ASSUME NEW h \in Hosts, NEW own, global[h] = "excluded"
  PROVE  Upsert(h, own) = "excluded"
  BY DEF Upsert, _combine_ownership

LEMMA Initially == Init => IInv
  BY InventoryAssumption
  DEF Init, IInv, TypeOK, RowsAreCleared, RootsAreCleared, ScannedWasCleared,
      VerifiedWasVouched, Assessable, Created

LEMMA Inductive == IInv /\ [Next]_vars => IInv'
<1> SUFFICES ASSUME IInv, [Next]_vars PROVE IInv'
  OBVIOUS
<1> USE InventoryAssumption
<1>1. CASE UNCHANGED vars
  BY <1>1 DEF IInv, TypeOK, RowsAreCleared, RootsAreCleared, ScannedWasCleared,
              VerifiedWasVouched, Assessable, Created, vars, ownership, scans,
              history
<1>2. ASSUME NEW a \in Assessments, create_assessment(a) PROVE IInv'
  <2>1. Upsert(Root[a], "client_declared") \in GlobalOwnership
    BY UpsertTyped DEF IInv, LocalOwnership
  <2>2. Upsert(Root[a], "client_declared") = "verified"
          => global[Root[a]] = "verified"
    BY UpsertVerified DEF IInv, LocalOwnership
  <2>3. TypeOK'
    BY <1>2, <2>1 DEF create_assessment, IInv, TypeOK, LocalOwnership, scans
  <2>4. (RowsAreCleared /\ RootsAreCleared /\ ScannedWasCleared)'
    BY <1>2 DEF create_assessment, IInv, TypeOK, RowsAreCleared, RootsAreCleared,
                ScannedWasCleared, Assessable, Created, scans
  <2>5. VerifiedWasVouched'
    BY <1>2, <2>2 DEF create_assessment, IInv, TypeOK, VerifiedWasVouched, scans
  <2> QED BY <2>3, <2>4, <2>5 DEF IInv
<1>3. ASSUME NEW a \in Assessments, NEW hs \in SUBSET Below[a],
             discover_assessment_assets(a, hs)
      PROVE  IInv'
  <2> DEFINE own(h) == IF local[a][h] = "none" THEN "candidate" ELSE local[a][h]
  <2>1. \A h \in Hosts : own(h) \in LocalOwnership
    BY DEF IInv, TypeOK, LocalOwnership
  <2>2. \A h \in Hosts : Upsert(h, own(h)) \in GlobalOwnership
    BY <2>1, UpsertTyped DEF IInv
  <2>3. \A h \in Hosts : Upsert(h, own(h)) = "verified"
          => global[h] = "verified" \/ own(h) = "approved"
    BY <2>1, UpsertVerified DEF IInv
  <2> HIDE DEF own
  <2>4. /\ local' = [local EXCEPT ![a] = [h \in Hosts |-> IF h \in hs THEN own(h)
                                                                    ELSE @[h]]]
        /\ global' = [h \in Hosts |-> IF h \in hs THEN Upsert(h, own(h))
                                                  ELSE global[h]]
        /\ UNCHANGED <<scans, history>>
    BY <1>3 DEF discover_assessment_assets, own
  <2>5. TypeOK'
    BY <2>1, <2>2, <2>4 DEF IInv, TypeOK, scans, history
  <2>6. \A h \in Hosts : local[a][h] # "none" => own(h) = local[a][h]
    BY DEF own
  <2>7. \A h \in Hosts : local[a][h] = "none" => own(h) = "candidate"
    BY DEF own
  <2>8. \A b \in Assessments, h \in Hosts :
          local'[b][h] \in {local[b][h], "candidate"}
    BY <2>4, <2>6, <2>7 DEF IInv, TypeOK
  <2>9. RowsAreCleared'
    BY <2>4, <2>8 DEF IInv, RowsAreCleared, Assessable, history
  <2>10. RootsAreCleared'
    <3> SUFFICES ASSUME NEW b \in Assessments, Created(b)'
                 PROVE  <<b, Root[b]>> \in cleared'
      BY DEF RootsAreCleared
    <3>1. Root[b] \notin Below[b]
      OBVIOUS
    <3>2. local'[b][Root[b]] = local[b][Root[b]]
      BY <2>4, <3>1 DEF IInv, TypeOK
    <3> QED BY <2>4, <3>2 DEF IInv, RootsAreCleared, Created, history
  <2>11. ScannedWasCleared'
    BY <2>4 DEF IInv, ScannedWasCleared, scans, history
  <2>12. \A h \in Hosts : own(h) = "approved" => h \in vouched
    BY <2>6, <2>7 DEF IInv, RowsAreCleared
  <2>13. VerifiedWasVouched'
    BY <2>3, <2>4, <2>12 DEF IInv, TypeOK, VerifiedWasVouched, history
  <2> QED BY <2>5, <2>9, <2>10, <2>11, <2>13 DEF IInv
<1>4. ASSUME NEW a \in Assessments, NEW h \in Hosts,
             NEW decision \in {"approved", "excluded"},
             review_assessment_asset(a, h, decision)
      PROVE  IInv'
  <2>1. TypeOK'
    BY <1>4 DEF review_assessment_asset, IInv, TypeOK, LocalOwnership,
                GlobalOwnership, scans
  <2>2. RowsAreCleared'
    BY <1>4 DEF review_assessment_asset, IInv, TypeOK, RowsAreCleared, Assessable
  <2>3. RootsAreCleared'
    BY <1>4 DEF review_assessment_asset, IInv, TypeOK, RootsAreCleared, Created
  <2>4. (ScannedWasCleared /\ VerifiedWasVouched)'
    BY <1>4 DEF review_assessment_asset, IInv, TypeOK, ScannedWasCleared,
                VerifiedWasVouched, scans
  <2> QED BY <2>1, <2>2, <2>3, <2>4 DEF IInv
<1>5. ASSUME NEW h \in Hosts, NEW decision \in {"verified", "excluded"},
             update_exposure_asset_ownership(h, decision)
      PROVE  IInv'
  BY <1>5 DEF update_exposure_asset_ownership, IInv, TypeOK, GlobalOwnership,
              RowsAreCleared, RootsAreCleared, ScannedWasCleared,
              VerifiedWasVouched, Assessable, Created, scans
<1>6. ASSUME NEW a \in Assessments, start_scan(a) PROVE IInv'
  BY <1>6 DEF start_scan, QueueRootScan, IInv, TypeOK, RowsAreCleared,
              RootsAreCleared, ScannedWasCleared, VerifiedWasVouched, Assessable,
              Created, ownership, history
<1>7. ASSUME NEW a \in Assessments, NEW h \in Hosts,
             start_inventory_asset_assessment(a, h)
      PROVE  IInv'
  BY <1>7 DEF start_inventory_asset_assessment, QueueRootScan, IInv, TypeOK,
              RowsAreCleared, RootsAreCleared, ScannedWasCleared,
              VerifiedWasVouched, Assessable, Created, ownership, history
<1>8. ASSUME NEW a \in Assessments, NEW hs \in SUBSET Below[a],
             start_approved_subdomain_assessments(a, hs)
      PROVE  IInv'
  <2> USE <1>8 DEF start_approved_subdomain_assessments
  <2>1. \A h \in Hosts : Upsert(h, "approved") \in GlobalOwnership
    BY UpsertTyped DEF IInv, LocalOwnership
  <2>2. hs \subseteq Hosts
    OBVIOUS
  <2>3. TypeOK'
    BY <2>1, <2>2 DEF IInv, TypeOK, LocalOwnership
  <2>4. \A b \in Assessments, h \in Hosts :
          \/ local'[b][h] = local[b][h]
          \/ b = a /\ h \in hs
    BY DEF IInv, TypeOK
  <2>5. RowsAreCleared'
    BY <2>4 DEF IInv, RowsAreCleared, Assessable
  <2>6. RootsAreCleared'
    BY <2>4 DEF IInv, RootsAreCleared, Created
  <2>7. (ScannedWasCleared /\ VerifiedWasVouched)'
    BY DEF IInv, TypeOK, ScannedWasCleared, VerifiedWasVouched
  <2> QED BY <2>3, <2>5, <2>6, <2>7 DEF IInv
<1>9. ASSUME NEW a \in Assessments, ScanCloses(a) PROVE IInv'
  BY <1>9 DEF ScanCloses, IInv, TypeOK, RowsAreCleared, RootsAreCleared,
              ScannedWasCleared, VerifiedWasVouched, Assessable, Created,
              ownership, history
<1>10. ASSUME NEW a \in Assessments, NEW hs \in SUBSET Below[a],
              CaptureInventory(a, hs)
       PROVE  IInv'
  <2>1. hs \in SUBSET Hosts
    OBVIOUS
  <2>2. TypeOK'
    BY <1>10, <2>1 DEF CaptureInventory, IInv, TypeOK, ownership, history
  <2>3. (RowsAreCleared /\ RootsAreCleared /\ ScannedWasCleared
          /\ VerifiedWasVouched)'
    BY <1>10 DEF CaptureInventory, IInv, RowsAreCleared, RootsAreCleared,
                 ScannedWasCleared, VerifiedWasVouched, Assessable, Created,
                 ownership, history
  <2> QED BY <2>2, <2>3 DEF IInv
<1> QED
  BY <1>1, <1>2, <1>3, <1>4, <1>5, <1>6, <1>7, <1>8, <1>9, <1>10
  DEF Next

\* The strengthened invariant of AssetInventory.
THEOREM Invariance == Spec => []IInv
  BY Initially, Inductive, PTL DEF Spec

\* Every variable keeps its type.
THEOREM TypeCorrect == Spec => []TypeOK
<1>1. IInv => TypeOK
  BY DEF IInv
<1> QED BY <1>1, Invariance, PTL

\* Whatever is discovered, merged or decided elsewhere, a scan is queued only for
\* a host that a person declared or approved in that assessment.
THEOREM ScansAreCleared == Spec => []ScannedWasCleared
<1>1. IInv => ScannedWasCleared
  BY DEF IInv
<1> QED BY <1>1, Invariance, PTL

\* Merging passive observations never makes an asset verified.
THEOREM VerificationIsHuman == Spec => []VerifiedWasVouched
<1>1. IInv => VerifiedWasVouched
  BY DEF IInv
<1> QED BY <1>1, Invariance, PTL

\* Only a person's decision about the asset itself lifts an exclusion.
THEOREM ExclusionLasts == Spec => ExclusionSticks
<1> DEFINE Decided(h) ==
             \/ \E a \in Assessments : review_assessment_asset(a, h, "approved")
             \/ update_exposure_asset_ownership(h, "verified")
<1>1. ASSUME IInv, [Next]_vars, NEW h \in Hosts,
             global[h] = "excluded", global'[h] # "excluded"
      PROVE  Decided(h)
  <2> USE <1>1, InventoryAssumption
  <2>1. CASE UNCHANGED vars
    BY <2>1 DEF vars, ownership
  <2>2. ASSUME NEW a \in Assessments, create_assessment(a) PROVE FALSE
    BY <2>2, UpsertExcluded DEF create_assessment, IInv, TypeOK
  <2>3. ASSUME NEW a \in Assessments, NEW hs \in SUBSET Below[a],
               discover_assessment_assets(a, hs)
        PROVE  FALSE
    <3>1. \E own : global'[h] = Upsert(h, own) \/ global'[h] = global[h]
      BY <2>3 DEF discover_assessment_assets
    <3> QED BY <3>1, UpsertExcluded
  <2>4. ASSUME NEW a \in Assessments, NEW hs \in SUBSET Below[a],
               start_approved_subdomain_assessments(a, hs)
        PROVE  FALSE
    <3>1. global'[h] = Upsert(h, "approved") \/ global'[h] = global[h]
      BY <2>4 DEF start_approved_subdomain_assessments
    <3> QED BY <3>1, UpsertExcluded
  <2>5. ASSUME NEW a \in Assessments, NEW g \in Hosts,
               NEW decision \in {"approved", "excluded"},
               review_assessment_asset(a, g, decision)
        PROVE  Decided(h)
    <3>1. g = h /\ decision = "approved"
      BY <2>5 DEF review_assessment_asset, IInv, TypeOK
    <3> QED BY <2>5, <3>1
  <2>6. ASSUME NEW g \in Hosts, NEW decision \in {"verified", "excluded"},
               update_exposure_asset_ownership(g, decision)
        PROVE  Decided(h)
    <3>1. g = h /\ decision = "verified"
      BY <2>6 DEF update_exposure_asset_ownership, IInv, TypeOK
    <3> QED BY <2>6, <3>1
  <2>7. ASSUME NEW a \in Assessments,
               \/ start_scan(a) \/ ScanCloses(a)
               \/ \E g \in Hosts : start_inventory_asset_assessment(a, g)
               \/ \E hs \in SUBSET Below[a] : CaptureInventory(a, hs)
        PROVE  FALSE
    BY <2>7 DEF start_scan, ScanCloses, start_inventory_asset_assessment,
                CaptureInventory, ownership
  <2> QED BY <2>1, <2>2, <2>3, <2>4, <2>5, <2>6, <2>7 DEF Next
<1>2. IInv /\ [Next]_vars =>
        [\A h \in Hosts : global[h] = "excluded" /\ global'[h] # "excluded"
            => Decided(h)]_vars
  BY <1>1
<1> QED BY <1>2, Invariance, PTL DEF Spec, ExclusionSticks
================================================================================
