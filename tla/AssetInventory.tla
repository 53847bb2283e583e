----------------------------- MODULE AssetInventory -----------------------------
(***************************************************************************)
(* Ownership of assets in v3: the per-assessment inventory                 *)
(* (assessment_assets) and the organization's asset graph                  *)
(* (exposure_assets), the API handlers that change them                    *)
(* (v3/backend/app/main.py, exposure_management.py) and the handlers that  *)
(* start a scan because of them.  One organization; every handler is one   *)
(* transaction on rows it locks, so one action.                            *)
(*                                                                         *)
(* Roles, notes, evidence, confidence and events are left out; so is       *)
(* assessment_status, which no handler reads (StageRunner has it), and the *)
(* expiry of the stored scope (ExposureProgram has it).  A child           *)
(* assessment made for a host gets no inventory row and changes nothing    *)
(* here; what is done to it later is not followed.                         *)
(***************************************************************************)
EXTENDS Naturals

CONSTANTS
  Assessments,
  Hosts,
  Root,     \* the declared target of each assessment
  Below     \* the hosts below each root, which passive sources may name

ASSUME InventoryAssumption ==
  /\ Root \in [Assessments -> Hosts]
  /\ Below \in [Assessments -> SUBSET Hosts]
  /\ \A a \in Assessments : Root[a] \notin Below[a]

LocalOwnership == {"client_declared", "candidate", "approved", "excluded"}
GlobalOwnership == {"client_declared", "candidate", "verified", "excluded"}

VARIABLES
  local,      \* assessment_assets.ownership_status, "none" for no row
  global,     \* exposure_assets.ownership_status, "none" for no row
  rootScan,   \* the assessment's own scan: "none", "active" or "closed"
  inventory,  \* hosts of its newest passive_subdomain_inventory artifact
  current,    \* that artifact belongs to the active scan
  scanned,    \* history: <<assessment, host>> a scan was queued for
  cleared,    \* history: <<assessment, host>> a person declared or approved
  vouched     \* history: hosts a person approved or verified

ownership == <<local, global>>
scans == <<rootScan, inventory, current, scanned>>
history == <<cleared, vouched>>
vars == <<ownership, scans, history>>

TypeOK ==
  /\ local \in [Assessments -> [Hosts -> LocalOwnership \cup {"none"}]]
  /\ global \in [Hosts -> GlobalOwnership \cup {"none"}]
  /\ rootScan \in [Assessments -> {"none", "active", "closed"}]
  /\ inventory \in [Assessments -> SUBSET Hosts]
  /\ current \in [Assessments -> BOOLEAN]
  /\ scanned \subseteq Assessments \X Hosts
  /\ cleared \subseteq Assessments \X Hosts
  /\ vouched \subseteq Hosts

Init ==
  /\ local = [a \in Assessments |-> [h \in Hosts |-> "none"]]
  /\ global = [h \in Hosts |-> "none"]
  /\ rootScan = [a \in Assessments |-> "none"]
  /\ inventory = [a \in Assessments |-> {}]
  /\ current = [a \in Assessments |-> FALSE]
  /\ scanned = {}
  /\ cleared = {}
  /\ vouched = {}

Created(a) == local[a][Root[a]] # "none"

--------------------------------------------------------------------------------
\* Mutation: the assessment's vocabulary reaches the graph.
Untranslated(status) == status

_global_ownership_status(status) ==
  IF status = "approved" THEN "verified" ELSE status

\* Mutation: verification is looked at before exclusion.
VerifiedFirst(existing, incoming) ==
  CHOOSE s \in GlobalOwnership :
    \/ s = "verified" /\ s \in {existing, incoming}
    \/ s = "excluded" /\ "verified" \notin {existing, incoming}
       /\ s \in {existing, incoming}
    \/ s = "client_declared" /\ s \in {existing, incoming}
       /\ {existing, incoming} \cap {"excluded", "verified"} = {}
    \/ s = "candidate" /\ {existing, incoming} \subseteq {"candidate"}

\* Mutation: what is not excluded counts as verified.
PresumeVerified(existing, incoming) ==
  IF "excluded" \in {existing, incoming} THEN "excluded" ELSE "verified"

_combine_ownership(existing, incoming) ==
  IF "excluded" \in {existing, incoming} THEN "excluded"
  ELSE IF "verified" \in {existing, incoming} THEN "verified"
  ELSE IF "client_declared" \in {existing, incoming} THEN "client_declared"
  ELSE "candidate"

\* upsert_exposure_asset: what the graph records for h when an assessment's row
\* for it has ownership own.
Upsert(h, own) ==
  LET incoming == _global_ownership_status(own) IN
  IF global[h] = "none" THEN incoming
                        ELSE _combine_ownership(global[h], incoming)

\* create_assessment and _record_client_declared_asset.
create_assessment(a) ==
  /\ ~Created(a)
  /\ local' = [local EXCEPT ![a][Root[a]] = "client_declared"]
  /\ global' = [global EXCEPT ![Root[a]] = Upsert(Root[a], "client_declared")]
  /\ cleared' = cleared \cup {<<a, Root[a]>>}
  /\ UNCHANGED <<scans, vouched>>

\* Passive sources named hs: new rows are candidates, known rows keep their
\* ownership, and every row is synchronized with the graph.
discover_assessment_assets(a, hs) ==
  LET own(h) == IF local[a][h] = "none" THEN "candidate" ELSE local[a][h] IN
  /\ Created(a)
  /\ local' = [local EXCEPT ![a] = [h \in Hosts |-> IF h \in hs THEN own(h)
                                                              ELSE @[h]]]
  /\ global' = [h \in Hosts |-> IF h \in hs THEN Upsert(h, own(h))
                                            ELSE global[h]]
  /\ UNCHANGED <<scans, history>>

\* A person reviews one row of an assessment; a declared root can only be
\* approved.  The graph takes the decision whatever it held.
review_assessment_asset(a, h, decision) ==
  /\ local[a][h] # "none"
  /\ local[a][h] # "client_declared" \/ decision = "approved"
  /\ local' = [local EXCEPT ![a][h] = decision]
  /\ global' = [global EXCEPT ![h] = IF decision = "approved" THEN "verified"
                                                              ELSE "excluded"]
  /\ cleared' = IF decision = "approved" THEN cleared \cup {<<a, h>>}
                                         ELSE cleared
  /\ vouched' = IF decision = "approved" THEN vouched \cup {h} ELSE vouched
  /\ UNCHANGED scans

\* A person decides in the organization's graph; assessments keep their rows.
update_exposure_asset_ownership(h, decision) ==
  /\ global[h] # "none"
  /\ global' = [global EXCEPT ![h] = decision]
  /\ vouched' = IF decision = "verified" THEN vouched \cup {h} ELSE vouched
  /\ UNCHANGED <<local, scans, cleared>>

--------------------------------------------------------------------------------
\* _queue_assessment_scan for the assessment itself: refused (409) while a scan
\* of it is queued or running.
QueueRootScan(a) ==
  /\ rootScan[a] # "active"
  /\ rootScan' = [rootScan EXCEPT ![a] = "active"]
  /\ scanned' = scanned \cup {<<a, Root[a]>>}
  /\ UNCHANGED <<inventory, current>>

start_scan(a) ==
  /\ Created(a)
  /\ QueueRootScan(a)
  /\ UNCHANGED <<ownership, history>>

\* Mutation: any row of the inventory may be assessed.
AnyRow(a, h) == local[a][h] # "none"

Assessable(a, h) == local[a][h] \in {"client_declared", "approved"}

\* The root is scanned as the assessment itself; another host as a new child
\* assessment, which has no other scan.
start_inventory_asset_assessment(a, h) ==
  /\ Assessable(a, h)
  /\ \/ h = Root[a] /\ QueueRootScan(a)
     \/ /\ h # Root[a]
        /\ scanned' = scanned \cup {<<a, h>>}
        /\ UNCHANGED <<rootScan, inventory, current>>
  /\ UNCHANGED <<ownership, history>>

\* A person selects hosts of the passive inventory: they are approved and child
\* assessments scanned, unless the scan that made the inventory is running.
\* (The inventory is read before the transaction; a scan that replaces it in
\* between could as well come after, since nothing here reads what it writes.)
start_approved_subdomain_assessments(a, hs) ==
  /\ Created(a)
  /\ ~current[a]
  /\ hs # {} /\ hs \subseteq inventory[a]
  /\ local' = [local EXCEPT ![a] = [h \in Hosts |-> IF h \in hs THEN "approved"
                                                              ELSE @[h]]]
  /\ global' = [h \in Hosts |-> IF h \in hs THEN Upsert(h, "approved")
                                            ELSE global[h]]
  /\ scanned' = scanned \cup ({a} \X hs)
  /\ cleared' = cleared \cup ({a} \X hs)
  /\ vouched' = vouched \cup hs
  /\ UNCHANGED <<rootScan, inventory, current>>

\* The scan's subdomain_enumeration stage stores the inventory artifact.
CaptureInventory(a, hs) ==
  /\ rootScan[a] = "active"
  /\ inventory' = [inventory EXCEPT ![a] = hs]
  /\ current' = [current EXCEPT ![a] = TRUE]
  /\ UNCHANGED <<ownership, rootScan, scanned, history>>

\* The orchestrator closes the scan (StageRunner).
ScanCloses(a) ==
  /\ rootScan[a] = "active"
  /\ rootScan' = [rootScan EXCEPT ![a] = "closed"]
  /\ current' = [current EXCEPT ![a] = FALSE]
  /\ UNCHANGED <<ownership, inventory, scanned, history>>

--------------------------------------------------------------------------------
Next ==
  \/ \E a \in Assessments :
       \/ create_assessment(a)
       \/ start_scan(a)
       \/ ScanCloses(a)
       \/ \E hs \in SUBSET Below[a] :
            \/ discover_assessment_assets(a, hs)
            \/ CaptureInventory(a, hs)
            \/ start_approved_subdomain_assessments(a, hs)
       \/ \E h \in Hosts :
            \/ start_inventory_asset_assessment(a, h)
            \/ \E decision \in {"approved", "excluded"} :
                 review_assessment_asset(a, h, decision)
  \/ \E h \in Hosts : \E decision \in {"verified", "excluded"} :
       update_exposure_asset_ownership(h, decision)

Spec == Init /\ [][Next]_vars
--------------------------------------------------------------------------------
\* A scan is queued for a host of an assessment only after a person declared or
\* approved it in that very assessment: neither passive discovery nor the
\* decision of another assessment is enough.
ScannedWasCleared == scanned \subseteq cleared

\* The graph calls an asset verified only if a person approved or verified it:
\* merging observations (upsert_exposure_asset) never strengthens ownership.
VerifiedWasVouched == \A h \in Hosts : global[h] = "verified" => h \in vouched

\* Once an asset is excluded only a person's decision about that asset lifts the
\* exclusion; creating assessments, discovering or starting scans never does.
ExclusionSticks ==
  [][\A h \in Hosts : global[h] = "excluded" /\ global'[h] # "excluded" =>
       \/ \E a \in Assessments : review_assessment_asset(a, h, "approved")
       \/ update_exposure_asset_ownership(h, "verified")]_vars

\* The docstring of _combine_ownership: passive observation never weakens or
\* strengthens what a person decided in the graph.
DiscoveryKeepsReview ==
  [][\A h \in Hosts, a \in Assessments, hs \in SUBSET Hosts :
       /\ discover_assessment_assets(a, hs)
       /\ global[h] \in {"verified", "excluded"}
       => global'[h] = global[h]]_vars
================================================================================
