----------------------------- MODULE EvaluatorIntake -----------------------------
(***************************************************************************)
(* The AI evaluator's governance and intake (v3/backend/app/main.py):      *)
(* datasets, client identities, GitHub integrations and live adapters are  *)
(* registered by one user and approved by another; client runners upload   *)
(* packages, analysts record evaluations, judges grade semantic runs, and  *)
(* reports are rendered once per evaluation.                               *)
(*                                                                         *)
(* One action is one statement or one transaction step of a request;       *)
(* requests interleave between them, and any of them may end in an error   *)
(* or with its process.  Roles, signatures, schemas and scores are not     *)
(* modelled: an upload that reaches an action has a valid signature.  The  *)
(* database's own barriers behind the handlers, UNIQUE (package_id) and    *)
(* the immutability triggers, are left out: the handlers keep the          *)
(* properties without them.                                                *)
(***************************************************************************)
EXTENDS Naturals, FiniteSets

CONSTANTS
  Users, Datasets, Identities, Integrations, Adapters,
  Packages,        \* package_id of the client runners
  Requests,        \* requests under way at the same time
  Classification,  \* of every dataset
  Migrated,        \* datasets that only the workspace migration inserts, for
                   \* the evaluations made before there were datasets
  Independent,     \* ai_evaluator_require_independent_approval
  AllowInternal,   \* ai_evaluator_allow_internal_data
  MaxEvaluations,  \* bound on the rows of agent_evaluations
  MaxRuns,         \* bound on the rows of semantic_evaluation_runs
  MaxRenders,      \* different bytes a report may be rendered to
  Instances        \* initial situations: the entries in use already, and how
                   \* many requests of each kind may be made

Clients == Identities \cup Integrations

Entry == Datasets \cup Clients \cup Adapters

None == "none"

Bounded ==
  {"register", "approve", "disable", "upload", "live", "semantic", "direct", "report"}

ASSUME EvaluatorAssumption ==
  /\ Datasets \cap (Clients \cup Adapters) = {}
  /\ Classification \in [Datasets -> {"synthetic", "public", "internal", "restricted"}]
  /\ Migrated \subseteq Datasets
  /\ \A d \in Migrated : Classification[d] = "synthetic"
  /\ Independent \in BOOLEAN /\ AllowInternal \in BOOLEAN
  /\ MaxEvaluations \in Nat /\ MaxRuns \in Nat /\ MaxRenders \in Nat
  /\ Instances \subseteq [ready : SUBSET Entry, budget : [Bounded -> Nat]]
  /\ None \notin Users \cup Entry \cup Packages

VARIABLES
  left,         \* what is left of the behaviour's budget
  status,       \* status of every entry's row, None before it is registered
  creator,      \* its created_by
  approver,     \* its approved_by
  runs,         \* semantic_evaluation_runs
  evaluations,  \* agent_evaluations, the rows inserted since the start
  submissions,  \* evaluator_client_submissions
  file,         \* the bytes in an evaluation's report file, 0 without one
  digest,       \* content_sha256 of its evaluation_reports row, 0 without one
  pc,           \* where a request stands
  arg           \* what it was asked for and what it has read

entries == <<status, creator, approver>>
results == <<evaluations, submissions>>
reports == <<file, digest>>
requests == <<pc, arg>>
vars == <<left, entries, runs, results, reports, requests>>

Run == 1 .. MaxRuns

EvaluationId == 1 .. MaxEvaluations

Content == 1 .. MaxRenders

Decision == {"pass", "fail", "inconclusive"}

NoRun == [status |-> None, dataset |-> None, review |-> FALSE]

SemanticRun ==
  [status : {None, "running", "completed", "failed"}, dataset : Datasets \cup {None},
   review : BOOLEAN]

\* by: the client identity, integration or adapter a result came through.
Evaluation ==
  [id : Nat, by : Clients \cup Adapters \cup {None}, package : Packages \cup {None},
   dataset : Datasets, run : Run \cup {0}, decision : Decision]

NoArg ==
  [user |-> None, entry |-> None, package |-> None, dataset |-> None, run |-> 0,
   review |-> FALSE, id |-> 0, content |-> 0]

Arg ==
  [user : Users \cup {None}, entry : Entry \cup {None}, package : Packages \cup {None},
   dataset : Datasets \cup {None}, run : Run \cup {0}, review : BOOLEAN, id : Nat,
   content : Content \cup {0}]

RequestStep ==
  {"idle", "approve", "resolved", "checked", "locked", "inserted", "judge", "score",
   "render", "store", "record"}

\* Every variable has its type.
TypeOK ==
  /\ left \in [Bounded -> Nat]
  /\ status \in [Entry -> {None, "draft", "approved", "disabled"}]
  /\ creator \in [Entry -> Users \cup {None}]
  /\ approver \in [Entry -> Users \cup {None}]
  /\ runs \in [Run -> SemanticRun]
  /\ evaluations \subseteq Evaluation
  /\ submissions \subseteq [package : Packages, evaluation : Nat, by : Clients]
  /\ file \in [EvaluationId -> Content \cup {0}]
  /\ digest \in [EvaluationId -> Content \cup {0}]
  /\ pc \in [Requests -> RequestStep]
  /\ arg \in [Requests -> Arg]

\* Some entries are in use already, registered by one user and approved by
\* another where that is required; the migration names the user whose evaluation
\* it found both as creator and as approver.
Init ==
  /\ \E i \in Instances, u, v \in Users :
       /\ Independent => u # v
       /\ left = i.budget
       /\ status = [e \in Entry |-> IF e \in i.ready THEN "approved" ELSE None]
       /\ creator = [e \in Entry |-> IF e \in i.ready THEN u ELSE None]
       /\ approver = [e \in Entry |-> IF e \notin i.ready THEN None
                                     ELSE IF e \in Migrated THEN u ELSE v]
  /\ runs = [r \in Run |-> NoRun]
  /\ evaluations = {} /\ submissions = {}
  /\ file = [e \in EvaluationId |-> 0]
  /\ digest = [e \in EvaluationId |-> 0]
  /\ pc = [q \in Requests |-> "idle"]
  /\ arg = [q \in Requests |-> NoArg]

Spend(kind) == left[kind] > 0 /\ left' = [left EXCEPT ![kind] = @ - 1]

\* A request goes on with what it knows.
Go(q, step, known) ==
  /\ pc' = [pc EXCEPT ![q] = step]
  /\ arg' = [arg EXCEPT ![q] = known]

End(q) == Go(q, "idle", NoArg)

\* An error, a lost connection or a lost process: an open transaction is rolled
\* back, what was committed stays.
Abandon(q) ==
  /\ pc[q] # "idle"
  /\ End(q)
  /\ UNCHANGED <<left, entries, runs, results, reports>>
--------------------------------------------------------------------------------
(***************************************************************************)
(* Governance.                                                             *)
(***************************************************************************)

\* A name or version can be registered once.
Register(e, u) ==
  /\ status[e] = None
  /\ Spend("register")
  /\ status' = [status EXCEPT ![e] = "draft"]
  /\ creator' = [creator EXCEPT ![e] = u]
  /\ UNCHANGED <<approver, runs, results, reports, requests>>

register_evaluator_dataset(e, u) == e \in Datasets \ Migrated /\ Register(e, u)

register_evaluator_client_identity(e, u) == e \in Identities /\ Register(e, u)

register_evaluator_github_integration(e, u) == e \in Integrations /\ Register(e, u)

register_evaluator_live_adapter(e, u) == e \in Adapters /\ Register(e, u)

\* Mutant: whoever registered an entry may approve it.
OwnApproval(e, u) == TRUE

\* Another user than the one who registered the entry, where that is required.
MayApprove(e, u) == Independent => creator[e] # u

\* The draft is read and the approver compared with its creator ...
Approve(q, e, u) ==
  /\ pc[q] = "idle"
  /\ Spend("approve")
  /\ status[e] = "draft"
  /\ MayApprove(e, u)
  /\ Go(q, "approve", [NoArg EXCEPT !.user = u, !.entry = e])
  /\ UNCHANGED <<entries, runs, results, reports>>

approve_evaluator_dataset(q, e, u) == e \in Datasets /\ Approve(q, e, u)

approve_evaluator_client_identity(q, e, u) == e \in Identities /\ Approve(q, e, u)

approve_evaluator_github_integration(q, e, u) == e \in Integrations /\ Approve(q, e, u)

approve_evaluator_live_adapter(q, e, u) == e \in Adapters /\ Approve(q, e, u)

\* Mutant: the UPDATE does not look at the status again.
UpdateAnyRow(q) ==
  /\ pc[q] = "approve"
  /\ status' = [status EXCEPT ![arg[q].entry] = "approved"]
  /\ approver' = [approver EXCEPT ![arg[q].entry] = arg[q].user]
  /\ End(q)
  /\ UNCHANGED <<left, creator, runs, results, reports>>

\* ... and updated if it still is a draft; otherwise the request is refused.
UpdateDraft(q) ==
  /\ pc[q] = "approve"
  /\ \/ /\ status[arg[q].entry] = "draft"
        /\ status' = [status EXCEPT ![arg[q].entry] = "approved"]
        /\ approver' = [approver EXCEPT ![arg[q].entry] = arg[q].user]
     \/ /\ status[arg[q].entry] # "draft"
        /\ UNCHANGED <<status, approver>>
  /\ End(q)
  /\ UNCHANGED <<left, creator, runs, results, reports>>

Disable(e) ==
  /\ status[e] \in {"draft", "approved"}
  /\ Spend("disable")
  /\ status' = [status EXCEPT ![e] = "disabled"]
  /\ UNCHANGED <<creator, approver, runs, results, reports, requests>>

disable_evaluator_client_identity(e) == e \in Identities /\ Disable(e)

disable_evaluator_github_integration(e) == e \in Integrations /\ Disable(e)

disable_evaluator_live_adapter(e) == e \in Adapters /\ Disable(e)

Governance ==
  \/ \E e \in Entry, u \in Users :
       \/ register_evaluator_dataset(e, u)
       \/ register_evaluator_client_identity(e, u)
       \/ register_evaluator_github_integration(e, u)
       \/ register_evaluator_live_adapter(e, u)
       \/ \E q \in Requests :
            \/ approve_evaluator_dataset(q, e, u)
            \/ approve_evaluator_client_identity(q, e, u)
            \/ approve_evaluator_github_integration(q, e, u)
            \/ approve_evaluator_live_adapter(q, e, u)
  \/ \E q \in Requests : UpdateDraft(q)
  \/ \E e \in Entry :
       \/ disable_evaluator_client_identity(e)
       \/ disable_evaluator_github_integration(e)
       \/ disable_evaluator_live_adapter(e)
--------------------------------------------------------------------------------
(***************************************************************************)
(* Intake.                                                                 *)
(***************************************************************************)

\* approved_evaluator_dataset.
approved_evaluator_dataset(d) == d \in Datasets /\ status[d] = "approved"

\* The new row of agent_evaluations.
NewEvaluation(q, decision) ==
  [id |-> Cardinality(evaluations) + 1, by |-> arg[q].entry,
   package |-> arg[q].package, dataset |-> arg[q].dataset, run |-> arg[q].run,
   decision |-> decision]

HasRoom == Cardinality(evaluations) < MaxEvaluations

\* A package names its identity, or its token the workflow: the row is approved.
_resolve_client_run_identity(q, p, e) ==
  /\ pc[q] = "idle"
  /\ Spend("upload")
  /\ status[e] = "approved"
  /\ Go(q, "resolved", [NoArg EXCEPT !.entry = e, !.package = p])
  /\ UNCHANGED <<entries, runs, results, reports>>

\* The dataset is looked up, the package converted and scored.
ingest_client_runner_evaluation(q, d) ==
  /\ pc[q] = "resolved"
  /\ approved_evaluator_dataset(d)
  /\ Go(q, "checked", [arg[q] EXCEPT !.dataset = d])
  /\ UNCHANGED <<left, entries, runs, results, reports>>

\* Mutant: the package is looked up without the lock.
LookUpUnlocked(q) ==
  /\ pc[q] = "checked"
  /\ \A s \in submissions : s.package # arg[q].package
  /\ Go(q, "locked", arg[q])
  /\ UNCHANGED <<left, entries, runs, results, reports>>

\* The transaction takes the package's advisory lock, which another upload of
\* the package may hold, and only then looks for an earlier submission.
LockPackage(q) ==
  /\ pc[q] = "checked"
  /\ \A r \in Requests :
       ~(pc[r] \in {"locked", "inserted"} /\ arg[r].package = arg[q].package)
  /\ \/ /\ \A s \in submissions : s.package # arg[q].package
        /\ Go(q, "locked", arg[q])
     \/ /\ \E s \in submissions : s.package = arg[q].package
        /\ End(q)
  /\ UNCHANGED <<left, entries, runs, results, reports>>

\* Mutant: the evaluation is inserted outside the transaction.
InsertAutocommitted(q) ==
  /\ pc[q] = "locked"
  /\ HasRoom
  /\ evaluations' = evaluations \cup {NewEvaluation(q, "pass")}
  /\ Go(q, "inserted", arg[q])
  /\ UNCHANGED <<left, entries, runs, submissions, reports>>

\* The evaluation's row is inserted; nobody sees it before the commit.
InsertEvaluation(q) ==
  /\ pc[q] = "locked"
  /\ Go(q, "inserted", arg[q])
  /\ UNCHANGED <<left, entries, runs, results, reports>>

\* The submission follows, and both are committed.
CommitSubmission(q) ==
  /\ pc[q] = "inserted"
  /\ HasRoom
  /\ \E decision \in Decision :
       LET new == NewEvaluation(q, decision) IN
       /\ evaluations' = evaluations \cup {new}
       /\ submissions' = submissions \cup
            {[package |-> new.package, evaluation |-> new.id, by |-> new.by]}
  /\ End(q)
  /\ UNCHANGED <<left, entries, runs, reports>>

\* What may be sent to an endpoint or a judge outside.
MaySend(d) ==
  \/ Classification[d] \in {"synthetic", "public"}
  \/ Classification[d] = "internal" /\ AllowInternal

\* The dataset and the adapter are looked up, then the endpoint is invoked.
run_live_adapter_evaluation(q, d, e) ==
  /\ pc[q] = "idle"
  /\ Spend("live")
  /\ approved_evaluator_dataset(d) /\ MaySend(d)
  /\ status[e] = "approved"
  /\ Go(q, "score", [NoArg EXCEPT !.entry = e, !.dataset = d])
  /\ UNCHANGED <<entries, runs, results, reports>>

\* A semantic run is inserted as running and handed to the judge.
create_semantic_evaluation_run(q, d, r) ==
  /\ pc[q] = "idle"
  /\ Spend("semantic")
  /\ approved_evaluator_dataset(d) /\ MaySend(d)
  /\ runs[r] = NoRun
  /\ runs' = [runs EXCEPT ![r] = [status |-> "running", dataset |-> d, review |-> FALSE]]
  /\ Go(q, "judge", [NoArg EXCEPT !.run = r])
  /\ UNCHANGED <<entries, results, reports>>

\* Mutant: a status the other handlers do not know.
JudgeErrors(q) ==
  /\ pc[q] = "judge"
  /\ runs' = [runs EXCEPT ![arg[q].run].status = "error"]
  /\ End(q)
  /\ UNCHANGED <<left, entries, results, reports>>

\* The judge's grades, which may ask for human review, or its error.
JudgeAnswers(q) ==
  /\ pc[q] = "judge"
  /\ \/ \E review \in BOOLEAN :
          runs' = [runs EXCEPT ![arg[q].run].status = "completed",
                               ![arg[q].run].review = review]
     \/ runs' = [runs EXCEPT ![arg[q].run].status = "failed"]
  /\ End(q)
  /\ UNCHANGED <<left, entries, results, reports>>

\* Mutant: the run's dataset is not compared.
AnyCompletedRun(r, d) == runs[r].status = "completed"

\* A semantic run an evaluation on d may import its grades from.
Importable(r, d) == runs[r].status = "completed" /\ runs[r].dataset = d

\* An evaluation on submitted grades, or on those of a semantic run.
create_evaluation(q, d, r) ==
  /\ pc[q] = "idle"
  /\ Spend("direct")
  /\ approved_evaluator_dataset(d)
  /\ \/ /\ r = 0
        /\ Go(q, "score", [NoArg EXCEPT !.dataset = d])
     \/ /\ r \in Run /\ Importable(r, d)
        /\ Go(q, "score", [NoArg EXCEPT !.dataset = d, !.run = r, !.review = runs[r].review])
  /\ UNCHANGED <<entries, runs, results, reports>>

\* Mutant: the semantic run's request for review is forgotten.
DecisionAsScored(decision, review) == decision

\* A pass is held when the semantic run asks for human review.
ReleaseDecision(decision, review) ==
  IF review /\ decision = "pass" THEN "inconclusive" ELSE decision

\* The scored evaluation is inserted.
RecordEvaluation(q) ==
  /\ pc[q] = "score"
  /\ HasRoom
  /\ \E decision \in Decision :
       evaluations' = evaluations \cup
         {NewEvaluation(q, ReleaseDecision(decision, arg[q].review))}
  /\ End(q)
  /\ UNCHANGED <<left, entries, runs, submissions, reports>>

Intake ==
  \E q \in Requests :
    \/ \E p \in Packages, e \in Clients : _resolve_client_run_identity(q, p, e)
    \/ \E d \in Datasets :
         \/ ingest_client_runner_evaluation(q, d)
         \/ \E e \in Adapters : run_live_adapter_evaluation(q, d, e)
         \/ \E r \in Run : create_semantic_evaluation_run(q, d, r)
         \/ \E r \in Run \cup {0} : create_evaluation(q, d, r)
    \/ LockPackage(q)
    \/ InsertEvaluation(q)
    \/ CommitSubmission(q)
    \/ JudgeAnswers(q)
    \/ RecordEvaluation(q)
    \/ Abandon(q)
--------------------------------------------------------------------------------
(***************************************************************************)
(* The report of an evaluation; DOCX and PDF are handled alike, one is     *)
(* modelled.  Renderings carry the time: two of them differ or not.        *)
(***************************************************************************)

generate_evaluation_reports(q, e) ==
  /\ pc[q] = "idle"
  /\ Spend("report")
  /\ e.id \in EvaluationId /\ digest[e.id] = 0
  /\ Go(q, "render", [NoArg EXCEPT !.id = e.id])
  /\ UNCHANGED <<entries, runs, results, reports>>

\* Rendering ends; when a row has appeared meanwhile it is returned.
RenderReport(q) ==
  /\ pc[q] = "render"
  /\ \/ digest[arg[q].id] # 0 /\ End(q)
     \/ /\ digest[arg[q].id] = 0
        /\ \E c \in Content : Go(q, "store", [arg[q] EXCEPT !.content = c])
  /\ UNCHANGED <<left, entries, runs, results, reports>>

\* Mutant: the file is written whether it is there or not.
OverwriteFile(q) ==
  /\ pc[q] = "store"
  /\ file' = [file EXCEPT ![arg[q].id] = arg[q].content]
  /\ Go(q, "record", arg[q])
  /\ UNCHANGED <<left, entries, runs, results, digest>>

\* The file is put in place unless there is one.
StoreFile(q) ==
  /\ pc[q] = "store"
  /\ file' = [file EXCEPT ![arg[q].id] = IF @ = 0 THEN arg[q].content ELSE @]
  /\ Go(q, "record", arg[q])
  /\ UNCHANGED <<left, entries, runs, results, digest>>

\* The row is inserted unless there is one.
_persist_report(q) ==
  /\ pc[q] = "record"
  /\ digest' = [digest EXCEPT ![arg[q].id] = IF @ = 0 THEN arg[q].content ELSE @]
  /\ End(q)
  /\ UNCHANGED <<left, entries, runs, results, file>>

Reporting ==
  \E q \in Requests :
    \/ \E e \in evaluations : generate_evaluation_reports(q, e)
    \/ RenderReport(q)
    \/ StoreFile(q)
    \/ _persist_report(q)

Next == Governance \/ Intake \/ Reporting

Spec == Init /\ [][Next]_vars
--------------------------------------------------------------------------------
(***************************************************************************)
(* Properties.                                                             *)
(***************************************************************************)

\* A package counts once: however often and by whomever it is uploaded, there
\* is at most one evaluation, hence one release decision, for its package_id.
PackageCountsOnce ==
  \A e, f \in evaluations : e.package # None /\ e.package = f.package => e = f

\* Evaluations that came in a package and submissions correspond one to one,
\* wherever a request ends: no release decision without its provenance.
DecisionsHaveProvenance ==
  /\ \A e \in evaluations : e.package # None =>
       [package |-> e.package, evaluation |-> e.id, by |-> e.by] \in submissions
  /\ \A s \in submissions : \E e \in evaluations :
       e.id = s.evaluation /\ e.package = s.package /\ e.by = s.by

\* x was approved, by another user than the one who registered it where that is
\* required and the workspace migration did not insert it; it may have been
\* disabled since.
Vouched(x) ==
  /\ status[x] \in {"approved", "disabled"}
  /\ approver[x] # None
  /\ Independent => approver[x] # creator[x] \/ x \in Migrated

\* Every evaluation rests on a dataset, and on an identity or adapter where it
\* has one, that was approved, and independently where that is required.  The
\* datasets of the workspace migration alone escape the second user: the
\* migration inserts them as approved by their creator, and the look-up does not
\* tell them from others.
RestsOnApproval ==
  \A e \in evaluations : \A x \in {e.dataset, e.by} \ {None} : Vouched(x)

\* Grades are imported from a semantic run on the same dataset, which the judge
\* has completed, and a run that asks for human review never yields a pass.
SemanticHold ==
  \A e \in evaluations : e.run # 0 =>
    /\ runs[e.run].status = "completed"
    /\ runs[e.run].dataset = e.dataset
    /\ runs[e.run].review => e.decision # "pass"

\* The entry is disabled and no request under way has looked it up before.
CutOff(x) ==
  /\ status[x] = "disabled"
  /\ \A q \in Requests : pc[q] # "approve" => arg[q].entry # x

\* Disabling is final: an entry once cut off stays so, and no result comes
\* through it any more, whatever approval was under way.
DisablingIsFinal ==
  [][\A x \in Entry : CutOff(x) =>
       /\ CutOff(x)'
       /\ {e \in evaluations' : e.by = x} = {e \in evaluations : e.by = x}]_vars

\* The recorded digest matches the stored file: a download verifies.
Verifies(e) == digest[e] # 0 /\ file[e] = digest[e]

\* A report that verifies does so for good: no later or slower rendering of the
\* same evaluation replaces its file or its row.
ReportStaysVerified ==
  [][\A e \in EvaluationId : Verifies(e) => Verifies(e)']_vars
--------------------------------------------------------------------------------
\* The final grades of the semantic runs.
Graded ==
  {[run |-> r, dataset |-> runs[r].dataset, review |-> runs[r].review] :
     r \in {k \in Run : runs[k].status = "completed"}}

Ledger ==
  INSTANCE ReleaseLedger WITH
    approved <- {x \in Entry : Vouched(x)},
    graded <- Graded,
    ledger <- evaluations

\* The handlers of the evaluator, however their requests interleave and wherever
\* they end, append to a ledger of release decisions: none is changed or removed,
\* and each is justified by what was approved and graded before it.
ImplementsLedger == Ledger!Spec
================================================================================
