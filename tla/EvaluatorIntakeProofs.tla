-------------------------- MODULE EvaluatorIntakeProofs --------------------------
(***************************************************************************)
(* Proofs about EvaluatorIntake, for any users, entries, packages and      *)
(* number of concurrent requests.  The inductive invariant IInv adds to    *)
(* the properties what a request under way may rely on: the entry and the  *)
(* dataset it looked up were approved and stay so or disabled, the package *)
(* it locked has no submission and no other request has it, the run it     *)
(* judges is its own and the run it imports is completed.                  *)
(***************************************************************************)
EXTENDS EvaluatorIntake, FiniteSetTheorems, TLAPS

\* Every approved entry is vouched for; evaluations are finitely many.
Registry ==
  /\ IsFiniteSet(evaluations)
  /\ \A x \in Entry : status[x] = "approved" => Vouched(x)

\* A pending approval is of a registered entry and by an eligible user.
ApprovalOK(q) ==
  pc[q] = "approve" =>
    /\ arg[q].entry \in Entry /\ arg[q].user \in Users
    /\ status[arg[q].entry] # None
    /\ Independent => creator[arg[q].entry] # arg[q].user

Uploading == {"resolved", "checked", "locked", "inserted"}

Holding == {"locked", "inserted"}

\* An upload under way knows an entry and, later, a dataset that were approved,
\* and holds its package only while there is no submission of it.
UploadOK(q) ==
  /\ pc[q] \in Uploading =>
       /\ arg[q].entry \in Clients /\ Vouched(arg[q].entry)
       /\ arg[q].package \in Packages /\ arg[q].run = 0
       /\ pc[q] # "resolved" => arg[q].dataset \in Datasets /\ Vouched(arg[q].dataset)
  /\ pc[q] \in Holding => \A s \in submissions : s.package # arg[q].package

\* A run with its judge is running.
JudgeOK(q) ==
  pc[q] = "judge" => arg[q].run \in Run /\ runs[arg[q].run].status = "running"

\* What a scored evaluation rests on.
ScoreOK(q) ==
  pc[q] = "score" =>
    /\ arg[q].dataset \in Datasets /\ Vouched(arg[q].dataset)
    /\ arg[q].package = None
    /\ arg[q].entry \in Adapters \cup {None}
    /\ arg[q].entry # None => Vouched(arg[q].entry)
    /\ arg[q].run # 0 =>
         /\ arg[q].run \in Run
         /\ runs[arg[q].run].status = "completed"
         /\ runs[arg[q].run].dataset = arg[q].dataset
         /\ runs[arg[q].run].review => arg[q].review

\* A report being rendered is of an evaluation, and its bytes are known later.
RenderOK(q) ==
  /\ pc[q] \in {"render", "store", "record"} => arg[q].id \in EvaluationId
  /\ pc[q] \in {"store", "record"} => arg[q].content \in Content

RequestOK(q) ==
  ApprovalOK(q) /\ UploadOK(q) /\ JudgeOK(q) /\ ScoreOK(q) /\ RenderOK(q)

\* The advisory lock: one request holds a package.  A run has one judge.
Exclusive ==
  \A q, r \in Requests : q # r =>
    /\ pc[q] \in Holding /\ pc[r] \in Holding => arg[q].package # arg[r].package
    /\ pc[q] = "judge" /\ pc[r] = "judge" => arg[q].run # arg[r].run

IInv ==
  /\ TypeOK /\ Registry
  /\ Exclusive /\ \A q \in Requests : RequestOK(q)
  /\ PackageCountsOnce /\ DecisionsHaveProvenance /\ RestsOnApproval /\ SemanticHold
--------------------------------------------------------------------------------
\* The steps of Next, the handlers of one kind of entry taken together.
LEMMA Steps ==
  ASSUME Next
  PROVE
    \/ \E e \in Entry, u \in Users : Register(e, u)
    \/ \E q \in Requests, e \in Entry, u \in Users : Approve(q, e, u)
    \/ \E q \in Requests : UpdateDraft(q)
    \/ \E e \in Entry : Disable(e)
    \/ \E q \in Requests, p \in Packages, e \in Clients : _resolve_client_run_identity(q, p, e)
    \/ \E q \in Requests, d \in Datasets : ingest_client_runner_evaluation(q, d)
    \/ \E q \in Requests : LockPackage(q)
    \/ \E q \in Requests : InsertEvaluation(q)
    \/ \E q \in Requests : CommitSubmission(q)
    \/ \E q \in Requests, d \in Datasets, e \in Adapters : run_live_adapter_evaluation(q, d, e)
    \/ \E q \in Requests, d \in Datasets, r \in Run : create_semantic_evaluation_run(q, d, r)
    \/ \E q \in Requests : JudgeAnswers(q)
    \/ \E q \in Requests, d \in Datasets, r \in Run \cup {0} : create_evaluation(q, d, r)
    \/ \E q \in Requests : RecordEvaluation(q)
    \/ \E q \in Requests : Abandon(q)
    \/ \E q \in Requests : \E e \in evaluations : generate_evaluation_reports(q, e)
    \/ \E q \in Requests : RenderReport(q)
    \/ \E q \in Requests : StoreFile(q)
    \/ \E q \in Requests : _persist_report(q)
<1>1. CASE Governance
  BY <1>1 DEF Governance, register_evaluator_dataset, register_evaluator_client_identity,
     register_evaluator_github_integration, register_evaluator_live_adapter,
     approve_evaluator_dataset, approve_evaluator_client_identity,
     approve_evaluator_github_integration, approve_evaluator_live_adapter,
     disable_evaluator_client_identity, disable_evaluator_github_integration,
     disable_evaluator_live_adapter
<1>2. CASE Intake
  BY <1>2 DEF Intake
<1>3. CASE Reporting
  BY <1>3 DEF Reporting
<1> QED
  BY <1>1, <1>2, <1>3 DEF Next

\* The initial states satisfy the invariant.
LEMMA Initially == Init => IInv
<1> SUFFICES ASSUME Init PROVE IInv
  OBVIOUS
<1>1. PICK i \in Instances, u, v \in Users :
        /\ Independent => u # v
        /\ left = i.budget
        /\ status = [e \in Entry |-> IF e \in i.ready THEN "approved" ELSE None]
        /\ creator = [e \in Entry |-> IF e \in i.ready THEN u ELSE None]
        /\ approver = [e \in Entry |-> IF e \notin i.ready THEN None
                                      ELSE IF e \in Migrated THEN u ELSE v]
  BY DEF Init
<1>2. i.budget \in [Bounded -> Nat]
  BY EvaluatorAssumption
<1>3. NoRun \in SemanticRun /\ NoArg \in Arg
  BY DEF NoRun, SemanticRun, NoArg, Arg
<1>4. TypeOK
  BY <1>1, <1>2, <1>3 DEF Init, TypeOK, RequestStep
<1>5. Registry
  <2>1. IsFiniteSet(evaluations)
    BY FS_EmptySet DEF Init
  <2>2. u # None /\ v # None
    BY EvaluatorAssumption
  <2>3. \A x \in Entry : status[x] = "approved" => Vouched(x)
    BY <1>1, <2>2 DEF Vouched, None
  <2> QED
    BY <2>1, <2>3 DEF Registry
<1>6. Exclusive /\ \A q \in Requests : RequestOK(q)
  BY DEF Init, Exclusive, RequestOK, ApprovalOK, UploadOK, JudgeOK, ScoreOK, RenderOK, Uploading, Holding
<1>7. PackageCountsOnce /\ DecisionsHaveProvenance /\ RestsOnApproval /\ SemanticHold
  BY DEF Init, PackageCountsOnce, DecisionsHaveProvenance, RestsOnApproval, SemanticHold
<1> QED
  BY <1>4, <1>5, <1>6, <1>7 DEF IInv
--------------------------------------------------------------------------------
\* What a request's move does to the requests.
LEMMA Moves ==
  ASSUME TypeOK, NEW q \in Requests, NEW step \in RequestStep, NEW known \in Arg,
         Go(q, step, known)
  PROVE  /\ pc' \in [Requests -> RequestStep] /\ arg' \in [Requests -> Arg]
         /\ pc'[q] = step /\ arg'[q] = known
         /\ \A r \in Requests \ {q} : pc'[r] = pc[r] /\ arg'[r] = arg[r]
  BY DEF TypeOK, Go

\* A request that ends knows nothing.
LEMMA Ends == NoArg \in Arg /\ "idle" \in RequestStep
  BY DEF NoArg, Arg, RequestStep

\* A step that only moves the request q, to a place where it knows what it needs
\* and excludes the others, preserves the invariant.
LEMMA MoveStep ==
  ASSUME IInv, NEW q \in Requests, NEW step \in RequestStep, NEW known \in Arg,
         Go(q, step, known),
         left' \in [Bounded -> Nat], UNCHANGED <<entries, runs, results>>,
         file' \in [EvaluationId -> Content \cup {0}],
         digest' \in [EvaluationId -> Content \cup {0}],
         RequestOK(q)',
         step \in Holding => \A r \in Requests \ {q} :
           ~(pc[r] \in Holding /\ arg[r].package = known.package),
         step # "judge"
  PROVE  IInv'
<1>1. /\ pc' \in [Requests -> RequestStep] /\ arg' \in [Requests -> Arg]
      /\ pc'[q] = step /\ arg'[q] = known
      /\ \A r \in Requests \ {q} : pc'[r] = pc[r] /\ arg'[r] = arg[r]
  BY Moves DEF IInv
<1>2. TypeOK'
  BY <1>1 DEF IInv, TypeOK, entries, results
<1>3. Registry'
  BY DEF IInv, Registry, Vouched, entries, results
<1>4. Exclusive'
  BY <1>1 DEF IInv, Exclusive
<1>5. ASSUME NEW r \in Requests PROVE RequestOK(r)'
  <2>1. CASE r = q
    BY <2>1
  <2>2. CASE r # q
    BY <1>1, <2>2 DEF IInv, RequestOK, ApprovalOK, UploadOK, JudgeOK, ScoreOK, RenderOK,
       Vouched, entries, results
  <2> QED
    BY <2>1, <2>2
<1>6. (PackageCountsOnce /\ DecisionsHaveProvenance /\ RestsOnApproval /\ SemanticHold)'
  BY DEF IInv, PackageCountsOnce, DecisionsHaveProvenance, RestsOnApproval, SemanticHold,
     Vouched, entries, results
<1> QED
  BY <1>2, <1>3, <1>4, <1>5, <1>6 DEF IInv
--------------------------------------------------------------------------------
\* A budget that was spent is a budget.
LEMMA Spent ==
  ASSUME TypeOK, NEW kind \in Bounded, Spend(kind)
  PROVE  left' \in [Bounded -> Nat]
  BY DEF TypeOK, Spend

\* Requests that start: an approval, an upload, a live run, an evaluation.
LEMMA StartStep ==
  ASSUME IInv, NEW q \in Requests,
         \/ \E e \in Entry, u \in Users : Approve(q, e, u)
         \/ \E p \in Packages, e \in Clients : _resolve_client_run_identity(q, p, e)
         \/ \E d \in Datasets, e \in Adapters : run_live_adapter_evaluation(q, d, e)
         \/ \E d \in Datasets, r \in Run \cup {0} : create_evaluation(q, d, r)
         \/ \E e \in evaluations : generate_evaluation_reports(q, e)
  PROVE  IInv'
<1> USE DEF RequestStep, Holding, reports
<1>1. ASSUME NEW e \in Entry, NEW u \in Users, Approve(q, e, u) PROVE IInv'
  <2> DEFINE known == [NoArg EXCEPT !.user = u, !.entry = e]
  <2>1. known \in Arg /\ known.entry = e /\ known.user = u
    BY DEF NoArg, Arg
  <2>2. left' \in [Bounded -> Nat]
    BY <1>1, Spent DEF IInv, Approve, Bounded
  <2>3. pc'[q] = "approve" /\ arg'[q] = known
    BY <1>1, <2>1, Moves DEF IInv, Approve
  <2>4. RequestOK(q)'
    BY <1>1, <2>1, <2>3 DEF Approve, MayApprove, None, entries,
       RequestOK, ApprovalOK, UploadOK, JudgeOK, ScoreOK, RenderOK, Uploading
  <2> QED
    BY <1>1, <2>1, <2>2, <2>4, MoveStep DEF IInv, TypeOK, Approve
<1>2. ASSUME NEW p \in Packages, NEW e \in Clients, _resolve_client_run_identity(q, p, e)
      PROVE  IInv'
  <2> DEFINE known == [NoArg EXCEPT !.entry = e, !.package = p]
  <2>1. known \in Arg /\ known.entry = e /\ known.package = p /\ known.run = 0
    BY DEF NoArg, Arg, Entry
  <2>2. left' \in [Bounded -> Nat]
    BY <1>2, Spent DEF IInv, _resolve_client_run_identity, Bounded
  <2>3. pc'[q] = "resolved" /\ arg'[q] = known
    BY <1>2, <2>1, Moves DEF IInv, _resolve_client_run_identity
  <2>4. Vouched(e)'
    BY <1>2 DEF IInv, Registry, Vouched, _resolve_client_run_identity, entries, Entry
  <2>5. RequestOK(q)'
    BY <2>1, <2>3, <2>4 DEF RequestOK, ApprovalOK, UploadOK, JudgeOK, ScoreOK, RenderOK, Uploading
  <2> QED
    BY <1>2, <2>1, <2>2, <2>5, MoveStep DEF IInv, TypeOK, _resolve_client_run_identity
<1>3. ASSUME NEW d \in Datasets, NEW e \in Adapters, run_live_adapter_evaluation(q, d, e)
      PROVE  IInv'
  <2> DEFINE known == [NoArg EXCEPT !.entry = e, !.dataset = d]
  <2>1. known \in Arg /\ known.entry = e /\ known.dataset = d /\ known.run = 0 /\ known.package = None
    BY DEF NoArg, Arg, Entry
  <2>2. left' \in [Bounded -> Nat]
    BY <1>3, Spent DEF IInv, run_live_adapter_evaluation, Bounded
  <2>3. pc'[q] = "score" /\ arg'[q] = known
    BY <1>3, <2>1, Moves DEF IInv, run_live_adapter_evaluation
  <2>4. Vouched(e)' /\ Vouched(d)'
    BY <1>3 DEF IInv, Registry, Vouched, run_live_adapter_evaluation, approved_evaluator_dataset,
       entries, Entry
  <2>5. RequestOK(q)'
    BY <2>1, <2>3, <2>4 DEF RequestOK, ApprovalOK, UploadOK, JudgeOK, ScoreOK, RenderOK, Uploading
  <2> QED
    BY <1>3, <2>1, <2>2, <2>5, MoveStep DEF IInv, TypeOK, run_live_adapter_evaluation
<1>4. ASSUME NEW d \in Datasets, NEW r \in Run \cup {0}, create_evaluation(q, d, r) PROVE IInv'
  <2>1. left' \in [Bounded -> Nat] /\ UNCHANGED <<entries, runs, results, reports>>
    BY <1>4, Spent DEF IInv, create_evaluation, Bounded
  <2>2. Vouched(d)'
    BY <1>4 DEF IInv, Registry, Vouched, create_evaluation, approved_evaluator_dataset, entries, Entry
  <2>3. PICK known \in Arg :
          /\ Go(q, "score", known)
          /\ known.dataset = d /\ known.entry = None /\ known.package = None
          /\ known.run # 0 =>
               known.run \in Run /\ Importable(known.run, d) /\ known.review = runs[known.run].review
    <3>1. CASE r = 0
      <4> DEFINE new == [NoArg EXCEPT !.dataset = d]
      <4>1. new \in Arg /\ new.dataset = d /\ new.entry = None /\ new.package = None /\ new.run = 0
        BY DEF NoArg, Arg
      <4>2. r \notin Run
        BY <3>1 DEF Run
      <4>3. Go(q, "score", new)
        BY <1>4, <4>2 DEF create_evaluation
      <4> QED
        BY <4>1, <4>3
    <3>2. CASE r \in Run
      <4>1. runs[r].review \in BOOLEAN
        BY <3>2 DEF IInv, TypeOK, SemanticRun
      <4>2. r # 0
        BY <3>2 DEF Run
      <4> DEFINE new == [NoArg EXCEPT !.dataset = d, !.run = r, !.review = runs[r].review]
      <4>3. /\ new \in Arg /\ new.dataset = d /\ new.entry = None /\ new.package = None
            /\ new.run = r /\ new.review = runs[r].review
        BY <3>2, <4>1 DEF NoArg, Arg
      <4>4. Go(q, "score", new) /\ Importable(r, d)
        BY <1>4, <4>2 DEF create_evaluation
      <4> QED
        BY <3>2, <4>3, <4>4
    <3> QED
      BY <3>1, <3>2
  <2>4. pc'[q] = "score" /\ arg'[q] = known
    BY <2>3, Moves DEF IInv
  <2>5. RequestOK(q)'
    BY <2>1, <2>2, <2>3, <2>4 DEF RequestOK, ApprovalOK, UploadOK, JudgeOK, ScoreOK, RenderOK,
       Uploading, Importable
  <2> QED
    BY <2>1, <2>3, <2>5, MoveStep DEF IInv, TypeOK
<1>5. ASSUME NEW e \in evaluations, generate_evaluation_reports(q, e) PROVE IInv'
  <2> DEFINE known == [NoArg EXCEPT !.id = e.id]
  <2>0. e.id \in EvaluationId /\ e.id \in Nat
    BY <1>5, EvaluatorAssumption DEF EvaluationId, generate_evaluation_reports
  <2>1. known \in Arg /\ known.id = e.id
    BY <2>0 DEF NoArg, Arg
  <2>2. left' \in [Bounded -> Nat]
    BY <1>5, Spent DEF IInv, generate_evaluation_reports, Bounded
  <2>3. pc'[q] = "render" /\ arg'[q] = known
    BY <1>5, <2>1, Moves DEF IInv, generate_evaluation_reports
  <2>4. RequestOK(q)'
    BY <2>0, <2>1, <2>3 DEF RequestOK, ApprovalOK, UploadOK, JudgeOK, ScoreOK, RenderOK, Uploading
  <2> QED
    BY <1>5, <2>1, <2>2, <2>4, MoveStep DEF IInv, TypeOK, generate_evaluation_reports
<1> QED
  BY <1>1, <1>2, <1>3, <1>4, <1>5

\* An upload goes on: scored, locked, inserted.
LEMMA UploadStep ==
  ASSUME IInv, NEW q \in Requests,
         \/ \E d \in Datasets : ingest_client_runner_evaluation(q, d)
         \/ LockPackage(q)
         \/ InsertEvaluation(q)
  PROVE  IInv'
<1> USE DEF RequestStep, reports
<1>1. left' \in [Bounded -> Nat] /\ UNCHANGED <<entries, runs, results, reports>>
  BY DEF IInv, TypeOK, ingest_client_runner_evaluation, LockPackage, InsertEvaluation
<1>2. arg[q] \in Arg /\ RequestOK(q)
  BY DEF IInv, TypeOK
<1>3. ASSUME NEW d \in Datasets, ingest_client_runner_evaluation(q, d) PROVE IInv'
  <2> DEFINE known == [arg[q] EXCEPT !.dataset = d]
  <2>1. /\ known \in Arg /\ known.entry = arg[q].entry /\ known.package = arg[q].package
        /\ known.run = arg[q].run /\ known.dataset = d
    BY <1>2 DEF Arg
  <2>2. pc'[q] = "checked" /\ arg'[q] = known
    BY <1>3, <2>1, Moves DEF IInv, ingest_client_runner_evaluation
  <2>3. Vouched(d)'
    BY <1>1, <1>3 DEF IInv, Registry, Vouched, ingest_client_runner_evaluation,
       approved_evaluator_dataset, entries, Entry
  <2>4. RequestOK(q)'
    BY <1>1, <1>2, <1>3, <2>1, <2>2, <2>3 DEF ingest_client_runner_evaluation, RequestOK,
       ApprovalOK, UploadOK, JudgeOK, ScoreOK, RenderOK, Uploading, Holding, Vouched, entries
  <2> QED
    BY <1>1, <1>3, <2>1, <2>4, MoveStep DEF IInv, TypeOK, ingest_client_runner_evaluation, Holding
<1>4. ASSUME LockPackage(q), Go(q, "locked", arg[q]),
             \A s \in submissions : s.package # arg[q].package
      PROVE  IInv'
  <2>1. pc'[q] = "locked" /\ arg'[q] = arg[q]
    BY <1>2, <1>4, Moves DEF IInv
  <2>2. RequestOK(q)'
    BY <1>1, <1>2, <1>4, <2>1 DEF LockPackage, RequestOK, ApprovalOK, UploadOK, JudgeOK, ScoreOK,
       RenderOK, Uploading, Holding, Vouched, entries, results
  <2> QED
    BY <1>1, <1>2, <1>4, <2>2, MoveStep DEF IInv, TypeOK, LockPackage, Holding
<1>5. ASSUME End(q) PROVE IInv'
  <2>1. pc'[q] = "idle" /\ arg'[q] = NoArg
    BY <1>5, Moves, Ends DEF IInv, End
  <2>2. RequestOK(q)'
    BY <2>1 DEF RequestOK, ApprovalOK, UploadOK, JudgeOK, ScoreOK, RenderOK, Uploading, Holding
  <2> QED
    BY <1>1, <1>5, <2>2, Ends, MoveStep DEF IInv, TypeOK, End, Holding
<1>6. ASSUME InsertEvaluation(q) PROVE IInv'
  <2>1. pc'[q] = "inserted" /\ arg'[q] = arg[q]
    BY <1>2, <1>6, Moves DEF IInv, InsertEvaluation
  <2>2. RequestOK(q)'
    BY <1>1, <1>2, <1>6, <2>1 DEF InsertEvaluation, RequestOK, ApprovalOK, UploadOK, JudgeOK, ScoreOK,
       RenderOK, Uploading, Holding, Vouched, entries, results
  <2>3. \A r \in Requests \ {q} : ~(pc[r] \in Holding /\ arg[r].package = arg[q].package)
    BY <1>6 DEF IInv, Exclusive, InsertEvaluation, Holding
  <2> QED
    BY <1>1, <1>2, <1>6, <2>2, <2>3, MoveStep DEF IInv, TypeOK, InsertEvaluation
<1> QED
  BY <1>3, <1>4, <1>5, <1>6 DEF LockPackage

\* A report goes on, or a request ends without an effect.
LEMMA ReportStep ==
  ASSUME IInv, NEW q \in Requests,
         RenderReport(q) \/ StoreFile(q) \/ _persist_report(q) \/ Abandon(q)
  PROVE  IInv'
<1> USE DEF RequestStep, reports
<1>1. left' \in [Bounded -> Nat] /\ UNCHANGED <<entries, runs, results>>
  BY DEF IInv, TypeOK, RenderReport, StoreFile, _persist_report, Abandon
<1>2. arg[q] \in Arg /\ RequestOK(q)
  BY DEF IInv, TypeOK
<1>3. /\ file' \in [EvaluationId -> Content \cup {0}]
      /\ digest' \in [EvaluationId -> Content \cup {0}]
  BY <1>2 DEF IInv, TypeOK, RequestOK, RenderOK, RenderReport, StoreFile, _persist_report, Abandon
<1>4. ASSUME End(q) PROVE IInv'
  <2>1. pc'[q] = "idle" /\ arg'[q] = NoArg
    BY <1>4, Moves, Ends DEF IInv, End
  <2>2. RequestOK(q)'
    BY <2>1 DEF RequestOK, ApprovalOK, UploadOK, JudgeOK, ScoreOK, RenderOK, Uploading, Holding
  <2> QED
    BY <1>1, <1>3, <1>4, <2>2, Ends, MoveStep DEF End, Holding
<1>5. ASSUME NEW c \in Content, pc[q] = "render", Go(q, "store", [arg[q] EXCEPT !.content = c])
      PROVE  IInv'
  <2> DEFINE known == [arg[q] EXCEPT !.content = c]
  <2>1. known \in Arg /\ known.id = arg[q].id /\ known.content = c
    BY <1>2 DEF Arg
  <2>2. pc'[q] = "store" /\ arg'[q] = known
    BY <1>5, <2>1, Moves DEF IInv
  <2>3. RequestOK(q)'
    BY <1>2, <1>5, <2>1, <2>2 DEF RequestOK, ApprovalOK, UploadOK, JudgeOK, ScoreOK, RenderOK,
       Uploading, Holding
  <2> QED
    BY <1>1, <1>3, <1>5, <2>1, <2>3, MoveStep DEF Holding
<1>6. ASSUME StoreFile(q) PROVE IInv'
  <2>1. pc'[q] = "record" /\ arg'[q] = arg[q]
    BY <1>2, <1>6, Moves DEF IInv, StoreFile
  <2>2. RequestOK(q)'
    BY <1>2, <1>6, <2>1 DEF StoreFile, RequestOK, ApprovalOK, UploadOK, JudgeOK, ScoreOK, RenderOK,
       Uploading, Holding
  <2> QED
    BY <1>1, <1>2, <1>3, <1>6, <2>2, MoveStep DEF StoreFile, Holding
<1> QED
  BY <1>4, <1>5, <1>6 DEF RenderReport, _persist_report, Abandon
--------------------------------------------------------------------------------
\* Steps on the registry: what was vouched for stays so.
LEMMA GovernanceStep ==
  ASSUME IInv,
         \/ \E e \in Entry, u \in Users : Register(e, u)
         \/ \E q \in Requests : UpdateDraft(q)
         \/ \E e \in Entry : Disable(e)
  PROVE  IInv'
<1> USE DEF reports, requests
<1>1. /\ UNCHANGED <<runs, results, reports>>
      /\ left' \in [Bounded -> Nat]
      /\ status' \in [Entry -> {None, "draft", "approved", "disabled"}]
      /\ creator' \in [Entry -> Users \cup {None}] /\ approver' \in [Entry -> Users \cup {None}]
  <2>1. ASSUME NEW e \in Entry, NEW u \in Users, Register(e, u) PROVE <1>1!:
    BY <2>1, Spent DEF IInv, TypeOK, Register, Bounded
  <2>2. ASSUME NEW q \in Requests, UpdateDraft(q) PROVE <1>1!:
    BY <2>2 DEF IInv, TypeOK, UpdateDraft, RequestOK, ApprovalOK
  <2>3. ASSUME NEW e \in Entry, Disable(e) PROVE <1>1!:
    BY <2>3, Spent DEF IInv, TypeOK, Disable, Bounded
  <2> QED
    BY <2>1, <2>2, <2>3
<1>2. /\ pc' \in [Requests -> RequestStep] /\ arg' \in [Requests -> Arg]
      /\ \A r \in Requests : \/ pc'[r] = pc[r] /\ arg'[r] = arg[r]
                             \/ pc'[r] = "idle" /\ arg'[r] = NoArg
  BY Moves, Ends DEF IInv, TypeOK, Register, Disable, UpdateDraft, End
<1>3. \A x \in Entry : Vouched(x) => Vouched(x)'
  <2>1. ASSUME NEW e \in Entry, NEW u \in Users, Register(e, u) PROVE <1>3!:
    BY <2>1 DEF IInv, TypeOK, Register, Vouched, None
  <2>2. ASSUME NEW q \in Requests, UpdateDraft(q) PROVE <1>3!:
    BY <2>2 DEF IInv, TypeOK, UpdateDraft, Vouched, RequestOK, ApprovalOK
  <2>3. ASSUME NEW e \in Entry, Disable(e) PROVE <1>3!:
    BY <2>3 DEF IInv, TypeOK, Disable, Vouched
  <2> QED
    BY <2>1, <2>2, <2>3
<1>4. \A x \in Entry : status[x] # None =>
        status'[x] # None /\ creator'[x] = creator[x]
  BY DEF IInv, TypeOK, Register, UpdateDraft, Disable, None, RequestOK, ApprovalOK
<1>5. \A x \in Entry : status'[x] = "approved" => Vouched(x)'
  <2>1. ASSUME NEW e \in Entry, NEW u \in Users, Register(e, u) PROVE <1>5!:
    BY <2>1, <1>3 DEF IInv, TypeOK, Registry, Register
  <2>2. ASSUME NEW q \in Requests, UpdateDraft(q) PROVE <1>5!:
    <3>1. CASE UNCHANGED <<status, approver>>
      BY <3>1, <2>2, <1>3 DEF IInv, TypeOK, Registry, UpdateDraft
    <3>2. CASE ~UNCHANGED <<status, approver>>
      <4>1. PICK e \in Entry, u \in Users :
              e = arg[q].entry /\ u = arg[q].user /\ (Independent => creator[e] # u)
        BY <2>2, <3>2 DEF IInv, RequestOK, ApprovalOK, UpdateDraft
      <4>2. u # None
        BY <4>1, EvaluatorAssumption
      <4>3. /\ status' = [status EXCEPT ![e] = "approved"]
            /\ approver' = [approver EXCEPT ![e] = u] /\ creator' = creator
        BY <2>2, <3>2, <4>1 DEF UpdateDraft
      <4>4. Vouched(e)'
        BY <4>1, <4>2, <4>3 DEF IInv, TypeOK, Vouched
      <4>5. ASSUME NEW x \in Entry, x # e, status'[x] = "approved" PROVE Vouched(x)'
        BY <4>1, <4>3, <4>5 DEF IInv, TypeOK, Registry, Vouched
      <4> QED
        BY <4>4, <4>5
    <3> QED
      BY <3>1, <3>2
  <2>3. ASSUME NEW e \in Entry, Disable(e) PROVE <1>5!:
    BY <2>3, <1>3 DEF IInv, TypeOK, Registry, Disable
  <2> QED
    BY <2>1, <2>2, <2>3
<1>6. TypeOK'
  BY <1>1, <1>2 DEF IInv, TypeOK, results
<1>7. Registry'
  BY <1>1, <1>5 DEF IInv, Registry, results
<1>8. Exclusive'
  BY <1>2 DEF IInv, Exclusive, Holding
<1>9. ASSUME NEW r \in Requests PROVE RequestOK(r)'
  <2>1. CASE pc'[r] = "idle"
    BY <2>1 DEF RequestOK, ApprovalOK, UploadOK, JudgeOK, ScoreOK, RenderOK, Uploading, Holding
  <2>2. CASE pc'[r] = pc[r] /\ arg'[r] = arg[r]
    <3>1. RequestOK(r)
      BY DEF IInv
    <3>2. ApprovalOK(r)'
      BY <2>2, <3>1, <1>4 DEF RequestOK, ApprovalOK
    <3>3. UploadOK(r)'
      BY <2>2, <3>1, <1>1, <1>3 DEF RequestOK, UploadOK, Entry, results
    <3>4. (JudgeOK(r) /\ RenderOK(r))'
      BY <2>2, <3>1, <1>1 DEF RequestOK, JudgeOK, RenderOK
    <3>5. ScoreOK(r)'
      BY <2>2, <3>1, <1>1, <1>3 DEF RequestOK, ScoreOK, Entry
    <3> QED
      BY <3>2, <3>3, <3>4, <3>5 DEF RequestOK
  <2> QED
    BY <1>2, <2>1, <2>2
<1>10. (PackageCountsOnce /\ DecisionsHaveProvenance /\ SemanticHold)'
  BY <1>1 DEF IInv, PackageCountsOnce, DecisionsHaveProvenance, SemanticHold, results
<1>11. RestsOnApproval'
  BY <1>1, <1>3 DEF IInv, TypeOK, RestsOnApproval, Vouched, results, Evaluation, Entry
<1> QED
  BY <1>6, <1>7, <1>8, <1>9, <1>10, <1>11 DEF IInv

\* A judge starts or answers.
LEMMA SemanticStep ==
  ASSUME IInv, NEW q \in Requests,
         \/ \E d \in Datasets, r \in Run : create_semantic_evaluation_run(q, d, r)
         \/ JudgeAnswers(q)
  PROVE  IInv'
<1>1. ASSUME NEW d \in Datasets, NEW r \in Run, create_semantic_evaluation_run(q, d, r) PROVE IInv'
  <2> DEFINE known == [NoArg EXCEPT !.run = r]
             new == [status |-> "running", dataset |-> d, review |-> FALSE]
  <2>1. known \in Arg /\ known.run = r /\ new \in SemanticRun
    BY DEF NoArg, Arg, SemanticRun
  <2>2. left' \in [Bounded -> Nat] /\ UNCHANGED <<entries, results, reports>>
    BY <1>1, Spent DEF IInv, create_semantic_evaluation_run, Bounded
  <2>3. /\ pc' \in [Requests -> RequestStep] /\ arg' \in [Requests -> Arg]
        /\ pc'[q] = "judge" /\ arg'[q] = known
        /\ \A k \in Requests \ {q} : pc'[k] = pc[k] /\ arg'[k] = arg[k]
    BY <1>1, <2>1, Moves DEF IInv, create_semantic_evaluation_run, RequestStep
  <2>4. /\ runs' \in [Run -> SemanticRun] /\ runs'[r] = new
        /\ \A k \in Run \ {r} : runs'[k] = runs[k]
        /\ runs[r].status = None
    BY <1>1, <2>1 DEF IInv, TypeOK, create_semantic_evaluation_run, NoRun
  <2>5. TypeOK'
    BY <2>2, <2>3, <2>4 DEF IInv, TypeOK, entries, results, reports
  <2>6. Registry'
    BY <2>2 DEF IInv, Registry, Vouched, entries, results
  <2>7. \A k \in Requests : pc[k] = "judge" => arg[k].run # r
    BY <2>4 DEF IInv, RequestOK, JudgeOK, None
  <2>8. Exclusive'
    <3> SUFFICES ASSUME NEW j \in Requests, NEW k \in Requests, j # k
                 PROVE  /\ pc'[j] \in Holding /\ pc'[k] \in Holding => arg'[j].package # arg'[k].package
                        /\ pc'[j] = "judge" /\ pc'[k] = "judge" => arg'[j].run # arg'[k].run
      BY DEF Exclusive
    <3>1. CASE j # q /\ k # q
      BY <3>1, <2>3 DEF IInv, Exclusive
    <3>2. CASE j = q \/ k = q
      BY <3>2, <2>1, <2>3, <2>7 DEF Holding
    <3> QED
      BY <3>1, <3>2
  <2>9. ASSUME NEW k \in Requests PROVE RequestOK(k)'
    <3>1. CASE k = q
      BY <3>1, <2>1, <2>3, <2>4 DEF RequestOK, ApprovalOK, UploadOK, JudgeOK, ScoreOK, RenderOK,
         Uploading, Holding
    <3>2. CASE k # q
      <4>1. RequestOK(k) /\ pc'[k] = pc[k] /\ arg'[k] = arg[k]
        BY <3>2, <2>3 DEF IInv
      <4>2. (ApprovalOK(k) /\ UploadOK(k) /\ RenderOK(k))'
        BY <4>1, <2>2 DEF RequestOK, ApprovalOK, UploadOK, RenderOK, Vouched, entries, results
      <4>3. (JudgeOK(k) /\ ScoreOK(k))'
        BY <4>1, <2>2, <2>4 DEF RequestOK, JudgeOK, ScoreOK, Vouched, entries, None
      <4> QED
        BY <4>2, <4>3 DEF RequestOK
    <3> QED
      BY <3>1, <3>2
  <2>10. (PackageCountsOnce /\ DecisionsHaveProvenance /\ RestsOnApproval)'
    BY <2>2 DEF IInv, PackageCountsOnce, DecisionsHaveProvenance, RestsOnApproval, Vouched,
                   entries, results
  <2>11. SemanticHold'
    BY <2>2, <2>4 DEF IInv, TypeOK, Evaluation, SemanticHold, results, None
  <2> QED
    BY <2>5, <2>6, <2>8, <2>9, <2>10, <2>11 DEF IInv
<1>2. ASSUME JudgeAnswers(q) PROVE IInv'
  <2> DEFINE r == arg[q].run
  <2>1. r \in Run /\ runs[r].status = "running" /\ runs[r] \in SemanticRun
    BY <1>2 DEF IInv, TypeOK, RequestOK, JudgeOK, JudgeAnswers
  <2>2. left' = left /\ UNCHANGED <<entries, results, reports>>
    BY <1>2 DEF JudgeAnswers
  <2>3. /\ pc' \in [Requests -> RequestStep] /\ arg' \in [Requests -> Arg]
        /\ pc'[q] = "idle"
        /\ \A k \in Requests \ {q} : pc'[k] = pc[k] /\ arg'[k] = arg[k]
    BY <1>2, Moves, Ends DEF IInv, JudgeAnswers, End
  <2>4. /\ runs' \in [Run -> SemanticRun]
        /\ \A k \in Run \ {r} : runs'[k] = runs[k]
    <3>1. ASSUME NEW review \in BOOLEAN,
                 runs' = [runs EXCEPT ![r].status = "completed", ![r].review = review]
          PROVE  <2>4!:
      BY <3>1, <2>1 DEF IInv, TypeOK, SemanticRun
    <3>2. ASSUME runs' = [runs EXCEPT ![r].status = "failed"] PROVE <2>4!:
      BY <3>2, <2>1 DEF IInv, TypeOK, SemanticRun
    <3> QED
      BY <1>2, <3>1, <3>2 DEF JudgeAnswers
  <2>5. TypeOK'
    BY <2>2, <2>3, <2>4 DEF IInv, TypeOK, entries, results, reports
  <2>6. Registry'
    BY <2>2 DEF IInv, Registry, Vouched, entries, results
  <2>7. \A k \in Requests \ {q} : pc[k] = "judge" => arg[k].run # r
    BY <1>2 DEF IInv, Exclusive, JudgeAnswers
  <2>8. Exclusive'
    BY <2>3 DEF IInv, Exclusive, Holding
  <2>9. ASSUME NEW k \in Requests PROVE RequestOK(k)'
    <3>1. CASE k = q
      BY <3>1, <2>3 DEF RequestOK, ApprovalOK, UploadOK, JudgeOK, ScoreOK, RenderOK, Uploading, Holding
    <3>2. CASE k # q
      <4>1. RequestOK(k) /\ pc'[k] = pc[k] /\ arg'[k] = arg[k]
        BY <3>2, <2>3 DEF IInv
      <4>2. (ApprovalOK(k) /\ UploadOK(k) /\ RenderOK(k))'
        BY <4>1, <2>2 DEF RequestOK, ApprovalOK, UploadOK, RenderOK, Vouched, entries, results
      <4>3. (JudgeOK(k) /\ ScoreOK(k))'
        BY <3>2, <4>1, <2>1, <2>2, <2>4, <2>7 DEF RequestOK, JudgeOK, ScoreOK, Vouched, entries
      <4> QED
        BY <4>2, <4>3 DEF RequestOK
    <3> QED
      BY <3>1, <3>2
  <2>10. (PackageCountsOnce /\ DecisionsHaveProvenance /\ RestsOnApproval)'
    BY <2>2 DEF IInv, PackageCountsOnce, DecisionsHaveProvenance, RestsOnApproval, Vouched,
                   entries, results
  <2>11. SemanticHold'
    BY <2>1, <2>2, <2>4 DEF IInv, TypeOK, Evaluation, SemanticHold, results
  <2> QED
    BY <2>5, <2>6, <2>8, <2>9, <2>10, <2>11 DEF IInv
<1> QED
  BY <1>1, <1>2
--------------------------------------------------------------------------------
\* A result is recorded: the new row rests on what its request knows.
LEMMA ResultStep ==
  ASSUME IInv, NEW q \in Requests, CommitSubmission(q) \/ RecordEvaluation(q)
  PROVE  IInv'
<1>1. pc[q] \in {"inserted", "score"} /\ arg[q] \in Arg /\ RequestOK(q)
  BY DEF IInv, TypeOK, CommitSubmission, RecordEvaluation
<1>2. UNCHANGED <<left, entries, runs, reports>>
  BY DEF CommitSubmission, RecordEvaluation
<1>3. PICK decision \in Decision :
        /\ evaluations' = evaluations \cup {NewEvaluation(q, decision)}
        /\ arg[q].review => decision # "pass" \/ pc[q] = "inserted"
        /\ \/ /\ pc[q] = "inserted"
              /\ submissions' = submissions \cup
                   {[package |-> NewEvaluation(q, decision).package,
                     evaluation |-> NewEvaluation(q, decision).id,
                     by |-> NewEvaluation(q, decision).by]}
           \/ pc[q] = "score" /\ submissions' = submissions
  BY DEF CommitSubmission, RecordEvaluation, ReleaseDecision, Decision
<1> DEFINE id == Cardinality(evaluations) + 1
<1>4. PICK new : new = NewEvaluation(q, decision)
  OBVIOUS
<1>5. Cardinality(evaluations) \in Nat /\ IsFiniteSet(evaluations \cup {new})
  BY FS_CardinalityType, FS_AddElement DEF IInv, Registry
<1>6. /\ new.id = id /\ new.by = arg[q].entry /\ new.package = arg[q].package
      /\ new.dataset = arg[q].dataset /\ new.run = arg[q].run /\ new.decision = decision
  BY <1>4 DEF NewEvaluation
<1>7. new \in Evaluation
  <2>1. /\ arg[q].dataset \in Datasets /\ arg[q].run \in Run \cup {0}
        /\ arg[q].entry \in Clients \cup Adapters \cup {None}
        /\ arg[q].package \in Packages \cup {None}
    BY <1>1 DEF RequestOK, UploadOK, ScoreOK, Uploading, Arg
  <2> QED
    BY <1>4, <1>5, <2>1 DEF NewEvaluation, Evaluation
<1>8. evaluations' = evaluations \cup {new}
  BY <1>3, <1>4
<1>9. submissions' \subseteq [package : Packages, evaluation : Nat, by : Clients]
  BY <1>1, <1>3, <1>4, <1>5, <1>6 DEF IInv, TypeOK, RequestOK, UploadOK, Uploading
<1>10. /\ pc' \in [Requests -> RequestStep] /\ arg' \in [Requests -> Arg]
       /\ pc'[q] = "idle"
       /\ \A k \in Requests \ {q} : pc'[k] = pc[k] /\ arg'[k] = arg[k]
  BY Moves, Ends DEF IInv, CommitSubmission, RecordEvaluation, End
<1>11. TypeOK'
  BY <1>2, <1>7, <1>8, <1>9, <1>10 DEF IInv, TypeOK, entries, reports
<1>12. Registry'
  BY <1>2, <1>5, <1>8 DEF IInv, Registry, Vouched, entries
<1>13. Exclusive'
  BY <1>10 DEF IInv, Exclusive, Holding
<1>14. ASSUME NEW k \in Requests PROVE RequestOK(k)'
  <2>1. CASE k = q
    BY <2>1, <1>10 DEF RequestOK, ApprovalOK, UploadOK, JudgeOK, ScoreOK, RenderOK, Uploading, Holding
  <2>2. CASE k # q
    <3>1. RequestOK(k) /\ pc'[k] = pc[k] /\ arg'[k] = arg[k]
      BY <2>2, <1>10 DEF IInv
    <3>2. (ApprovalOK(k) /\ JudgeOK(k) /\ ScoreOK(k) /\ RenderOK(k))'
      BY <3>1, <1>2 DEF RequestOK, ApprovalOK, JudgeOK, ScoreOK, RenderOK, Vouched, entries
    <3>3. pc[k] \in Holding /\ pc[q] = "inserted" => arg[k].package # arg[q].package
      BY <2>2 DEF IInv, Exclusive, Holding
    <3>4. UploadOK(k)'
      BY <3>1, <3>3, <1>2, <1>3, <1>4, <1>6 DEF RequestOK, UploadOK, Vouched, entries
    <3> QED
      BY <3>2, <3>4 DEF RequestOK
  <2> QED
    BY <2>1, <2>2
<1>15. ASSUME NEW e \in evaluations, e.package # None PROVE e.package # new.package
  <2>1. [package |-> e.package, evaluation |-> e.id, by |-> e.by] \in submissions
    BY <1>15 DEF IInv, DecisionsHaveProvenance
  <2>2. pc[q] = "inserted" => e.package # arg[q].package
    BY <2>1, <1>1 DEF RequestOK, UploadOK, Holding
  <2>3. pc[q] = "score" => arg[q].package = None
    BY <1>1 DEF RequestOK, ScoreOK
  <2> QED
    BY <1>1, <1>6, <1>15, <2>2, <2>3
<1>16. PackageCountsOnce'
  BY <1>8, <1>15 DEF IInv, PackageCountsOnce
<1>17. DecisionsHaveProvenance'
  <2>1. pc[q] = "score" => new.package = None
    BY <1>1, <1>6 DEF RequestOK, ScoreOK
  <2>2. pc[q] = "inserted" =>
          [package |-> new.package, evaluation |-> new.id, by |-> new.by] \in submissions'
    BY <1>3, <1>4
  <2>3. \A e \in evaluations' : e.package # None =>
          [package |-> e.package, evaluation |-> e.id, by |-> e.by] \in submissions'
    BY <1>1, <1>3, <1>8, <2>1, <2>2 DEF IInv, DecisionsHaveProvenance
  <2>4. ASSUME NEW s \in submissions'
        PROVE  \E e \in evaluations' : e.id = s.evaluation /\ e.package = s.package /\ e.by = s.by
    <3>1. CASE s \in submissions
      BY <3>1, <1>8 DEF IInv, DecisionsHaveProvenance
    <3>2. CASE s = [package |-> new.package, evaluation |-> new.id, by |-> new.by]
      BY <3>2, <1>8
    <3> QED
      BY <1>3, <1>4, <3>1, <3>2
  <2> QED
    BY <2>3, <2>4 DEF DecisionsHaveProvenance
<1>18. RestsOnApproval'
  <2>1. \A x \in {new.dataset, new.by} \ {None} : Vouched(x)
    BY <1>1, <1>6 DEF RequestOK, UploadOK, ScoreOK, Uploading
  <2> QED
    BY <1>2, <1>8, <2>1 DEF IInv, RestsOnApproval, Vouched, entries
<1>19. SemanticHold'
  BY <1>1, <1>2, <1>3, <1>6, <1>8 DEF IInv, SemanticHold, RequestOK, UploadOK, ScoreOK, Uploading
<1> QED
  BY <1>11, <1>12, <1>13, <1>14, <1>16, <1>17, <1>18, <1>19 DEF IInv

\* Every step preserves the invariant.
LEMMA Inductive == IInv /\ [Next]_vars => IInv'
<1>1. ASSUME IInv, Next PROVE IInv'
  BY <1>1, Steps, StartStep, UploadStep, ReportStep, GovernanceStep, SemanticStep, ResultStep
<1>2. ASSUME IInv, UNCHANGED vars PROVE IInv'
  <2> USE <1>2 DEF vars, entries, results, reports, requests
  <2>1. TypeOK' /\ Registry'
    BY DEF IInv, TypeOK, Registry, Vouched
  <2>2. Exclusive' /\ \A q \in Requests : RequestOK(q)'
    BY DEF IInv, Exclusive, RequestOK, ApprovalOK, UploadOK, JudgeOK, ScoreOK, RenderOK, Vouched
  <2>3. (PackageCountsOnce /\ DecisionsHaveProvenance /\ RestsOnApproval /\ SemanticHold)'
    BY DEF IInv, PackageCountsOnce, DecisionsHaveProvenance, RestsOnApproval, SemanticHold,
       Vouched
  <2> QED
    BY <2>1, <2>2, <2>3 DEF IInv
<1> QED
  BY <1>1, <1>2

\* The invariant holds in every reachable state.
THEOREM Invariant == Spec => []IInv
  BY Initially, Inductive, PTL DEF Spec
--------------------------------------------------------------------------------
(***************************************************************************)
(* The properties.                                                         *)
(***************************************************************************)

\* Every variable keeps its type.
THEOREM TypeCorrect == Spec => []TypeOK
<1>1. IInv => TypeOK
  BY DEF IInv
<1> QED
  BY <1>1, Invariant, PTL

\* ingest_client_runner_evaluation records a package once, whoever races.
THEOREM PackagesOnce == Spec => []PackageCountsOnce
<1>1. IInv => PackageCountsOnce
  BY DEF IInv
<1> QED
  BY <1>1, Invariant, PTL

\* Evaluation and submission are recorded together or not at all.
THEOREM Provenance == Spec => []DecisionsHaveProvenance
<1>1. IInv => DecisionsHaveProvenance
  BY DEF IInv
<1> QED
  BY <1>1, Invariant, PTL

\* No evaluation rests on an entry nobody else approved.
THEOREM Approval == Spec => []RestsOnApproval
<1>1. IInv => RestsOnApproval
  BY DEF IInv
<1> QED
  BY <1>1, Invariant, PTL

\* create_evaluation holds a pass the semantic run does not support.
THEOREM Hold == Spec => []SemanticHold
<1>1. IInv => SemanticHold
  BY DEF IInv
<1> QED
  BY <1>1, Invariant, PTL

\* One step never brings a cut-off entry back, nor a result through it.
LEMMA CutOffStep ==
  ASSUME IInv, [Next]_vars, NEW x \in Entry, CutOff(x)
  PROVE  CutOff(x)' /\ {e \in evaluations' : e.by = x} = {e \in evaluations : e.by = x}
<1> USE DEF vars, entries, results, reports, requests
<1>0. x # None /\ status[x] = "disabled" /\ NoArg.entry # x
  BY EvaluatorAssumption DEF CutOff, NoArg
<1>1. status'[x] = "disabled"
  <2>1. CASE Next
    <3>1. ASSUME NEW e \in Entry, NEW u \in Users, Register(e, u) PROVE <1>1!:
      BY <1>0, <3>1 DEF IInv, TypeOK, Register, None
    <3>2. ASSUME NEW q \in Requests, UpdateDraft(q) PROVE <1>1!:
      BY <1>0, <3>2 DEF IInv, TypeOK, UpdateDraft
    <3>3. ASSUME NEW e \in Entry, Disable(e) PROVE <1>1!:
      BY <1>0, <3>3 DEF IInv, TypeOK, Disable
    <3>4. ASSUME UNCHANGED status PROVE <1>1!:
      BY <1>0, <3>4
    <3> QED
      BY <2>1, Steps, <3>1, <3>2, <3>3, <3>4 DEF Approve, _resolve_client_run_identity,
         ingest_client_runner_evaluation, LockPackage, InsertEvaluation, CommitSubmission,
         run_live_adapter_evaluation, create_semantic_evaluation_run, JudgeAnswers,
         create_evaluation, RecordEvaluation, Abandon, generate_evaluation_reports,
         RenderReport, StoreFile, _persist_report
  <2>2. CASE UNCHANGED vars
    BY <1>0, <2>2
  <2> QED
    BY <2>1, <2>2
<1>2. ASSUME NEW r \in Requests PROVE pc'[r] # "approve" => arg'[r].entry # x
  <2> DEFINE Kept == \/ pc'[r] = pc[r] /\ arg'[r] = arg[r]
                     \/ pc'[r] = "approve"
                     \/ arg'[r].entry = None
                     \/ pc[r] # "approve" /\ arg'[r].entry = arg[r].entry
                     \/ status[arg'[r].entry] = "approved"
  <2>1. Kept => (pc'[r] # "approve" => arg'[r].entry # x)
    BY <1>0 DEF CutOff
  <2>2. ASSUME NEW q \in Requests, NEW step \in RequestStep, NEW known \in Arg,
               Go(q, step, known),
               \/ step = "approve" \/ known.entry = None
               \/ pc[q] # "approve" /\ known.entry = arg[q].entry
               \/ status[known.entry] = "approved"
        PROVE  Kept
    BY <2>2, Moves DEF IInv
  <2>3. CASE UNCHANGED vars
    BY <2>3, <2>1
  <2>4. CASE Next
    <3> USE DEF RequestStep
    <3>1. ASSUME NEW q \in Requests, End(q) PROVE Kept
      <4>1. NoArg.entry = None
        BY DEF NoArg
      <4> QED
        BY <3>1, <4>1, <2>2, Ends DEF End
    <3>2. ASSUME NEW q \in Requests, NEW e \in Entry, NEW u \in Users, Approve(q, e, u) PROVE Kept
      <4>1. [NoArg EXCEPT !.user = u, !.entry = e] \in Arg
        BY DEF NoArg, Arg
      <4> QED
        BY <3>2, <4>1, <2>2 DEF Approve
    <3>3. ASSUME NEW q \in Requests, NEW p \in Packages, NEW e \in Clients,
                 _resolve_client_run_identity(q, p, e)
          PROVE  Kept
      <4> DEFINE known == [NoArg EXCEPT !.entry = e, !.package = p]
      <4>1. known \in Arg /\ known.entry = e
        BY DEF NoArg, Arg, Entry
      <4> QED
        BY <3>3, <4>1, <2>2 DEF _resolve_client_run_identity
    <3>4. ASSUME NEW q \in Requests, NEW d \in Datasets, NEW e \in Adapters,
                 run_live_adapter_evaluation(q, d, e)
          PROVE  Kept
      <4> DEFINE known == [NoArg EXCEPT !.entry = e, !.dataset = d]
      <4>1. known \in Arg /\ known.entry = e
        BY DEF NoArg, Arg, Entry
      <4> QED
        BY <3>4, <4>1, <2>2 DEF run_live_adapter_evaluation
    <3>5. ASSUME NEW q \in Requests, NEW d \in Datasets, ingest_client_runner_evaluation(q, d)
          PROVE  Kept
      <4> DEFINE known == [arg[q] EXCEPT !.dataset = d]
      <4>1. known \in Arg /\ known.entry = arg[q].entry
        BY DEF IInv, TypeOK, Arg
      <4> QED
        BY <3>5, <4>1, <2>2 DEF ingest_client_runner_evaluation
    <3>6. ASSUME NEW q \in Requests, LockPackage(q) \/ InsertEvaluation(q) \/ StoreFile(q) PROVE Kept
      <4>1. arg[q] \in Arg
        BY DEF IInv, TypeOK
      <4> QED
        BY <3>1, <3>6, <4>1, <2>2 DEF LockPackage, InsertEvaluation, StoreFile
    <3>7. ASSUME NEW q \in Requests, NEW d \in Datasets, NEW k \in Run,
                 create_semantic_evaluation_run(q, d, k)
          PROVE  Kept
      <4> DEFINE known == [NoArg EXCEPT !.run = k]
      <4>1. known \in Arg /\ known.entry = None
        BY DEF NoArg, Arg
      <4> QED
        BY <3>7, <4>1, <2>2 DEF create_semantic_evaluation_run
    <3>8. ASSUME NEW q \in Requests, NEW d \in Datasets, NEW k \in Run \cup {0}, create_evaluation(q, d, k)
          PROVE  Kept
      <4> DEFINE plain == [NoArg EXCEPT !.dataset = d]
                 graded == [NoArg EXCEPT !.dataset = d, !.run = k, !.review = runs[k].review]
      <4>1. plain \in Arg /\ plain.entry = None /\ graded.entry = None
        BY DEF NoArg, Arg
      <4>2. k \in Run => graded \in Arg
        BY DEF IInv, TypeOK, SemanticRun, NoArg, Arg
      <4> QED
        BY <3>8, <4>1, <4>2, <2>2 DEF create_evaluation
    <3>9. ASSUME NEW q \in Requests, NEW e \in evaluations, generate_evaluation_reports(q, e) PROVE Kept
      <4> DEFINE known == [NoArg EXCEPT !.id = e.id]
      <4>1. e.id \in Nat
        BY DEF IInv, TypeOK, Evaluation
      <4>2. known \in Arg /\ known.entry = None
        BY <4>1 DEF NoArg, Arg
      <4> QED
        BY <3>9, <4>2, <2>2 DEF generate_evaluation_reports
    <3>10. ASSUME NEW q \in Requests, RenderReport(q) PROVE Kept
      <4>1. ASSUME NEW c \in Content, pc[q] = "render", Go(q, "store", [arg[q] EXCEPT !.content = c]) PROVE Kept
        <5> DEFINE known == [arg[q] EXCEPT !.content = c]
        <5>1. known \in Arg /\ known.entry = arg[q].entry
          BY DEF IInv, TypeOK, Arg
        <5> QED
          BY <4>1, <5>1, <2>2
      <4> QED
        BY <3>1, <3>10, <4>1 DEF RenderReport
    <3>11. ASSUME UNCHANGED requests PROVE Kept
      BY <3>11
    <3> HIDE DEF Kept
    <3> QED
      BY <2>1, <2>4, Steps, <3>1, <3>2, <3>3, <3>4, <3>5, <3>6, <3>7, <3>8, <3>9, <3>10, <3>11
         DEF Register, Disable, UpdateDraft, CommitSubmission, JudgeAnswers, RecordEvaluation,
             Abandon, _persist_report
  <2> QED
    BY <2>3, <2>4
<1>3. {e \in evaluations' : e.by = x} = {e \in evaluations : e.by = x}
  <2>1. ASSUME NEW q \in Requests, CommitSubmission(q) \/ RecordEvaluation(q) PROVE <1>3!:
    <3>1. PICK d : evaluations' = evaluations \cup {NewEvaluation(q, d)}
      BY <2>1 DEF CommitSubmission, RecordEvaluation
    <3>2. NewEvaluation(q, d).by = arg[q].entry
      BY DEF NewEvaluation
    <3>3. arg[q].entry # x
      BY <2>1 DEF CutOff, CommitSubmission, RecordEvaluation
    <3> QED
      BY <3>1, <3>2, <3>3
  <2>2. ASSUME UNCHANGED evaluations PROVE <1>3!:
    BY <2>2
  <2>3. CASE UNCHANGED vars
    BY <2>2, <2>3
  <2>4. CASE Next
    BY <2>4, Steps, <2>1, <2>2 DEF Register, UpdateDraft, Disable, Approve, _resolve_client_run_identity,
       ingest_client_runner_evaluation, LockPackage, InsertEvaluation,
       run_live_adapter_evaluation, create_semantic_evaluation_run, JudgeAnswers,
       create_evaluation, Abandon, generate_evaluation_reports, RenderReport, StoreFile, _persist_report
  <2> QED
    BY <2>3, <2>4
<1> QED
  BY <1>1, <1>2, <1>3 DEF CutOff

\* Disabling an identity, an integration or an adapter is final.
THEOREM Disabling == Spec => DisablingIsFinal
<1>1. IInv /\ [Next]_vars =>
        [\A x \in Entry : CutOff(x) =>
           /\ CutOff(x)'
           /\ {e \in evaluations' : e.by = x} = {e \in evaluations : e.by = x}]_vars
  BY CutOffStep
<1> QED
  BY <1>1, Invariant, PTL DEF Spec, DisablingIsFinal

\* A report that verifies is neither overwritten nor recorded anew.
THEOREM Reports == Spec => ReportStaysVerified
<1>1. IInv /\ [Next]_vars => [\A e \in EvaluationId : Verifies(e) => Verifies(e)']_vars
  <2> SUFFICES ASSUME IInv, Next, NEW e \in EvaluationId, Verifies(e) PROVE Verifies(e)'
    OBVIOUS
  <2>1. ASSUME NEW q \in Requests, StoreFile(q) PROVE Verifies(e)'
    BY <2>1 DEF IInv, TypeOK, StoreFile, Verifies
  <2>2. ASSUME NEW q \in Requests, _persist_report(q) PROVE Verifies(e)'
    BY <2>2 DEF IInv, TypeOK, _persist_report, Verifies
  <2>3. ASSUME UNCHANGED reports PROVE Verifies(e)'
    BY <2>3 DEF reports, Verifies
  <2> QED
    BY Steps, <2>1, <2>2, <2>3 DEF Register, UpdateDraft, Disable, Approve, _resolve_client_run_identity,
       ingest_client_runner_evaluation, LockPackage, InsertEvaluation, CommitSubmission,
       run_live_adapter_evaluation, create_semantic_evaluation_run, JudgeAnswers,
       create_evaluation, RecordEvaluation, Abandon, generate_evaluation_reports, RenderReport
<1> QED
  BY <1>1, Invariant, PTL DEF Spec, ReportStaysVerified
--------------------------------------------------------------------------------
(***************************************************************************)
(* EvaluatorIntake implements ReleaseLedger.                               *)
(***************************************************************************)

\* Evaluations are numbered as they come: the next number is a new one.
Numbered == \A e \in evaluations : e.id <= Cardinality(evaluations)

\* Most steps concern requests and reports only.
LEMMA LedgerSteps ==
  ASSUME [Next]_vars
  PROVE
    \/ UNCHANGED <<entries, runs, evaluations>>
    \/ \E e \in Entry, u \in Users : Register(e, u)
    \/ \E q \in Requests : UpdateDraft(q)
    \/ \E e \in Entry : Disable(e)
    \/ \E q \in Requests, d \in Datasets, r \in Run : create_semantic_evaluation_run(q, d, r)
    \/ \E q \in Requests : JudgeAnswers(q)
    \/ \E q \in Requests : CommitSubmission(q) \/ RecordEvaluation(q)
<1>1. CASE UNCHANGED vars
  BY <1>1 DEF vars, entries, results
<1>2. CASE Next
  BY <1>2, Steps DEF Approve, _resolve_client_run_identity, ingest_client_runner_evaluation,
     LockPackage, InsertEvaluation, run_live_adapter_evaluation, create_evaluation, Abandon,
     generate_evaluation_reports, RenderReport, StoreFile, _persist_report, results
<1> QED
  BY <1>1, <1>2

\* A step on the registry touches one entry, and never takes an approval back.
LEMMA RegistryStep ==
  ASSUME IInv,
         \/ \E e \in Entry, u \in Users : Register(e, u)
         \/ \E q \in Requests : UpdateDraft(q)
         \/ \E e \in Entry : Disable(e)
  PROVE  /\ UNCHANGED <<runs, evaluations>>
         /\ \E e \in Entry : /\ Vouched(e) => Vouched(e)'
                             /\ \A x \in Entry \ {e} : Vouched(x)' <=> Vouched(x)
<1> USE DEF IInv, TypeOK, results
<1>1. ASSUME NEW e \in Entry, NEW u \in Users, Register(e, u)
      PROVE  /\ Vouched(e) => Vouched(e)'
             /\ \A x \in Entry \ {e} : Vouched(x)' <=> Vouched(x)
  BY <1>1 DEF Register, Vouched, None
<1>2. ASSUME NEW e \in Entry, Disable(e)
      PROVE  /\ Vouched(e) => Vouched(e)'
             /\ \A x \in Entry \ {e} : Vouched(x)' <=> Vouched(x)
  BY <1>2 DEF Disable, Vouched
<1>3. ASSUME NEW q \in Requests, UpdateDraft(q), NEW e \in Entry, e = arg[q].entry
      PROVE  /\ Vouched(e) => Vouched(e)'
             /\ \A x \in Entry \ {e} : Vouched(x)' <=> Vouched(x)
  <2>1. CASE UNCHANGED <<status, approver>>
    BY <1>3, <2>1 DEF UpdateDraft, Vouched
  <2>2. CASE ~UNCHANGED <<status, approver>>
    BY <1>3, <2>2 DEF UpdateDraft, Vouched
  <2> QED
    BY <2>1, <2>2
<1>4. UNCHANGED <<runs, evaluations>>
  BY DEF Register, UpdateDraft, Disable
<1>5. CASE \E q \in Requests : UpdateDraft(q)
  <2>1. PICK q \in Requests : UpdateDraft(q)
    BY <1>5
  <2>2. PICK e \in Entry : e = arg[q].entry
    BY <2>1 DEF RequestOK, ApprovalOK, UpdateDraft
  <2> QED
    BY <1>3, <1>4, <2>1, <2>2
<1> QED
  BY <1>1, <1>2, <1>4, <1>5

\* A judge's answer is final: the grades of other runs, and of runs graded
\* earlier, stay as they are.
LEMMA GradeStep ==
  ASSUME IInv,
         \/ \E q \in Requests, d \in Datasets, r \in Run : create_semantic_evaluation_run(q, d, r)
         \/ \E q \in Requests : JudgeAnswers(q)
  PROVE  /\ UNCHANGED <<entries, evaluations>>
         /\ \E r \in Run : /\ runs[r].status # "completed"
                           /\ \A k \in Run \ {r} : runs'[k] = runs[k]
<1>1. ASSUME NEW q \in Requests, NEW d \in Datasets, NEW r \in Run,
             create_semantic_evaluation_run(q, d, r)
      PROVE  runs[r].status # "completed" /\ \A k \in Run \ {r} : runs'[k] = runs[k]
  BY <1>1 DEF IInv, TypeOK, create_semantic_evaluation_run, NoRun, None
<1>2. ASSUME NEW q \in Requests, JudgeAnswers(q)
      PROVE  /\ arg[q].run \in Run /\ runs[arg[q].run].status # "completed"
             /\ \A k \in Run \ {arg[q].run} : runs'[k] = runs[k]
  <2>1. arg[q].run \in Run /\ runs[arg[q].run].status = "running"
    BY <1>2 DEF IInv, RequestOK, JudgeOK, JudgeAnswers
  <2> QED
    BY <1>2, <2>1 DEF IInv, TypeOK, JudgeAnswers
<1>3. UNCHANGED <<entries, evaluations>>
  BY DEF create_semantic_evaluation_run, JudgeAnswers, results
<1> QED
  BY <1>1, <1>2, <1>3

\* A result is appended: justified by what its request knows, and new.
LEMMA AppendStep ==
  ASSUME IInv, Numbered, NEW q \in Requests, CommitSubmission(q) \/ RecordEvaluation(q)
  PROVE  /\ UNCHANGED <<entries, runs>>
         /\ Numbered'
         /\ \E new \in Evaluation :
              /\ evaluations' = evaluations \cup {new}
              /\ Ledger!Justified(new) /\ Ledger!Fresh(new)
<1>1. IInv' /\ UNCHANGED <<entries, runs>>
  BY ResultStep DEF CommitSubmission, RecordEvaluation
<1>2. PICK decision : evaluations' = evaluations \cup {NewEvaluation(q, decision)}
  BY DEF CommitSubmission, RecordEvaluation
<1>3. PICK new : new = NewEvaluation(q, decision)
  OBVIOUS
<1>4. evaluations' = evaluations \cup {new} /\ new.id = Cardinality(evaluations) + 1
  BY <1>2, <1>3 DEF NewEvaluation
<1>5. new \in Evaluation
  BY <1>1, <1>4 DEF IInv, TypeOK
<1>6. evaluations \subseteq Evaluation /\ Cardinality(evaluations) \in Nat
  BY FS_CardinalityType DEF IInv, TypeOK, Registry
<1>7. \A c \in evaluations : c.id \in Nat /\ c.id # new.id
  BY <1>4, <1>6 DEF Numbered, Evaluation
<1>8. Cardinality(evaluations') = Cardinality(evaluations) + 1
  BY <1>4, <1>7, FS_AddElement DEF IInv, Registry
<1>9. Numbered'
  BY <1>4, <1>6, <1>7, <1>8 DEF Numbered
<1>10. Ledger!Fresh(new)
  BY <1>1, <1>4, <1>7 DEF Ledger!Fresh, IInv, PackageCountsOnce
<1>11. Ledger!Justified(new)
  <2>1. \A x \in {new.dataset, new.by} \ {None} : Vouched(x)
    BY <1>1, <1>4 DEF IInv, RestsOnApproval, Vouched, entries
  <2>2. /\ new.dataset \in Entry /\ new.dataset # None
        /\ new.by \in Entry \cup {None} /\ new.run \in Run \cup {0}
    BY <1>5, EvaluatorAssumption DEF Evaluation, Entry
  <2>3. ASSUME new.run # 0
        PROVE  \E g \in Graded : /\ g.run = new.run /\ g.dataset = new.dataset
                                 /\ g.review => new.decision # "pass"
    <3> DEFINE g == [run |-> new.run, dataset |-> runs[new.run].dataset,
                     review |-> runs[new.run].review]
    <3>1. /\ runs[new.run].status = "completed" /\ runs[new.run].dataset = new.dataset
          /\ runs[new.run].review => new.decision # "pass"
      BY <1>1, <1>4, <2>3 DEF IInv, SemanticHold
    <3>2. g \in Graded
      BY <2>2, <2>3, <3>1 DEF Graded
    <3> QED
      BY <3>1, <3>2
  <2> QED
    BY <2>1, <2>2, <2>3 DEF Ledger!Justified
<1> QED
  BY <1>1, <1>4, <1>5, <1>9, <1>10, <1>11

\* Every step is a step of the ledger, or leaves it alone.
LEMMA LedgerStep ==
  ASSUME IInv, Numbered, [Next]_vars
  PROVE  Numbered' /\ [Ledger!Next]_(Ledger!vars)
<1> DEFINE approved == {x \in Entry : Vouched(x)}
<1>1. CASE UNCHANGED <<entries, runs, evaluations>>
  <2>1. approved' = approved /\ Graded' = Graded /\ Numbered'
    BY <1>1 DEF Vouched, Graded, Numbered, entries
  <2> QED
    BY <1>1, <2>1 DEF Ledger!vars
<1>2. CASE \/ \E e \in Entry, u \in Users : Register(e, u)
           \/ \E q \in Requests : UpdateDraft(q)
           \/ \E e \in Entry : Disable(e)
  <2>1. /\ UNCHANGED <<runs, evaluations>>
        /\ \E e \in Entry : /\ Vouched(e) => Vouched(e)'
                            /\ \A x \in Entry \ {e} : Vouched(x)' <=> Vouched(x)
    BY <1>2, RegistryStep
  <2>2. PICK e \in Entry : /\ Vouched(e) => Vouched(e)'
                           /\ \A x \in Entry \ {e} : Vouched(x)' <=> Vouched(x)
    BY <2>1
  <2>3. approved' = approved \/ approved' = approved \cup {e}
    BY <2>2
  <2>4. Graded' = Graded /\ Numbered'
    BY <2>1 DEF Graded, Numbered
  <2> QED
    BY <2>1, <2>3, <2>4 DEF Ledger!vars, Ledger!Next, Ledger!Approve
<1>3. CASE \/ \E q \in Requests, d \in Datasets, r \in Run : create_semantic_evaluation_run(q, d, r)
           \/ \E q \in Requests : JudgeAnswers(q)
  <2>1. /\ UNCHANGED <<entries, evaluations>>
        /\ \E r \in Run : /\ runs[r].status # "completed"
                          /\ \A k \in Run \ {r} : runs'[k] = runs[k]
    BY <1>3, GradeStep
  <2>2. PICK r \in Run : /\ runs[r].status # "completed"
                         /\ \A k \in Run \ {r} : runs'[k] = runs[k]
    BY <2>1
  <2>3. PICK g : g = [run |-> r, dataset |-> runs'[r].dataset, review |-> runs'[r].review]
    OBVIOUS
  <2>4. Graded' = IF runs'[r].status = "completed" THEN Graded \cup {g} ELSE Graded
    BY <2>2, <2>3 DEF Graded
  <2>5. \A h \in Graded : h.run # g.run
    BY <2>2, <2>3 DEF Graded
  <2>6. approved' = approved /\ Numbered'
    BY <2>1 DEF Vouched, Numbered, entries
  <2> QED
    BY <2>1, <2>4, <2>5, <2>6 DEF Ledger!vars, Ledger!Next, Ledger!Grade
<1>4. ASSUME NEW q \in Requests, CommitSubmission(q) \/ RecordEvaluation(q)
      PROVE  Numbered' /\ Ledger!Next
  <2>1. /\ UNCHANGED <<entries, runs>>
        /\ Numbered'
        /\ \E new \in Evaluation :
             /\ evaluations' = evaluations \cup {new}
             /\ Ledger!Justified(new) /\ Ledger!Fresh(new)
    BY <1>4, AppendStep
  <2>2. approved' = approved /\ Graded' = Graded
    BY <2>1 DEF Vouched, Graded, entries
  <2> QED
    BY <2>1, <2>2 DEF Ledger!Next, Ledger!Decide
<1> QED
  BY <1>1, <1>2, <1>3, <1>4, LedgerSteps

\* The handlers implement the ledger: whatever interleaves or is lost, decisions
\* are appended one at a time, each justified by earlier approvals and grades.
THEOREM Refinement == Spec => ImplementsLedger
<1>1. Init => Numbered /\ Ledger!Init
  BY DEF Init, Numbered, Ledger!Init, Graded, NoRun, None
<1>2. IInv /\ Numbered /\ [Next]_vars => Numbered' /\ [Ledger!Next]_(Ledger!vars)
  BY LedgerStep
<1> QED
  BY <1>1, <1>2, Invariant, PTL DEF Spec, ImplementsLedger, Ledger!Spec
================================================================================
