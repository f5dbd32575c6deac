------------------------------ MODULE Releases ------------------------------
(***************************************************************************)
(* Bundles and their releases: compiled runbooks stored as versions of a   *)
(* bundle (storage/bundle_store.py, the persistence part of service/       *)
(* runbook_service.py), promotion to an environment and rollback           *)
(* (deployment/service.py), deletion (web/routes.py).                      *)
(*                                                                         *)
(* Every request is a sequence of repository calls, each its own           *)
(* transaction. A version number is computed from an earlier read, and     *)
(* save_bundle is INSERT OR REPLACE: racing requests may pick the same     *)
(* number. A request may end with an exception after any call. What the    *)
(* policies say is decided by module Policies, whose requests interleave.  *)
(***************************************************************************)
EXTENDS Policies, FiniteSets

CONSTANTS
  Threads,      \* HTTP request threads
  BundleNames,
  TraceCount,   \* traces of one compilation
  MaxRequests   \* bound: compilations, promotions, rollbacks, deletions, edits

ASSUME ReleaseAssumptions == TraceCount \in Nat /\ MaxRequests \in Nat

CompileStatus == {"SUCCESS", "PARTIAL", "FAILED"}
PromotionStatus == {"DRAFT", "PROMOTED", "APPROVED"}

\* A payload is the number of the compilation that built it; bundle and
\* deployment ids (uuids) are numbers as well.
Bundle == [id: Nat, version: Nat, name: BundleNames, payload: Nat,
           status: CompileStatus \cup {"COMPILED"}, env: Environments \cup {"DEV"},
           promotion: PromotionStatus]
Compilation == [build: Nat, bundle: Nat, status: CompileStatus]
Deployment == [id: Nat, bundle: Nat, version: Nat, env: Environments, status: {"PENDING", "SUCCESS"}]
DeploymentApproval == [deployment: Nat, decision: {"PENDING", "APPROVED"}]
Snapshot == [deployment: Nat, payload: Nat]

\* What a request thread holds: the row it will save or works on (row), the rows
\* of the bundle in the store when its version was chosen (seen), the environment
\* and the deployment of a promotion, whether an approver is named, and the
\* number of traces saved.
Request == [pc: {"idle", "versions", "insert", "record", "traces",
                 "evaluate", "approve", "suspend", "ask", "snapshot", "deploy", "promote",
                 "latest", "restore", "erase"},
            row: Bundle \cup {None}, seen: SUBSET Bundle, env: Environments \cup {None},
            deployment: Nat, approved: BOOLEAN, traces: Nat]
NoRequest == [pc |-> "idle", row |-> None, seen |-> {}, env |-> None,
              deployment |-> 0, approved |-> FALSE, traces |-> 0]

VARIABLES
  bundles, compilations, traces, deployments, approvals, snapshots,   \* the tables
  request,   \* what each thread does
  fresh,     \* the number the next uuid stands for
  stored,    \* history: every row ever saved in bundles
  budget     \* requests that may still come

releaseVars == <<bundles, compilations, traces, deployments, approvals, snapshots, request, fresh, stored>>
vars == <<releaseVars, policyVars, budget>>

TypeOK ==
  /\ PoliciesOK
  /\ bundles \subseteq Bundle /\ stored \subseteq Bundle
  /\ \A r, s \in bundles : SameKey(r, s) => r = s
  /\ compilations \subseteq Compilation
  /\ traces \subseteq Nat \X Nat
  /\ deployments \subseteq Deployment
  /\ approvals \subseteq DeploymentApproval
  /\ snapshots \subseteq Snapshot
  /\ request \in [Threads -> Request]
  /\ \A t \in Threads : request[t].pc # "idle" => request[t].row \in Bundle
  /\ \A t \in Threads :
       request[t].pc \in {"evaluate", "approve", "suspend", "ask", "snapshot", "deploy", "promote"}
         => request[t].env \in Environments
  /\ fresh \in Nat /\ budget \in 0..MaxRequests

Init ==
  /\ bundles = {} /\ compilations = {} /\ traces = {}
  /\ deployments = {} /\ approvals = {} /\ snapshots = {}
  /\ request = [t \in Threads |-> NoRequest]
  /\ fresh = 1
  /\ stored = {}
  /\ budget = MaxRequests
  /\ PolicyInit

-----------------------------------------------------------------------------
(* The repository.                                                         *)

\* get_versions, get_bundle without a version, list_bundles.
Versions(id) == {r \in bundles : r.id = id}
Newest(rows) == {r \in rows : \A s \in rows : s.version <= r.version}
LatestBundles == UNION {Newest(Versions(r.id)) : r \in bundles}

\* As if the table had no key.
InsertRow(row) ==
  /\ bundles' = bundles \cup {row}
  /\ stored' = stored \cup {row}

\* save_bundle: INSERT OR REPLACE.
SaveBundle(row) ==
  /\ bundles' = {r \in bundles : ~SameKey(r, row)} \cup {row}
  /\ stored' = stored \cup {row}

RemoveVersions(id) == bundles' = bundles \ Versions(id)

SaveCompilation(c) == compilations' = compilations \cup {c}
SaveTraceRow(build, n) == traces' = traces \cup {<<build, n>>}

\* save_deployment: INSERT OR REPLACE by deployment_id.
PutDeployment(d) == deployments' = {e \in deployments : e.id # d.id} \cup {d}
SaveDeploymentSnapshot(d, payload) ==
  snapshots' = snapshots \cup {[deployment |-> d, payload |-> payload]}
SaveDeploymentApproval(d, decision) ==
  approvals' = approvals \cup {[deployment |-> d, decision |-> decision]}

tables == <<bundles, compilations, traces, deployments, approvals, snapshots, stored>>
others == <<compilations, traces, deployments, approvals, snapshots>>

Become(t, req) == request' = [request EXCEPT ![t] = req]
Goto(t, l) == Become(t, [request[t] EXCEPT !.pc = l])
Answer(t) == Become(t, NoRequest)

At(t, l) == request[t].pc = l
Spend == budget > 0 /\ budget' = budget - 1

-----------------------------------------------------------------------------
(* RunbookService.compile_runbook, from the moment the bundle is built.    *)

\* BundleStore._get_or_create_bundle_id: the id of a bundle whose latest row has
\* the name, or a new one. Of several such bundles the one compiled last counts;
\* compilations overlap, so that may be any.
BundleIdFor(n) ==
  LET namesakes == {r.id : r \in {b \in LatestBundles : b.name = n}}
  IN  IF namesakes = {} THEN {fresh} ELSE namesakes

StoreBuild(t, n, status, count) ==
  /\ \E id \in BundleIdFor(n) :
       Become(t, [NoRequest EXCEPT
         !.pc = "versions", !.traces = count,
         !.row = [id |-> id, version |-> 1, name |-> n, payload |-> fresh,
                  status |-> status, env |-> "DEV", promotion |-> "DRAFT"]])
  /\ fresh' = fresh + 1
  /\ UNCHANGED <<tables, policyVars>>

CompileRunbook(t) ==
  /\ At(t, "idle") /\ Spend
  /\ \E n \in BundleNames, status \in CompileStatus : StoreBuild(t, n, status, TraceCount)

\* The runbook cannot be parsed: a stub named after the file, without traces.
ParseFails(t) ==
  /\ At(t, "idle") /\ Spend
  /\ \E n \in BundleNames : StoreBuild(t, n, "FAILED", 0)

\* The highest version read plus one.
ChooseVersion(t) ==
  /\ At(t, "versions")
  /\ LET rows == Versions(request[t].row.id)
         next == IF rows = {} THEN 1 ELSE (CHOOSE r \in Newest(rows) : TRUE).version + 1
     IN  Become(t, [request[t] EXCEPT !.pc = "insert", !.row.version = next, !.seen = rows])
  /\ UNCHANGED <<tables, policyVars, fresh, budget>>

\* As if the compilation were not recorded.
InsertUnrecorded(t) ==
  /\ At(t, "insert")
  /\ SaveBundle(request[t].row)
  /\ Goto(t, "traces")
  /\ UNCHANGED <<others, policyVars, fresh, budget>>

InsertBundle(t) ==
  /\ At(t, "insert")
  /\ SaveBundle(request[t].row)
  /\ Goto(t, "record")
  /\ UNCHANGED <<others, policyVars, fresh, budget>>

RecordCompilation(t) ==
  /\ At(t, "record")
  /\ SaveCompilation([build |-> request[t].row.payload, bundle |-> request[t].row.id,
                      status |-> request[t].row.status])
  /\ Goto(t, "traces")
  /\ UNCHANGED <<bundles, traces, deployments, approvals, snapshots, stored, policyVars, fresh, budget>>

\* TraceStore.save_traces: one row per step, each in its own transaction.
SaveTrace(t) ==
  /\ At(t, "traces") /\ request[t].traces > 0
  /\ SaveTraceRow(request[t].row.payload, request[t].traces)
  /\ Become(t, [request[t] EXCEPT !.traces = @ - 1])
  /\ UNCHANGED <<bundles, compilations, deployments, approvals, snapshots, stored, policyVars, fresh, budget>>

AnswerCompile(t) ==
  /\ At(t, "traces") /\ request[t].traces = 0
  /\ Answer(t)
  /\ UNCHANGED <<tables, policyVars, fresh, budget>>

-----------------------------------------------------------------------------
(* DeploymentService.promote_bundle.                                       *)

\* The latest version is read; from here on the request works on that copy.
ReadForPromotion(t, env, approved) ==
  \E r \in LatestBundles :
    Become(t, [NoRequest EXCEPT !.pc = "evaluate", !.row = r, !.seen = Versions(r.id),
                                !.env = env, !.approved = approved])

PromoteBundle(t) ==
  /\ At(t, "idle") /\ Spend
  /\ \E env \in Environments, approved \in BOOLEAN : ReadForPromotion(t, env, approved)
  /\ UNCHANGED <<tables, policyVars, fresh>>

\* validate_promotion reads the bundle and the policies.
Permitted(t) == Versions(request[t].row.id) # {} /\ Evaluate(request[t].env)

\* As if PRODUCTION were an environment like the others.
PromotionUngated(t) ==
  /\ At(t, "evaluate") /\ Permitted(t)
  /\ Become(t, [request[t] EXCEPT !.pc = "snapshot", !.deployment = fresh])
  /\ fresh' = fresh + 1
  /\ UNCHANGED <<tables, policyVars, budget>>

PromotionAllowed(t) ==
  /\ At(t, "evaluate") /\ Permitted(t)
  /\ Become(t, [request[t] EXCEPT
       !.pc = IF request[t].env # "PRODUCTION" THEN "snapshot"
              ELSE IF request[t].approved THEN "approve" ELSE "suspend",
       !.deployment = fresh])
  /\ fresh' = fresh + 1
  /\ UNCHANGED <<tables, policyVars, budget>>

PromotionBlocked(t) ==
  /\ At(t, "evaluate") /\ ~Permitted(t)
  /\ Answer(t)
  /\ UNCHANGED <<tables, policyVars, fresh, budget>>

\* The caller named an approver: the approval is recorded at once.
SaveApproval(t) ==
  /\ At(t, "approve")
  /\ SaveDeploymentApproval(request[t].deployment, "APPROVED")
  /\ Goto(t, "snapshot")
  /\ UNCHANGED <<bundles, compilations, traces, deployments, snapshots, stored, policyVars, fresh, budget>>

DeploymentOf(t, status) ==
  [id |-> request[t].deployment, bundle |-> request[t].row.id, version |-> request[t].row.version,
   env |-> request[t].env, status |-> status]

\* Nobody named an approver, and the deployment id is new, so that no approval of
\* it can exist: the deployment is saved as PENDING and the request is refused.
SuspendDeployment(t) ==
  /\ At(t, "suspend")
  /\ PutDeployment(DeploymentOf(t, "PENDING"))
  /\ Goto(t, "ask")
  /\ UNCHANGED <<bundles, compilations, traces, approvals, snapshots, stored, policyVars, fresh, budget>>

AskForApproval(t) ==
  /\ At(t, "ask")
  /\ SaveDeploymentApproval(request[t].deployment, "PENDING")
  /\ Answer(t)
  /\ UNCHANGED <<bundles, compilations, traces, deployments, snapshots, stored, policyVars, fresh, budget>>

\* As if the bundle were written before the deployment.
SnapshotThenPromote(t) ==
  /\ At(t, "snapshot")
  /\ SaveDeploymentSnapshot(request[t].deployment, request[t].row.payload)
  /\ Goto(t, "promote")
  /\ UNCHANGED <<bundles, compilations, traces, deployments, approvals, stored, policyVars, fresh, budget>>

SaveSnapshot(t) ==
  /\ At(t, "snapshot")
  /\ SaveDeploymentSnapshot(request[t].deployment, request[t].row.payload)
  /\ Goto(t, "deploy")
  /\ UNCHANGED <<bundles, compilations, traces, deployments, approvals, stored, policyVars, fresh, budget>>

SaveDeployment(t) ==
  /\ At(t, "deploy")
  /\ PutDeployment(DeploymentOf(t, "SUCCESS"))
  /\ Goto(t, "promote")
  /\ UNCHANGED <<bundles, compilations, traces, approvals, snapshots, stored, policyVars, fresh, budget>>

PromotedRow(t) ==
  [request[t].row EXCEPT !.version = @ + 1, !.status = "COMPILED", !.env = request[t].env,
     !.promotion = IF request[t].env = "PRODUCTION" THEN "APPROVED" ELSE "PROMOTED"]

SavePromoted(t) ==
  /\ At(t, "promote")
  /\ SaveBundle(PromotedRow(t))
  /\ Answer(t)
  /\ UNCHANGED <<others, policyVars, fresh, budget>>

-----------------------------------------------------------------------------
(* DeploymentService.rollback_bundle and the route that deletes a bundle.  *)

ReadTarget(t) == \E r \in bundles : Become(t, [NoRequest EXCEPT !.pc = "latest", !.row = r])

RollbackBundle(t) ==
  /\ At(t, "idle") /\ Spend
  /\ ReadTarget(t)
  /\ UNCHANGED <<tables, policyVars, fresh>>

\* As if the version after the target were free.
VersionAfter(row) == row.version + 1

\* Without a latest version (deleted meanwhile) the target's number counts.
NextVersion(row) ==
  LET rows == Versions(row.id)
  IN  (IF rows = {} THEN row.version ELSE (CHOOSE r \in Newest(rows) : TRUE).version) + 1

ReadLatest(t) ==
  /\ At(t, "latest")
  /\ Become(t, [request[t] EXCEPT
       !.pc = "restore", !.seen = Versions(request[t].row.id),
       !.row = [@ EXCEPT !.version = NextVersion(request[t].row), !.status = "COMPILED",
                         !.promotion = "DRAFT"]])
  /\ UNCHANGED <<tables, policyVars, fresh, budget>>

SaveRestored(t) ==
  /\ At(t, "restore")
  /\ SaveBundle(request[t].row)
  /\ Answer(t)
  /\ UNCHANGED <<others, policyVars, fresh, budget>>

\* The latest version is read for the ownership check.
ReadForDeletion(t) ==
  /\ At(t, "idle") /\ Spend
  /\ \E r \in LatestBundles : Become(t, [NoRequest EXCEPT !.pc = "erase", !.row = r])
  /\ UNCHANGED <<tables, policyVars, fresh>>

DeleteBundle(t) ==
  /\ At(t, "erase")
  /\ RemoveVersions(request[t].row.id)
  /\ Answer(t)
  /\ UNCHANGED <<others, stored, policyVars, fresh, budget>>

\* A repository call raises: compile_runbook logs it, the others answer 500.
RequestFails(t) ==
  /\ ~At(t, "idle")
  /\ Answer(t)
  /\ UNCHANGED <<tables, policyVars, fresh, budget>>

-----------------------------------------------------------------------------

CompileStep(t) ==
  \/ CompileRunbook(t) \/ ParseFails(t) \/ ChooseVersion(t) \/ InsertBundle(t)
  \/ RecordCompilation(t) \/ SaveTrace(t) \/ AnswerCompile(t)

PromotionStep(t) ==
  \/ PromoteBundle(t) \/ PromotionAllowed(t) \/ PromotionBlocked(t) \/ SaveApproval(t)
  \/ SuspendDeployment(t) \/ AskForApproval(t) \/ SaveSnapshot(t) \/ SaveDeployment(t)
  \/ SavePromoted(t)

RollbackStep(t) == RollbackBundle(t) \/ ReadLatest(t) \/ SaveRestored(t)
DeletionStep(t) == ReadForDeletion(t) \/ DeleteBundle(t)

EditStep(e) ==
  /\ \/ BeginEdit(e) /\ Spend
     \/ EndEdit(e) /\ UNCHANGED budget
  /\ UNCHANGED releaseVars

Next ==
  \/ \E t \in Threads :
       CompileStep(t) \/ PromotionStep(t) \/ RollbackStep(t) \/ DeletionStep(t) \/ RequestFails(t)
  \/ \E e \in Editors : EditStep(e)

Spec == Init /\ [][Next]_vars

-----------------------------------------------------------------------------
(* Properties.                                                             *)

\* A deployment that succeeded has the snapshot of a version of its bundle that
\* was stored under its number, and in PRODUCTION an approval. One that waits for
\* an approval has neither snapshot nor approval.
DeploymentsAreBacked ==
  \A d \in deployments :
    IF d.status = "SUCCESS"
    THEN /\ \E r \in stored : /\ r.id = d.bundle /\ r.version = d.version
                              /\ [deployment |-> d.id, payload |-> r.payload] \in snapshots
         /\ d.env = "PRODUCTION" => [deployment |-> d.id, decision |-> "APPROVED"] \in approvals
    ELSE /\ \A s \in snapshots : s.deployment # d.id
         /\ [deployment |-> d.id, decision |-> "APPROVED"] \notin approvals

\* Wherever a request fails or dies, a version that was ever marked PROMOTED or
\* APPROVED has its SUCCESS deployment into the same environment, of the version
\* before it and with the same payload: promote_bundle writes the approval, the
\* snapshot and the deployment before the bundle.
PromotionsAreDeployed ==
  \A r \in stored : r.promotion # "DRAFT" =>
    \E d \in deployments :
      /\ d.bundle = r.id /\ d.version + 1 = r.version /\ d.env = r.env /\ d.status = "SUCCESS"
      /\ [deployment |-> d.id, payload |-> r.payload] \in snapshots

\* Whatever is stored comes from a compilation under the same bundle: promotions
\* and rollbacks copy payloads that were stored before, compilations are recorded
\* after their bundle with its status, and traces after their compilation.
ArtifactsAreTraceable ==
  /\ \A r \in stored : \E s \in stored :
       s.id = r.id /\ s.payload = r.payload /\ s.status \in CompileStatus
  /\ \A c \in compilations : \E r \in stored :
       r.payload = c.build /\ r.id = c.bundle /\ r.status = c.status
  /\ \A n \in traces : \E c \in compilations : c.build = n[1]

\* An existing version is only replaced by a request that chose its number before
\* that version was stored: BundleStore.save_bundle "ensures existing versions are
\* never overwritten" except by requests that race.
OverwritesAreRaces ==
  [][\A r \in bundles :
       (\E s \in bundles' : SameKey(r, s) /\ r # s) =>
         \E t \in Threads : request'[t] # request[t] /\ r \notin request[t].seen]_vars
=============================================================================
