----------------------------- MODULE Admission -----------------------------
(***************************************************************************)
(* evaluate_admission: may a piece of CI work start, given a policy, the   *)
(* request, a snapshot of what runs and the time                           *)
(* (crates/squabble-core/src/admission.rs).  A pure function: evidence is  *)
(* judged first, then policy, then capacity.  The counters of one change   *)
(* and of the estate are u32 and u64; only the two checked sums can        *)
(* overflow, and both are of u64.                                          *)
(***************************************************************************)
EXTENDS Integers

MaxU32 == 4294967295
MaxU64 == 18446744073709551615
U32    == 0..MaxU32
U64    == 0..MaxU64

Missing == [missing |-> TRUE]     \* no policy, no snapshot
NoSha   == "not a full commit id" \* valid_sha says no
NoReason == "none"

Policy ==
  [max_snapshot_age_seconds : U64,
   max_inflight_estate : U32, max_inflight_repository : U32,
   max_open_automation_prs_estate : U32, max_open_automation_prs_repository : U32,
   max_reserved_minutes_per_day : U64, max_reserved_minutes_per_change : U64,
   max_automatic_workflows_per_change : U32, max_runner_jobs_per_change : U32,
   allow_new_workflow_files : BOOLEAN, allow_trigger_expansion : BOOLEAN]

ProjectedCost ==
  [topology : {"Known", "Dynamic", "Unknown"},
   automatic_workflows : U32, runner_jobs : U32, max_job_timeout_minutes : U64,
   fixed_runner_minutes : U64, new_workflow_files : U32, trigger_expansions : U32]

Operation == {"CreatePullRequest", "RunCi", "Release", "Deployment"}

\* The identity of the repository and the class of the producer are carried for
\* receipts: nothing depends on them.
Request(Sha) ==
  [head_sha : Sha, operation : Operation,
   approval : {"None", "HumanApproved"}, projected : ProjectedCost]

\* What the host counted, and the head it saw.
Snapshot(Sha) ==
  [captured_at : U64, data_complete : BOOLEAN, observed_head_sha : Sha,
   estate_inflight : U32, repository_inflight : U32,
   estate_open_automation_prs : U32, repository_open_automation_prs : U32,
   reserved_minutes_today : U64]

-----------------------------------------------------------------------------
\* Runner minutes, before they are checked: runner_jobs * timeout may overflow,
\* and so may what is added to it.
ReservedMinutes(cost) ==
  cost.runner_jobs * cost.max_job_timeout_minutes + cost.fixed_runner_minutes

DayAfter(request, snapshot) ==
  snapshot.reserved_minutes_today + ReservedMinutes(request.projected)

Admit(minutes)     == [decision |-> "Admit", reserved_minutes |-> minutes]
Deny(reason)       == [decision |-> "Deny", reason |-> reason]
Quarantine(reason) == [decision |-> "Quarantine", reason |-> reason]
Queue(reason)      == [decision |-> "Queue", reason |-> reason]

\* Is the evidence whole, of this head and of this time, and does the cost fit?
Evidence(policy, request, snapshot, now) ==
  IF policy = Missing                            THEN "MissingPolicy"
  ELSE IF snapshot = Missing                     THEN "MissingBudgetSnapshot"
  ELSE IF ~snapshot.data_complete                THEN "IncompleteBudgetSnapshot"
  ELSE IF snapshot.captured_at > now             THEN "BudgetSnapshotFromFuture"
  ELSE IF now - snapshot.captured_at > policy.max_snapshot_age_seconds
                                                 THEN "StaleBudgetSnapshot"
  ELSE IF NoSha \in {request.head_sha, snapshot.observed_head_sha}
                                                 THEN "InvalidHeadSha"
  ELSE IF request.head_sha # snapshot.observed_head_sha THEN "HeadShaChanged"
  ELSE IF DayAfter(request, snapshot) > MaxU64   THEN "CostOverflow"
  ELSE NoReason

\* Does a person have to look at it?
Risk(policy, request) ==
  LET cost == request.projected IN
  IF cost.topology = "Dynamic"                   THEN "DynamicTopology"
  ELSE IF cost.topology = "Unknown"              THEN "UnknownTopology"
  ELSE IF cost.new_workflow_files > 0 /\ ~policy.allow_new_workflow_files
                                                 THEN "WorkflowFilesAdded"
  ELSE IF cost.trigger_expansions > 0 /\ ~policy.allow_trigger_expansion
                                                 THEN "TriggerExpanded"
  ELSE IF /\ request.operation \in {"Release", "Deployment"}
          /\ request.approval # "HumanApproved"  THEN "PrivilegedOperationNeedsApproval"
  ELSE IF cost.automatic_workflows > policy.max_automatic_workflows_per_change
                                                 THEN "AutomaticWorkflowCapExceeded"
  ELSE IF cost.runner_jobs > policy.max_runner_jobs_per_change
                                                 THEN "RunnerJobCapExceeded"
  ELSE NoReason

\* Is there room for it?
Shortage(policy, request, snapshot) ==
  LET opens == request.operation = "CreatePullRequest" IN
  IF ReservedMinutes(request.projected) > policy.max_reserved_minutes_per_change
                                                 THEN "ChangeBudgetExceeded"
  ELSE IF snapshot.estate_inflight >= policy.max_inflight_estate
                                                 THEN "EstateInflightCapReached"
  ELSE IF snapshot.repository_inflight >= policy.max_inflight_repository
                                                 THEN "RepositoryInflightCapReached"
  ELSE IF opens /\ snapshot.estate_open_automation_prs >= policy.max_open_automation_prs_estate
                                                 THEN "EstateOpenPrCapReached"
  ELSE IF opens /\ snapshot.repository_open_automation_prs >= policy.max_open_automation_prs_repository
                                                 THEN "RepositoryOpenPrCapReached"
  ELSE IF DayAfter(request, snapshot) > policy.max_reserved_minutes_per_day
                                                 THEN "DailyBudgetExceeded"
  ELSE NoReason

EvaluateAdmission(policy, request, snapshot, now) ==
  LET bad    == Evidence(policy, request, snapshot, now)
      risky  == Risk(policy, request)
      scarce == Shortage(policy, request, snapshot)
  IN  IF bad # NoReason         THEN Deny(bad)
      ELSE IF risky # NoReason  THEN Quarantine(risky)
      ELSE IF scarce # NoReason THEN Queue(scarce)
      ELSE Admit(ReservedMinutes(request.projected))
=============================================================================
