----------------------------- MODULE OrganizeJob -----------------------------
(***************************************************************************)
(* The organize job of one memoir: the request that starts it, the         *)
(* background pipeline that ends in a saved proposal, and the three places *)
(* that say how it went: memoir.organization_status, a row of              *)
(* organization_job_run, and a row of organization_agent_run per stage.    *)
(*                                                                         *)
(* A call of the database is one step and has a Reply as in Proposal; the  *)
(* calls in Faulty may fail.  The pipeline's calls of a language model are *)
(* a choice of their outcome.                                              *)
(***************************************************************************)
CONSTANTS
  Job,          \* requests to organize, each with the job it may start
  Faulty        \* the calls of the database that may fail

VARIABLES
  jobStatus,    \* memoir.organization_status
  stalled,      \* organization_started_at is STALL_THRESHOLD_SECONDS ago
  pc,           \* the next call of each request or job, or how it ended
  runRow,       \* its row of organization_job_run
  runId,        \* the jobs that know the id of that row
  stageRow,     \* its rows of organization_agent_run, by agent_role
  stageId,      \* the rows whose id the job knows
  saved         \* the jobs that saved a proposal

rows == <<runRow, runId, stageRow, stageId>>
vars == <<jobStatus, stalled, pc, rows, saved>>

-----------------------------------------------------------------------------

Role == {"reader", "organizer"}
RowStatus == {"absent", "running", "ready", "failed"}

\* The calls of a request and its job, in the order of the text.
Request == {"check", "setRunning"}
Pipeline == {"startRun", "fetchMemories", "startReader", "reader",
             "startOrganizer", "organizer", "saveProposal", "setReady",
             "finishReady", "setEmpty", "finishEmpty", "setFailed",
             "finishFailed"}
Over == {"rejected", "done", "raised", "crashed"}
Call == Request \cup Pipeline

ASSUME FaultyAssumption == Faulty \subseteq Call

Reply(call) == IF call \in Faulty THEN {"ok", "error", "lost"} ELSE {"ok"}
Wrote(reply) == reply # "error"

-----------------------------------------------------------------------------
(* Variants with a plausible bug, which the properties must notice *)

NeverStalled == jobStatus                 \* the read path trusts the column
AnyRun(j) == runRow[j] # "absent"         \* finish_run without its guard
ReadyFirst == "setReady"                  \* ready is set before the save
ContinueAfterReader == "startOrganizer"   \* a reader that failed is ignored
NoRowNoRaise(reply) == TRUE               \* start_run without "if not res.data"

\* The caller goes on with what the database returned.
Answered(reply) == reply = "ok"

\* compute_effective_organization_status
Effective == IF jobStatus = "running" /\ stalled THEN "stalled" ELSE jobStatus

\* What finish_run's update is filtered on.
Finishable(j) == runRow[j] = "running"

AfterOrganizer == "saveProposal"
AfterBadReader == "setFailed"

Goto(j, to) == pc' = [pc EXCEPT ![j] = to]
Then(j, reply, next, otherwise) ==
  Goto(j, IF Answered(reply) THEN next ELSE otherwise)

-----------------------------------------------------------------------------
(* trigger_ai_organization *)

\* The status is read, and a running job is answered 409 ...
Check(j) ==
  /\ pc[j] = "check"
  /\ Goto(j, IF Effective = "running" THEN "rejected" ELSE "setRunning")
  /\ UNCHANGED <<jobStatus, stalled, rows, saved>>

\* ... and set afterwards, before the task is scheduled.  If that raises, no
\* job will run, whatever the status has become.
SetRunning(j) ==
  /\ pc[j] = "setRunning"
  /\ \E reply \in Reply("setRunning") :
       /\ IF Wrote(reply) THEN jobStatus' = "running" /\ stalled' = FALSE
                          ELSE UNCHANGED <<jobStatus, stalled>>
       /\ Then(j, reply, "startRun", "raised")
  /\ UNCHANGED <<rows, saved>>

-----------------------------------------------------------------------------
(* perform_background_organization and _organization_job *)

\* start_run; if it raises the job goes on, without the id of a row.
StartRun(j) ==
  /\ pc[j] = "startRun"
  /\ \E reply \in Reply("startRun") :
       /\ runRow' = IF Wrote(reply) THEN [runRow EXCEPT ![j] = "running"]
                                    ELSE runRow
       /\ runId' = IF Answered(reply) THEN runId \cup {j} ELSE runId
  /\ Goto(j, "fetchMemories")
  /\ UNCHANGED <<jobStatus, stalled, stageRow, stageId, saved>>

\* fetch_memories_for_ai, and the other reads before the first stage.
FetchMemories(j) ==
  /\ pc[j] = "fetchMemories"
  /\ \/ \E reply \in Reply("fetchMemories") : Then(j, reply, "startReader", "setFailed")
     \/ Goto(j, "setEmpty")
  /\ UNCHANGED <<jobStatus, stalled, rows, saved>>

\* start_agent_run, only if there is a run; a failure is swallowed.
StartStage(j, role, call, next) ==
  /\ pc[j] = call
  /\ \E reply \in IF j \in runId THEN Reply(call) ELSE {"error"} :
       /\ stageRow' = IF Wrote(reply) THEN [stageRow EXCEPT ![j][role] = "running"]
                                      ELSE stageRow
       /\ stageId' = IF Answered(reply) THEN stageId \cup {<<j, role>>} ELSE stageId
  /\ Goto(j, next)
  /\ UNCHANGED <<jobStatus, stalled, runRow, runId, saved>>

\* The stage's language model calls end well or not (a rejected answer, an
\* exhausted provider chain, the deadline), and finish_agent_run records it if
\* it can.
EndStage(j, role, outcome, next) ==
  /\ pc[j] = role
  /\ \E reply \in IF <<j, role>> \in stageId THEN Reply(role) ELSE {"error"} :
       stageRow' = IF Wrote(reply) THEN [stageRow EXCEPT ![j][role] = outcome]
                                   ELSE stageRow
  /\ Goto(j, next)
  /\ UNCHANGED <<jobStatus, stalled, runRow, runId, stageId, saved>>

Reader(j) ==
  \/ StartStage(j, "reader", "startReader", "reader")
  \/ EndStage(j, "reader", "ready", "startOrganizer")
  \/ EndStage(j, "reader", "failed", AfterBadReader)

Organizer(j) ==
  \/ StartStage(j, "organizer", "startOrganizer", "organizer")
  \/ EndStage(j, "organizer", "ready", AfterOrganizer)
  \/ EndStage(j, "organizer", "failed", "setFailed")

\* resolve_plan may reject; save_proposal as in Proposal.
SaveProposal(j) ==
  /\ pc[j] = "saveProposal"
  /\ \/ /\ Goto(j, "setFailed")
        /\ UNCHANGED saved
     \/ \E reply \in Reply("saveProposal") :
          /\ saved' = IF Wrote(reply) THEN saved \cup {j} ELSE saved
          /\ Then(j, reply, "setReady", "setFailed")
  /\ UNCHANGED <<jobStatus, stalled, rows>>

\* set_organization_job_status, which does not look at the status it replaces.
SetStatus(j, call, st, next, otherwise) ==
  /\ pc[j] = call
  /\ \E reply \in Reply(call) :
       /\ jobStatus' = IF Wrote(reply) THEN st ELSE jobStatus
       /\ Then(j, reply, next, otherwise)
  /\ UNCHANGED <<stalled, rows, saved>>

\* finish_run.  Without an id its filter is no uuid and the update raises.
FinishRun(j, call, st, otherwise) ==
  /\ pc[j] = call
  /\ \E reply \in IF j \in runId THEN Reply(call) ELSE {"error"} :
       /\ runRow' = IF Wrote(reply) /\ Finishable(j)
                      THEN [runRow EXCEPT ![j] = st] ELSE runRow
       /\ Then(j, reply, "done", otherwise)
  /\ UNCHANGED <<jobStatus, stalled, runId, stageRow, stageId, saved>>

EndReady(j) ==
  \/ SetStatus(j, "setReady", "ready", "finishReady", "setFailed")
  \/ FinishRun(j, "finishReady", "ready", "setFailed")

EndEmpty(j) ==
  \/ SetStatus(j, "setEmpty", "failed", "finishEmpty", "setFailed")
  \/ FinishRun(j, "finishEmpty", "failed", "setFailed")

\* The except branches; what they raise leaves the background task.
EndFailed(j) ==
  \/ SetStatus(j, "setFailed", "failed", "finishFailed", "raised")
  \/ FinishRun(j, "finishFailed", "failed", "raised")

\* The process dies, and with it its requests and jobs' threads.
Crash(j) ==
  /\ pc[j] \in {"setRunning"} \cup Pipeline
  /\ Goto(j, "crashed")
  /\ UNCHANGED <<jobStatus, stalled, rows, saved>>

\* The status has been running for longer than the threshold.
Stall ==
  /\ jobStatus = "running"
  /\ ~ stalled
  /\ stalled' = TRUE
  /\ UNCHANGED <<jobStatus, pc, rows, saved>>

-----------------------------------------------------------------------------

Init ==
  /\ jobStatus \in {"none", "ready", "failed"}
  /\ stalled = FALSE
  /\ pc = [j \in Job |-> "check"]
  /\ runRow = [j \in Job |-> "absent"]
  /\ runId = {}
  /\ stageRow = [j \in Job |-> [role \in Role |-> "absent"]]
  /\ stageId = {}
  /\ saved = {}

JobStep(j) ==
  \/ Check(j)
  \/ SetRunning(j)
  \/ StartRun(j)
  \/ FetchMemories(j)
  \/ Reader(j)
  \/ Organizer(j)
  \/ SaveProposal(j)
  \/ EndReady(j)
  \/ EndEmpty(j)
  \/ EndFailed(j)

Next == Stall \/ \E j \in Job : JobStep(j) \/ Crash(j)

Spec == Init /\ [][Next]_vars

\* Time passes; a job that does not crash goes on.
Fairness == WF_vars(Stall) /\ \A j \in Job : WF_vars(JobStep(j))

FairSpec == Spec /\ Fairness

-----------------------------------------------------------------------------
(* Properties *)

\* Every variable has its type, and a job knows only ids of rows that exist.
TypeOK ==
  /\ jobStatus \in {"none", "running", "ready", "failed"}
  /\ stalled \in BOOLEAN
  /\ pc \in [Job -> Call \cup Over]
  /\ runRow \in [Job -> RowStatus]
  /\ runId \subseteq {j \in Job : runRow[j] # "absent"}
  /\ stageRow \in [Job -> [Role -> RowStatus]]
  /\ stageId \subseteq {jr \in runId \X Role : stageRow[jr[1]][jr[2]] # "absent"}
  /\ saved \subseteq Job

\* A run is closed as ready only if its job saved a proposal and none of its
\* stages is recorded as failed: the owner who is told that organizing ended
\* well has something to review (_organization_job, build_organization_plan).
ReadyRunIsSound ==
  \A j \in Job : runRow[j] = "ready" =>
    /\ j \in saved
    /\ \A role \in Role : stageRow[j][role] # "failed"

\* The memoir's status becomes ready only by a step of a job that saved its own
\* proposal before (_organization_job's order of calls), whichever other jobs
\* overlap it and whatever they saved.
ReadyHasProposal ==
  [][jobStatus' = "ready" /\ jobStatus # "ready" =>
       \E j \in saved : pc[j] = "setReady" /\ pc'[j] # "setReady"]_vars

\* "a late-arriving exit path from a retried or duplicated job cannot overwrite
\* a terminal state with a contradictory one" (finish_run): what a run ended
\* with it keeps, also when the answer to its first end was lost and an except
\* branch ends it again.
RunIsFinal ==
  [][\A j \in Job : runRow[j] \in {"ready", "failed"} => runRow'[j] = runRow[j]]_vars

\* "a job that died with the server process would otherwise show 'running'
\* forever" (compute_effective_organization_status): whatever fails and
\* whichever process dies, the status that the owner is shown does not stay
\* running, so that a new request is not refused for ever.
NoEternalRunning == Effective = "running" ~> Effective # "running"

=============================================================================
