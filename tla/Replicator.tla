------------------------------ MODULE Replicator ------------------------------
(***************************************************************************)
(* Pipeline replication (src/concourse/replicator.py).                     *)
(*                                                                         *)
(* PipelineReplicator.replicate maps _process_definition_descriptor over   *)
(* the enumerated definition descriptors on a ThreadPoolExecutor (one      *)
(* worker per descriptor here: the pool has 16 threads and a model run     *)
(* has fewer descriptors).  A worker renders, checks the shared set of     *)
(* pipeline names under a lock, and deploys with ConcourseDeployer.  Once  *)
(* the pool is drained, ReplicationResultProcessor.process_results removes *)
(* orphaned pipelines per (concourse cfg, team) target, bootstraps new     *)
(* pipelines and notifies the owners of broken definitions.  Runs repeat;  *)
(* the backend's pipelines persist between them.                           *)
(***************************************************************************)
EXTENDS Naturals, Sequences, FiniteSets, TLC

CONSTANTS
    Descriptors, Targets, Names, PipelineName, TargetOf, Protected,
    InitialPipelines,
    Order,                  \* the enumeration order of Descriptors (a sequence)
    UnpausePipelines,       \* ConcourseDeployer.unpause_pipelines
    UnpauseNewPipelines,    \* unpause_new_pipelines (deployer and processor)
    ExposePipelines,        \* ConcourseDeployer.expose_pipelines
    NoCleanupPolicy,        \* job_mapping.cleanup_policy() is NO_CLEANUP
    MaxRuns

ASSUME /\ PipelineName \in [Descriptors -> Names]
       /\ TargetOf \in [Descriptors -> Targets]
       /\ Protected \subseteq Names
       /\ InitialPipelines \in [Targets -> SUBSET Names]
       /\ Order \in Seq(Descriptors) /\ Len(Order) = Cardinality(Descriptors)
       /\ {Order[i] : i \in 1..Len(Order)} = Descriptors
       /\ MaxRuns \in Nat \ {0}

\* The class of an exception: none, one in ignore_exceptions ("infra",
\* e.g. OSError, TypeError), or any other ("user", e.g. RuntimeError).
Exceptions == {"none", "user", "infra"}

\* DeployStatus is a bit field; a status is the set of its bits.
StatusFlags == {"SUCCEEDED", "FAILED", "SKIPPED", "CREATED"}

\* Why a worker produced its result (only the model distinguishes these).
Causes == {"none", "enumerate", "duplicate", "render", "deploy", "deployed"}

\* A DeployResult; exception is definition_descriptor.exception (set by the
\* enumerator), renderException the exception the Renderer captured.
Result == [status : SUBSET StatusFlags, cause : Causes,
           exception : Exceptions, renderException : Exceptions]
NoResult == [status |-> {}, cause |-> "none",
             exception |-> "none", renderException |-> "none"]

VARIABLES
    run,            \* number of the current replication run
    present,        \* descriptors the enumerators yield in this run
    pc,             \* worker step per descriptor
    created,        \* set_pipeline answered CREATED (worker-local response)
    claimed,        \* PipelineReplicator._pipeline_names
    result,         \* DeployResult per descriptor
    phase,          \* step of replicate() after the pool
    removePipelines,\* ReplicationResultProcessor.remove_pipelines
    doneTargets,    \* targets process_results has handled
    queue,          \* failed results still to be notified, in result order
    notified,       \* descriptors whose owners were sent an e-mail
    allNotified,    \* all_notifications_succeeded
    pipelines,      \* backend: pipeline names per target
    paused,         \* backend: paused pipelines per target
    exposed,        \* backend: exposed pipelines per target
    deleted,        \* <<target, name>> removed by cleanup in this run
    initialised     \* <<target, name>> given an initial resource check

workerVars == <<pc, created, claimed, result>>
procVars == <<phase, removePipelines, doneTargets, queue, notified, allNotified>>
backendVars == <<pipelines, paused, exposed>>
vars == <<run, present, workerVars, procVars, backendVars, deleted, initialised>>

Pos(d) == CHOOSE i \in 1..Len(Order) : Order[i] = d

\* The descriptors of the run whose result has no SUCCEEDED bit.
Failed == {d \in present : "SUCCEEDED" \notin result[d].status}

\* The targets process_results iterates over, i.e. that have a result.
ResultTargets == {TargetOf[d] : d \in present}

-----------------------------------------------------------------------------
(* A worker: PipelineReplicator._process_definition_descriptor.            *)

Finish(d, r) ==
    /\ result' = [result EXCEPT ![d] = r]
    /\ pc' = [pc EXCEPT ![d] = "done"]

Skipped(cause, exc, renderExc) ==
    [status |-> {"SKIPPED"}, cause |-> cause,
     exception |-> exc, renderException |-> renderExc]

FailedResult == [NoResult EXCEPT !.status = {"FAILED"}, !.cause = "deploy"]

\* _pipeline_name_conflict: test and insert in one critical section.
PipelineNameConflict(d) ==
    /\ PipelineName[d] \in claimed
    /\ UNCHANGED claimed

\* Faulty variant: the name is tested but not recorded.
PipelineNameAcceptedNoInsert(d) ==
    /\ PipelineName[d] \notin claimed
    /\ UNCHANGED claimed

\* Faulty variant: the descriptor, not its pipeline name, is recorded.
PipelineNameAcceptedDescriptor(d) ==
    /\ PipelineName[d] \notin claimed
    /\ claimed' = claimed \cup {d}

PipelineNameAccepted(d) ==
    /\ PipelineName[d] \notin claimed
    /\ claimed' = claimed \cup {PipelineName[d]}

\* Enumeration error check, preprocess + Renderer.render, the name check and
\* the dispatch on the render status.  Only the name check touches shared
\* state, so the local steps before it are folded into the same action.
ProcessDefinitionDescriptor(d) ==
    /\ phase = "workers"
    /\ pc[d] = "start"
    /\ \/ \E e \in Exceptions \ {"none"} :
            /\ Finish(d, Skipped("enumerate", e, "none"))
            /\ UNCHANGED claimed
       \/ /\ PipelineNameConflict(d)
          /\ Finish(d, Skipped("duplicate", "none", "none"))
       \/ /\ PipelineNameAccepted(d)
          /\ \/ \E e \in Exceptions \ {"none"} :
                    Finish(d, Skipped("render", "none", e))
             \/ /\ pc' = [pc EXCEPT ![d] = "set"]
                /\ UNCHANGED result
    /\ UNCHANGED <<run, present, created, procVars, backendVars, deleted,
                   initialised>>

\* The backend's effect of a successful api.set_pipeline: a new pipeline is
\* created paused, an existing one keeps its pause state.
SavePipeline(d) ==
    LET t == TargetOf[d]
        n == PipelineName[d]
    IN /\ created' = [created EXCEPT ![d] = n \notin pipelines[t]]
       /\ pipelines' = [pipelines EXCEPT ![t] = @ \cup {n}]
       /\ paused' = IF n \in pipelines[t] THEN paused
                    ELSE [paused EXCEPT ![t] = @ \cup {n}]
       /\ pc' = [pc EXCEPT ![d] = "post"]
       /\ UNCHANGED <<exposed, result>>

\* ConcourseDeployer.deploy, first api.set_pipeline call.  The HTTP 500
\* "comparison with existing config failed" answer leads to one retry after
\* a random sleep; any other HTTP error fails the deploy.
SetPipeline(d) ==
    /\ pc[d] = "set"
    /\ \/ SavePipeline(d)
       \/ /\ pc' = [pc EXCEPT ![d] = "retry"]
          /\ UNCHANGED <<created, result, backendVars>>
       \/ /\ Finish(d, FailedResult)
          /\ UNCHANGED <<created, backendVars>>
    /\ UNCHANGED <<run, present, claimed, procVars, deleted, initialised>>

\* Faulty variant: the save is retried until it no longer races.
RetrySetPipelineAgain(d) ==
    /\ pc[d] = "retry"
    /\ pc' = [pc EXCEPT ![d] = "set"]
    /\ UNCHANGED <<run, present, created, claimed, result, procVars,
                   backendVars, deleted, initialised>>

\* The single retry: whatever it raises fails the deploy.
RetrySetPipeline(d) ==
    /\ pc[d] = "retry"
    /\ \/ SavePipeline(d)
       \/ /\ Finish(d, FailedResult)
          /\ UNCHANGED <<created, backendVars>>
    /\ UNCHANGED <<run, present, claimed, procVars, deleted, initialised>>

\* Faulty variant: only pipelines the save created are unpaused.
DeployerUnpausesCreatedOnly(d) == UnpauseNewPipelines /\ created[d]

\* Whether the deployer calls unpause_pipeline after set_pipeline.
DeployerUnpauses(d) == UnpausePipelines \/ (UnpauseNewPipelines /\ created[d])

\* Unpause and expose after a successful set_pipeline, then the result.
\* Either backend call may raise, which turns the deploy into FAILED even
\* though the pipeline has been saved.
UnpauseAndExpose(d) ==
    LET t == TargetOf[d]
        n == PipelineName[d]
        unpaused == IF DeployerUnpauses(d)
                    THEN [paused EXCEPT ![t] = @ \ {n}] ELSE paused
        ok == [NoResult EXCEPT !.cause = "deployed", !.status =
                    IF created[d] THEN {"SUCCEEDED", "CREATED"} ELSE {"SUCCEEDED"}]
    IN /\ pc[d] = "post"
       /\ \/ /\ paused' = unpaused
             /\ exposed' = IF ExposePipelines
                           THEN [exposed EXCEPT ![t] = @ \cup {n}] ELSE exposed
             /\ Finish(d, ok)
          \/ /\ DeployerUnpauses(d)
             /\ Finish(d, FailedResult)
             /\ UNCHANGED <<paused, exposed>>
          \/ /\ ExposePipelines
             /\ paused' = unpaused
             /\ Finish(d, FailedResult)
             /\ UNCHANGED exposed
       /\ UNCHANGED <<run, present, created, claimed, pipelines, procVars,
                      deleted, initialised>>

-----------------------------------------------------------------------------
(* ReplicationResultProcessor.process_results, after the pool is drained.  *)

\* Faulty variant: cleanup is not suspended after failures.
ProcessResultsUngated ==
    /\ phase = "workers"
    /\ \A d \in present : pc[d] = "done"
    /\ phase' = "targets"
    /\ UNCHANGED <<run, present, workerVars, removePipelines, doneTargets, queue,
                   notified, allNotified, backendVars, deleted, initialised>>

\* Grouping by target and the failure gate on cleanup.
ProcessResults ==
    /\ phase = "workers"
    /\ \A d \in present : pc[d] = "done"
    /\ removePipelines' = (removePipelines /\ Failed = {})
    /\ phase' = "targets"
    /\ UNCHANGED <<run, present, workerVars, doneTargets, queue, notified,
                   allNotified, backendVars, deleted, initialised>>

\* Targets are handled in the order of their first result.
NextTarget(t) ==
    \A u \in ResultTargets \ doneTargets :
        \E d \in present : TargetOf[d] = t /\ \A e \in present :
            TargetOf[e] = u => Pos(d) <= Pos(e)

\* Faulty variant: the remove_pipelines_filter is not applied.
PipelinesToRemoveUnfiltered(t) ==
    IF removePipelines
    THEN pipelines[t] \ {PipelineName[d] : d \in {e \in present : TargetOf[e] = t}}
    ELSE {}

\* The pipelines of target t the cleanup deletes: those on the backend that
\* no result of the target names, except the ones the filter protects.
PipelinesToRemove(t) ==
    IF removePipelines
    THEN (pipelines[t] \ {PipelineName[d] : d \in {e \in present : TargetOf[e] = t}})
            \ Protected
    ELSE {}

\* Faulty variant: `deploy_status is DeployStatus.CREATED` instead of the
\* bit test, which misses SUCCEEDED|CREATED.
NewlyDeployedCreatedOnly(t) ==
    {PipelineName[d] : d \in {e \in present : TargetOf[e] = t
                                          /\ result[e].status = {"CREATED"}}}

\* newly_deployed_pipeline_names: results of target t with the CREATED bit.
NewlyDeployedPipelineNames(t) ==
    {PipelineName[d] : d \in {e \in present : TargetOf[e] = t
                                          /\ "CREATED" \in result[e].status}}

\* Cleanup of target t, then _initialise_new_pipeline_resources, then the
\* alphabetical reordering (the order of pipelines is not modelled).
ProcessTarget(t) ==
    LET toRemove == PipelinesToRemove(t)
        newNames == NewlyDeployedPipelineNames(t)
    IN /\ phase = "targets"
       /\ t \in ResultTargets \ doneTargets
       /\ NextTarget(t)
       /\ pipelines' = [pipelines EXCEPT ![t] = @ \ toRemove]
       /\ exposed' = [exposed EXCEPT ![t] = @ \ toRemove]
       /\ paused' = [paused EXCEPT ![t] =
                        IF UnpauseNewPipelines THEN (@ \ toRemove) \ newNames
                        ELSE @ \ toRemove]
       /\ deleted' = deleted \cup {<<t, n>> : n \in toRemove}
       /\ initialised' = initialised \cup {<<t, n>> : n \in newNames}
       /\ doneTargets' = doneTargets \cup {t}
       /\ UNCHANGED <<run, present, workerVars, phase, removePipelines, queue,
                      notified, allNotified>>

\* A backend call of the per-target loop raises: pipelines(), a
\* delete_pipeline, unpause_pipeline, pipeline_resources,
\* trigger_resource_check or order_pipelines.  The pipelines deleted and
\* the new ones unpaused and checked before it stay so; the exception ends
\* process_results, and the later targets are not processed.
ProcessTargetRaises(t) ==
    LET toRemove == PipelinesToRemove(t)
        newNames == NewlyDeployedPipelineNames(t)
    IN /\ phase = "targets"
       /\ t \in ResultTargets \ doneTargets
       /\ NextTarget(t)
       /\ \E gone \in SUBSET toRemove, unpaused \in SUBSET newNames,
             checked \in SUBSET newNames :
            /\ unpaused # {} => gone = toRemove
            /\ checked \subseteq unpaused \/ ~UnpauseNewPipelines
            /\ checked # {} => gone = toRemove
            /\ pipelines' = [pipelines EXCEPT ![t] = @ \ gone]
            /\ exposed' = [exposed EXCEPT ![t] = @ \ gone]
            /\ paused' = [paused EXCEPT ![t] =
                            IF UnpauseNewPipelines THEN (@ \ gone) \ unpaused
                            ELSE @ \ gone]
            /\ deleted' = deleted \cup {<<t, n>> : n \in gone}
            /\ initialised' = initialised \cup {<<t, n>> : n \in checked}
       /\ phase' = "crashed"
       /\ UNCHANGED <<run, present, workerVars, removePipelines, doneTargets,
                      queue, notified, allNotified>>

\* failed_descriptors, in the order of the results (the enumeration order).
FailedDescriptors == SelectSeq(Order, LAMBDA d : d \in Failed)

\* `if failed_count == 0: return True`, else start notifying.
FinishTargets ==
    /\ phase = "targets"
    /\ doneTargets = ResultTargets
    /\ IF Failed = {}
       THEN /\ phase' = "done"
            /\ UNCHANGED queue
       ELSE /\ phase' = "notify"
            /\ queue' = FailedDescriptors
    /\ UNCHANGED <<run, present, workerVars, removePipelines, doneTargets,
                   notified, allNotified, backendVars, deleted, initialised>>

\* should_notify_pipeline_owners: `type(definition_descriptor.exception) in
\* ignore_exceptions` reads the enumeration exception only.
ShouldNotify(d) == result[d].exception # "infra"

\* One failed result.  When it must not be notified, the warning that
\* follows formats `failed_descriptor.pipeline_name`, which a DeployResult
\* does not have: the AttributeError ends process_results.  Otherwise
\* _notify_broken_definition_owners sends a mail, finds no recipients, or
\* raises (caught; the run then returns False).
NotifyOwners ==
    LET d == Head(queue) IN
    /\ phase = "notify"
    /\ queue # <<>>
    /\ \/ /\ ~ShouldNotify(d)
          /\ phase' = "crashed"
          /\ UNCHANGED <<queue, notified, allNotified>>
       \/ /\ ShouldNotify(d)
          /\ queue' = Tail(queue)
          /\ \/ notified' = notified \cup {d} /\ UNCHANGED allNotified
             \/ UNCHANGED <<notified, allNotified>>
             \/ allNotified' = FALSE /\ UNCHANGED notified
          /\ UNCHANGED phase
    /\ UNCHANGED <<run, present, workerVars, removePipelines, doneTargets,
                   backendVars, deleted, initialised>>

FinishNotify ==
    /\ phase = "notify"
    /\ queue = <<>>
    /\ phase' = "done"
    /\ UNCHANGED <<run, present, workerVars, removePipelines, doneTargets,
                   queue, notified, allNotified, backendVars, deleted, initialised>>

-----------------------------------------------------------------------------
(* Runs: replicate_pipelines builds a fresh PipelineReplicator and         *)
(* ReplicationResultProcessor each time.                                   *)

StartRun(P) ==
    /\ present' = P
    /\ pc' = [d \in Descriptors |-> IF d \in P THEN "start" ELSE "idle"]
    /\ created' = [d \in Descriptors |-> FALSE]
    /\ claimed' = {}
    /\ result' = [d \in Descriptors |-> NoResult]
    /\ phase' = "workers"
    /\ removePipelines' = ~NoCleanupPolicy
    /\ doneTargets' = {}
    /\ queue' = <<>>
    /\ notified' = {}
    /\ allNotified' = TRUE
    /\ deleted' = {}
    /\ initialised' = {}

Init ==
    /\ run = 1
    /\ present \in SUBSET Descriptors
    /\ pc = [d \in Descriptors |-> IF d \in present THEN "start" ELSE "idle"]
    /\ created = [d \in Descriptors |-> FALSE]
    /\ claimed = {}
    /\ result = [d \in Descriptors |-> NoResult]
    /\ phase = "workers"
    /\ removePipelines = ~NoCleanupPolicy
    /\ doneTargets = {}
    /\ queue = <<>>
    /\ notified = {}
    /\ allNotified = TRUE
    /\ pipelines = InitialPipelines
    /\ paused = [t \in Targets |-> {}]
    /\ exposed = [t \in Targets |-> {}]
    /\ deleted = {}
    /\ initialised = {}

\* The next run, after process_results returned or raised.  The backend
\* keeps its pipelines; the replicator and processor are new objects.
NextRun ==
    /\ phase \in {"done", "crashed"}
    /\ run < MaxRuns
    /\ run' = run + 1
    /\ \E P \in SUBSET Descriptors : StartRun(P)
    /\ UNCHANGED backendVars

Worker(d) ==
    \/ ProcessDefinitionDescriptor(d)
    \/ SetPipeline(d)
    \/ RetrySetPipeline(d)
    \/ UnpauseAndExpose(d)

Next ==
    \/ \E d \in Descriptors : Worker(d)
    \/ ProcessResults
    \/ \E t \in Targets : ProcessTarget(t)
    \/ \E t \in Targets : ProcessTargetRaises(t)
    \/ FinishTargets
    \/ NotifyOwners
    \/ FinishNotify
    \/ NextRun

\* The pool's threads run every submitted task to completion, and the
\* processor runs once the pool is drained: weak fairness on each step.
\* A new run is a new invocation and is not assumed to happen.
Fairness ==
    /\ \A d \in Descriptors : WF_vars(Worker(d))
    /\ WF_vars(ProcessResults)
    /\ \A t \in Targets : WF_vars(ProcessTarget(t))
    /\ WF_vars(FinishTargets)
    /\ WF_vars(NotifyOwners)
    /\ WF_vars(FinishNotify)

Spec == Init /\ [][Next]_vars /\ Fairness

-----------------------------------------------------------------------------
(* Properties                                                              *)

TypeOK ==
    /\ run \in 1..MaxRuns
    /\ present \subseteq Descriptors
    /\ pc \in [Descriptors -> {"idle", "start", "set", "retry", "post", "done"}]
    /\ created \in [Descriptors -> BOOLEAN]
    /\ claimed \subseteq Names
    /\ result \in [Descriptors -> Result]
    /\ phase \in {"workers", "targets", "notify", "done", "crashed"}
    /\ removePipelines \in BOOLEAN
    /\ doneTargets \subseteq Targets
    /\ queue \in Seq(Descriptors)
    /\ notified \subseteq Descriptors
    /\ allNotified \in BOOLEAN
    /\ \A x \in {pipelines, paused, exposed} : x \in [Targets -> SUBSET Names]
    /\ deleted \subseteq Targets \X Names
    /\ initialised \subseteq Targets \X Names

\* A descriptor whose pipeline definition reaches ConcourseDeployer.deploy.
Deploying(d) == pc[d] \in {"set", "retry", "post"} \/ result[d].cause \in {"deploy", "deployed"}

\* P1, _pipeline_name_conflict under concurrent workers: of the descriptors
\* of a run that define the same pipeline name, at most one is deployed,
\* however the pool's threads interleave.
UniqueDeploy ==
    \A d1, d2 \in present :
        (d1 # d2 /\ PipelineName[d1] = PipelineName[d2])
            => ~(Deploying(d1) /\ Deploying(d2))

\* P2, the failure gate of process_results: a run deletes pipelines only if
\* no result of the run lacks the SUCCEEDED bit and the job mapping's
\* cleanup policy allows it.
CleanupOnlyAfterCleanRun ==
    deleted # {} => Failed = {} /\ ~NoCleanupPolicy

\* P3, _initialise_new_pipeline_resources: once a run's targets have been
\* processed, every pipeline a deploy of this run created has had its
\* initial resource check and, with unpause_new_pipelines, is not paused.
NewPipelinesInitialised ==
    phase \in {"notify", "done"} =>
        \A d \in present :
            "CREATED" \in result[d].status =>
                /\ <<TargetOf[d], PipelineName[d]>> \in initialised
                /\ UnpauseNewPipelines => PipelineName[d] \notin paused[TargetOf[d]]

\* Recovery across runs: a pipeline left paused by an earlier run (whose
\* unpause_pipeline raised, or whose process_results raised before it got
\* to the target) is no longer paused once a later run with
\* unpause_pipelines set has deployed every descriptor successfully.
DeployedPipelinesUnpaused ==
    (phase = "done" /\ Failed = {} /\ UnpausePipelines) =>
        \A d \in present :
            result[d].cause = "deployed" => PipelineName[d] \notin paused[TargetOf[d]]

\* The replication of one run terminates: the pool drains and
\* process_results returns (or raises).
RunCompletes == phase = "workers" ~> phase \in {"done", "crashed"}

\* Refinement: seen as the pipelines per target, replication only adds
\* pipelines that present descriptors define and only removes orphans the
\* removal filter does not protect (ReplicationAbstract).
ABS == INSTANCE ReplicationAbstract
AbstractSpec == ABS!Spec

=============================================================================
