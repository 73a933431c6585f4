--------------------------- MODULE WebhookDispatch ---------------------------
(***************************************************************************)
(* GithubWebhookDispatcher (src/whd/dispatcher.py) for push, create and  *)
(* pull-request events.  GithubWebhook.on_post hands each event to a dispatch_* method  *)
(* that starts one detached thread per event.  A thread re-replicates the  *)
(* repository when the pipeline definitions changed, retrying once after   *)
(* reloading the configuration from the secrets server into the shared     *)
(* dispatcher (cfg_factory, then cfg_set); a push thread then aborts       *)
(* obsolete builds and triggers resource checks.  A pull-request thread    *)
(* runs process_pr_event (module PrEvent) with the dispatcher's cfg_set    *)
(* and cfg_factory of the moment it was started, and with the generator    *)
(* concourse_clients(), which reads self.cfg_factory only when iterated.   *)
(*                                                                         *)
(* A configuration is a snapshot version of the secrets server; HasMapping *)
(* tells whether its job mappings match the repository.  Concourse holds   *)
(* one pipeline of the repository, whose jobs have builds.                 *)
(***************************************************************************)
EXTENDS Naturals, Sequences, FiniteSets

CONSTANTS
    Threads,        \* one per received event
    EventChoices,   \* the events a thread may handle
    MaxVersion,     \* the last snapshot the secrets server publishes
    HasMapping,     \* [0..MaxVersion -> BOOLEAN]
    JobOrder,       \* the jobs of the pipeline, in the order they are examined
    Policy,         \* abort_obsolete_jobs per job: "none" (not configured),
                    \* "never", "on_force_push_only" or "always"
    BuildOrder,     \* builds as job_builds lists them, newest first
    JobOf, RefOf,   \* job and referenced version of each build
    BuildsToConsider, \* builds_to_consider
    Finishing       \* the builds that may end while the events are handled

Versions == 0..MaxVersion
Builds == {BuildOrder[i] : i \in 1..Len(BuildOrder)}

VARIABLES
    secrets,    \* the snapshot the secrets server currently serves
    factory,    \* the snapshot self.cfg_factory was built from
    cfgSet,     \* the snapshot self.cfg_set was taken from
    ev,         \* the event of each thread
    pc,         \* each thread's position
    attempt,    \* 1, or 2 after the reload
    fetched,    \* raw_dict a thread retrieved from the secrets server
    jobsLeft,   \* jobs of the affected pipeline not yet examined
    listing,    \* running_builds: the builds a thread is about to examine
    running,    \* builds Concourse reports as RUNNING
    aborted,    \* <<thread, build>>: abort_build calls
    replicated, \* <<thread, snapshot>>: replicate_repository_pipelines calls
    triggered,  \* threads that triggered the resource checks
    raised,     \* <<thread, step>>: threads ended by an exception of that step
    prArgs,     \* cfg_factory and cfg_set handed to a pull-request thread
    prClients   \* {} or {the snapshot concourse_clients() built its clients from}

vars == <<secrets, factory, cfgSet, ev, pc, attempt, fetched, jobsLeft, listing,
          running, aborted, replicated, triggered, raised, prArgs, prClients>>

\* The variables of the pull-request threads, left alone by the other steps.
prVars == <<prArgs, prClients>>

Goto(t, l) == pc' = [pc EXCEPT ![t] = l]

\* An exception the thread does not catch ends it at step `step`.
Raise(t, step) == Goto(t, "done") /\ raised' = raised \cup {<<t, step>>}

\* What a thread does after the re-replication succeeded, or after its
\* error was handled: a push goes on with the abortion.
AfterUpdate(t) == IF ev[t].kind = "push" THEN "abort" ELSE "done"

OnRetryFailed(t) ==
    IF ev[t].kind = "push"
    THEN Goto(t, "abort") /\ UNCHANGED raised
    ELSE Goto(t, "done") /\ raised' = raised \cup {<<t, "update">>}

\* _do_update failed: reload and retry once, or give up.
UpdateFailed(t) ==
    IF attempt[t] = 1
    THEN Goto(t, "fetch") /\ UNCHANGED raised
    ELSE OnRetryFailed(t)

-----------------------------------------------------------------------------

\* The pull-request actions dispatch_pullrequest_event processes.
PrActions == {"opened", "reopened", "labeled", "synchronize"}

\* on_post and dispatch_pullrequest_event: other actions are ignored (the
\* method returns False); otherwise a thread is started whose kwargs are
\* evaluated now: self.cfg_factory and self.cfg_set as they are, and the
\* unstarted generator self.concourse_clients().
DispatchPullRequest(t) ==
    /\ pc[t] = "dispatch"
    /\ ev[t].kind = "pr"
    /\ IF ev[t].action \in PrActions
       THEN /\ Goto(t, "pr")
            /\ prArgs' = [prArgs EXCEPT ![t] = [factory |-> factory, cfgSet |-> cfgSet]]
       ELSE Goto(t, "done") /\ UNCHANGED prArgs
    /\ UNCHANGED <<secrets, factory, cfgSet, ev, attempt, fetched, jobsLeft, listing,
                   running, aborted, replicated, triggered, raised, prClients>>

\* process_pr_event: it returns before its loop when no GitHub helper is
\* configured for the event's host; otherwise `for concourse_api in
\* concourse_clients` runs the generator, which reads self.cfg_factory at
\* that moment for the concourse configs and job mappings it builds the
\* clients from.  The steps of the handler itself are module PrEvent.
ProcessPrEvent(t) ==
    /\ pc[t] = "pr"
    /\ \/ UNCHANGED prClients
       \/ prClients' = [prClients EXCEPT ![t] = {factory}]
    /\ Goto(t, "done")
    /\ UNCHANGED <<secrets, factory, cfgSet, ev, attempt, fetched, jobsLeft, listing,
                   running, aborted, replicated, triggered, raised, prArgs>>

\* on_post and dispatch_push_event / dispatch_create_event: create events
\* for anything but a branch are ignored; a push re-replicates only when
\* .ci/pipeline_definitions is among the modified paths.
Dispatch(t) ==
    /\ pc[t] = "dispatch"
    /\ ev[t].kind # "pr"
    /\ Goto(t, CASE ev[t].kind = "create" /\ ev[t].refType # "branch" -> "done"
                 [] ev[t].kind = "create" -> "update"
                 [] ev[t].definitionsChanged -> "update"
                 [] OTHER -> "abort")
    /\ UNCHANGED <<secrets, factory, cfgSet, ev, attempt, fetched, jobsLeft, listing,
                   running, aborted, replicated, triggered, raised,
                   prVars>>

\* _do_update, first half: the job mapping for the repository is looked up
\* in self.cfg_set.
LookupJobMapping(t) ==
    /\ pc[t] = "update"
    /\ IF HasMapping[cfgSet]
       THEN Goto(t, "replicate") /\ UNCHANGED raised
       ELSE UpdateFailed(t)
    /\ UNCHANGED <<secrets, factory, cfgSet, ev, attempt, fetched, jobsLeft, listing,
                   running, aborted, replicated, triggered,
                   prVars>>

\* _do_update, second half: replicate_repository_pipelines with the
\* replication cfg_set of self.cfg_factory, which a concurrent reload may
\* have replaced since the job mapping was read.  Any other exception of
\* the replication is not caught by _update_pipeline_definition nor by
\* process_push_event and ends the thread.
ReplicateRepository(t) ==
    /\ pc[t] = "replicate"
    /\ IF HasMapping[factory]
       THEN \/ /\ replicated' = replicated \cup {<<t, factory>>}
               /\ Goto(t, AfterUpdate(t))
               /\ UNCHANGED raised
            \/ Raise(t, "replicate") /\ UNCHANGED replicated
       ELSE UpdateFailed(t) /\ UNCHANGED replicated
    /\ UNCHANGED <<secrets, factory, cfgSet, ev, attempt, fetched, jobsLeft, listing,
                   running, aborted, triggered,
                   prVars>>

\* raw_dict = SecretsServerClient.default().retrieve_secrets(), which may
\* raise (HTTP error of the secrets server) out of the except clause.
FetchSecrets(t) ==
    /\ pc[t] = "fetch"
    /\ \/ /\ fetched' = [fetched EXCEPT ![t] = secrets]
          /\ Goto(t, "setFactory")
          /\ UNCHANGED raised
       \/ Raise(t, "secrets") /\ UNCHANGED fetched
    /\ UNCHANGED <<secrets, factory, cfgSet, ev, attempt, jobsLeft, listing,
                   running, aborted, replicated, triggered,
                   prVars>>

\* self.cfg_factory = ConfigFactory.from_dict(raw_dict)
ReplaceFactory(t) ==
    /\ pc[t] = "setFactory"
    /\ factory' = fetched[t]
    /\ Goto(t, "setCfgSet")
    /\ UNCHANGED <<secrets, cfgSet, ev, attempt, fetched, jobsLeft, listing,
                   running, aborted, replicated, triggered, raised,
                   prVars>>

\* self.cfg_set = self.cfg_factory.cfg_set(...), read from the shared
\* attribute again; then the retry.  cfg_set(name) raises when the new
\* factory has no cfg_set of that name, out of the except clause.
ReplaceCfgSet(t) ==
    /\ pc[t] = "setCfgSet"
    /\ \/ /\ cfgSet' = factory
          /\ attempt' = [attempt EXCEPT ![t] = 2]
          /\ Goto(t, "update")
          /\ UNCHANGED raised
       \/ Raise(t, "cfgSet") /\ UNCHANGED <<cfgSet, attempt>>
    /\ UNCHANGED <<secrets, factory, ev, fetched, jobsLeft, listing,
                   running, aborted, replicated, triggered,
                   prVars>>

\* abort_running_jobs_if_configured for the one affected pipeline:
\* determine_affected_pipelines yields it only when self.cfg_set has a job
\* mapping for the repository, and the enumerator built from
\* self.cfg_factory.cfg_set(...) raises JobMappingNotFoundError (caught) when
\* that snapshot has none, or another error (not caught); matching_client
\* needs a client of self.cfg_factory for its team; pipeline_cfg may answer
\* 404 (skipped) or another error, which is re-raised and ends the thread.
AffectedPipeline(t) ==
    /\ pc[t] = "abort"
    /\ \/ /\ ~HasMapping[cfgSet]
          /\ Goto(t, "trigger") /\ UNCHANGED <<jobsLeft, raised>>
       \/ /\ HasMapping[cfgSet]
          /\ Raise(t, "enumerator") /\ UNCHANGED jobsLeft
       \/ /\ HasMapping[cfgSet] /\ ~HasMapping[factory]
          /\ Goto(t, "trigger") /\ UNCHANGED <<jobsLeft, raised>>
       \/ /\ HasMapping[cfgSet] /\ HasMapping[factory]
          /\ \/ Goto(t, "trigger") /\ UNCHANGED <<jobsLeft, raised>>
             \/ Raise(t, "pipelineCfg") /\ UNCHANGED jobsLeft
             \/ /\ jobsLeft' = [jobsLeft EXCEPT ![t] = JobOrder]
                /\ Goto(t, "job") /\ UNCHANGED raised
    /\ UNCHANGED <<secrets, factory, cfgSet, ev, attempt, fetched, listing,
                   running, aborted, replicated, triggered,
                   prVars>>

\* A job without abort_outdated_jobs, or whose policy is NEVER, or
\* ON_FORCE_PUSH_ONLY for a push that was not forced: `continue`.
PolicySkips(p, forced) ==
    \/ p \in {"none", "never"}
    \/ p = "on_force_push_only" /\ ~forced

\* Faulty variant: ON_FORCE_PUSH_ONLY on a forced push aborts like ALWAYS.
PolicyAppliesIgnoringForce(p, forced) == p \in {"always", "on_force_push_only"}

\* The policy lets the push abort builds of the job: only the ALWAYS
\* branch passes; ON_FORCE_PUSH_ONLY on a forced push falls through to
\* `raise NotImplementedError`.
PolicyApplies(p, forced) == p = "always"

\* Faulty variant: one build more than builds_to_consider.
FirstBuildsOffByOne(s) ==
    SubSeq(s, 1, IF Len(s) < BuildsToConsider + 1 THEN Len(s) ELSE BuildsToConsider + 1)

\* The first builds_to_consider elements of s.
FirstBuilds(s) == SubSeq(s, 1, IF Len(s) < BuildsToConsider THEN Len(s) ELSE BuildsToConsider)

\* The next job: skipped by its policy, raising NotImplementedError, or
\* the running builds are listed by job_builds (which may raise), at most
\* builds_to_consider of them.
ExamineJob(t) ==
    /\ pc[t] = "job"
    /\ IF jobsLeft[t] = <<>>
       THEN Goto(t, "trigger") /\ UNCHANGED <<listing, raised>>
       ELSE LET j == Head(jobsLeft[t])
            IN CASE PolicySkips(Policy[j], ev[t].forced) ->
                      Goto(t, "job") /\ UNCHANGED <<listing, raised>>
                 [] PolicyApplies(Policy[j], ev[t].forced) ->
                      \/ /\ listing' = [listing EXCEPT ![t] =
                               FirstBuilds(SelectSeq(BuildOrder,
                                             LAMBDA b : JobOf[b] = j /\ b \in running))]
                         /\ Goto(t, "build")
                         /\ UNCHANGED raised
                      \/ Raise(t, "jobBuilds") /\ UNCHANGED listing
                 [] OTHER -> Raise(t, "policy") /\ UNCHANGED listing
    /\ jobsLeft' = [jobsLeft EXCEPT ![t] = IF @ = <<>> THEN @ ELSE Tail(@)]
    /\ UNCHANGED <<secrets, factory, cfgSet, ev, attempt, fetched,
                   running, aborted, replicated, triggered,
                   prVars>>

\* One listed build: aborted when its plan references the previous ref;
\* abort_build may raise, which ends the thread.
ExamineBuild(t) ==
    /\ pc[t] = "build"
    /\ IF listing[t] = <<>>
       THEN Goto(t, "job") /\ UNCHANGED <<aborted, running, listing, raised>>
       ELSE LET b == Head(listing[t])
            IN IF RefOf[b] = ev[t].previousRef
               THEN \/ /\ aborted' = aborted \cup {<<t, b>>}
                       /\ running' = running \ {b}
                       /\ listing' = [listing EXCEPT ![t] = Tail(@)]
                       /\ Goto(t, "build")
                       /\ UNCHANGED raised
                    \/ Raise(t, "abortBuild") /\ UNCHANGED <<aborted, running, listing>>
               ELSE /\ listing' = [listing EXCEPT ![t] = Tail(@)]
                    /\ Goto(t, "build")
                    /\ UNCHANGED <<aborted, running, raised>>
    /\ UNCHANGED <<secrets, factory, cfgSet, ev, attempt, fetched, jobsLeft,
                   replicated, triggered,
                   prVars>>

\* The resource check of every matching git resource; _matching_resources
\* skips a commit message with [skip ci].
TriggerResourceChecks(t) ==
    /\ pc[t] = "trigger"
    /\ triggered' = IF ev[t].skipCi THEN triggered ELSE triggered \cup {t}
    /\ Goto(t, "done")
    /\ UNCHANGED <<secrets, factory, cfgSet, ev, attempt, fetched, jobsLeft, listing,
                   running, aborted, replicated, raised,
                   prVars>>

\* The environment: a new snapshot on the secrets server; a build ending.
PublishConfig ==
    /\ secrets < MaxVersion
    /\ secrets' = secrets + 1
    /\ UNCHANGED <<factory, cfgSet, ev, pc, attempt, fetched, jobsLeft, listing,
                   running, aborted, replicated, triggered, raised, prVars>>

BuildFinishes(b) ==
    /\ b \in running
    /\ running' = running \ {b}
    /\ UNCHANGED <<secrets, factory, cfgSet, ev, pc, attempt, fetched, jobsLeft, listing,
                   aborted, replicated, triggered, raised,
                   prVars>>

Init ==
    /\ secrets = 0
    /\ factory = 0
    /\ cfgSet = 0
    /\ ev \in [Threads -> EventChoices]
    /\ pc = [t \in Threads |-> "dispatch"]
    /\ attempt = [t \in Threads |-> 1]
    /\ fetched = [t \in Threads |-> 0]
    /\ jobsLeft = [t \in Threads |-> <<>>]
    /\ listing = [t \in Threads |-> <<>>]
    /\ running = Builds
    /\ aborted = {}
    /\ replicated = {}
    /\ triggered = {}
    /\ raised = {}
    /\ prArgs = [t \in Threads |-> [factory |-> 0, cfgSet |-> 0]]
    /\ prClients = [t \in Threads |-> {}]

ThreadStep(t) ==
    \/ Dispatch(t)
    \/ DispatchPullRequest(t)
    \/ ProcessPrEvent(t)
    \/ LookupJobMapping(t)
    \/ ReplicateRepository(t)
    \/ FetchSecrets(t)
    \/ ReplaceFactory(t)
    \/ ReplaceCfgSet(t)
    \/ AffectedPipeline(t)
    \/ ExamineJob(t)
    \/ ExamineBuild(t)
    \/ TriggerResourceChecks(t)

Next ==
    \/ \E t \in Threads : ThreadStep(t)
    \/ PublishConfig
    \/ \E b \in Finishing : BuildFinishes(b)

\* Every started thread runs to its end: Python threads are scheduled
\* preemptively and none of these steps waits on another thread.
Spec == Init /\ [][Next]_vars /\ \A t \in Threads : WF_vars(ThreadStep(t))

-----------------------------------------------------------------------------

\* The steps whose exception ends an event thread.
RaisingSteps == {"update", "replicate", "secrets", "cfgSet", "enumerator",
                 "pipelineCfg", "policy", "jobBuilds", "abortBuild"}

TypeOK ==
    /\ secrets \in Versions /\ factory \in Versions /\ cfgSet \in Versions
    /\ pc \in [Threads -> {"dispatch", "pr", "update", "replicate", "fetch", "setFactory",
                           "setCfgSet", "abort", "job", "build", "trigger", "done"}]
    /\ attempt \in [Threads -> {1, 2}]
    /\ listing \in [Threads -> {s \in Seq(Builds) : Len(s) <= BuildsToConsider}]
    /\ running \subseteq Builds
    /\ aborted \subseteq Threads \X Builds
    /\ replicated \subseteq Threads \X Versions
    /\ raised \subseteq Threads \X RaisingSteps
    /\ prArgs \in [Threads -> [factory : Versions, cfgSet : Versions]]
    /\ prClients \in [Threads -> SUBSET Versions]

\* P8, the abort scope: abort_running_jobs_if_configured only aborts
\* builds of a push whose plan references the push's previous ref, of jobs
\* whose policy is ALWAYS (ON_FORCE_PUSH_ONLY never aborts: it skips an
\* unforced push and raises on a forced one), and never more than
\* builds_to_consider builds of one job for one push.
AbortScope ==
    \A <<t, b>> \in aborted :
        /\ ev[t].kind = "push"
        /\ RefOf[b] = ev[t].previousRef
        /\ Policy[JobOf[b]] = "always"
        /\ Cardinality({c \in Builds : <<t, c>> \in aborted /\ JobOf[c] = JobOf[b]})
              <= BuildsToConsider

\* A push thread ends; it reaches the resource checks (unless its commit
\* message says [skip ci]) also when the re-replication failed twice,
\* since process_push_event catches that ValueError.  Only an exception
\* it does not catch ends it before: of the replication, the reload, the
\* enumerator, pipeline_cfg, job_builds, abort_build, or the
\* NotImplementedError of ON_FORCE_PUSH_ONLY on a forced push.
EndedByUncaught(t) == \E s \in RaisingSteps \ {"update"} : <<t, s>> \in raised

ConfigNeverRegresses == [][factory' >= factory /\ cfgSet' >= cfgSet]_<<factory, cfgSet>>
=============================================================================
