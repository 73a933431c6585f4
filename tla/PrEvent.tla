------------------------------- MODULE PrEvent -------------------------------
(***************************************************************************)
(* Handling of one pull-request event (src/whd/pull_request.py).           *)
(*                                                                         *)
(* process_pr_event runs on its own thread: it validates changed pipeline  *)
(* definitions, then for each concourse client (in order) decides from the *)
(* event and the label policy (_should_label, set_pr_labels) whether to    *)
(* label the PR and trigger the PR resources, polls with                   *)
(* ensure_pr_resource_updates until the resources list the PR, and handles *)
(* untriggered jobs.  Concourse, as environment, discovers the PR as a     *)
(* version of a PR resource once the label the resource requires is on the *)
(* PR, and triggers jobs for discovered versions.                          *)
(***************************************************************************)
EXTENDS Integers, Sequences, FiniteSets

CONSTANTS
    Clients,        \* concourse clients, in the order concourse_clients yields them
    Resources,      \* PR-type pipeline resources
    ClientOf,       \* [Resources -> 1..Len(Clients)]
    Labels,         \* label names
    LabelOf,        \* [Resources -> Labels \cup {NoLabel}], source.label
    NoLabel,
    Lgtm,           \* {'lgtm', 'reviewed/lgtm'} as a subset of Labels
    Broken,         \* 'ci/broken-pipeline-definition'
    Actions,        \* the actions dispatch_pullrequest_event passes on
    Retries,        \* ensure_pr_resource_updates(retries=10)
    MaxIterations   \* bound on the modelled polling iterations

ASSUME /\ ClientOf \in [Resources -> 1..Len(Clients)]
       /\ LabelOf \in [Resources -> Labels \cup {NoLabel}]
       /\ NoLabel \notin Labels
       /\ Lgtm \subseteq Labels /\ Broken \in Labels
       /\ Actions = {"OPENED", "REOPENED", "LABELED", "SYNCHRONIZE"}
       /\ Retries \in Nat /\ MaxIterations \in Nat

VARIABLES
    event,      \* the event and the facts the handler's calls observe
    labels,     \* labels on the PR at GitHub
    comments,   \* kinds of comments posted on the PR
    pc,         \* handler step
    cur,        \* index of the concourse client being handled
    outdated,   \* resources ensure_pr_resource_updates still waits for
    retries,    \* its retries argument
    iterations, \* its invocations for the current client
    checked,    \* resources the handler triggered a check of
    version,    \* resources that list the PR as a version
    jobs        \* resources whose PR job has been triggered

vars == <<event, labels, comments, pc, cur, outdated, retries, iterations,
          checked, version, jobs>>

\* The event: action, label (LABELED), sender facts for _should_label, the
\* snapshot of the PR's labels carried by the payload, and outcomes of
\* the calls the handler makes (repository access, validation, job mapping).
Events ==
    [action : Actions, label : Labels, eventLabels : SUBSET Labels,
     repoAccessible : BOOLEAN, definitionsModified : BOOLEAN,
     validationOk : BOOLEAN, jobMappingFound : BOOLEAN,
     trustedTeamsForHost : BOOLEAN, inTrustedTeam : BOOLEAN, inOrg : BOOLEAN,
     failing : SUBSET Resources]

ResourcesOf(i) == {r \in Resources : ClientOf[r] = i}

RequiredLabels(i) == {LabelOf[r] : r \in ResourcesOf(i)} \ {NoLabel}

\* _should_label: with host-matching trusted teams the sender must be in one
\* of them; otherwise membership of the owning organisation decides.
ShouldLabelAnyMember ==
    event.inTrustedTeam \/ event.inOrg

ShouldLabel ==
    IF event.trustedTeamsForHost THEN event.inTrustedTeam ELSE event.inOrg

-----------------------------------------------------------------------------

Init ==
    /\ event \in Events
    /\ event.action = "LABELED" => event.label \in event.eventLabels
    /\ event.action # "LABELED" => event.label = CHOOSE l \in Lgtm : TRUE
    /\ labels = event.eventLabels
    /\ comments = {}
    /\ pc = "start"
    /\ cur = 1
    /\ outdated = {}
    /\ retries = Retries
    /\ iterations = 0
    /\ checked = {}
    /\ version = {}
    /\ jobs = {}

\* github_api_for_pr_event, then the validation of changed pipeline
\* definitions (validate_pipeline_definitions).  GitHubRepositoryHelper
\* turns NotFoundError into RuntimeError, so an inaccessible repository
\* ends the thread instead of taking the `return None` branch.
Start ==
    /\ pc = "start"
    /\ \/ /\ ~event.repoAccessible
          /\ pc' = "crashed"
          /\ UNCHANGED <<labels, comments>>
       \/ /\ event.repoAccessible
          /\ pc' = "client"
          /\ IF event.definitionsModified /\ event.action \in {"OPENED", "SYNCHRONIZE"}
             THEN IF event.validationOk
                  THEN IF Broken \in event.eventLabels
                       THEN /\ labels' = labels \ {Broken}
                            /\ comments' = comments \cup {"fixed"}
                       ELSE UNCHANGED <<labels, comments>>
                  ELSE /\ comments' = comments \cup {"broken"}
                       /\ labels' = labels \cup {Broken}
             ELSE UNCHANGED <<labels, comments>>
    /\ UNCHANGED <<event, cur, outdated, retries, iterations, checked, version, jobs>>

-----------------------------------------------------------------------------
(* set_pr_labels, for the actions process_pr_event calls it with: OPENED,  *)
(* SYNCHRONIZE, and LABELED with an lgtm label.                            *)

\* No job mapping for the repository: `raise ValueError`.
SetPrLabelsRaises(i) ==
    RequiredLabels(i) # {} /\ ~event.jobMappingFound

\* Faulty variant: the LABELED branch is missing and falls to `return False`.
SetPrLabelsSucceedsNoLabeled(i) ==
    \/ RequiredLabels(i) = {}
    \/ event.jobMappingFound /\ event.action # "LABELED" /\ ShouldLabel

\* `return True` when nothing is required, or the labels were added.
SetPrLabelsSucceeds(i) ==
    \/ RequiredLabels(i) = {}
    \/ event.jobMappingFound /\ (event.action = "LABELED" \/ ShouldLabel)

\* Its effect on the PR: the required labels, or (OPENED only) the comment
\* asking a member to set them.
SetPrLabels(i) ==
    LET adds == RequiredLabels(i) # {} /\ SetPrLabelsSucceeds(i)
        asks == /\ RequiredLabels(i) # {} /\ event.jobMappingFound
                /\ event.action = "OPENED" /\ ~ShouldLabel
    IN /\ labels' = IF adds THEN labels \cup RequiredLabels(i) ELSE labels
       /\ comments' = IF asks THEN comments \cup {"askLabels"} ELSE comments

\* Whether process_pr_event calls set_pr_labels for client i.
CallsSetPrLabels(i) ==
    /\ ResourcesOf(i) # {}
    /\ \/ event.action \in {"OPENED", "SYNCHRONIZE"}
       \/ event.action = "LABELED" /\ event.label \in Lgtm
                                   /\ event.label \notin RequiredLabels(i)

\* Faulty variant: the `continue` after a refused set_pr_labels is missing.
TriggersIgnoringRefusal(i) ==
    /\ ResourcesOf(i) # {}
    /\ event.action = "LABELED" =>
          IF event.label \in Lgtm THEN event.label \notin RequiredLabels(i)
          ELSE RequiredLabels(i) = {} \/ event.label \in RequiredLabels(i)

\* Whether the batch of client i reaches trigger_resource_check: no early
\* `continue`.  A refused set_pr_labels stops OPENED and SYNCHRONIZE but
\* not the lgtm case, which only logs a warning.
Triggers(i) ==
    /\ ResourcesOf(i) # {}
    /\ event.action = "LABELED" =>
          IF event.label \in Lgtm THEN event.label \notin RequiredLabels(i)
          ELSE RequiredLabels(i) = {} \/ event.label \in RequiredLabels(i)
    /\ event.action \in {"OPENED", "SYNCHRONIZE"} => SetPrLabelsSucceeds(i)

\* Faulty variant: the loop runs one client past the end.
ClientsLeftOffByOne == cur <= Len(Clients) + 1

\* `for concourse_api in concourse_clients`: a client is left.
ClientsLeft == cur <= Len(Clients)

\* One iteration of the loop over concourse_clients, up to the trigger.
ProcessClient ==
    /\ pc = "client"
    /\ ClientsLeft
    /\ IF CallsSetPrLabels(cur) /\ SetPrLabelsRaises(cur)
       THEN /\ pc' = "crashed"
            /\ UNCHANGED <<labels, comments, cur, outdated, retries, iterations, checked>>
       ELSE /\ IF CallsSetPrLabels(cur) THEN SetPrLabels(cur)
               ELSE UNCHANGED <<labels, comments>>
            /\ IF Triggers(cur)
               THEN /\ checked' = checked \cup ResourcesOf(cur)
                    /\ pc' = "ensure"
                    /\ outdated' = ResourcesOf(cur)
                    /\ retries' = Retries
                    /\ iterations' = 0
                    /\ UNCHANGED cur
               ELSE /\ cur' = cur + 1
                    /\ UNCHANGED <<pc, outdated, retries, iterations, checked>>
    /\ UNCHANGED <<event, version, jobs>>

FinishClients ==
    /\ pc = "client"
    /\ ~ClientsLeft
    /\ pc' = "done"
    /\ UNCHANGED <<event, labels, comments, cur, outdated, retries, iterations,
                   checked, version, jobs>>

\* is_up_to_date: the resource lists the PR, or it requires a label that the
\* event's label_names() does not contain.
IsUpToDate(r) ==
    \/ LabelOf[r] # NoLabel /\ LabelOf[r] \notin event.eventLabels
    \/ r \in version

\* One invocation of ensure_pr_resource_updates.  `retries < 0` only logs
\* "giving up"; the function goes on and recurses while resources are
\* outdated.  Resources failing to check are always kept.
EnsurePrResourceUpdates ==
    LET still == {r \in outdated : r \in event.failing \/ ~IsUpToDate(r)}
    IN /\ pc = "ensure"
       /\ iterations < MaxIterations
       /\ iterations' = iterations + 1
       /\ retries' = retries - 1
       /\ IF still = {}
          THEN /\ pc' = "settle"
               /\ outdated' = {}
               /\ UNCHANGED checked
          ELSE /\ outdated' = still
               /\ checked' = checked \cup still
               /\ UNCHANGED pc
       /\ UNCHANGED <<event, labels, comments, cur, version, jobs>>

\* handle_untriggered_jobs: jobs of the client's resources that list the
\* PR are pinned and triggered; then the next client.
HandleUntriggeredJobs ==
    /\ pc = "settle"
    /\ jobs' = jobs \cup (ResourcesOf(cur) \cap version)
    /\ cur' = cur + 1
    /\ pc' = "client"
    /\ UNCHANGED <<event, labels, comments, outdated, retries, iterations,
                   checked, version>>

-----------------------------------------------------------------------------
(* Concourse: the PR resource of a pipeline finds the PR once the label it *)
(* requires is on the PR, unless its check fails; a new version triggers  *)
(* the PR job.                                                             *)

Discover(r) ==
    /\ r \notin version
    /\ r \notin event.failing
    /\ LabelOf[r] = NoLabel \/ LabelOf[r] \in labels
    /\ version' = version \cup {r}
    /\ UNCHANGED <<event, labels, comments, pc, cur, outdated, retries,
                   iterations, checked, jobs>>

TriggerJob(r) ==
    /\ r \in version \ jobs
    /\ jobs' = jobs \cup {r}
    /\ UNCHANGED <<event, labels, comments, pc, cur, outdated, retries,
                   iterations, checked, version>>

Next ==
    \/ Start
    \/ ProcessClient
    \/ FinishClients
    \/ EnsurePrResourceUpdates
    \/ HandleUntriggeredJobs
    \/ \E r \in Resources : Discover(r) \/ TriggerJob(r)

Spec == Init /\ [][Next]_vars

-----------------------------------------------------------------------------
(* Properties                                                              *)

TypeOK ==
    /\ event \in Events
    /\ labels \subseteq Labels
    /\ comments \subseteq {"broken", "fixed", "askLabels"}
    /\ pc \in {"start", "client", "ensure", "settle", "done", "crashed"}
    /\ cur \in 1..Len(Clients) + 1
    /\ outdated \subseteq Resources
    /\ retries \in Int /\ iterations \in 0..MaxIterations
    /\ checked \subseteq Resources /\ version \subseteq Resources
    /\ jobs \subseteq Resources

\* The spec's label policy: a member of a trusted team when trusted teams
\* apply to the host, else a member of the owning organisation.
SenderTrusted ==
    IF event.trustedTeamsForHost THEN event.inTrustedTeam ELSE event.inOrg

\* P7 for the labels jobs require: a label the handler puts on the PR, other
\* than the broken-definition label, is put there for a sender _should_label
\* trusts or in reaction to an lgtm label.
LabelPolicySound ==
    \A l \in labels \ event.eventLabels :
        l = Broken \/ SenderTrusted \/ (event.action = "LABELED" /\ event.label \in Lgtm)

\* A PR opened or updated by a sender _should_label does not trust gets no
\* resource check on any client whose jobs require a label it lacks.
UntrustedNotTriggered ==
    (event.action \in {"OPENED", "SYNCHRONIZE"} /\ ~SenderTrusted)
        => \A r \in checked : RequiredLabels(ClientOf[r]) \subseteq event.eventLabels

\* Spec scenario: after an lgtm label, every client with PR resources that
\* does not itself require the lgtm label ends with its required labels on
\* the PR.
LgtmAppliesRequiredLabels ==
    (pc = "done" /\ event.action = "LABELED" /\ event.label \in Lgtm)
        => \A i \in 1..Len(Clients) :
              (ResourcesOf(i) # {} /\ event.label \notin RequiredLabels(i))
                  => RequiredLabels(i) \subseteq labels

\* P10: ensure_pr_resource_updates stops after at most retries + 1 checks
\* (spec: "retries=0 performs exactly one check and then gives up").
EnsureLoopBounded == iterations <= Retries + 1

=============================================================================
