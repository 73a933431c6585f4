------------------------- MODULE ReplicationAbstract -------------------------
(***************************************************************************)
(* What one pipeline replication promises about the pipelines of a CI      *)
(* backend, seen only as the set of pipeline names each (backend, team)    *)
(* target holds.  A replication run is given the set of definition         *)
(* descriptors currently enumerated ("present").  During the run a         *)
(* pipeline may only appear on a target because a present descriptor      *)
(* names it there, and may only disappear from a target if it is an        *)
(* orphan: no present descriptor names it there and the removal filter     *)
(* does not protect it.  Between runs, the set of descriptors changes      *)
(* arbitrarily (repositories gain and lose pipeline definitions).          *)
(***************************************************************************)
EXTENDS FiniteSets

CONSTANTS
    Descriptors,        \* definition descriptors the enumerators can yield
    Targets,            \* (concourse cfg, team) pairs
    Names,              \* pipeline names
    PipelineName,       \* [Descriptors -> Names]
    TargetOf,           \* [Descriptors -> Targets]
    Protected,          \* names remove_pipelines_filter matches (never removed)
    InitialPipelines    \* [Targets -> SUBSET Names], backend before the first run

VARIABLES pipelines, present

absVars == <<pipelines, present>>

\* The pipeline names the present descriptors define on target t.
Defined(t, P) == {PipelineName[d] : d \in {e \in P : TargetOf[e] = t}}

\* Pipelines of target t that cleanup may remove.
Orphans(t) == (pipelines[t] \ Defined(t, present)) \ Protected

Init ==
    /\ pipelines = InitialPipelines
    /\ present \in SUBSET Descriptors

Deploy(t, n) ==
    /\ n \in Defined(t, present)
    /\ pipelines' = [pipelines EXCEPT ![t] = @ \cup {n}]
    /\ UNCHANGED present

Remove(t, S) ==
    /\ S \subseteq Orphans(t)
    /\ pipelines' = [pipelines EXCEPT ![t] = @ \ S]
    /\ UNCHANGED present

NextRun ==
    /\ present' \in SUBSET Descriptors
    /\ UNCHANGED pipelines

Next ==
    \/ \E t \in Targets, n \in Names : Deploy(t, n)
    \/ \E t \in Targets, S \in SUBSET Names : Remove(t, S)
    \/ NextRun

Spec == Init /\ [][Next]_absVars
=============================================================================
