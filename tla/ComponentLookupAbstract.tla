----------------------- MODULE ComponentLookupAbstract -----------------------
(***************************************************************************)
(* What a component-descriptor lookup of src/cnudie/retrieve.py promises   *)
(* its caller, whatever layers answer it: a lookup of an identity returns  *)
(* a descriptor of that identity stored in one of the repositories it was  *)
(* asked in, raises OciImageNotFoundException only when none of them       *)
(* stores it, or fails with some other error.  Caches are invisible here.  *)
(***************************************************************************)
EXTENDS Naturals, SequencesExt

CONSTANTS Procs, Ids, Repos, Stored, Mapping, Queries, MaxLookups

VARIABLES
    mapped,     \* lookups built with a mapping_config
    apc,        \* "idle" or "busy"
    aquery,     \* the query being answered
    aoutcome,   \* "none", "ok", "notfound" or "error"
    answer,     \* {} or {the descriptor returned}
    acount      \* lookups started per process

avars == <<mapped, apc, aquery, aoutcome, answer, acount>>

\* The repositories a query is asked in.
AskedIn(p) == Range(IF mapped THEN Mapping ELSE <<aquery[p].ctx>>)

\* A caller starts a lookup.
Start(p, q) ==
    /\ apc[p] = "idle"
    /\ acount[p] < MaxLookups
    /\ apc' = [apc EXCEPT ![p] = "busy"]
    /\ aquery' = [aquery EXCEPT ![p] = q]
    /\ answer' = [answer EXCEPT ![p] = {}]
    /\ acount' = [acount EXCEPT ![p] = @ + 1]
    /\ UNCHANGED <<mapped, aoutcome>>

\* The lookup returns a stored descriptor of the asked identity.
Return(p) ==
    \E r \in AskedIn(p) :
        /\ apc[p] = "busy"
        /\ <<aquery[p].id, r>> \in Stored
        /\ apc' = [apc EXCEPT ![p] = "idle"]
        /\ aoutcome' = [aoutcome EXCEPT ![p] = "ok"]
        /\ answer' = [answer EXCEPT ![p] = {[id |-> aquery[p].id, ctx |-> r]}]
        /\ UNCHANGED <<mapped, aquery, acount>>

\* The lookup reports the descriptor absent: no asked repository has it.
NotFound(p) ==
    /\ apc[p] = "busy"
    /\ \A r \in AskedIn(p) : <<aquery[p].id, r>> \notin Stored
    /\ apc' = [apc EXCEPT ![p] = "idle"]
    /\ aoutcome' = [aoutcome EXCEPT ![p] = "notfound"]
    /\ UNCHANGED <<mapped, aquery, answer, acount>>

\* The lookup raises another error (registry, parse, file system).
Fail(p) ==
    /\ apc[p] = "busy"
    /\ apc' = [apc EXCEPT ![p] = "idle"]
    /\ aoutcome' = [aoutcome EXCEPT ![p] = "error"]
    /\ UNCHANGED <<mapped, aquery, answer, acount>>

Init ==
    /\ mapped \in BOOLEAN
    /\ apc = [p \in Procs |-> "idle"]
    /\ aquery \in [Procs -> Queries]
    /\ aoutcome = [p \in Procs |-> "none"]
    /\ answer = [p \in Procs |-> {}]
    /\ acount = [p \in Procs |-> 0]

Next ==
    \E p \in Procs :
        \/ \E q \in Queries : Start(p, q)
        \/ Return(p)
        \/ NotFound(p)
        \/ Fail(p)

Spec == Init /\ [][Next]_avars
=============================================================================
