-------------------------- MODULE MCWebhookDispatch --------------------------
(* Two event threads.  Snapshot 0, which the dispatcher starts with, has  *)
(* no job mapping for the repository; the secrets server then publishes   *)
(* snapshot 1, which has one.  Job j1 is ALWAYS and has six running       *)
(* builds of the previous ref, one more than builds_to_consider; j2 is    *)
(* ON_FORCE_PUSH_ONLY (skipped on a plain push, NotImplementedError on a  *)
(* forced one); j3 is NEVER; j4 is ALWAYS with one running build of       *)
(* another ref, which must stay running.  A pull-request event is         *)
(* processed (labeled) or ignored (closed).                               *)
EXTENDS WebhookDispatch, TLC

CONSTANTS t1, t2, j1, j2, j3, j4, b1, b2, b3, b4, b5, b6, b7, b8, b9, r1, r2

Push(changed, forced, skip, prev) ==
    [kind |-> "push", refType |-> "branch", definitionsChanged |-> changed,
     forced |-> forced, skipCi |-> skip, previousRef |-> prev, action |-> "none"]
Create(refType) ==
    [kind |-> "create", refType |-> refType, definitionsChanged |-> FALSE,
     forced |-> FALSE, skipCi |-> FALSE, previousRef |-> r2, action |-> "none"]
Pr(action) ==
    [kind |-> "pr", refType |-> "none", definitionsChanged |-> FALSE,
     forced |-> FALSE, skipCi |-> FALSE, previousRef |-> r2, action |-> action]

MCThreads == {t1, t2}
MCEventChoices ==
    { Push(TRUE, TRUE, FALSE, r1), Push(FALSE, FALSE, TRUE, r1),
      Create("branch"), Create("tag"), Pr("labeled"), Pr("closed") }
MCHasMapping == (0 :> FALSE) @@ (1 :> TRUE)
MCJobOrder == <<j1, j2, j3, j4>>
MCPolicy == (j1 :> "always") @@ (j2 :> "on_force_push_only") @@ (j3 :> "never") @@ (j4 :> "always")
MCBuildOrder == <<b1, b2, b3, b4, b5, b6, b7, b8, b9>>
MCJobOf == [b \in {b1, b2, b3, b4, b5, b6} |-> j1] @@ (b7 :> j2) @@ (b8 :> j3) @@ (b9 :> j4)
MCFinishing == {b1, b7}
MCRefOf == [b \in {b1, b2, b3, b4, b5, b6, b7, b8} |-> r1] @@ (b9 :> r2)
=============================================================================
