---------------------------- MODULE MCReplicator ----------------------------
(* Replicator with three descriptors on two targets.  d1 and d2 define the *)
(* same pipeline name n1 on t1 (the name conflict); d3 defines a new        *)
(* pipeline n2 on t2.  t1 also holds an orphan n3 and a protected n4.      *)
EXTENDS Replicator

CONSTANTS d1, d2, d3, t1, t2, n1, n2, n3, n4

MCDescriptors == {d1, d2, d3}
MCTargets == {t1, t2}
MCNames == {n1, n2, n3, n4}
MCPipelineName == (d1 :> n1) @@ (d2 :> n1) @@ (d3 :> n2)
MCTargetOf == (d1 :> t1) @@ (d2 :> t1) @@ (d3 :> t2)
MCProtected == {n4}
MCInitialPipelines == (t1 :> {n1, n3, n4}) @@ (t2 :> {n3})
MCOrder == <<d1, d2, d3>>
=============================================================================
