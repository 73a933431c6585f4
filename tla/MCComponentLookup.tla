-------------------------- MODULE MCComponentLookup --------------------------
(* Two identities in two repositories: i1 is stored in r2 only, i2 in r1   *)
(* only and is also known to the delivery service.  The mapping config     *)
(* lists r1 before r2, so i1 is found through the second mapping, also     *)
(* when asked for in r1.  The queries ask for i1 in r1 and in r2 and for   *)
(* i2 in r1.  One cache entry forces evictions.                            *)
EXTENDS ComponentLookup

CONSTANTS i1, i2, r1, r2, p1, p2

MCStored == {<<i1, r2>>, <<i2, r1>>}
MCDeliveryKnows == {<<i2, r1>>}
MCMapping == <<r1, r2>>
MCQueries == {[id |-> i1, ctx |-> r1], [id |-> i1, ctx |-> r2], [id |-> i2, ctx |-> r1]}
=============================================================================
