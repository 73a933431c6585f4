------------------------------ MODULE MCPrEvent ------------------------------
(* PrEvent with two concourse clients.  Client 1 has a PR resource r1 that *)
(* requires the label okToTest; client 2 has r2, which requires no label,  *)
(* and r3, which requires lgtm itself.                                      *)
EXTENDS PrEvent

CONSTANTS c1, c2, r1, r2, r3, lgtm, okToTest, broken, none

MCClients == <<c1, c2>>
MCResources == {r1, r2, r3}
MCClientOf == [r \in MCResources |-> IF r = r1 THEN 1 ELSE 2]
MCLabels == {lgtm, okToTest, broken}
MCLabelOf == [r \in MCResources |-> CASE r = r1 -> okToTest
                                      [] r = r2 -> none
                                      [] r = r3 -> lgtm]
MCActions == {"OPENED", "REOPENED", "LABELED", "SYNCHRONIZE"}
=============================================================================
