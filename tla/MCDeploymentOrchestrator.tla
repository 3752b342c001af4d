---------------------- MODULE MCDeploymentOrchestrator ----------------------
(* Small instances of DeploymentOrchestrator for TLC. *)
EXTENDS DeploymentOrchestrator

\* r2 moves u1 to a new version and disables u2
TwoUnits == [r \in Release |->
    [u \in Unit |-> IF r = "r1" THEN "v1" ELSE IF u = "u1" THEN "v2" ELSE "disabled"]]

\* r2 also leaves u3 as it is in r1
ThreeUnits == [r \in Release |->
    [u \in Unit |-> IF r = "r1" \/ u = "u3" THEN "v1"
                    ELSE IF u = "u1" THEN "v2" ELSE "disabled"]]

OneStage == [u \in Unit |-> 1]
TwoStages == [u \in Unit |-> IF u = "u3" THEN 2 ELSE 1]
StagePerUnit == [u \in Unit |-> IF u = "u1" THEN 1 ELSE 2]
=============================================================================
