--------------------------- MODULE MCAgentCampaign --------------------------
(* Two phases. The task of the first allows a directory without one of its    *)
(* files, and a repair; that of the second allows only this file.             *)
EXTENDS AgentCampaign

CONSTANTS p1, p2

MCInside == <<"host_services", "app.py">>
MCSecret == <<"host_services", "auth.py">>
MCFiles == {MCInside, MCSecret}
MCSteps == <<[phase |-> p1, repairs |-> 1], [phase |-> p2, repairs |-> 0]>>
MCTasks == [p \in {p1, p2} |->
    [declared |-> IF p = p1 THEN p ELSE None,
     allowed |-> {IF p = p1 THEN [path |-> <<"host_services">>, deep |-> TRUE]
                            ELSE [path |-> MCSecret, deep |-> FALSE]},
     forbidden |-> IF p = p1 THEN {[path |-> MCSecret, deep |-> FALSE]} ELSE {},
     targeted |-> 0, full |-> 1]]
MCHandRepairs == {1}
=============================================================================
