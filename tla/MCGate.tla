-------------------------------- MODULE MCGate --------------------------------
(* ReleaseGate for TLC: one run of two candidates over three cases, each a cluster of its *)
(* own; the grader of one trial of the candidate may be out of order, or its grade job    *)
(* give up.  The policy asks for every case, two clusters and a pass rate that is no      *)
(* lower.                                                                                 *)
EXTENDS ReleaseGate, TLC

MCCases == {"c1", "c2", "c3"}
MCSlots == [run : {"r"}, key : {"base", "cand"}, case : MCCases, repeat : {0}]
MCKeysOf == "r" :> <<"base", "cand">>
MCCaseInfo == [c \in MCCases |-> [critical |-> FALSE, cluster |-> c]]
MCHashOf == [x \in {"r"} \X MCCases |-> 1]
MCDesigns == {"r" :> [rule |-> "all", repeats |-> 1, scenario |-> "s"]}
MCOutages == {s \in MCSlots : s.key = "cand" /\ s.case = "c3"}
MCPolicies == {[metrics |-> {[name |-> "case_pass_rate", lower |-> FALSE, margin |-> 0, required |-> TRUE]},
                critical |-> {}, coverage |-> 100, clusters |-> 2]}
MCCompared == {<<<<"r", "base">>, <<"r", "cand">>>>}
=============================================================================
