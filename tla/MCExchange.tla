------------------------------ MODULE MCExchange ------------------------------
(* Exchange for TLC: a project that has a grader, a scenario and a dataset with its cases, *)
(* to which a few more definitions and one run may be added before it is exported.         *)
EXTENDS Exchange

Graded1 == {g.rows : g \in SaveGrader(<<>>, 1, "h", NoId, NoId)}
Scenario1(rs) == {s.rows : s \in Save(rs, "scenario_versions", 1, NoId, "h", {1}, [grader_refs |-> 1, parent_id |-> NoId])}
Dataset1(rs) == {d.rows : d \in SaveDataset(rs, 1, 2, "h", NoId, NoId)}
Seeds == UNION {UNION {Dataset1(s) : s \in Scenario1(g)} : g \in Graded1}

SeededSpec == ExchangeInit(Seeds) /\ [][ExchangeNext]_exchangeVars
=============================================================================
