----------------------------- MODULE MCJobQueue -----------------------------
(***************************************************************************)
(* JobQueue on small instances for TLC.  Three jobs: two trials of one     *)
(* target (limit 2) and a connection test on the same key (limit 1, one    *)
(* attempt) whose handlers the worker could not import; it stands between  *)
(* the trials in claim order.                                              *)
(***************************************************************************)
EXTENDS JobQueue

CONSTANTS j1, j2, j3, w1, w2, s1, s2, target

MCKeyOf       == [j \in Job |-> target]
MCLimitOf     == [j \in Job |-> IF j = j3 THEN 1 ELSE 2]
MCRankOf      == [j \in Job |-> IF j = j1 THEN 0 ELSE IF j = j3 THEN 1 ELSE 2]
MCMaxAttempts == [j \in Job |-> IF j = j3 THEN 1 ELSE 2]
MCGroups      == {{j1, j2}}
=============================================================================
