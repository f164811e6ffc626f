--------------------------- MODULE MCRunLifecycle ---------------------------
(***************************************************************************)
(* RunLifecycle on runs of one or two trials for TLC.                      *)
(***************************************************************************)
EXTENDS RunProperties, TLC

CONSTANTS t1, t2, t3, w1, w2, s1, s2

InOrder == [t \in Trial |-> CASE t = t1 -> 0 [] t = t2 -> 1 [] OTHER -> 2]
Independent   == [t \in Trial |-> NoTrial]
SecondNeedsFirst == [t \in Trial |-> IF t = t2 THEN t1 ELSE NoTrial]

Of(stages) == {[stage |-> stage, restart |-> FALSE] : stage \in stages}

Plain          == Of({"target"})
PlainOrEpisode == Of({"target", "episode"})
PlainOrAgent   == Of({"target", "execution"})

SlotSymmetry == Permutations(Slot)
=============================================================================
