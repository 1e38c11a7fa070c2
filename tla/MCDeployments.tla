---------------------------- MODULE MCDeployments ----------------------------
(* Deployments with small sets of model values, and their symmetries. *)
EXTENDS Deployments, TLC

CONSTANTS p1, p2, u1, u2, w1, w2

OneProject  == {p1}
TwoProjects == {p1, p2}
OneUser     == {u1}
TwoUsers    == {u1, u2}
OneWorker   == {w1}
TwoWorkers  == {w1, w2}
NoSteps     == {}
BuildOnly   == {1}
BuildDeploy == {1, 2}
FlatPriority == {0}
TwoPriorities == {0, 1}

Symmetry == Permutations(TwoProjects) \cup Permutations(TwoUsers)
                \cup Permutations(TwoWorkers)
=============================================================================
