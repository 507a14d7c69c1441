------------------------ MODULE MCCoordinationTasks ------------------------
(* CoordinationTasks for TLC: interchangeable workers.                     *)
EXTENDS CoordinationTasks, TLC

MCDeadlines == {NoTime, 1}
MCSymmetry  == Permutations(Workers)
=============================================================================
