-------------------------- MODULE MCDictationDaemon --------------------------
(* DictationDaemon with two dictations.  Jobs are interchangeable.         *)
EXTENDS DictationDaemon, TLC

CONSTANTS j1, j2

MCJobs == {j1, j2}
MCSymmetry == Permutations(MCJobs)
=============================================================================
