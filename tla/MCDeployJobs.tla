---------------------------- MODULE MCDeployJobs ----------------------------
(* Small instances of DeployJobs for TLC.                                  *)
EXTENDS DeployJobs, TLC

(* One file and every other kind of stage, and two files.                  *)
OneFile == <<"upload", "chmod", "exec", "restart">>
TwoFiles == <<"upload", "chmod", "upload", "chmod">>

(* Runs are interchangeable.                                               *)
Symmetry == Permutations(Runs)
=============================================================================
