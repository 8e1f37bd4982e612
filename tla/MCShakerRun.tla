---------------------------- MODULE MCShakerRun ----------------------------
(***************************************************************************)
(* Instances of ShakerRun for TLC: the programs clients submit, the sets   *)
(* of calls, and the symmetry of the request threads.                      *)
(***************************************************************************)
EXTENDS ShakerRun, TLC

Continuous == [mode |-> "CONTINUOUS", segs |-> <<"run">>]
RunWait    == [mode |-> "LOGICAL", segs |-> <<"run", "wait">>]
WaitRun    == [mode |-> "LOGICAL", segs |-> <<"wait", "run">>]

MCPrograms == {Continuous, RunWait}
ShortPrograms == {Continuous, WaitRun}

RequestSymmetry == Permutations(Requests)
=============================================================================
