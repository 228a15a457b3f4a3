---------------------------- MODULE MCCommander ----------------------------
(* Model values and symmetry for checking Commander with TLC. *)
EXTENDS Commander, TLC

CONSTANTS w1, w2, t1, t2

OneWorker  == {w1}
TwoWorkers == {w1, w2}
OneToken   == {t1}
TwoTokens  == {t1, t2}

WorkerSymmetry == Permutations({w1, w2})
TokenSymmetry  == Permutations({t1, t2})
=============================================================================
