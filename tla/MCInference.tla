----------------------------- MODULE MCInference -----------------------------
(* Model values for checking Inference with TLC. *)
EXTENDS Inference

CONSTANTS m1, m2, m3, m4

FourMsgs == {m1, m2, m3, m4}
=============================================================================
