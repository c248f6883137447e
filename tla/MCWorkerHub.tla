----------------------------- MODULE MCWorkerHub -----------------------------
(* Two worker processes that were given the same enrolment token.            *)
EXTENDS WorkerHub

CONSTANTS w1, w2, c1, c2
=============================================================================
