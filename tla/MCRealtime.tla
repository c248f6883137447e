------------------------------ MODULE MCRealtime -----------------------------
(* Two entries, published in one batch or in two, and a queue of one event,  *)
(* so that an overflow needs two events.                                     *)
EXTENDS Realtime

CONSTANT s1
=============================================================================
