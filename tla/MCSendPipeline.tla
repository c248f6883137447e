--------------------------- MODULE MCSendPipeline ---------------------------
(* One key and the calls that carry it: the first try and its retries.     *)
EXTENDS SendPipeline

CONSTANT theKey

MCKeyOf == [r \in Requests |-> theKey]
=============================================================================
