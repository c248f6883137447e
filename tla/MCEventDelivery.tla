--------------------------- MODULE MCEventDelivery ---------------------------
(* An incoming and an outgoing message, a status event the hub accepts and   *)
(* one it refuses.                                                           *)
EXTENDS EventDelivery

CONSTANTS m1, m2

MCContentOf == <<"live", m1, m2, "offline">>
MCPoisonContentOf == <<"offline", m1>>
MCHistoryContentOf == <<m1, m2>>

\* All events and nothing ages; all but the refused one, and a message ages.
MCLoads == {[events |-> 4, aged |-> {}], [events |-> 3, aged |-> {m1}]}
MCAll == {[events |-> NEvents, aged |-> {}]}
=============================================================================
