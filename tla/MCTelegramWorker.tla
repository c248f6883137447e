-------------------------- MODULE MCTelegramWorker --------------------------
EXTENDS TelegramWorker, TLC

CONSTANTS c1, c2

MCCommands == {c1, c2}

MCKindsOf == c1 :> {"send", "link.start"}
          @@ c2 :> {"send", "link.finish", "read"}

MCLoads == {[commands |-> {c1, c2}, updates |-> 0],
            [commands |-> {c1}, updates |-> 1],
            [commands |-> {}, updates |-> 3]}
=============================================================================
