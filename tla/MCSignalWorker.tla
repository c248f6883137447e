--------------------------- MODULE MCSignalWorker ---------------------------
EXTENDS SignalWorker, TLC

CONSTANTS c1, c2, c3, c4, c5

MCCommands == {c1, c2, c3, c4, c5}

MCKindsOf == c1 :> {"send", "link.start", "conversations"}
          @@ c2 :> {"link.finish"}
          @@ [c \in {c3, c4, c5} |-> {"messages"}]

\* Handlers side by side; the stream beside handlers; every slot and the queue
\* of results full; the stream alone.
MCLoads == {[commands |-> {c1, c2, c3}, notifications |-> 0],
            [commands |-> {c1, c2}, notifications |-> 2],
            [commands |-> {c2, c3, c4, c5}, notifications |-> 0],
            [commands |-> {c3}, notifications |-> 4]}
=============================================================================
