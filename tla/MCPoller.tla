------------------------------ MODULE MCPoller ------------------------------
(***************************************************************************)
(* Instances of Poller: the listener and the connections of the server     *)
(* (src/Server/main.cpp), and a connection that is woken by senders        *)
(* (litemq/Connection.cpp).                                                *)
(***************************************************************************)
EXTENDS Poller, TLC

CONSTANTS acceptor, c1, c2, stop_pipe

Connections == Handlers \ {stop_pipe, acceptor}

\* AcceptorDescriptorHandler always continues; HashConnectionDescriptorHandler
\* starts or stops writing, closes one side, or both.
ServerReads ==
  [h \in Handlers |->
     IF h \in Connections
     THEN {{"START_WRITE"}, {"STOP_WRITE"}, {"CLOSE_READ", "CLOSE_WRITE"},
           {"CLOSE_READ", "START_WRITE"}}
     ELSE {{}}]

ServerWrites ==
  [h \in Handlers |->
     IF h \in Connections
     THEN {{}, {"STOP_WRITE"}, {"CLOSE_READ", "CLOSE_WRITE"}}
     ELSE {{}}]

\* The fewest results that keep every path: go on, or close.
BriefReads ==
  [h \in Handlers |->
     IF h \in Connections THEN {{}, {"CLOSE_READ", "CLOSE_WRITE"}} ELSE {{}}]

BriefWrites ==
  [h \in Handlers |-> IF h \in Connections THEN {{"STOP_WRITE"}} ELSE {{}}]

MCReadyAtStart ==
  [h \in Handlers |-> IF h \in Connections THEN {"out"} ELSE {}]

MCArrives ==
  [h \in Handlers |-> IF h \in Connections THEN Conditions ELSE {"in"}]

ThreadSymmetry == Permutations(Threads)
=============================================================================
