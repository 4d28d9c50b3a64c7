-------------------------- MODULE MCPublishExchange --------------------------
(* A device that publishes and one that receives over kept sessions, and a  *)
(* little of both over clean sessions, where identifiers run out.           *)
EXTENDS PublishExchange
MCLoads ==
  {[keep |-> TRUE,  ids |-> 5, window |-> 1, accepted |-> 4, pushed |-> 0, breaks |-> 1],
   [keep |-> TRUE,  ids |-> 5, window |-> 1, accepted |-> 2, pushed |-> 0, breaks |-> 2],
   [keep |-> TRUE,  ids |-> 4, window |-> 4, accepted |-> 0, pushed |-> 4, breaks |-> 1],
   [keep |-> TRUE,  ids |-> 4, window |-> 2, accepted |-> 0, pushed |-> 2, breaks |-> 2],
   [keep |-> FALSE, ids |-> 2, window |-> 2, accepted |-> 3, pushed |-> 1, breaks |-> 1]}
=============================================================================
