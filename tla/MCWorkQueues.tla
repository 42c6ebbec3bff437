----------------------------- MODULE MCWorkQueues -----------------------------
(* Values for checking WorkQueues: three messages to validate, of which one  *)
(* crashes the replica that works on it beside another, and one is wrong;    *)
(* one to process.  The targets and the prefetch are related as the          *)
(* committed ones are: 20 and 20, 2 and 1.                                   *)
EXTENDS WorkQueues

MCQueueOf == [m \in Messages |-> IF m = "p1" THEN "processing" ELSE "video-validation"]
MCKindOf ==
  [m \in Messages |-> CASE m = "bad" -> "crash" [] m = "wrong" -> "wrong" [] OTHER -> "good"]
MCPrefetch == [q \in Queues |-> IF q = "processing" THEN 1 ELSE 2]
MCScaling == [min |-> 1, max |-> 2, targets |-> [q \in Queues |-> 2]]
=============================================================================
