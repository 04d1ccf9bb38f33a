--------------------------- MODULE MCKafkaConsumer ---------------------------
(* Two members, two messages of which the second is poison, one retry, and  *)
(* two faults (revocations, cancellations, crashes) in any order.           *)
EXTENDS KafkaConsumer

MCPoison == {2}
MCPoisonFirst == {1}

=============================================================================
