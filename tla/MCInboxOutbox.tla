---------------------------- MODULE MCInboxOutbox ----------------------------
(* A request whose execution emits two events: evt, which a downstream      *)
(* service consumes, and big, which Kafka never accepts (too large) and     *)
(* which claim orders before evt.                                           *)
EXTENDS InboxOutbox

CONSTANTS req, evt, big

MCEmits == [op \in {req, evt, big} |-> IF op = req THEN {evt, big} ELSE {}]

MCEventId == [op \in {req, evt, big} |-> IF op = req THEN 0 ELSE IF op = big THEN 1 ELSE 2]

=============================================================================
