----------------------------- MODULE ExactlyOnce -----------------------------
(***************************************************************************)
(* What the inbox and the outbox promise together, with no workers,        *)
(* transactions, leases or retries: an operation becomes available once    *)
(* (it is a source request, or the operation that emits it has taken       *)
(* effect), takes effect at most once and is acknowledged only after that. *)
(***************************************************************************)
EXTENDS Naturals

CONSTANTS Ops,      \* operations, each named by its operation key
          Sources,  \* operations that arrive from outside
          Emits     \* the operations each operation's outbox events trigger

VARIABLES available, \* operations that can be delivered to a consumer
          effects,   \* how many times each operation took effect
          acked      \* operations whose delivery was reported successful

Init ==
    /\ available = Sources
    /\ effects = [op \in Ops |-> 0]
    /\ acked = {}

TakeEffect(op) ==
    /\ op \in available
    /\ effects[op] = 0
    /\ effects' = [effects EXCEPT ![op] = 1]
    /\ acked' \in {acked, acked \cup {op}}
    /\ UNCHANGED available

Acknowledge(op) ==
    /\ effects[op] = 1
    /\ acked' = acked \cup {op}
    /\ UNCHANGED <<available, effects>>

MakeAvailable(op, e) ==
    /\ effects[op] = 1
    /\ e \in Emits[op]
    /\ available' = available \cup {e}
    /\ UNCHANGED <<effects, acked>>

Next ==
    \E op \in Ops :
        \/ TakeEffect(op)
        \/ Acknowledge(op)
        \/ \E e \in Ops : MakeAvailable(op, e)

Spec == Init /\ [][Next]_<<available, effects, acked>>

=============================================================================
