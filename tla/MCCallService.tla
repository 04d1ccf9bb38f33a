---------------------------- MODULE MCCallService ----------------------------
(* Two callers ring the same user.  Exchanging the callers together with    *)
(* their calls, or the handlers, changes nothing.                           *)
EXTENDS CallService

CONSTANTS a, b, d, c1, c2, h1, h2

MCCaller == [c \in Calls |-> IF c = c1 THEN a ELSE d]
MCCallee == [c \in Calls |-> b]

Swap(x, y) == [z \in {x, y} |-> IF z = x THEN y ELSE x]

MCSymmetry ==
    {[z \in {a, d, c1, c2, h1, h2} |->
        CASE z \in {a, d}   -> IF calls THEN Swap(a, d)[z] ELSE z
          [] z \in {c1, c2} -> IF calls THEN Swap(c1, c2)[z] ELSE z
          [] z \in {h1, h2} -> IF handlers THEN Swap(h1, h2)[z] ELSE z] :
     calls \in BOOLEAN, handlers \in BOOLEAN}

=============================================================================
