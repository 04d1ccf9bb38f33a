--------------------------- MODULE MCMessagePath ----------------------------
(* A sender and two readers at two containers.  Every workload is one of    *)
(* the situations in which the parts of the path meet.                      *)
EXTENDS CallEventRelay, TLC

CONSTANTS u1, u2, u3, c1, c2, p1, p2, p3, w1, w2, k1, k2, q1, q2

Post(c, t) == [user |-> u1, client |-> c, to |-> t]

MCPosts == {Post(p1, u2), Post(p2, u2), Post(p3, Group)}

Request(k, u, y) == [kind |-> k, user |-> u, about |-> y]

MCAsks == {Request("recall", u1, 1), Request("message", u2, 1), Request("user", u2, u1),
           Request("sync", u2, u2), Request("update", u3, u1)}

MCHome == [u \in Users |-> IF u = u2 THEN c2 ELSE c1]

\* A workload from the events it has.
Load(f) == [e \in Events |-> IF e \in DOMAIN f THEN f[e] ELSE 0]

MCWorkloads ==
    {Load([post |-> 2, expire |-> 1, dup |-> 1]),
     Load([post |-> 2, fault |-> 1]),
     Load([post |-> 2, move |-> 1]),
     Load([post |-> 1, move |-> 2]),
     Load([post |-> 1, sync |-> 2]),
     Load([post |-> 2, sync |-> 1, tick |-> 1]),
     Load([group |-> 1, post |-> 1, sync |-> 1]),
     Load([group |-> 1, sync |-> 1, member |-> 2, tick |-> 1]),
     Load([post |-> 1, recall |-> 1, message |-> 1]),
     Load([post |-> 1, recall |-> 1, tick |-> 2]),
     Load([post |-> 1, recall |-> 1, fault |-> 1]),
     Load([group |-> 1, recall |-> 1, move |-> 1]),
     Load([group |-> 1, move |-> 1, fault |-> 1]),
     Load([group |-> 1, member |-> 1, dup |-> 1, move |-> 1]),
     Load([group |-> 1, message |-> 1, member |-> 1]),
     Load([update |-> 1, user |-> 2]),
     Load([update |-> 1, user |-> 1, expire |-> 1]),
     Load([update |-> 1, user |-> 1, fault |-> 2]),
     Load([friend |-> 1, move |-> 2]),
     Load([push |-> 1, move |-> 1, fault |-> 1]),
     Load([call |-> 2, fault |-> 1]),
     Load([call |-> 1, move |-> 1, fault |-> 1])}

Swap(a, b) == {[z \in {a, b} |-> z], [z \in {a, b} |-> IF z = a THEN b ELSE a]}

MCSymmetry ==
    {f @@ g @@ h : f \in Swap(w1, w2), g \in Swap(k1, k2), h \in Swap(p1, p2)}

=============================================================================
