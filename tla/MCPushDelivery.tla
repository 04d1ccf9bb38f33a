--------------------------- MODULE MCPushDelivery ---------------------------
(* A message with two push requests and its recall for a user with one      *)
(* device, or with a recall for nobody, or a call to a user with two        *)
(* devices.                                                                 *)
EXTENDS PushDelivery

CONSTANTS u1, u2, d1, d2, a, b

Req(o, k, s, T, m) ==
    [op |-> o, kind |-> k, subject |-> s, targets |-> T, muted |-> m]

MCRequests ==
    {Req("p1", "message", "m", {u1}, {}), Req("p2", "message", "m", {u1}, {}),
     Req("p3", "message_recall", "m", {u1}, {}), Req("p4", "voip", "c", {u2}, {}),
     Req("p5", "message", "n", {u1}, {u1}), Req("p6", "message_recall", "m", {}, {})}

Cmd(u, v, k, reg, x) == [user |-> u, device |-> v, type |-> k, register |-> reg, value |-> x]

Of(s) == {r \in Requests : r.subject = s /\ r.targets # {}}

Only(ops) == {r \in Requests : r.op \in ops}

Load(R, C, n) == [requests |-> R, commands |-> C, faults |-> n]

\* A phone unregisters and registers again; a token moves to another user's
\* phone.
MCWorkloads ==
    {Load(Of("m"), {}, 0),
     Load(Only({"p1"}), {Cmd(u1, d1, "apns", FALSE, "x1"),
                         Cmd(u1, d1, "apns", TRUE, "x1")}, 0),
     Load(Only({"p1", "p6"}), {}, 0),
     Load(Of("c"), {}, 1),
     Load(Of("n"), {}, 0),
     Load(Of("c"), {Cmd(u1, d1, "voip", TRUE, "x1")}, 0)}

Token(u, v, k, x) == [user |-> u, device |-> v, type |-> k, value |-> x, active |-> TRUE]

MCRegistered ==
    [i \in TokenIds |-> CASE i = 1 -> Token(u1, d1, "apns", "x1")
                          [] i = 2 -> Token(u2, d1, "voip", "x1")
                          [] i = 3 -> Token(u2, d2, "voip", "x2")
                          [] OTHER -> NoRow]

MCSymmetry == {[z \in {a, b} |-> z], [z \in {a, b} |-> IF z = a THEN b ELSE a]}

=============================================================================
