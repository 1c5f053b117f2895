------------------------ MODULE MCWebSocketSession -------------------------
(* Small peers: messages of one and two fragments, control frames between them. *)
EXTENDS WebSocketSession

Fragment(fin, size) == [op |-> "data", fin |-> fin, size |-> size]
Control(op) == [op |-> op, fin |-> TRUE, size |-> 1]

\* Fragments, one of them empty, and every control frame.
AllFrames == {Fragment(TRUE, 0), Fragment(TRUE, 1), Fragment(FALSE, 2),
              Control("ping"), Control("pong"), Control("close")}
\* A peer that asks, sends a message in two parts, pings and closes.
FewFrames == {Fragment(TRUE, 1), Fragment(FALSE, 2), Control("ping"), Control("close")}
AllOutcomes == {"reply", "silent", "close", "throw"}
=============================================================================
