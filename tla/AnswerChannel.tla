--------------------------- MODULE AnswerChannel ----------------------------
(***************************************************************************)
(* What a websocket connection promises the application that answers on it *)
(* and the client that reads: a channel which delivers what was asked to   *)
(* be sent, in that order and each once, for as long as it is live; then   *)
(* it is cut, and what is asked may be lost; then it is over, for good,    *)
(* and nobody asks any more.  WebSocketSession implements it with a socket,*)
(* three queues and the completions of reads and writes.                   *)
(***************************************************************************)
EXTENDS Naturals, SequencesExt

VARIABLES asked, delivered, life

vars == <<asked, delivered, life>>

Init == asked = <<>> /\ delivered = <<>> /\ life = "live"

\* A handler asks for at most one frame.
Ask == \/ UNCHANGED asked
       \/ IsPrefix(asked, asked') /\ Len(asked') = Len(asked) + 1

\* The kernel takes any number of frames, up to the last one asked for.
Deliver == \/ UNCHANGED delivered
           \/ /\ life = "live"
              /\ IsPrefix(delivered, delivered') /\ IsPrefix(delivered', asked')

Age == life' \in IF life = "live" THEN {"live", "cut", "over"} ELSE {"cut", "over"}

\* A handler may ask, send what was asked and end the connection in one step.
Next == life # "over" /\ Ask /\ Deliver /\ Age

Spec == Init /\ [][Next]_vars
=============================================================================
