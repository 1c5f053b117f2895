-------------------------- MODULE WebSocketSession --------------------------
(***************************************************************************)
(* One websocket connection of the "/stream" route: Crow's connection      *)
(* object (src/src/include/crow/websocket.h), which reads frames, collects *)
(* the fragments of a message, calls the route's onmessage                 *)
(* (src/src/backend/CrowStream.cpp), queues what is to be written, takes   *)
(* part in the close handshake and deletes itself; and the peer that sends *)
(* frames, reads the answers and goes away.                                *)
(*                                                                         *)
(* The object lives on one io_context thread, so its handlers never        *)
(* overlap; what interleaves is the order of their completions with the    *)
(* peer and the kernel.  A handler is a function on the object's record,   *)
(* as the handlers call each other in the source.                          *)
(*                                                                         *)
(* Opcodes text, binary and continuation are treated alike by              *)
(* handle_fragment and are one kind here, "data".  The limit on a          *)
(* message's length is left out: the program leaves it at UINT64_MAX.      *)
(***************************************************************************)
EXTENDS Naturals, SequencesExt

CONSTANTS Frames,        \* the frames a peer may send
          Outcomes,      \* what onmessage may do with a message
          MaxFrames,     \* bound: frames the peer sends
          DebugLog,      \* is the log level "debug", so that onopen asks for the peer's address?
          SplitHeaders   \* may the two bytes of a frame's header arrive apart?

FrameSet == [op: {"data", "ping", "pong", "close"}, fin: BOOLEAN, size: Nat]

ASSUME WebSocketSessionAssumption ==
    /\ Frames \subseteq FrameSet
    /\ Outcomes \subseteq {"reply", "silent", "close", "throw"}
    /\ MaxFrames \in Nat
    /\ DebugLog \in BOOLEAN
    /\ SplitHeaders \in BOOLEAN

VARIABLES
    c,        \* the connection object, and its socket
    peer,     \* "here", "fin": it has shut its end down, or "reset": and the kernel knows
    wire,     \* frames on their way to the server, with their number
    posted,   \* frames send_data posted to the io_context
    tx,       \* frames the kernel accepted
    sent,     \* history: frames the peer sent
    said,     \* history: for each number of them, the messages they carry
    handled,  \* history: messages onmessage was called with
    owed      \* history: frames the server asked to send, in order

vars == <<c, peer, wire, posted, tx, sent, said, handled, owed>>

Hello == <<"hello", 0>>
CloseFrame == <<"close", 0>>

\* A frame with its number, and the bytes of frame number i.
Numbered(f, i) == [op |-> f.op, fin |-> f.fin, size |-> f.size, id |-> i]
Pieces(i, n) == [k \in 1 .. n |-> <<i, k>>]

\* What a peer has said: whole messages, and the fragments of the next.  Frame number i adds
\* to it, whatever control frames lie between the fragments of a message.
NothingSaid == [done |-> <<>>, open |-> <<>>]
Take(s, f, i) ==
    LET m == s.open \o Pieces(i, f.size)
    IN  IF f.op # "data" THEN s
        ELSE IF f.fin THEN [done |-> Append(s.done, m), open |-> <<>>]
        ELSE [done |-> s.done, open |-> m]

Init ==
    /\ c = [state |-> "new",           \* state_; "new" before start()
            isReading |-> FALSE,       \* is_reading: a read is in flight
            remaining |-> 0,           \* remaining_length_
            fragment |-> <<>>,         \* fragment_
            message |-> <<>>,          \* message_
            sending |-> <<>>,          \* sending_buffers_
            queue |-> <<>>,            \* write_buffers_
            write |-> "idle",          \* async_write: in flight, or accepted and to be completed
            open |-> TRUE,             \* the socket
            sentClose |-> FALSE,       \* has_sent_close_
            recvClose |-> FALSE,       \* has_recv_close_
            closeConn |-> FALSE,       \* close_connection_
            closeCalled |-> FALSE,     \* is_close_handler_called_
            closes |-> 0,              \* history: calls of onclose
            deleted |-> FALSE]
    /\ peer = "here"
    /\ wire = <<>>
    /\ posted = <<>>
    /\ tx = <<>>
    /\ sent = <<>>
    /\ said = <<NothingSaid>>
    /\ handled = <<>>
    /\ owed = <<>>
-----------------------------------------------------------------------------
(* The member functions, each from the object before to the object after. *)

DoWrite(x) ==
    IF x.sending = <<>>
    THEN [x EXCEPT !.sending = x.queue, !.queue = <<>>, !.write = "started"]
    ELSE x

\* Mutants: the object goes although a read is in flight; onclose is not called once a close
\* frame has been sent; onclose is called whether or not it was before.
CheckDestroyWrites(x) ==
    [x EXCEPT !.closes = IF x.closeCalled THEN @ ELSE @ + 1,
              !.deleted = x.sending = <<>>]
CheckDestroyQuietly(x) ==
    [x EXCEPT !.closes = IF x.closeCalled \/ x.sentClose THEN @ ELSE @ + 1,
              !.deleted = x.sending = <<>> /\ ~x.isReading]
CheckDestroyAgain(x) ==
    [x EXCEPT !.closes = @ + 1, !.deleted = x.sending = <<>> /\ ~x.isReading]

CheckDestroy(x) ==
    [x EXCEPT !.closes = IF x.closeCalled THEN @ ELSE @ + 1,
              !.deleted = x.sending = <<>> /\ ~x.isReading]

CloseSocket(x) == [x EXCEPT !.closeConn = TRUE, !.open = FALSE]

Close(x) ==
    DoWrite([x EXCEPT !.sentClose = TRUE,
                      !.closeCalled = @ \/ x.recvClose,
                      !.closes = IF x.recvClose /\ ~x.closeCalled THEN @ + 1 ELSE @,
                      !.queue = Append(@, CloseFrame)])

DoRead(x) ==
    IF x.sentClose /\ x.recvClose
    THEN CheckDestroy(CloseSocket(x))
    ELSE [x EXCEPT !.isReading = TRUE]

\* handle_fragment after the switch, and the read it leads to.
NextFrame(x) == DoRead([x EXCEPT !.fragment = <<>>, !.state = "mini"])

\* The second half of a close handshake the server began.
ReceiveLastClose(x) ==
    CheckDestroy(CloseSocket([x EXCEPT !.closeCalled = TRUE,
                                       !.closes = IF x.closeCalled THEN @ ELSE @ + 1]))

ReadFailed(x) == CheckDestroy(CloseSocket([x EXCEPT !.isReading = FALSE]))

\* Mutants: what was queued during the write stays in the queue; a write is started whether or
\* not anything is queued; what was queued is cleared instead of what was sent.
WrittenOnce(x) ==
    [x EXCEPT !.sending = <<>>, !.write = "idle", !.closeConn = @ \/ x.sentClose]
WrittenAlways(x) ==
    [DoWrite([x EXCEPT !.sending = <<>>, !.write = "idle"]) EXCEPT !.closeConn = @ \/ x.sentClose]
WrittenCleared(x) ==
    [x EXCEPT !.sending = <<>>, !.queue = <<>>, !.write = "idle", !.closeConn = @ \/ x.sentClose]

\* What the completion of a write does when it went well and the object is not closing.
Written(x) ==
    LET y == [x EXCEPT !.sending = <<>>, !.write = "idle"]
        z == IF y.queue # <<>> THEN DoWrite(y) ELSE y
    IN  [z EXCEPT !.closeConn = @ \/ x.sentClose]

\* Mutant: the buffers are kept, so the object is never free to go.
WriteEndedKept(x) ==
    CheckDestroy([x EXCEPT !.write = "idle", !.closeConn = TRUE])

WriteEnded(x) ==
    CheckDestroy([x EXCEPT !.sending = <<>>, !.write = "idle", !.closeConn = TRUE])

-----------------------------------------------------------------------------
Here == peer = "here"
\* The kernel takes what is written to the peer until it knows of a reset.
Linked == peer # "reset"

\* A write the object has started may be accepted by the kernel at once, on the open socket
\* it was started on, whatever the handler goes on to do with the socket.
Becomes(y) ==
    \/ c' = y /\ UNCHANGED tx
    \/ /\ y.write = "started" /\ c.open /\ Linked
       /\ c' = [y EXCEPT !.write = "taken"]
       /\ tx' = tx \o y.sending

\* The handshake: the response is written, onopen is called and reading begins.  With debug
\* logging onopen asks the socket for the peer's address, which throws when the peer has
\* reset the connection; the object under construction is then freed with its socket.
Start ==
    /\ c.state = "new" /\ ~c.deleted
    /\ owed' = <<Hello>>
    /\ LET x == DoWrite([c EXCEPT !.state = "mini", !.queue = <<Hello>>])
       IN  \/ Becomes(DoRead(x)) /\ UNCHANGED peer
           \/ /\ DebugLog
              /\ Becomes([x EXCEPT !.deleted = TRUE, !.open = FALSE])
              /\ peer' = "reset"
    /\ UNCHANGED <<wire, posted, sent, said, handled>>

\* A read may complete when a frame is there, be it one a peer that went has left behind.
\* What onmessage posted runs before the next read.
MayRead(state) ==
    /\ ~c.deleted /\ c.isReading /\ c.state = state
    /\ posted = <<>> /\ wire # <<>>

GoTo(state, n) == Becomes(DoRead([c EXCEPT !.isReading = FALSE, !.state = state, !.remaining = n]))

ReadHeader ==
    /\ MayRead("mini")
    /\ \E s \in {"len", "mask", "payload"} : GoTo(s, Head(wire).size)
    /\ UNCHANGED <<peer, wire, posted, sent, said, handled, owed>>

\* async_read_some asks for two bytes and gets one: the header is taken for that of an empty,
\* unmasked frame, and the bytes that follow for the frames after it.  Bounds: what follows is
\* read as at most as many frames as there were, whose headers are not split again.
ReadHalfHeader ==
    /\ SplitHeaders /\ MayRead("mini") /\ Head(wire).id # 0
    /\ GoTo("payload", 0)
    /\ \E f \in Frames, n \in 0 .. Len(wire) :
          wire' = <<[Head(wire) EXCEPT !.size = 0]>> \o [i \in 1 .. n |-> Numbered(f, 0)]
    /\ UNCHANGED <<peer, posted, sent, said, handled, owed>>

ReadLength ==
    /\ MayRead("len")
    /\ \E s \in {"mask", "payload"} : GoTo(s, c.remaining)
    /\ UNCHANGED <<peer, wire, posted, sent, said, handled, owed>>

ReadMask ==
    /\ MayRead("mask")
    /\ GoTo("payload", c.remaining)
    /\ UNCHANGED <<peer, wire, posted, sent, said, handled, owed>>

\* The object with n more bytes of the payload.
WithPayload(n) ==
    [c EXCEPT !.isReading = FALSE, !.remaining = @ - n,
              !.fragment = @ \o [k \in 1 .. n |-> <<Head(wire).id, Len(@) + k>>]]

ReadSome ==
    /\ MayRead("payload")
    /\ \E n \in 1 .. c.remaining : n < c.remaining /\ Becomes(DoRead(WithPayload(n)))
    /\ UNCHANGED <<peer, wire, posted, sent, said, handled, owed>>

\* The rest of the payload is there and handle_fragment is called with x.
LastRead(op) == MayRead("payload") /\ Head(wire).op = op /\ wire' = Tail(wire)

ReadPart ==
    /\ LastRead("data") /\ ~Head(wire).fin
    /\ LET x == WithPayload(c.remaining)
       IN  Becomes(NextFrame([x EXCEPT !.message = @ \o x.fragment]))
    /\ UNCHANGED <<peer, posted, sent, said, handled, owed>>

\* Mutant: only the last fragment is handed over.
LastOnly(x) == x.fragment

\* The message handed to onmessage when its last fragment x.fragment is there.
Whole(x) == x.message \o x.fragment

\* onmessage answers, does nothing, closes, or lets an exception through: json::dump in
\* its catch block throws when what the parser says of a request is not UTF-8.
ReadMessage ==
    /\ LastRead("data") /\ Head(wire).fin
    /\ LET x == WithPayload(c.remaining)
           y == [x EXCEPT !.message = <<>>]
           answer == <<"reply", Len(handled) + 1>>
       IN  /\ handled' = Append(handled, Whole(x))
           /\ \/ /\ "reply" \in Outcomes
                 /\ posted' = Append(posted, answer)
                 /\ owed' = Append(owed, answer)
                 /\ Becomes(NextFrame(y))
              \/ /\ "silent" \in Outcomes
                 /\ Becomes(NextFrame(y))
                 /\ UNCHANGED <<posted, owed>>
              \/ /\ "close" \in Outcomes
                 /\ Becomes(NextFrame(Close(y)))
                 /\ owed' = Append(owed, CloseFrame)
                 /\ UNCHANGED posted
              \/ /\ "throw" \in Outcomes
                 /\ Becomes([x EXCEPT !.message = Whole(x)])
                 /\ UNCHANGED <<posted, owed>>
    /\ UNCHANGED <<peer, sent, said>>

ReadPing ==
    /\ LastRead("ping")
    /\ LET pong == <<"pong", Head(wire).id>>
       IN  posted' = Append(posted, pong) /\ owed' = Append(owed, pong)
    /\ Becomes(NextFrame(WithPayload(c.remaining)))
    /\ UNCHANGED <<peer, sent, said, handled>>

ReadPong ==
    /\ LastRead("pong")
    /\ Becomes(NextFrame(WithPayload(c.remaining)))
    /\ UNCHANGED <<peer, posted, sent, said, handled, owed>>

ReadClose ==
    /\ LastRead("close")
    /\ LET x == [WithPayload(c.remaining) EXCEPT !.recvClose = TRUE]
       IN  IF x.sentClose
           THEN Becomes(ReceiveLastClose(x)) /\ UNCHANGED owed
           ELSE Becomes(NextFrame(Close(x))) /\ owed' = Append(owed, CloseFrame)
    /\ UNCHANGED <<peer, posted, sent, said, handled>>

\* A read fails at the end of what the peer sent, which may be inside its last frame, or at its
\* reset, even before all it sent is read.
ReadFails ==
    /\ ~c.deleted /\ c.isReading /\ posted = <<>>
    /\ peer = "reset" \/ (peer = "fin" /\ Len(wire) <= 1)
    /\ Becomes(ReadFailed(c))
    /\ UNCHANGED <<peer, wire, posted, sent, said, handled, owed>>

\* send_data_impl, run from the io_context.
RunPosted ==
    /\ ~c.deleted /\ posted # <<>>
    /\ Becomes(DoWrite([c EXCEPT !.queue = Append(@, Head(posted))]))
    /\ posted' = Tail(posted)
    /\ UNCHANGED <<peer, wire, sent, said, handled, owed>>

WriteSucceeds ==
    /\ ~c.deleted /\ c.write = "taken"
    /\ Becomes(IF c.closeConn THEN WriteEnded(c) ELSE Written(c))
    /\ UNCHANGED <<peer, wire, posted, sent, said, handled, owed>>

\* The completion with an error looks for the object before it touches it.
WriteFails ==
    /\ c.write = "started" /\ (~c.open \/ ~Linked)
    /\ Becomes(IF c.deleted THEN [c EXCEPT !.write = "idle"] ELSE WriteEnded(c))
    /\ UNCHANGED <<peer, wire, posted, sent, said, handled, owed>>
-----------------------------------------------------------------------------
KernelTakes ==
    /\ c.write = "started" /\ c.open /\ Linked
    /\ c' = [c EXCEPT !.write = "taken"]
    /\ tx' = tx \o c.sending
    /\ UNCHANGED <<peer, wire, posted, sent, said, handled, owed>>

\* A peer sends nothing after its close frame.
PeerSends ==
    /\ Here /\ Len(sent) < MaxFrames
    /\ \A i \in 1 .. Len(sent) : sent[i].op # "close"
    /\ \E f \in Frames :
          /\ sent' = Append(sent, f)
          /\ said' = Append(said, Take(said[Len(said)], f, Len(sent) + 1))
          /\ wire' = Append(wire, Numbered(f, Len(sent) + 1))
    /\ UNCHANGED <<c, peer, posted, tx, handled, owed>>

PeerLeaves ==
    /\ \/ Here /\ peer' \in {"fin", "reset"}
       \/ peer = "fin" /\ peer' = "reset"
    /\ UNCHANGED <<c, wire, posted, tx, sent, said, handled, owed>>

Reads == \/ ReadHeader \/ ReadHalfHeader \/ ReadLength \/ ReadMask
         \/ ReadSome \/ ReadPart \/ ReadMessage \/ ReadPing \/ ReadPong \/ ReadClose \/ ReadFails
Writes == WriteSucceeds \/ WriteFails

Next == \/ Start \/ Reads \/ RunPosted \/ Writes
        \/ KernelTakes \/ PeerSends \/ PeerLeaves

Spec == Init /\ [][Next]_vars

\* The io_context runs every completion it has.
FairSpec == Spec /\ WF_vars(Start) /\ WF_vars(Reads) /\ WF_vars(RunPosted) /\ WF_vars(Writes)
-----------------------------------------------------------------------------
FrameOut == {"hello", "reply", "pong", "close"} \X Nat
Bytes == Seq(Nat \X Nat)
Said == [done: Seq(Bytes), open: Bytes]

Object == [state: {"new", "mini", "len", "mask", "payload"}, isReading: BOOLEAN,
           remaining: Nat, fragment: Bytes, message: Bytes,
           sending: Seq(FrameOut), queue: Seq(FrameOut),
           write: {"idle", "started", "taken"}, open: BOOLEAN, sentClose: BOOLEAN,
           recvClose: BOOLEAN, closeConn: BOOLEAN, closeCalled: BOOLEAN,
           closes: Nat, deleted: BOOLEAN]

NumberedSet == [op: {"data", "ping", "pong", "close"}, fin: BOOLEAN, size: Nat, id: Nat]

\* The type invariant.  A write is in flight exactly while sending_buffers_ holds something.
TypeOK ==
    /\ c \in Object
    /\ peer \in {"here", "fin", "reset"}
    /\ wire \in Seq(NumberedSet)
    /\ posted \in Seq(FrameOut) /\ tx \in Seq(FrameOut) /\ owed \in Seq(FrameOut)
    /\ sent \in Seq(FrameSet) /\ said \in Seq(Said)
    /\ handled \in Seq(Bytes)
    /\ ~c.deleted => (c.write = "idle" <=> c.sending = <<>>)

\* The object is not deleted while a completion is to come that will use it: a read, a write
\* that went well, or something posted (do_write's handler looks for it only after an error).
NoLateCompletion == c.deleted => ~c.isReading /\ c.write # "taken" /\ posted = <<>>

\* The application hears of the end of every connection it was told of: onclose has been
\* called when the object deletes itself.
OncloseTold == c.deleted => c.closes >= 1

\* How often onclose may be called.  check_destroy calls it without setting
\* is_close_handler_called_ (websocket.h:759), so it is called once for the failed read or the
\* finished handshake and again for each write that ends on a closing connection, but no more.  As
\* long as the peer is there only the server's close frame, the k-th it asked to send, and what it
\* asked for after it may be such writes: before, the application hears of no end.
OncloseBounded ==
    /\ c.closes <= 1 + Len(owed)
    /\ Here /\ c.closes > 0 =>
          \E k \in 1 .. Len(owed) : owed[k] = CloseFrame /\ c.closes <= Len(owed) - k + 2

\* What the server asked to send reaches the kernel in that order, nothing twice, and as long
\* as the connection is up nothing of it is lost between the three queues.
Unsent == IF c.write = "started" THEN c.sending ELSE <<>>
RepliesInOrder ==
    /\ IsPrefix(tx, owed)
    /\ Linked /\ c.open => tx \o Unsent \o c.queue \o posted = owed

\* The connection implements the channel of AnswerChannel: through three queues and whatever
\* handlers run between a completion and the next, the peer is sent what was asked for, in order
\* and once, and nothing once the kernel knows of its reset, the socket is closed or the object
\* deleted.
Life == IF c.deleted THEN "over" ELSE IF Linked /\ c.open THEN "live" ELSE "cut"
Channel == INSTANCE AnswerChannel WITH asked <- owed, delivered <- tx, life <- Life
IsChannel == Channel!Spec

\* onmessage is called with the peer's messages, each with all its fragments, in order, once.
MessagesWhole == IsPrefix(handled, said[Len(said)].done)

\* An exception came out of onmessage: nothing reads any more.
Abandoned == c.state = "payload" /\ ~c.isReading /\ c.open /\ ~c.deleted

\* When the peer goes, or sends a close frame, the object is deleted in the end, unless
\* onmessage let an exception through.
PeerEnded == ~Here \/ \E i \in 1 .. Len(sent) : sent[i].op = "close"
Reclaimed == PeerEnded ~> (c.deleted \/ Abandoned)

\* As long as the peer reads, everything the server asked to send is sent or the connection ends.
\* (The worker's thread is taken to come back from other handlers: do_write_sync of an HTTP
\* connection of the same worker may hold it for ever, http_connection.h:549.)
PeerReads == WF_vars(KernelTakes)
Over == ~Here \/ c.closeConn
Answered == PeerReads => \A k \in 1 .. MaxFrames + 1 : (Len(owed) >= k) ~> (Len(tx) >= k \/ Over)
=============================================================================
