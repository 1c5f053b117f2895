----------------------- MODULE WebSocketSessionProofs ----------------------
(***************************************************************************)
(* Theorems about WebSocketSession, for any frames, outcomes and number of *)
(* frames.  In four parts: the object (its types, that it is not deleted   *)
(* while something in flight will use it, that the application hears of    *)
(* its end); what is sent (the answers reach the kernel in order and once, *)
(* and the refinement of AnswerChannel); how often the application hears   *)
(* of the end; and what is read (the peer's messages are handed over       *)
(* whole, in order and once).                                              *)
(***************************************************************************)
EXTENDS WebSocketSession, SequenceTheorems, TLAPS

\* What holds of the object between two handlers.
Sound(x) ==
    /\ ~x.deleted => (x.write = "idle" <=> x.sending = <<>>)
    /\ x.isReading => ~(x.sentClose /\ x.recvClose)
    /\ x.closeCalled => x.closes >= 1
    /\ x.deleted /\ ~DebugLog => x.write = "idle" /\ ~x.isReading /\ x.closes >= 1

Good(x) == x \in Object /\ Sound(x)

\* What no member function does: call a noted handler again.
Keeps(x, y) == x.closeCalled => y.closeCalled /\ y.closes = x.closes
-----------------------------------------------------------------------------
\* do_write, called with something to write, starts a write or leaves the one in flight.
LEMMA DoWriteGood ==
    ASSUME NEW x, Good(x), ~x.deleted, x.queue # <<>>
    PROVE  /\ Good(DoWrite(x)) /\ Keeps(x, DoWrite(x))
           /\ DoWrite(x).isReading = x.isReading /\ ~DoWrite(x).deleted
           /\ DoWrite(x).state = x.state
           /\ DoWrite(x).sentClose = x.sentClose /\ DoWrite(x).recvClose = x.recvClose
<1> DEFINE y == DoWrite(x)
<1>0. x \in Object
    BY DEF Good
<1>1. y \in Object
  <2>1. <<>> \in Seq(FrameOut)
      OBVIOUS
  <2>2. CASE x.sending = <<>>
    <3>1. y = [x EXCEPT !.sending = x.queue, !.queue = <<>>, !.write = "started"]
        BY <2>2 DEF DoWrite
    <3> QED BY <3>1, <2>1, <1>0 DEF Object
  <2>3. CASE x.sending # <<>>
      BY <2>3, <1>0 DEF DoWrite
  <2> QED BY <2>2, <2>3
<1>2. /\ y.isReading = x.isReading /\ y.deleted = x.deleted /\ y.state = x.state
      /\ y.sentClose = x.sentClose /\ y.recvClose = x.recvClose
      /\ y.closeCalled = x.closeCalled /\ y.closes = x.closes
    BY <1>0 DEF Object, DoWrite
<1>3. /\ x.sending = <<>> => y.sending # <<>> /\ y.write # "idle"
      /\ x.sending # <<>> => y.sending = x.sending /\ y.write = x.write
    BY <1>0 DEF Object, DoWrite
<1> HIDE DEF y
<1>4. Good(y) /\ Keeps(x, y) /\ ~y.deleted
    BY <1>1, <1>2, <1>3 DEF Good, Sound, Keeps
<1> QED BY <1>2, <1>4 DEF y

LEMMA EndedType ==
    ASSUME NEW x \in Object, NEW n \in Nat, NEW b \in BOOLEAN
    PROVE  [x EXCEPT !.closes = n, !.deleted = b] \in Object
    BY DEF Object

\* check_destroy calls the handler unless it was noted, and deletes an object at rest.
LEMMA CheckDestroyGood ==
    ASSUME NEW x, x \in Object, ~x.deleted,
           x.write = "idle" <=> x.sending = <<>>,
           x.isReading => ~(x.sentClose /\ x.recvClose),
           x.closeCalled => x.closes >= 1
    PROVE  /\ Good(CheckDestroy(x)) /\ Keeps(x, CheckDestroy(x))
           /\ CheckDestroy(x).isReading = x.isReading
           /\ CheckDestroy(x).state = x.state
           /\ x.isReading => ~CheckDestroy(x).deleted
<1> DEFINE y == CheckDestroy(x)
<1>1. y \in Object
  <2> DEFINE n == IF x.closeCalled THEN x.closes ELSE x.closes + 1
             b == x.sending = <<>> /\ ~x.isReading
  <2>1. n \in Nat /\ b \in BOOLEAN
      BY DEF Object
  <2>2. y = [x EXCEPT !.closes = n, !.deleted = b]
      BY DEF CheckDestroy
  <2> HIDE DEF n, b, y
  <2> QED BY <2>1, <2>2, EndedType
<1>2. /\ y.isReading = x.isReading /\ y.state = x.state
      /\ y.sentClose = x.sentClose /\ y.recvClose = x.recvClose
      /\ y.sending = x.sending /\ y.write = x.write
      /\ y.closeCalled = x.closeCalled
    BY DEF Object, CheckDestroy
<1>3. /\ y.closes = IF x.closeCalled THEN x.closes ELSE x.closes + 1
      /\ y.deleted <=> x.sending = <<>> /\ ~x.isReading
    BY DEF Object, CheckDestroy
<1>4. y.closes >= 1
    BY <1>3 DEF Object
<1> HIDE DEF y
<1>5. Good(y) /\ Keeps(x, y) /\ (x.isReading => ~y.deleted)
    BY <1>1, <1>2, <1>3, <1>4 DEF Good, Sound, Keeps
<1> QED BY <1>2, <1>5 DEF y

LEMMA CloseSocketGood ==
    ASSUME NEW x \in Object
    PROVE  /\ CloseSocket(x) \in Object
           /\ CloseSocket(x).isReading = x.isReading /\ CloseSocket(x).deleted = x.deleted
           /\ CloseSocket(x).state = x.state /\ CloseSocket(x).closes = x.closes
           /\ CloseSocket(x).write = x.write /\ CloseSocket(x).sending = x.sending
           /\ CloseSocket(x).closeCalled = x.closeCalled
           /\ CloseSocket(x).sentClose = x.sentClose /\ CloseSocket(x).recvClose = x.recvClose
    BY DEF Object, CloseSocket

\* do_read reads, unless the close handshake is over.
LEMMA DoReadGood ==
    ASSUME NEW x, Good(x), ~x.deleted
    PROVE  /\ Good(DoRead(x)) /\ Keeps(x, DoRead(x))
           /\ DoRead(x).state = x.state
           /\ ~(x.sentClose /\ x.recvClose) => DoRead(x).isReading /\ ~DoRead(x).deleted
<1>1. CASE x.sentClose /\ x.recvClose
  <2> DEFINE z == CloseSocket(x)
  <2>1. /\ z \in Object /\ z.closes = x.closes /\ z.closeCalled = x.closeCalled
        /\ ~z.deleted /\ (z.write = "idle" <=> z.sending = <<>>)
        /\ z.isReading => ~(z.sentClose /\ z.recvClose)
        /\ z.closeCalled => z.closes >= 1
        /\ z.state = x.state
      BY CloseSocketGood DEF Good, Sound
  <2>2. DoRead(x) = CheckDestroy(z)
      BY <1>1 DEF DoRead
  <2> HIDE DEF z
  <2>3. Good(CheckDestroy(z)) /\ Keeps(z, CheckDestroy(z)) /\ CheckDestroy(z).state = z.state
      BY <2>1, CheckDestroyGood
  <2> QED BY <1>1, <2>1, <2>2, <2>3 DEF Keeps
<1>2. CASE ~(x.sentClose /\ x.recvClose)
  <2> DEFINE y == [x EXCEPT !.isReading = TRUE]
  <2>1. y \in Object
      BY DEF Good, Object
  <2>2. /\ y.isReading /\ y.deleted = x.deleted /\ y.state = x.state
        /\ y.sentClose = x.sentClose /\ y.recvClose = x.recvClose
        /\ y.sending = x.sending /\ y.write = x.write
        /\ y.closeCalled = x.closeCalled /\ y.closes = x.closes
      BY DEF Good, Object
  <2>3. DoRead(x) = y
      BY <1>2 DEF DoRead
  <2> HIDE DEF y
  <2>4. Good(y) /\ Keeps(x, y)
      BY <1>2, <2>1, <2>2 DEF Good, Sound, Keeps
  <2> QED BY <2>2, <2>3, <2>4
<1> QED BY <1>1, <1>2

\* close queues its frame, and notes the handler it calls.
LEMMA CloseGood ==
    ASSUME NEW x, Good(x), ~x.deleted, ~x.isReading
    PROVE  /\ Good(Close(x)) /\ Keeps(x, Close(x))
           /\ ~Close(x).isReading /\ ~Close(x).deleted
           /\ Close(x).state = x.state
<1> DEFINE q == Append(x.queue, CloseFrame)
           n == IF x.recvClose /\ ~x.closeCalled THEN x.closes + 1 ELSE x.closes
           b == x.closeCalled \/ x.recvClose
           y == [x EXCEPT !.sentClose = TRUE, !.closeCalled = b, !.closes = n, !.queue = q]
<1>1. x \in Object /\ x.queue \in Seq(FrameOut) /\ x.closes \in Nat
    BY DEF Good, Object
<1>2. CloseFrame \in FrameOut
    BY DEF CloseFrame, FrameOut
<1>3. q \in Seq(FrameOut) /\ q # <<>> /\ n \in Nat /\ b \in BOOLEAN
    BY <1>1, <1>2
<1>4. Close(x) = DoWrite(y)
    BY DEF Close
<1>5. /\ n >= x.closes /\ (b => n >= 1)
      /\ x.closeCalled => b /\ n = x.closes
    BY <1>1 DEF Good, Sound
<1> HIDE DEF q, n, b
<1>6. y \in Object
    BY <1>1, <1>3 DEF Object
<1>7. /\ y.isReading = x.isReading /\ y.deleted = x.deleted /\ y.state = x.state
      /\ y.sending = x.sending /\ y.write = x.write
      /\ y.closeCalled = b /\ y.closes = n /\ y.queue = q
    BY <1>1 DEF Object
<1> HIDE DEF y
<1>8. Good(y) /\ Keeps(x, y)
    BY <1>5, <1>6, <1>7 DEF Good, Sound, Keeps
<1>9. /\ Good(DoWrite(y)) /\ Keeps(y, DoWrite(y))
      /\ DoWrite(y).isReading = y.isReading /\ ~DoWrite(y).deleted
      /\ DoWrite(y).state = y.state
    BY <1>3, <1>7, <1>8, DoWriteGood
<1> QED BY <1>4, <1>7, <1>8, <1>9 DEF Keeps

LEMMA NextFrameGood ==
    ASSUME NEW x, Good(x), ~x.deleted
    PROVE  /\ Good(NextFrame(x)) /\ Keeps(x, NextFrame(x))
           /\ NextFrame(x).state = "mini"
           /\ ~(x.sentClose /\ x.recvClose) => NextFrame(x).isReading /\ ~NextFrame(x).deleted
<1> DEFINE y == [x EXCEPT !.fragment = <<>>, !.state = "mini"]
<1>1. y \in Object
  <2>1. <<>> \in Bytes
      BY DEF Bytes
  <2> QED BY <2>1 DEF Good, Object
<1>2. /\ y.isReading = x.isReading /\ y.deleted = x.deleted /\ y.state = "mini"
      /\ y.sentClose = x.sentClose /\ y.recvClose = x.recvClose
      /\ y.sending = x.sending /\ y.write = x.write
      /\ y.closeCalled = x.closeCalled /\ y.closes = x.closes
    BY DEF Good, Object
<1>3. NextFrame(x) = DoRead(y)
    BY DEF NextFrame
<1> HIDE DEF y
<1>4. Good(y) /\ Keeps(x, y)
    BY <1>1, <1>2 DEF Good, Sound, Keeps
<1> QED BY <1>2, <1>3, <1>4, DoReadGood DEF Keeps

LEMMA ReceiveLastCloseGood ==
    ASSUME NEW x, Good(x), ~x.deleted, ~x.isReading
    PROVE  /\ Good(ReceiveLastClose(x)) /\ Keeps(x, ReceiveLastClose(x))
           /\ ReceiveLastClose(x).state = x.state
<1> DEFINE n == IF x.closeCalled THEN x.closes ELSE x.closes + 1
           y == [x EXCEPT !.closeCalled = TRUE, !.closes = n]
           z == CloseSocket(y)
<1>1. x \in Object /\ n \in Nat /\ n >= 1
    BY DEF Good, Object, Sound
<1>2. x.closeCalled => n = x.closes
    OBVIOUS
<1>3. ReceiveLastClose(x) = CheckDestroy(z)
    BY DEF ReceiveLastClose
<1> HIDE DEF n
<1>4. y \in Object
    BY <1>1 DEF Object
<1>5. /\ y.isReading = x.isReading /\ y.deleted = x.deleted /\ y.state = x.state
      /\ y.sending = x.sending /\ y.write = x.write
      /\ y.closeCalled /\ y.closes = n
    BY <1>1 DEF Object
<1> HIDE DEF y
<1>6. /\ z \in Object /\ ~z.isReading /\ ~z.deleted /\ z.state = x.state
      /\ z.write = "idle" <=> z.sending = <<>>
      /\ z.closeCalled /\ z.closes = n
    BY <1>4, <1>5, CloseSocketGood DEF Good, Sound
<1> HIDE DEF z
<1>7. /\ Good(CheckDestroy(z)) /\ Keeps(z, CheckDestroy(z))
      /\ CheckDestroy(z).state = z.state
    BY <1>1, <1>6, CheckDestroyGood
<1> QED BY <1>2, <1>3, <1>6, <1>7 DEF Keeps

LEMMA ReadFailedGood ==
    ASSUME NEW x, Good(x), ~x.deleted
    PROVE  /\ Good(ReadFailed(x)) /\ Keeps(x, ReadFailed(x))
           /\ ReadFailed(x).state = x.state /\ ~ReadFailed(x).isReading
<1> DEFINE y == [x EXCEPT !.isReading = FALSE]
           z == CloseSocket(y)
<1>1. y \in Object
    BY DEF Good, Object
<1>2. /\ ~y.isReading /\ y.deleted = x.deleted /\ y.state = x.state
      /\ y.sending = x.sending /\ y.write = x.write
      /\ y.closeCalled = x.closeCalled /\ y.closes = x.closes
    BY DEF Good, Object
<1>3. ReadFailed(x) = CheckDestroy(z)
    BY DEF ReadFailed
<1> HIDE DEF y
<1>4. /\ z \in Object /\ ~z.isReading /\ ~z.deleted /\ z.state = x.state
      /\ z.write = "idle" <=> z.sending = <<>>
      /\ z.closeCalled = x.closeCalled /\ z.closes = x.closes
      /\ z.closeCalled => z.closes >= 1
    BY <1>1, <1>2, CloseSocketGood DEF Good, Sound
<1> HIDE DEF z
<1>5. /\ Good(CheckDestroy(z)) /\ Keeps(z, CheckDestroy(z))
      /\ CheckDestroy(z).state = z.state /\ CheckDestroy(z).isReading = z.isReading
    BY <1>4, CheckDestroyGood
<1> QED BY <1>3, <1>4, <1>5 DEF Keeps

\* A write that went well starts the next one if anything is queued.
LEMMA WrittenGood ==
    ASSUME NEW x, Good(x), ~x.deleted
    PROVE  /\ Good(Written(x)) /\ Keeps(x, Written(x))
           /\ Written(x).isReading = x.isReading /\ ~Written(x).deleted
           /\ Written(x).state = x.state
<1> DEFINE y == [x EXCEPT !.sending = <<>>, !.write = "idle"]
           z == IF y.queue # <<>> THEN DoWrite(y) ELSE y
           b == z.closeConn \/ x.sentClose
           w == [z EXCEPT !.closeConn = b]
<1>1. y \in Object
  <2>1. <<>> \in Seq(FrameOut)
      OBVIOUS
  <2> QED BY <2>1 DEF Good, Object
<1>2. /\ y.isReading = x.isReading /\ y.deleted = x.deleted /\ y.state = x.state
      /\ y.sentClose = x.sentClose /\ y.recvClose = x.recvClose
      /\ y.sending = <<>> /\ y.write = "idle"
      /\ y.closeCalled = x.closeCalled /\ y.closes = x.closes
    BY DEF Good, Object
<1>3. Written(x) = w
    BY DEF Written
<1> HIDE DEF y
<1>4. Good(y) /\ Keeps(x, y)
    BY <1>1, <1>2 DEF Good, Sound, Keeps
<1>5. /\ Good(z) /\ Keeps(x, z) /\ z.isReading = x.isReading /\ ~z.deleted
      /\ z.state = x.state
    BY <1>2, <1>4, DoWriteGood DEF Keeps
<1> HIDE DEF z
<1>6. b \in BOOLEAN
    OBVIOUS
<1> HIDE DEF b
<1>7. w \in Object
    BY <1>5, <1>6 DEF Good, Object
<1>8. /\ w.isReading = z.isReading /\ w.deleted = z.deleted /\ w.state = z.state
      /\ w.sentClose = z.sentClose /\ w.recvClose = z.recvClose
      /\ w.sending = z.sending /\ w.write = z.write
      /\ w.closeCalled = z.closeCalled /\ w.closes = z.closes
    BY <1>5, <1>6 DEF Good, Object
<1> HIDE DEF w
<1>9. Good(w) /\ Keeps(z, w)
    BY <1>5, <1>7, <1>8 DEF Good, Sound, Keeps
<1> QED BY <1>3, <1>5, <1>8, <1>9 DEF Keeps

LEMMA WriteEndedGood ==
    ASSUME NEW x, Good(x), ~x.deleted
    PROVE  /\ Good(WriteEnded(x)) /\ Keeps(x, WriteEnded(x))
           /\ WriteEnded(x).isReading = x.isReading
           /\ WriteEnded(x).state = x.state
           /\ x.isReading => ~WriteEnded(x).deleted
<1> DEFINE y == [x EXCEPT !.sending = <<>>, !.write = "idle", !.closeConn = TRUE]
<1>1. y \in Object
  <2>1. <<>> \in Seq(FrameOut)
      OBVIOUS
  <2> QED BY <2>1 DEF Good, Object
<1>2. /\ y.isReading = x.isReading /\ y.deleted = x.deleted /\ y.state = x.state
      /\ y.sentClose = x.sentClose /\ y.recvClose = x.recvClose
      /\ y.sending = <<>> /\ y.write = "idle"
      /\ y.closeCalled = x.closeCalled /\ y.closes = x.closes
    BY DEF Good, Object
<1>3. WriteEnded(x) = CheckDestroy(y)
    BY DEF WriteEnded
<1> HIDE DEF y
<1>4. /\ y.isReading => ~(y.sentClose /\ y.recvClose)
      /\ y.closeCalled => y.closes >= 1
    BY <1>2 DEF Good, Sound
<1>5. /\ Good(CheckDestroy(y)) /\ Keeps(y, CheckDestroy(y))
      /\ CheckDestroy(y).isReading = y.isReading
      /\ CheckDestroy(y).state = y.state
      /\ y.isReading => ~CheckDestroy(y).deleted
    BY <1>1, <1>2, <1>4, CheckDestroyGood
<1> QED BY <1>2, <1>3, <1>5 DEF Keeps

\* The payload grows by bytes of the frame.
LEMMA WithPayloadGood ==
    ASSUME Good(c), ~c.deleted, wire \in Seq(NumberedSet), wire # <<>>,
           NEW n \in Nat, n <= c.remaining
    PROVE  /\ Good(WithPayload(n)) /\ Keeps(c, WithPayload(n))
           /\ ~WithPayload(n).isReading /\ ~WithPayload(n).deleted
           /\ WithPayload(n).state = c.state
           /\ WithPayload(n).sentClose = c.sentClose
           /\ WithPayload(n).recvClose = c.recvClose
<1> DEFINE more == [k \in 1 .. n |-> <<Head(wire).id, Len(c.fragment) + k>>]
           f == c.fragment \o more
           r == c.remaining - n
           y == [c EXCEPT !.isReading = FALSE, !.remaining = r, !.fragment = f]
<1>1. c \in Object /\ c.fragment \in Bytes /\ c.remaining \in Nat
    BY DEF Good, Object
<1>0. WithPayload(n) = y
    BY DEF WithPayload
<1>2. Head(wire).id \in Nat
  <2>1. Head(wire) \in NumberedSet
      OBVIOUS
  <2> QED BY <2>1 DEF NumberedSet
<1>3. Len(c.fragment) \in Nat
    BY <1>1 DEF Bytes
<1>4. more \in Bytes
  <2>1. \A k \in 1 .. n : <<Head(wire).id, Len(c.fragment) + k>> \in Nat \X Nat
      BY <1>2, <1>3
  <2>2. more \in [1 .. n -> Nat \X Nat]
      BY <2>1
  <2> HIDE DEF more
  <2> QED BY <2>2, SeqDef DEF Bytes
<1> HIDE DEF more
<1>5. f \in Bytes
    BY <1>1, <1>4 DEF Bytes
<1>6. r \in Nat
    BY <1>1
<1> HIDE DEF f, r
<1>8. y \in Object
    BY <1>1, <1>5, <1>6 DEF Object
<1>9. /\ ~y.isReading /\ y.deleted = c.deleted /\ y.state = c.state
      /\ y.sentClose = c.sentClose /\ y.recvClose = c.recvClose
      /\ y.sending = c.sending /\ y.write = c.write
      /\ y.closeCalled = c.closeCalled /\ y.closes = c.closes
    BY <1>1 DEF Object
<1> HIDE DEF y
<1>10. Good(y) /\ Keeps(c, y)
    BY <1>8, <1>9 DEF Good, Sound, Keeps
<1> QED BY <1>0, <1>9, <1>10

\* A step that makes the object y, be its write accepted or not.
LEMMA BecomesGood ==
    ASSUME NEW y, Good(y), tx \in Seq(FrameOut), Becomes(y)
    PROVE  /\ Good(c') /\ Keeps(y, c') /\ tx' \in Seq(FrameOut)
           /\ c'.isReading = y.isReading /\ c'.deleted = y.deleted
           /\ c'.state = y.state
<1>1. CASE c' = y /\ UNCHANGED tx
    BY <1>1 DEF Keeps
<1>2. CASE y.write = "started" /\ c' = [y EXCEPT !.write = "taken"] /\ tx' = tx \o y.sending
  <2>1. c' \in Object
      BY <1>2 DEF Good, Object
  <2>4. tx' \in Seq(FrameOut)
    <3>1. y.sending \in Seq(FrameOut)
        BY DEF Good, Object
    <3> QED BY <3>1, <1>2
  <2>2. /\ c'.isReading = y.isReading /\ c'.deleted = y.deleted /\ c'.state = y.state
        /\ c'.sentClose = y.sentClose /\ c'.recvClose = y.recvClose
        /\ c'.sending = y.sending /\ c'.write = "taken"
        /\ c'.closeCalled = y.closeCalled /\ c'.closes = y.closes
      BY <1>2 DEF Good, Object
  <2>3. Good(c') /\ Keeps(y, c')
      BY <1>2, <2>1, <2>2 DEF Good, Sound, Keeps
  <2> QED BY <2>2, <2>3, <2>4
<1> QED BY <1>1, <1>2 DEF Becomes
-----------------------------------------------------------------------------
\* The inductive invariant: the types, a sound object, and answers posted only while it reads.
Inv ==
    /\ TypeOK
    /\ Sound(c)
    /\ posted # <<>> => c.isReading /\ ~c.deleted
    /\ c.state = "new" => ~c.isReading
    /\ said # <<>>

\* What every step does to the object; the rest of the invariant is about the queues.
ObjectStep ==
    /\ Good(c') /\ Keeps(c, c')
    /\ posted' # <<>> => c'.isReading /\ ~c'.deleted
    /\ c'.state = "new" => ~c'.isReading

QueueStep ==
    /\ peer' \in {"here", "fin", "reset"}
    /\ wire' \in Seq(NumberedSet)
    /\ posted' \in Seq(FrameOut) /\ tx' \in Seq(FrameOut) /\ owed' \in Seq(FrameOut)
    /\ sent' \in Seq(FrameSet) /\ said' \in Seq(Said)
    /\ handled' \in Seq(Bytes)
    /\ said' # <<>>

LEMMA InvInit == Init => Inv
<1> SUFFICES ASSUME Init PROVE Inv
    OBVIOUS
<1>1. <<>> \in Seq(FrameOut) /\ <<>> \in Bytes /\ <<>> \in Seq(NumberedSet)
      /\ <<>> \in Seq(FrameSet) /\ <<>> \in Seq(Bytes)
    BY DEF Bytes
<1>4. said \in Seq(Said)
  <2>1. NothingSaid \in Said
      BY <1>1 DEF NothingSaid, Said
  <2> QED BY <2>1 DEF Init
<1>2. c \in Object
    BY <1>1 DEF Init, Object
<1>3. Sound(c) /\ ~c.isReading /\ (c.write = "idle" <=> c.sending = <<>>)
    BY DEF Init, Sound
<1> QED BY <1>1, <1>2, <1>3, <1>4 DEF Init, Inv, TypeOK

LEMMA InvFromSteps ==
    ASSUME ObjectStep, QueueStep
    PROVE  Inv'
    BY DEF ObjectStep, QueueStep, Inv, TypeOK, Good, Sound

\* A step that leaves the object alone.
LEMMA SameObject ==
    ASSUME Inv, c' = c, posted' = posted
    PROVE  ObjectStep
    BY DEF ObjectStep, Inv, TypeOK, Good, Keeps

\* A step that makes the object y.
LEMMA StepTo ==
    ASSUME Inv, NEW y, Good(y), Keeps(c, y), Becomes(y),
           posted' # <<>> => y.isReading /\ ~y.deleted,
           y.state = "new" => ~y.isReading
    PROVE  ObjectStep /\ tx' \in Seq(FrameOut)
<1>1. tx \in Seq(FrameOut)
    BY DEF Inv, TypeOK
<1>2. /\ Good(c') /\ Keeps(y, c') /\ tx' \in Seq(FrameOut)
      /\ c'.isReading = y.isReading /\ c'.deleted = y.deleted /\ c'.state = y.state
    BY <1>1, BecomesGood
<1> QED BY <1>2 DEF ObjectStep, Keeps

\* What a completion of a read finds.
LEMMA Reading ==
    ASSUME Inv, NEW s, MayRead(s)
    PROVE  /\ Good(c) /\ ~c.deleted /\ c.isReading /\ ~(c.sentClose /\ c.recvClose)
           /\ posted = <<>> /\ wire \in Seq(NumberedSet) /\ wire # <<>>
           /\ c.remaining \in Nat /\ Head(wire) \in NumberedSet
           /\ Tail(wire) \in Seq(NumberedSet)
    BY DEF Inv, TypeOK, Good, Sound, MayRead, Object

LEMMA GoToStep ==
    ASSUME Inv, NEW s \in {"len", "mask", "payload"}, NEW n \in Nat, GoTo(s, n),
           ~c.deleted, ~(c.sentClose /\ c.recvClose)
    PROVE  ObjectStep /\ tx' \in Seq(FrameOut)
<1> DEFINE x == [c EXCEPT !.isReading = FALSE, !.state = s, !.remaining = n]
           y == DoRead(x)
<1>1. Good(c)
    BY DEF Inv, TypeOK, Good
<1>2. x \in Object
    BY <1>1 DEF Good, Object
<1>3. /\ ~x.isReading /\ x.deleted = c.deleted /\ x.state = s
      /\ x.sentClose = c.sentClose /\ x.recvClose = c.recvClose
      /\ x.sending = c.sending /\ x.write = c.write
      /\ x.closeCalled = c.closeCalled /\ x.closes = c.closes
    BY <1>1 DEF Good, Object
<1>4. Becomes(y)
    BY DEF GoTo
<1> HIDE DEF x
<1>5. Good(x) /\ Keeps(c, x)
    BY <1>1, <1>2, <1>3 DEF Good, Sound, Keeps
<1>6. /\ Good(y) /\ Keeps(x, y) /\ y.state = s /\ y.isReading /\ ~y.deleted
    BY <1>3, <1>5, DoReadGood
<1> HIDE DEF y
<1>7. Keeps(c, y) /\ s # "new"
    BY <1>5, <1>6 DEF Keeps
<1> QED BY <1>4, <1>6, <1>7, StepTo

\* The object with the bytes of the whole message, or none.
LEMMA MessageGood ==
    ASSUME NEW x, Good(x), NEW m \in Bytes
    PROVE  /\ Good([x EXCEPT !.message = m]) /\ Keeps(x, [x EXCEPT !.message = m])
           /\ [x EXCEPT !.message = m].isReading = x.isReading
           /\ [x EXCEPT !.message = m].deleted = x.deleted
           /\ [x EXCEPT !.message = m].state = x.state
           /\ [x EXCEPT !.message = m].sentClose = x.sentClose
           /\ [x EXCEPT !.message = m].recvClose = x.recvClose
<1> DEFINE y == [x EXCEPT !.message = m]
<1>1. y \in Object
    BY DEF Good, Object
<1>2. /\ y.isReading = x.isReading /\ y.deleted = x.deleted /\ y.state = x.state
      /\ y.sentClose = x.sentClose /\ y.recvClose = x.recvClose
      /\ y.sending = x.sending /\ y.write = x.write
      /\ y.closeCalled = x.closeCalled /\ y.closes = x.closes
    BY DEF Good, Object
<1> HIDE DEF y
<1>3. Good(y) /\ Keeps(x, y)
    BY <1>1, <1>2 DEF Good, Sound, Keeps
<1> QED BY <1>2, <1>3 DEF y

\* A step to the next frame from an object x that has not ended its handshake.
LEMMA NextFrameStep ==
    ASSUME Inv, NEW x, Good(x), ~x.deleted, Keeps(c, x), Becomes(NextFrame(x)),
           (x.sentClose /\ x.recvClose) => posted' = <<>>
    PROVE  ObjectStep /\ tx' \in Seq(FrameOut)
<1>1. /\ Good(NextFrame(x)) /\ Keeps(x, NextFrame(x)) /\ NextFrame(x).state = "mini"
      /\ ~(x.sentClose /\ x.recvClose) => NextFrame(x).isReading /\ ~NextFrame(x).deleted
    BY NextFrameGood
<1>2. Keeps(c, NextFrame(x))
    BY <1>1 DEF Keeps
<1> QED BY <1>1, <1>2, StepTo

\* The object when the last byte of a frame is there.
LEMMA LastReadGood ==
    ASSUME Inv, NEW op, LastRead(op)
    PROVE  /\ Good(WithPayload(c.remaining)) /\ Keeps(c, WithPayload(c.remaining))
           /\ ~WithPayload(c.remaining).isReading /\ ~WithPayload(c.remaining).deleted
           /\ ~(WithPayload(c.remaining).sentClose /\ WithPayload(c.remaining).recvClose)
           /\ WithPayload(c.remaining).state = "payload"
           /\ posted = <<>> /\ wire' \in Seq(NumberedSet) /\ Head(wire).id \in Nat
<1>1. MayRead("payload") /\ wire' = Tail(wire) /\ c.state = "payload"
    BY DEF LastRead, MayRead
<1>2. /\ Good(c) /\ ~c.deleted /\ ~(c.sentClose /\ c.recvClose)
      /\ posted = <<>> /\ wire \in Seq(NumberedSet) /\ wire # <<>>
      /\ c.remaining \in Nat /\ Head(wire) \in NumberedSet
      /\ Tail(wire) \in Seq(NumberedSet)
    BY <1>1, Reading
<1>3. Head(wire).id \in Nat
    BY <1>2 DEF NumberedSet
<1>4. c.remaining <= c.remaining
    BY <1>2
<1> QED BY <1>1, <1>2, <1>3, <1>4, WithPayloadGood
-----------------------------------------------------------------------------
(* One lemma for each action. *)

LEMMA StartStep == ASSUME Inv, Start PROVE ObjectStep /\ QueueStep
<1> DEFINE q == <<Hello>>
           x == [c EXCEPT !.state = "mini", !.queue = q]
           y == DoWrite(x)
           z == [y EXCEPT !.deleted = TRUE, !.open = FALSE]
<1>1. Good(c) /\ ~c.deleted /\ ~c.isReading /\ posted = <<>>
    BY DEF Inv, TypeOK, Good, Start
<1>2. q \in Seq(FrameOut) /\ q # <<>>
    BY DEF Hello, FrameOut
<1>3. \/ Becomes(DoRead(y)) /\ UNCHANGED peer
      \/ DebugLog /\ Becomes(z) /\ peer' = "reset"
    BY DEF Start
<1> HIDE DEF q
<1>4. x \in Object
    BY <1>1, <1>2 DEF Good, Object
<1>5. /\ x.isReading = c.isReading /\ x.deleted = c.deleted /\ x.state = "mini"
      /\ x.sentClose = c.sentClose /\ x.recvClose = c.recvClose
      /\ x.sending = c.sending /\ x.write = c.write /\ x.queue = q
      /\ x.closeCalled = c.closeCalled /\ x.closes = c.closes
    BY <1>1 DEF Good, Object
<1> HIDE DEF x
<1>6. Good(x) /\ Keeps(c, x)
    BY <1>1, <1>4, <1>5 DEF Good, Sound, Keeps
<1>7. /\ Good(y) /\ Keeps(c, y) /\ ~y.deleted /\ y.state = "mini" /\ ~y.isReading
    BY <1>1, <1>2, <1>5, <1>6, DoWriteGood DEF Keeps
<1> HIDE DEF y
<1>8. posted' = <<>>
    BY <1>1 DEF Start
<1>9. ObjectStep /\ tx' \in Seq(FrameOut)
  <2>1. CASE Becomes(DoRead(y))
    <3>1. Good(DoRead(y)) /\ Keeps(c, DoRead(y)) /\ DoRead(y).state = "mini"
        BY <1>7, DoReadGood DEF Keeps
    <3> QED BY <2>1, <3>1, <1>8, StepTo
  <2>2. CASE DebugLog /\ Becomes(z)
    <3>1. z \in Object
        BY <1>7 DEF Good, Object
    <3>2. /\ ~z.isReading /\ z.deleted /\ z.state = "mini"
          /\ z.closeCalled = y.closeCalled /\ z.closes = y.closes
        BY <1>7 DEF Good, Object
    <3> HIDE DEF z
    <3>3. Good(z) /\ Keeps(c, z)
        BY <1>7, <2>2, <3>1, <3>2 DEF Good, Sound, Keeps
    <3> QED BY <2>2, <3>2, <3>3, <1>8, StepTo
  <2> QED BY <1>3, <2>1, <2>2
<1>10. owed' \in Seq(FrameOut)
    BY <1>2 DEF Start, q
<1> QED BY <1>9, <1>10, <1>3 DEF QueueStep, Start, Inv, TypeOK

LEMMA ReadHeaderStep == ASSUME Inv, ReadHeader PROVE ObjectStep /\ QueueStep
<1>1. /\ ~c.deleted /\ ~(c.sentClose /\ c.recvClose) /\ Head(wire).size \in Nat
    BY Reading DEF ReadHeader, NumberedSet
<1>2. ObjectStep /\ tx' \in Seq(FrameOut)
    BY <1>1, GoToStep DEF ReadHeader
<1> QED BY <1>2 DEF QueueStep, ReadHeader, Inv, TypeOK

LEMMA ReadHalfHeaderStep == ASSUME Inv, ReadHalfHeader PROVE ObjectStep /\ QueueStep
<1>1. /\ ~c.deleted /\ ~(c.sentClose /\ c.recvClose)
      /\ Head(wire) \in NumberedSet /\ wire \in Seq(NumberedSet)
    BY Reading DEF ReadHalfHeader
<1>2. ObjectStep /\ tx' \in Seq(FrameOut)
    BY <1>1, GoToStep DEF ReadHalfHeader
<1>3. wire' \in Seq(NumberedSet)
  <2> DEFINE h == [Head(wire) EXCEPT !.size = 0]
  <2>1. PICK f \in Frames, n \in 0 .. Len(wire) :
            wire' = <<h>> \o [i \in 1 .. n |-> Numbered(f, 0)]
      BY DEF ReadHalfHeader
  <2> DEFINE j == Numbered(f, 0)
             rest == [i \in 1 .. n |-> j]
  <2>2. h \in NumberedSet
      BY <1>1 DEF NumberedSet
  <2>3. j \in NumberedSet
      BY WebSocketSessionAssumption DEF FrameSet, Numbered, NumberedSet
  <2>4. n \in Nat
      BY <1>1
  <2> HIDE DEF h, j
  <2>5. rest \in [1 .. n -> NumberedSet]
      BY <2>3
  <2> HIDE DEF rest
  <2>6. rest \in Seq(NumberedSet)
      BY <2>4, <2>5, SeqDef
  <2>7. <<h>> \in Seq(NumberedSet)
      BY <2>2
  <2>8. wire' = <<h>> \o rest
      BY <2>1 DEF rest, j
  <2> QED BY <2>6, <2>7, <2>8
<1> QED BY <1>2, <1>3 DEF QueueStep, ReadHalfHeader, Inv, TypeOK

LEMMA ReadLengthStep == ASSUME Inv, ReadLength PROVE ObjectStep /\ QueueStep
<1>1. ~c.deleted /\ ~(c.sentClose /\ c.recvClose) /\ c.remaining \in Nat
    BY Reading DEF ReadLength
<1>2. ObjectStep /\ tx' \in Seq(FrameOut)
    BY <1>1, GoToStep DEF ReadLength
<1> QED BY <1>2 DEF QueueStep, ReadLength, Inv, TypeOK

LEMMA ReadMaskStep == ASSUME Inv, ReadMask PROVE ObjectStep /\ QueueStep
<1>1. ~c.deleted /\ ~(c.sentClose /\ c.recvClose) /\ c.remaining \in Nat
    BY Reading DEF ReadMask
<1>2. ObjectStep /\ tx' \in Seq(FrameOut)
    BY <1>1, GoToStep DEF ReadMask
<1> QED BY <1>2 DEF QueueStep, ReadMask, Inv, TypeOK

LEMMA ReadSomeStep == ASSUME Inv, ReadSome PROVE ObjectStep /\ QueueStep
<1>1. PICK n \in 1 .. c.remaining : n < c.remaining /\ Becomes(DoRead(WithPayload(n)))
    BY DEF ReadSome
<1>2. /\ Good(c) /\ ~c.deleted /\ ~(c.sentClose /\ c.recvClose)
      /\ posted = <<>> /\ wire \in Seq(NumberedSet) /\ wire # <<>> /\ c.remaining \in Nat
    BY Reading DEF ReadSome
<1> DEFINE x == WithPayload(n)
<1>3. /\ Good(x) /\ Keeps(c, x) /\ ~x.deleted /\ ~(x.sentClose /\ x.recvClose)
      /\ x.state = c.state
    BY <1>1, <1>2, WithPayloadGood
<1>4. Becomes(DoRead(x)) /\ c.state = "payload"
    BY <1>1 DEF ReadSome, MayRead
<1> HIDE DEF x
<1>5. /\ Good(DoRead(x)) /\ Keeps(c, DoRead(x)) /\ DoRead(x).state = "payload"
      /\ DoRead(x).isReading /\ ~DoRead(x).deleted
    BY <1>3, <1>4, DoReadGood DEF Keeps
<1>6. ObjectStep /\ tx' \in Seq(FrameOut)
    BY <1>4, <1>5, StepTo
<1> QED BY <1>6 DEF QueueStep, ReadSome, Inv, TypeOK

LEMMA ReadPartStep == ASSUME Inv, ReadPart PROVE ObjectStep /\ QueueStep
<1> DEFINE x == WithPayload(c.remaining)
           m == x.message \o x.fragment
           y == [x EXCEPT !.message = m]
<1>1. /\ Good(x) /\ Keeps(c, x) /\ ~x.deleted /\ ~(x.sentClose /\ x.recvClose)
      /\ wire' \in Seq(NumberedSet)
    BY LastReadGood DEF ReadPart
<1>2. Becomes(NextFrame(y))
    BY DEF ReadPart
<1> HIDE DEF x
<1>3. m \in Bytes
  <2>1. x.message \in Bytes /\ x.fragment \in Bytes
      BY <1>1 DEF Good, Object
  <2> QED BY <2>1 DEF Bytes
<1> HIDE DEF m
<1>4. /\ Good(y) /\ Keeps(x, y) /\ ~y.deleted /\ ~(y.sentClose /\ y.recvClose)
    BY <1>1, <1>3, MessageGood
<1> HIDE DEF y
<1>5. ObjectStep /\ tx' \in Seq(FrameOut)
    BY <1>1, <1>2, <1>4, NextFrameStep DEF Keeps
<1> QED BY <1>1, <1>5 DEF QueueStep, ReadPart, Inv, TypeOK

LEMMA ReadMessageStep == ASSUME Inv, ReadMessage PROVE ObjectStep /\ QueueStep
<1> DEFINE x == WithPayload(c.remaining)
           m == Whole(x)
           none == <<>>
           y == [x EXCEPT !.message = none]
           z == [x EXCEPT !.message = m]
           answer == <<"reply", Len(handled) + 1>>
<1>1. /\ Good(x) /\ Keeps(c, x) /\ ~x.deleted /\ ~x.isReading /\ x.state = "payload"
      /\ ~(x.sentClose /\ x.recvClose) /\ posted = <<>> /\ wire' \in Seq(NumberedSet)
    BY LastReadGood DEF ReadMessage
<1>2. /\ handled' = Append(handled, m)
      /\ \/ /\ posted' = Append(posted, answer) /\ owed' = Append(owed, answer)
            /\ Becomes(NextFrame(y))
         \/ Becomes(NextFrame(y)) /\ UNCHANGED <<posted, owed>>
         \/ /\ Becomes(NextFrame(Close(y))) /\ owed' = Append(owed, CloseFrame)
            /\ UNCHANGED posted
         \/ Becomes(z) /\ UNCHANGED <<posted, owed>>
      /\ UNCHANGED <<peer, sent, said>>
    BY DEF ReadMessage
<1> HIDE DEF x
<1>3. m \in Bytes /\ none \in Bytes
  <2>1. x.message \in Bytes /\ x.fragment \in Bytes
      BY <1>1 DEF Good, Object
  <2> QED BY <2>1 DEF Bytes, Whole
<1> HIDE DEF m, none
<1>4. /\ Good(y) /\ Keeps(c, y) /\ ~y.deleted /\ ~y.isReading
      /\ ~(y.sentClose /\ y.recvClose)
    BY <1>1, <1>3, MessageGood DEF Keeps
<1>5. Good(z) /\ Keeps(c, z) /\ z.state = "payload"
    BY <1>1, <1>3, MessageGood DEF Keeps
<1> HIDE DEF y, z
<1>6. answer \in FrameOut /\ CloseFrame \in FrameOut
  <2>1. Len(handled) + 1 \in Nat
      BY DEF Inv, TypeOK
  <2> QED BY <2>1 DEF FrameOut, CloseFrame
<1> HIDE DEF answer
<1>7. ObjectStep /\ tx' \in Seq(FrameOut)
  <2>1. CASE Becomes(NextFrame(y))
      BY <2>1, <1>4, NextFrameStep
  <2>2. CASE Becomes(NextFrame(Close(y))) /\ UNCHANGED posted
    <3>1. Good(Close(y)) /\ Keeps(c, Close(y)) /\ ~Close(y).deleted
        BY <1>4, CloseGood DEF Keeps
    <3> QED BY <2>2, <3>1, <1>1, NextFrameStep
  <2>3. CASE Becomes(z) /\ UNCHANGED posted
      BY <2>3, <1>1, <1>5, StepTo
  <2> QED BY <1>2, <2>1, <2>2, <2>3
<1>8. posted' \in Seq(FrameOut) /\ owed' \in Seq(FrameOut) /\ handled' \in Seq(Bytes)
  <2>1. posted \in Seq(FrameOut) /\ owed \in Seq(FrameOut) /\ handled \in Seq(Bytes)
      BY DEF Inv, TypeOK
  <2>2. posted' = posted \/ posted' = Append(posted, answer)
      BY <1>2
  <2>3. owed' = owed \/ owed' = Append(owed, answer) \/ owed' = Append(owed, CloseFrame)
      BY <1>2
  <2>4. handled' = Append(handled, m)
      BY <1>2
  <2>5. /\ Append(posted, answer) \in Seq(FrameOut)
        /\ Append(owed, answer) \in Seq(FrameOut) /\ Append(owed, CloseFrame) \in Seq(FrameOut)
      BY <2>1, <1>6, AppendProperties
  <2>6. posted' \in Seq(FrameOut) /\ owed' \in Seq(FrameOut)
      BY <2>1, <2>2, <2>3, <2>5
  <2> QED BY <2>1, <2>4, <2>6, <1>3, AppendProperties
<1> QED BY <1>1, <1>2, <1>7, <1>8 DEF QueueStep, Inv, TypeOK

LEMMA ReadPingStep == ASSUME Inv, ReadPing PROVE ObjectStep /\ QueueStep
<1> DEFINE x == WithPayload(c.remaining)
           pong == <<"pong", Head(wire).id>>
<1>1. /\ Good(x) /\ Keeps(c, x) /\ ~x.deleted /\ ~(x.sentClose /\ x.recvClose)
      /\ wire' \in Seq(NumberedSet) /\ Head(wire).id \in Nat
    BY LastReadGood DEF ReadPing
<1>2. /\ posted' = Append(posted, pong) /\ owed' = Append(owed, pong)
      /\ Becomes(NextFrame(x)) /\ UNCHANGED <<peer, sent, said, handled>>
    BY DEF ReadPing
<1> HIDE DEF x
<1>3. pong \in FrameOut
    BY <1>1 DEF FrameOut
<1> HIDE DEF pong
<1>4. ObjectStep /\ tx' \in Seq(FrameOut)
    BY <1>1, <1>2, NextFrameStep
<1>5. posted' \in Seq(FrameOut) /\ owed' \in Seq(FrameOut)
  <2>1. posted \in Seq(FrameOut) /\ owed \in Seq(FrameOut)
      BY DEF Inv, TypeOK
  <2>2. posted' = Append(posted, pong) /\ owed' = Append(owed, pong)
      BY <1>2
  <2> QED BY <2>1, <2>2, <1>3
<1> QED BY <1>1, <1>2, <1>4, <1>5 DEF QueueStep, Inv, TypeOK

LEMMA ReadPongStep == ASSUME Inv, ReadPong PROVE ObjectStep /\ QueueStep
<1> DEFINE x == WithPayload(c.remaining)
<1>1. /\ Good(x) /\ Keeps(c, x) /\ ~x.deleted /\ ~(x.sentClose /\ x.recvClose)
      /\ wire' \in Seq(NumberedSet)
    BY LastReadGood DEF ReadPong
<1>2. Becomes(NextFrame(x)) /\ UNCHANGED <<peer, posted, sent, said, handled, owed>>
    BY DEF ReadPong
<1> HIDE DEF x
<1>3. ObjectStep /\ tx' \in Seq(FrameOut)
    BY <1>1, <1>2, NextFrameStep
<1> QED BY <1>1, <1>2, <1>3 DEF QueueStep, Inv, TypeOK

LEMMA ReadCloseStep == ASSUME Inv, ReadClose PROVE ObjectStep /\ QueueStep
<1> DEFINE w == WithPayload(c.remaining)
           x == [w EXCEPT !.recvClose = TRUE]
<1>1. /\ Good(w) /\ Keeps(c, w) /\ ~w.deleted /\ ~w.isReading /\ w.state = "payload"
      /\ posted = <<>> /\ wire' \in Seq(NumberedSet)
    BY LastReadGood DEF ReadClose
<1>2. /\ \/ Becomes(ReceiveLastClose(x)) /\ UNCHANGED owed
         \/ Becomes(NextFrame(Close(x))) /\ owed' = Append(owed, CloseFrame)
      /\ UNCHANGED <<peer, posted, sent, said, handled>>
    BY DEF ReadClose
<1> HIDE DEF w
<1>3. x \in Object
    BY <1>1 DEF Good, Object
<1>4. /\ x.isReading = w.isReading /\ x.deleted = w.deleted /\ x.state = w.state
      /\ x.sending = w.sending /\ x.write = w.write
      /\ x.closeCalled = w.closeCalled /\ x.closes = w.closes
    BY <1>1 DEF Good, Object
<1> HIDE DEF x
<1>5. Good(x) /\ Keeps(c, x)
    BY <1>1, <1>3, <1>4 DEF Good, Sound, Keeps
<1>6. ObjectStep /\ tx' \in Seq(FrameOut)
  <2>1. CASE Becomes(ReceiveLastClose(x))
    <3>1. /\ Good(ReceiveLastClose(x)) /\ Keeps(c, ReceiveLastClose(x))
          /\ ReceiveLastClose(x).state = "payload"
        BY <1>1, <1>4, <1>5, ReceiveLastCloseGood DEF Keeps
    <3> QED BY <2>1, <3>1, <1>1, <1>2, StepTo
  <2>2. CASE Becomes(NextFrame(Close(x)))
    <3>1. Good(Close(x)) /\ Keeps(c, Close(x)) /\ ~Close(x).deleted
        BY <1>1, <1>4, <1>5, CloseGood DEF Keeps
    <3> QED BY <2>2, <3>1, <1>1, <1>2, NextFrameStep
  <2> QED BY <1>2, <2>1, <2>2
<1>7. owed' \in Seq(FrameOut)
  <2>1. owed \in Seq(FrameOut) /\ CloseFrame \in FrameOut
      BY DEF Inv, TypeOK, CloseFrame, FrameOut
  <2> QED BY <2>1, <1>2
<1> QED BY <1>1, <1>2, <1>6, <1>7 DEF QueueStep, Inv, TypeOK

LEMMA ReadFailsStep == ASSUME Inv, ReadFails PROVE ObjectStep /\ QueueStep
<1>1. Good(c) /\ ~c.deleted /\ posted = <<>> /\ c.state # "new"
    BY DEF ReadFails, Inv, TypeOK, Good
<1>2. Good(ReadFailed(c)) /\ Keeps(c, ReadFailed(c)) /\ ReadFailed(c).state = c.state
    BY <1>1, ReadFailedGood
<1>3. ObjectStep /\ tx' \in Seq(FrameOut)
    BY <1>1, <1>2, StepTo DEF ReadFails
<1> QED BY <1>3 DEF QueueStep, ReadFails, Inv, TypeOK

LEMMA RunPostedStep == ASSUME Inv, RunPosted PROVE ObjectStep /\ QueueStep
<1> DEFINE q == Append(c.queue, Head(posted))
           x == [c EXCEPT !.queue = q]
<1>1. /\ Good(c) /\ ~c.deleted /\ c.isReading /\ c.state # "new"
      /\ posted \in Seq(FrameOut) /\ posted # <<>>
    BY DEF RunPosted, Inv, TypeOK, Good
<1>2. q \in Seq(FrameOut) /\ q # <<>>
  <2>1. c.queue \in Seq(FrameOut) /\ Head(posted) \in FrameOut
      BY <1>1 DEF Good, Object
  <2> QED BY <2>1
<1>3. Becomes(DoWrite(x))
    BY DEF RunPosted
<1> HIDE DEF q
<1>4. x \in Object
    BY <1>1, <1>2 DEF Good, Object
<1>5. /\ x.isReading = c.isReading /\ x.deleted = c.deleted /\ x.state = c.state
      /\ x.sentClose = c.sentClose /\ x.recvClose = c.recvClose
      /\ x.sending = c.sending /\ x.write = c.write /\ x.queue = q
      /\ x.closeCalled = c.closeCalled /\ x.closes = c.closes
    BY <1>1 DEF Good, Object
<1> HIDE DEF x
<1>6. Good(x) /\ Keeps(c, x)
    BY <1>1, <1>4, <1>5 DEF Good, Sound, Keeps
<1>7. /\ Good(DoWrite(x)) /\ Keeps(c, DoWrite(x)) /\ ~DoWrite(x).deleted
      /\ DoWrite(x).isReading /\ DoWrite(x).state # "new"
    BY <1>1, <1>2, <1>5, <1>6, DoWriteGood DEF Keeps
<1>8. ObjectStep /\ tx' \in Seq(FrameOut)
    BY <1>3, <1>7, StepTo
<1> QED BY <1>1, <1>8 DEF QueueStep, RunPosted, Inv, TypeOK

LEMMA WriteSucceedsStep == ASSUME Inv, WriteSucceeds PROVE ObjectStep /\ QueueStep
<1> DEFINE y == IF c.closeConn THEN WriteEnded(c) ELSE Written(c)
<1>1. Good(c) /\ ~c.deleted /\ Becomes(y)
    BY DEF WriteSucceeds, Inv, TypeOK, Good
<1>2. /\ Good(y) /\ Keeps(c, y) /\ y.isReading = c.isReading /\ y.state = c.state
      /\ c.isReading => ~y.deleted
    BY <1>1, WriteEndedGood, WrittenGood
<1> HIDE DEF y
<1>3. /\ posted' # <<>> => y.isReading /\ ~y.deleted
      /\ y.state = "new" => ~y.isReading
    BY <1>2 DEF WriteSucceeds, Inv
<1>4. ObjectStep /\ tx' \in Seq(FrameOut)
    BY <1>1, <1>2, <1>3, StepTo
<1> QED BY <1>4 DEF QueueStep, WriteSucceeds, Inv, TypeOK

LEMMA WriteFailsStep == ASSUME Inv, WriteFails PROVE ObjectStep /\ QueueStep
<1> DEFINE i == [c EXCEPT !.write = "idle"]
           y == IF c.deleted THEN i ELSE WriteEnded(c)
<1>1. Good(c) /\ Becomes(y)
    BY DEF WriteFails, Inv, TypeOK, Good
<1>2. /\ Good(y) /\ Keeps(c, y) /\ y.isReading = c.isReading /\ y.state = c.state
      /\ c.isReading /\ ~c.deleted => ~y.deleted
  <2>1. CASE c.deleted
    <3>1. i \in Object
        BY <1>1 DEF Good, Object
    <3>2. /\ i.isReading = c.isReading /\ i.deleted = c.deleted /\ i.state = c.state
          /\ i.sentClose = c.sentClose /\ i.recvClose = c.recvClose
          /\ i.write = "idle" /\ i.closeCalled = c.closeCalled /\ i.closes = c.closes
        BY <1>1 DEF Good, Object
    <3> HIDE DEF i
    <3>3. Good(i) /\ Keeps(c, i)
        BY <1>1, <2>1, <3>1, <3>2 DEF Good, Sound, Keeps
    <3> QED BY <2>1, <3>2, <3>3
  <2>2. CASE ~c.deleted
      BY <2>2, <1>1, WriteEndedGood
  <2> QED BY <2>1, <2>2
<1> HIDE DEF y
<1>3. /\ posted' # <<>> => y.isReading /\ ~y.deleted
      /\ y.state = "new" => ~y.isReading
    BY <1>2 DEF WriteFails, Inv
<1>4. ObjectStep /\ tx' \in Seq(FrameOut)
    BY <1>1, <1>2, <1>3, StepTo
<1> QED BY <1>4 DEF QueueStep, WriteFails, Inv, TypeOK

LEMMA KernelTakesStep == ASSUME Inv, KernelTakes PROVE ObjectStep /\ QueueStep
<1>1. Good(c) /\ Keeps(c, c) /\ tx \in Seq(FrameOut)
    BY DEF Inv, TypeOK, Good, Keeps
<1>2. Becomes(c)
    BY DEF KernelTakes, Becomes
<1>3. ObjectStep /\ tx' \in Seq(FrameOut)
    BY <1>1, <1>2, StepTo DEF KernelTakes, Inv
<1> QED BY <1>3 DEF QueueStep, KernelTakes, Inv, TypeOK

LEMMA TakeType ==
    ASSUME NEW s \in Said, NEW f \in FrameSet, NEW i \in Nat
    PROVE  Take(s, f, i) \in Said
<1> DEFINE n == f.size
           p == Pieces(i, n)
           m == s.open \o p
<1>1. s.done \in Seq(Bytes) /\ s.open \in Bytes /\ n \in Nat /\ <<>> \in Bytes
    BY DEF Said, FrameSet, Bytes
<1> HIDE DEF n
<1>2. p \in Bytes
  <2>1. \A k \in 1 .. n : <<i, k>> \in Nat \X Nat
      BY <1>1
  <2> DEFINE e(k) == <<i, k>>
  <2>2. p = [k \in 1 .. n |-> e(k)]
      BY DEF Pieces
  <2> HIDE DEF e, p
  <2>3. \A k \in 1 .. n : e(k) \in Nat \X Nat
      BY <2>1 DEF e
  <2>4. p \in [1 .. n -> Nat \X Nat]
      BY <2>2, <2>3
  <2> QED BY <1>1, <2>4, SeqDef DEF Bytes
<1> HIDE DEF p
<1>3. m \in Bytes
    BY <1>1, <1>2 DEF Bytes
<1> HIDE DEF m
<1>4. Append(s.done, m) \in Seq(Bytes)
    BY <1>1, <1>3
<1> QED BY <1>1, <1>3, <1>4 DEF Take, Said, m, p, n

LEMMA PeerSendsStep == ASSUME Inv, PeerSends PROVE ObjectStep /\ QueueStep
<1>1. ObjectStep
    BY SameObject DEF PeerSends
<1> DEFINE n == Len(sent) + 1
           last == said[Len(said)]
<1>2. PICK f \in Frames : /\ sent' = Append(sent, f)
                          /\ said' = Append(said, Take(last, f, n))
                          /\ wire' = Append(wire, Numbered(f, n))
    BY DEF PeerSends
<1>3. /\ sent \in Seq(FrameSet) /\ wire \in Seq(NumberedSet) /\ n \in Nat
      /\ said \in Seq(Said) /\ last \in Said
  <2>1. said \in Seq(Said) /\ said # <<>>
      BY DEF Inv, TypeOK
  <2>2. Len(said) \in 1 .. Len(said)
      BY <2>1, EmptySeq
  <2> QED BY <2>1, <2>2, ElementOfSeq DEF Inv, TypeOK
<1> HIDE DEF n, last
<1>4. f \in FrameSet /\ Numbered(f, n) \in NumberedSet
    BY <1>3, WebSocketSessionAssumption DEF FrameSet, Numbered, NumberedSet
<1>5. Take(last, f, n) \in Said
    BY <1>3, <1>4, TakeType
<1>6. sent' \in Seq(FrameSet) /\ wire' \in Seq(NumberedSet) /\ said' \in Seq(Said)
      /\ said' # <<>>
    BY <1>2, <1>3, <1>4, <1>5, AppendProperties
<1> QED BY <1>1, <1>6 DEF QueueStep, PeerSends, Inv, TypeOK

LEMMA PeerLeavesStep == ASSUME Inv, PeerLeaves PROVE ObjectStep /\ QueueStep
    BY SameObject DEF QueueStep, PeerLeaves, Inv, TypeOK
-----------------------------------------------------------------------------
LEMMA Steps == ASSUME Inv, Next PROVE ObjectStep /\ QueueStep
<1>1. CASE Start
    BY <1>1, StartStep
<1>2. CASE ReadHeader \/ ReadHalfHeader \/ ReadLength \/ ReadMask
    BY <1>2, ReadHeaderStep, ReadHalfHeaderStep, ReadLengthStep, ReadMaskStep
<1>3. CASE ReadSome \/ ReadPart \/ ReadMessage
    BY <1>3, ReadSomeStep, ReadPartStep, ReadMessageStep
<1>4. CASE ReadPing \/ ReadPong \/ ReadClose \/ ReadFails
    BY <1>4, ReadPingStep, ReadPongStep, ReadCloseStep, ReadFailsStep
<1>5. CASE RunPosted
    BY <1>5, RunPostedStep
<1>6. CASE WriteSucceeds \/ WriteFails
    BY <1>6, WriteSucceedsStep, WriteFailsStep
<1>7. CASE KernelTakes \/ PeerSends \/ PeerLeaves
    BY <1>7, KernelTakesStep, PeerSendsStep, PeerLeavesStep
<1> QED BY <1>1, <1>2, <1>3, <1>4, <1>5, <1>6, <1>7 DEF Next, Reads, Writes

LEMMA Stutter == ASSUME Inv, UNCHANGED vars PROVE ObjectStep /\ QueueStep
<1>1. ObjectStep
    BY SameObject DEF vars
<1> QED BY <1>1 DEF QueueStep, vars, Inv, TypeOK

LEMMA InvHolds == Spec => []Inv
<1>1. Inv /\ [Next]_vars => Inv'
    BY Steps, Stutter, InvFromSteps
<1> QED BY <1>1, InvInit, PTL DEF Spec

\* Every value of the model's variables has its type, and a write is in flight exactly while
\* sending_buffers_ holds something, on any object that is still there.
THEOREM TypeCorrect == Spec => []TypeOK
<1>1. Inv => TypeOK
    BY DEF Inv
<1> QED BY <1>1, InvHolds, PTL

\* Unless onopen throws in the constructor (debug logging), no completion finds the object
\* deleted: do_read's, do_write's, or an answer's that was posted.
THEOREM CompletionsSafe == ~DebugLog => (Spec => []NoLateCompletion)
<1>1. ASSUME ~DebugLog, Inv PROVE NoLateCompletion
    BY <1>1 DEF Inv, Sound, NoLateCompletion
<1>2. SUFFICES ASSUME ~DebugLog PROVE Spec => []NoLateCompletion
    OBVIOUS
<1>3. Inv => NoLateCompletion
    BY <1>1, <1>2
<1> QED BY <1>3, InvHolds, PTL

\* Unless onopen throws in the constructor, onclose has been called when the object is deleted.
THEOREM OncloseSafe == ~DebugLog => (Spec => []OncloseTold)
<1>1. ASSUME ~DebugLog, Inv PROVE OncloseTold
    BY <1>1 DEF Inv, Sound, OncloseTold
<1>2. SUFFICES ASSUME ~DebugLog PROVE Spec => []OncloseTold
    OBVIOUS
<1>3. Inv => OncloseTold
    BY <1>1, <1>2
<1> QED BY <1>3, InvHolds, PTL

-----------------------------------------------------------------------------
(* What is sent: the queues of the object, of the io_context and of the kernel, together. *)

LEMMA PrefixOfConcat ==
    ASSUME NEW S, NEW s \in Seq(S), NEW t \in Seq(S)
    PROVE  IsPrefix(s, s \o t)
<1> DEFINE u == s \o t
<1>1. /\ u \in Seq(S) /\ Len(u) = Len(s) + Len(t)
      /\ \A i \in 1 .. Len(s) + Len(t) : u[i] = IF i <= Len(s) THEN s[i] ELSE t[i - Len(s)]
    BY ConcatProperties
<1>2. Len(s) \in Nat /\ Len(t) \in Nat
    BY LenProperties
<1> HIDE DEF u
<1>3. /\ \A i \in 1 .. Len(s) : s[i] \in S /\ u[i] \in S
      /\ \A i \in 1 .. Len(s) : u[i] = s[i]
    BY <1>1, <1>2, ElementOfSeq
<1> DEFINE p == SubSeq(s, 1, Len(s))
           q == SubSeq(u, 1, Len(s))
<1>4. /\ p \in Seq(S) /\ q \in Seq(S) /\ Len(p) = Len(s) /\ Len(q) = Len(s)
      /\ \A i \in 1 .. Len(s) : p[i] = s[i] /\ q[i] = u[i]
  <2>1. /\ p \in Seq(S) /\ Len(p) = (IF 1 <= Len(s) THEN Len(s) - 1 + 1 ELSE 0)
        /\ \A i \in 1 .. Len(s) - 1 + 1 : p[i] = s[1 + i - 1]
      BY <1>2, <1>3, SubSeqProperties
  <2>2. /\ q \in Seq(S) /\ Len(q) = (IF 1 <= Len(s) THEN Len(s) - 1 + 1 ELSE 0)
        /\ \A i \in 1 .. Len(s) - 1 + 1 : q[i] = u[1 + i - 1]
      BY <1>2, <1>3, SubSeqProperties
  <2> HIDE DEF p, q
  <2> QED BY <2>1, <2>2, <1>2
<1> HIDE DEF p, q
<1>5. p = q
    BY <1>3, <1>4, SeqEqual
<1>6. Len(s) <= Len(u)
    BY <1>1, <1>2
<1> QED BY <1>5, <1>6 DEF IsPrefix, p, q, u

LEMMA PrefixHasRest ==
    ASSUME NEW S, NEW s \in Seq(S), NEW t \in Seq(S), IsPrefix(s, t)
    PROVE  \E r \in Seq(S) : t = s \o r
<1>1. Len(s) \in Nat /\ Len(t) \in Nat /\ Len(s) <= Len(t)
    BY LenProperties DEF IsPrefix
<1> DEFINE r == SubSeq(t, Len(s) + 1, Len(t))
<1>2. SubSeq(t, 1, Len(s)) = s
    BY SubSeqFull DEF IsPrefix
<1>3. SubSeq(t, 1, Len(s)) \o r = SubSeq(t, 1, Len(t))
  <2>1. 1 \in 1 .. Len(t) + 1 /\ Len(s) \in 1 - 1 .. Len(t) /\ Len(t) \in Len(s) .. Len(t)
      BY <1>1
  <2> QED BY <2>1, ConcatAdjacentSubSeq
<1>4. r \in Seq(S)
  <2>1. \A i \in Len(s) + 1 .. Len(t) : t[i] \in S
      BY <1>1, ElementOfSeq
  <2>2. Len(s) + 1 \in Int /\ Len(t) \in Int
      BY <1>1
  <2> QED BY <2>1, <2>2, SubSeqProperties
<1> HIDE DEF r
<1>5. t = s \o r
    BY <1>2, <1>3, SubSeqFull
<1> QED BY <1>4, <1>5

LEMMA PrefixExtends ==
    ASSUME NEW S, NEW s \in Seq(S), NEW t \in Seq(S), NEW u \in Seq(S), IsPrefix(s, t)
    PROVE  IsPrefix(s, t \o u)
<1>1. PICK r \in Seq(S) : t = s \o r
    BY PrefixHasRest
<1>2. t \o u = s \o (r \o u)
    BY <1>1, ConcatAssociative
<1>3. r \o u \in Seq(S)
    BY ConcatProperties
<1> QED BY <1>2, <1>3, PrefixOfConcat

\* Concatenation of frames, under a name the provers leave alone.
Then(s, t) == s \o t

LEMMA ThenFrames ==
    \A s, t \in Seq(FrameOut) : Then(s, t) \in Seq(FrameOut)
    BY ConcatProperties DEF Then

LEMMA ThenEmpty ==
    \A s \in Seq(FrameOut) : Then(s, <<>>) = s /\ Then(<<>>, s) = s
    BY ConcatEmptySeq DEF Then

LEMMA ThenNone == <<>> \in Seq(FrameOut) /\ Then(<<>>, <<>>) = <<>>
<1>1. <<>> \in Seq(FrameOut)
    OBVIOUS
<1> QED BY <1>1, ConcatEmptySeq DEF Then

LEMMA ThenOne ==
    \A s \in Seq(FrameOut), f \in FrameOut : Append(s, f) = Then(s, <<f>>)
    BY AppendIsConcat DEF Then

LEMMA Regroup ==
    \A s, t, u \in Seq(FrameOut) : Then(s, Then(t, u)) = Then(Then(s, t), u)
<1> SUFFICES ASSUME NEW s \in Seq(FrameOut), NEW t \in Seq(FrameOut), NEW u \in Seq(FrameOut)
             PROVE  s \o (t \o u) = (s \o t) \o u
    BY DEF Then
<1> QED BY ConcatAssociative, SMTT(30)

\* What the object has yet to hand to the kernel.
Out(x) == Then(IF x.write = "started" THEN x.sending ELSE <<>>, x.queue)

\* The object y is x with as much to send, and no socket opened.
Carries(x, y) == Out(y) = Out(x) /\ (y.open => x.open)

\* An object that goes leaves no write that a kernel could still take.
Ended(y) == y.deleted => y.write # "started" \/ ~y.open

LEMMA OutType ==
    ASSUME NEW x \in Object
    PROVE  Out(x) \in Seq(FrameOut)
<1>1. x.sending \in Seq(FrameOut) /\ x.queue \in Seq(FrameOut) /\ <<>> \in Seq(FrameOut)
    BY DEF Object
<1> QED BY <1>1, ThenFrames DEF Out

\* A change to the other fields.
LEMMA CarriesSame ==
    ASSUME NEW x, NEW y, y.write = x.write, y.sending = x.sending, y.queue = x.queue,
           y.open => x.open
    PROVE  Carries(x, y)
    BY DEF Carries, Out

LEMMA DoWriteCarries ==
    ASSUME NEW x, Good(x), ~x.deleted
    PROVE  Carries(x, DoWrite(x))
<1> DEFINE y == DoWrite(x)
<1>1. /\ x \in Object /\ x.queue \in Seq(FrameOut)
      /\ x.write = "idle" <=> x.sending = <<>>
    BY DEF Good, Sound, Object
<1>2. CASE x.sending = <<>>
  <2>1. /\ y.write = "started" /\ y.sending = x.queue /\ y.queue = <<>>
        /\ y.open = x.open
      BY <1>1, <1>2 DEF DoWrite, Object
  <2> HIDE DEF y
  <2>2. Out(x) = Then(<<>>, x.queue) /\ Out(y) = Then(x.queue, <<>>)
      BY <1>1, <1>2, <2>1 DEF Out
  <2>3. Then(<<>>, x.queue) = x.queue /\ Then(x.queue, <<>>) = x.queue
      BY <1>1, ThenEmpty
  <2> QED BY <2>1, <2>2, <2>3 DEF Carries, y
<1>3. CASE x.sending # <<>>
    BY <1>3 DEF DoWrite, Carries
<1> QED BY <1>2, <1>3

LEMMA CheckDestroyCarries ==
    ASSUME NEW x \in Object, x.write = "idle" <=> x.sending = <<>>
    PROVE  Carries(x, CheckDestroy(x)) /\ Ended(CheckDestroy(x))
<1> DEFINE y == CheckDestroy(x)
<1>1. /\ y.write = x.write /\ y.sending = x.sending /\ y.queue = x.queue
      /\ y.open = x.open /\ (y.deleted => x.sending = <<>>)
    BY DEF CheckDestroy, Object
<1> HIDE DEF y
<1> QED BY <1>1, CarriesSame DEF Ended, y

LEMMA CloseSocketCarries ==
    ASSUME NEW x \in Object
    PROVE  /\ Carries(x, CloseSocket(x)) /\ CloseSocket(x) \in Object
           /\ CloseSocket(x).write = x.write /\ CloseSocket(x).sending = x.sending
<1> DEFINE y == CloseSocket(x)
<1>1. /\ y.write = x.write /\ y.sending = x.sending /\ y.queue = x.queue
      /\ ~y.open /\ y \in Object
    BY DEF CloseSocket, Object
<1> HIDE DEF y
<1> QED BY <1>1, CarriesSame DEF y

\* Closing the socket of a sound object and looking whether it can go.
LEMMA EndCarries ==
    ASSUME NEW x \in Object, x.write = "idle" <=> x.sending = <<>>
    PROVE  Carries(x, CheckDestroy(CloseSocket(x))) /\ Ended(CheckDestroy(CloseSocket(x)))
<1> DEFINE z == CloseSocket(x)
<1>1. /\ Carries(x, z) /\ z \in Object
      /\ z.write = "idle" <=> z.sending = <<>>
    BY CloseSocketCarries
<1> HIDE DEF z
<1>2. Carries(z, CheckDestroy(z)) /\ Ended(CheckDestroy(z))
    BY <1>1, CheckDestroyCarries
<1> QED BY <1>1, <1>2 DEF Carries, z

LEMMA DoReadCarries ==
    ASSUME NEW x, Good(x), ~x.deleted
    PROVE  Carries(x, DoRead(x)) /\ Ended(DoRead(x))
<1>1. /\ x \in Object
      /\ x.write = "idle" <=> x.sending = <<>>
    BY DEF Good, Sound
<1>2. CASE x.sentClose /\ x.recvClose
    BY <1>1, <1>2, EndCarries DEF DoRead
<1>3. CASE ~(x.sentClose /\ x.recvClose)
  <2> DEFINE y == [x EXCEPT !.isReading = TRUE]
  <2>1. /\ y.write = x.write /\ y.sending = x.sending /\ y.queue = x.queue
        /\ y.open = x.open /\ ~y.deleted
      BY <1>1 DEF Object
  <2>2. DoRead(x) = y
      BY <1>3 DEF DoRead
  <2> HIDE DEF y
  <2> QED BY <2>1, <2>2, CarriesSame DEF Ended
<1> QED BY <1>2, <1>3

LEMMA NextFrameCarries ==
    ASSUME NEW x, Good(x), ~x.deleted
    PROVE  Carries(x, NextFrame(x)) /\ Ended(NextFrame(x))
<1> DEFINE y == [x EXCEPT !.fragment = <<>>, !.state = "mini"]
<1>1. y \in Object
  <2>1. <<>> \in Bytes
      BY DEF Bytes
  <2> QED BY <2>1 DEF Good, Object
<1>2. /\ y.isReading = x.isReading /\ y.deleted = x.deleted
      /\ y.sentClose = x.sentClose /\ y.recvClose = x.recvClose
      /\ y.sending = x.sending /\ y.write = x.write /\ y.queue = x.queue /\ y.open = x.open
      /\ y.closeCalled = x.closeCalled /\ y.closes = x.closes
    BY DEF Good, Object
<1>3. NextFrame(x) = DoRead(y)
    BY DEF NextFrame
<1> HIDE DEF y
<1>4. Good(y) /\ ~y.deleted
    BY <1>1, <1>2 DEF Good, Sound
<1>5. Carries(x, y)
    BY <1>2, CarriesSame
<1>6. Carries(y, DoRead(y)) /\ Ended(DoRead(y))
    BY <1>4, DoReadCarries
<1> QED BY <1>3, <1>5, <1>6 DEF Carries

\* close adds its frame at the end.
LEMMA CloseAdds ==
    ASSUME NEW x, Good(x), ~x.deleted
    PROVE  Out(Close(x)) = Append(Out(x), CloseFrame) /\ Close(x).open = x.open
<1> DEFINE q == Append(x.queue, CloseFrame)
           n == IF x.recvClose /\ ~x.closeCalled THEN x.closes + 1 ELSE x.closes
           b == x.closeCalled \/ x.recvClose
           y == [x EXCEPT !.sentClose = TRUE, !.closeCalled = b, !.closes = n, !.queue = q]
           first == IF x.write = "started" THEN x.sending ELSE <<>>
<1>1. /\ x \in Object /\ x.queue \in Seq(FrameOut) /\ x.sending \in Seq(FrameOut)
      /\ CloseFrame \in FrameOut
      /\ x.write = "idle" <=> x.sending = <<>>
    BY DEF Good, Sound, Object, CloseFrame, FrameOut
<1>2. Close(x) = DoWrite(y)
    BY DEF Close
<1>3. first \in Seq(FrameOut) /\ Out(x) = Then(first, x.queue)
    BY <1>1 DEF Out
<1> HIDE DEF n, b
<1>4. /\ y.sending = x.sending /\ y.write = x.write /\ y.queue = q /\ y.open = x.open
    BY <1>1 DEF Object
<1>5. CASE x.sending = <<>>
  <2>1. DoWrite(y) = [y EXCEPT !.sending = y.queue, !.queue = <<>>, !.write = "started"]
      BY <1>4, <1>5 DEF DoWrite
  <2> DEFINE z == DoWrite(y)
  <2>2. z.write = "started" /\ z.sending = q /\ z.queue = <<>> /\ z.open = x.open
      BY <2>1, <1>1, <1>4 DEF Object
  <2>3. q \in Seq(FrameOut)
      BY <1>1, AppendProperties
  <2> HIDE DEF z, y
  <2>4. Out(z) = Then(q, <<>>) /\ first = <<>>
      BY <1>1, <1>5, <2>2 DEF Out
  <2>5. Then(q, <<>>) = q /\ Then(<<>>, x.queue) = x.queue
      BY <1>1, <2>3, ThenEmpty
  <2> QED BY <1>2, <1>3, <2>2, <2>4, <2>5 DEF z
<1>6. CASE x.sending # <<>>
  <2>1. DoWrite(y) = y
      BY <1>4, <1>6 DEF DoWrite
  <2> HIDE DEF y
  <2>2. Out(y) = Then(first, q)
      BY <1>4 DEF Out
  <2> HIDE DEF first
  <2>3. Then(first, Append(x.queue, CloseFrame)) = Append(Then(first, x.queue), CloseFrame)
      BY <1>1, <1>3 DEF Then
  <2> QED BY <1>2, <1>3, <1>4, <2>1, <2>2, <2>3
<1> QED BY <1>5, <1>6

LEMMA ReceiveLastCloseCarries ==
    ASSUME NEW x, Good(x), ~x.deleted
    PROVE  Carries(x, ReceiveLastClose(x)) /\ Ended(ReceiveLastClose(x))
<1> DEFINE n == IF x.closeCalled THEN x.closes ELSE x.closes + 1
           y == [x EXCEPT !.closeCalled = TRUE, !.closes = n]
<1>1. x \in Object /\ n \in Nat
    BY DEF Good, Object
<1>2. ReceiveLastClose(x) = CheckDestroy(CloseSocket(y))
    BY DEF ReceiveLastClose
<1> HIDE DEF n
<1>3. y \in Object
    BY <1>1 DEF Object
<1>4. /\ y.sending = x.sending /\ y.write = x.write /\ y.queue = x.queue /\ y.open = x.open
    BY <1>1 DEF Object
<1> HIDE DEF y
<1>5. Carries(x, y) /\ (y.write = "idle" <=> y.sending = <<>>)
    BY <1>4, CarriesSame DEF Good, Sound
<1>6. /\ Carries(y, CheckDestroy(CloseSocket(y)))
      /\ Ended(CheckDestroy(CloseSocket(y)))
    BY <1>3, <1>5, EndCarries
<1> QED BY <1>2, <1>5, <1>6 DEF Carries

LEMMA ReadFailedCarries ==
    ASSUME NEW x, Good(x), ~x.deleted
    PROVE  Carries(x, ReadFailed(x)) /\ Ended(ReadFailed(x))
<1> DEFINE y == [x EXCEPT !.isReading = FALSE]
<1>1. ReadFailed(x) = CheckDestroy(CloseSocket(y))
    BY DEF ReadFailed
<1>2. y \in Object
    BY DEF Good, Object
<1>3. /\ y.sending = x.sending /\ y.write = x.write /\ y.queue = x.queue /\ y.open = x.open
    BY DEF Good, Object
<1> HIDE DEF y
<1>4. Carries(x, y) /\ (y.write = "idle" <=> y.sending = <<>>)
    BY <1>3, CarriesSame DEF Good, Sound
<1>5. /\ Carries(y, CheckDestroy(CloseSocket(y)))
      /\ Ended(CheckDestroy(CloseSocket(y)))
    BY <1>2, <1>4, EndCarries
<1> QED BY <1>1, <1>4, <1>5 DEF Carries

\* A write that is complete has nothing left to hand over.
LEMMA WrittenCarries ==
    ASSUME NEW x, Good(x), ~x.deleted, x.write # "started"
    PROVE  Carries(x, Written(x)) /\ Ended(Written(x))
<1> DEFINE y == [x EXCEPT !.sending = <<>>, !.write = "idle"]
           z == IF y.queue # <<>> THEN DoWrite(y) ELSE y
           b == z.closeConn \/ x.sentClose
           w == [z EXCEPT !.closeConn = b]
<1>1. y \in Object
  <2>1. <<>> \in Seq(FrameOut)
      OBVIOUS
  <2> QED BY <2>1 DEF Good, Object
<1>2. /\ y.isReading = x.isReading /\ y.deleted = x.deleted
      /\ y.sentClose = x.sentClose /\ y.recvClose = x.recvClose
      /\ y.sending = <<>> /\ y.write = "idle" /\ y.queue = x.queue /\ y.open = x.open
      /\ y.closeCalled = x.closeCalled /\ y.closes = x.closes
    BY DEF Good, Object
<1>3. Written(x) = w
    BY DEF Written
<1> HIDE DEF y
<1>4. Good(y) /\ ~y.deleted /\ Carries(x, y)
    BY <1>1, <1>2 DEF Good, Sound, Carries, Out
<1>5. Good(z) /\ ~z.deleted /\ Carries(y, z)
    BY <1>2, <1>4, DoWriteGood, DoWriteCarries DEF Carries
<1> HIDE DEF z, b
<1>6. /\ w.write = z.write /\ w.sending = z.sending /\ w.queue = z.queue
      /\ w.open = z.open /\ w.deleted = z.deleted
    BY <1>5 DEF Good, Object
<1> HIDE DEF w
<1>7. Carries(z, w) /\ Ended(w)
    BY <1>5, <1>6, CarriesSame DEF Ended
<1> QED BY <1>3, <1>4, <1>5, <1>7 DEF Carries

LEMMA WriteEndedEnds ==
    ASSUME NEW x, Good(x), ~x.deleted
    PROVE  /\ x.write # "started" => Carries(x, WriteEnded(x))
           /\ WriteEnded(x).open = x.open /\ Ended(WriteEnded(x))
<1> DEFINE y == [x EXCEPT !.sending = <<>>, !.write = "idle", !.closeConn = TRUE]
<1>1. y \in Object
  <2>1. <<>> \in Seq(FrameOut)
      OBVIOUS
  <2> QED BY <2>1 DEF Good, Object
<1>2. /\ y.sending = <<>> /\ y.write = "idle" /\ y.queue = x.queue /\ y.open = x.open
    BY DEF Good, Object
<1>3. WriteEnded(x) = CheckDestroy(y)
    BY DEF WriteEnded
<1> HIDE DEF y
<1>4. x.write # "started" => Carries(x, y)
    BY <1>2 DEF Carries, Out
<1>5. Carries(y, CheckDestroy(y)) /\ Ended(CheckDestroy(y))
    BY <1>1, <1>2, CheckDestroyCarries
<1>6. CheckDestroy(y).open = y.open
    BY <1>1 DEF CheckDestroy, Object
<1> QED BY <1>2, <1>3, <1>4, <1>5, <1>6 DEF Carries

LEMMA WithPayloadCarries ==
    ASSUME Good(c), NEW n \in Nat
    PROVE  Carries(c, WithPayload(n))
<1> DEFINE r == c.remaining - n
           f == c.fragment \o [k \in 1 .. n |-> <<Head(wire).id, Len(c.fragment) + k>>]
           y == [c EXCEPT !.isReading = FALSE, !.remaining = r, !.fragment = f]
<1>1. WithPayload(n) = y
    BY DEF WithPayload
<1> HIDE DEF r, f
<1>2. /\ y.sending = c.sending /\ y.write = c.write /\ y.queue = c.queue /\ y.open = c.open
    BY DEF Good, Object
<1> HIDE DEF y
<1> QED BY <1>1, <1>2, CarriesSame
-----------------------------------------------------------------------------
\* The inductive invariant behind RepliesInOrder: the kernel has a prefix of what was asked
\* for and, while the connection is up, the object and the io_context hold the rest; nothing is
\* asked for before start(); the write of an object that went is not taken any more.
Queued ==
    /\ IsPrefix(tx, owed)
    /\ Linked /\ c.open => Then(tx, Then(Out(c), posted)) = owed
    /\ c.state = "new" => /\ tx = <<>> /\ owed = <<>>
                          /\ c.queue = <<>> /\ c.sending = <<>> /\ c.write = "idle"
    /\ Ended(c)

\* What a step may do to what is sent.
SendStep ==
    /\ owed' = owed \/ \E f \in FrameOut : owed' = Append(owed, f)
    /\ IsPrefix(tx, tx') /\ (tx' # tx => Linked /\ c.open)
    /\ (Linked' => Linked) /\ (c'.open => c.open)
    /\ c.deleted => c'.deleted /\ tx' = tx /\ owed' = owed

LEMMA QueuedTypes ==
    ASSUME Inv
    PROVE  /\ Good(c) /\ c \in Object /\ Out(c) \in Seq(FrameOut)
           /\ tx \in Seq(FrameOut) /\ owed \in Seq(FrameOut) /\ posted \in Seq(FrameOut)
    BY OutType DEF Inv, TypeOK, Good

LEMMA PrefixItself ==
    ASSUME NEW S, NEW s \in Seq(S)
    PROVE  IsPrefix(s, s)
<1>1. s \o <<>> = s /\ <<>> \in Seq(S)
    BY ConcatEmptySeq
<1> QED BY <1>1, PrefixOfConcat

\* A step that makes the object y and asks for r: whether the kernel takes the write at once
\* or not, what it has, what the object holds and what is posted are what was asked for.
LEMMA Sends ==
    ASSUME Inv, Queued, NEW y, Good(y), Becomes(y), Ended(y), y.open => c.open,
           y.state # "new", ~c.deleted, Linked' => Linked,
           NEW r \in Seq(FrameOut), r = <<>> \/ \E f \in FrameOut : r = <<f>>,
           owed' = Then(owed, r), posted' \in Seq(FrameOut),
           Linked /\ c.open => Then(Out(y), posted') = Then(Then(Out(c), posted), r)
    PROVE  Queued' /\ SendStep
<1>1. /\ Out(c) \in Seq(FrameOut) /\ tx \in Seq(FrameOut) /\ owed \in Seq(FrameOut)
      /\ posted \in Seq(FrameOut)
    BY QueuedTypes
<1>2. y \in Object /\ Out(y) \in Seq(FrameOut)
    BY OutType DEF Good
<1>3. owed' = owed \/ \E f \in FrameOut : owed' = Append(owed, f)
  <2>1. CASE r = <<>>
      BY <2>1, <1>1, ThenEmpty
  <2>2. CASE \E f \in FrameOut : r = <<f>>
      BY <2>2, <1>1, ThenOne
  <2> QED BY <2>1, <2>2
<1>4. IsPrefix(tx, owed')
    BY <1>1, PrefixExtends DEF Queued, Then
<1>5. Linked /\ c.open => Then(tx, Then(Out(y), posted')) = owed'
  <2> SUFFICES ASSUME Linked, c.open PROVE Then(tx, Then(Out(y), posted')) = owed'
      OBVIOUS
  <2> DEFINE rest == Then(Out(c), posted)
  <2>1. Then(tx, rest) = owed /\ Then(Out(y), posted') = Then(rest, r)
      BY DEF Queued
  <2>2. rest \in Seq(FrameOut)
      BY <1>1, ThenFrames
  <2> HIDE DEF rest
  <2>3. Then(tx, Then(rest, r)) = Then(Then(tx, rest), r)
      BY <1>1, <2>2, Regroup
  <2> QED BY <2>1, <2>3
<1>6. CASE c' = y /\ UNCHANGED tx
  <2>1. IsPrefix(tx, tx')
      BY <1>1, <1>6, PrefixItself
  <2>2. (Linked /\ c.open => Then(tx, Then(Out(c), posted)) = owed)'
      BY <1>5, <1>6
  <2> QED BY <1>3, <1>4, <1>6, <2>1, <2>2 DEF Queued, SendStep, Ended
<1>7. CASE /\ y.write = "started" /\ c.open /\ Linked
           /\ c' = [y EXCEPT !.write = "taken"] /\ tx' = tx \o y.sending
  <2>1. /\ y.sending \in Seq(FrameOut) /\ y.queue \in Seq(FrameOut)
        /\ c'.write = "taken" /\ c'.sending = y.sending /\ c'.queue = y.queue
        /\ c'.state = y.state /\ c'.open = y.open /\ c'.deleted = y.deleted
      BY <1>2, <1>7 DEF Object
  <2>2. Out(y) = Then(y.sending, y.queue) /\ tx' = Then(tx, y.sending)
      BY <1>7 DEF Out, Then
  <2>3. Out(c') = y.queue
    <3>1. Out(c') = Then(<<>>, y.queue)
        BY <2>1 DEF Out
    <3> QED BY <3>1, <2>1, ThenEmpty
  <2>4. tx' \in Seq(FrameOut) /\ Then(y.queue, posted') \in Seq(FrameOut)
      BY <1>1, <2>1, <2>2, ThenFrames
  <2>5. Then(tx', Then(y.queue, posted')) = owed'
    <3> DEFINE s == y.sending
               q == y.queue
               p == posted'
    <3>1. s \in Seq(FrameOut) /\ q \in Seq(FrameOut) /\ p \in Seq(FrameOut)
        BY <2>1
    <3>2. Then(tx, Then(Then(s, q), p)) = owed' /\ tx' = Then(tx, s)
        BY <1>5, <1>7, <2>2
    <3> HIDE DEF s, q, p
    <3>3. Then(Then(s, q), p) = Then(s, Then(q, p)) /\ Then(q, p) \in Seq(FrameOut)
        BY <3>1, Regroup, ThenFrames
    <3>4. Then(tx, Then(s, Then(q, p))) = Then(Then(tx, s), Then(q, p))
        BY <1>1, <3>1, <3>3, Regroup
    <3> QED BY <3>2, <3>3, <3>4 DEF s, q, p
  <2>6. IsPrefix(tx', owed')
      BY <2>4, <2>5, PrefixOfConcat DEF Then
  <2>7. IsPrefix(tx, tx')
      BY <1>1, <2>1, <2>2, PrefixOfConcat DEF Then
  <2>8. (Linked /\ c.open => Then(tx, Then(Out(c), posted)) = owed)'
      BY <2>3, <2>5
  <2>9. Ended(c)' /\ c'.state # "new"
      BY <2>1 DEF Ended
  <2>10. Queued'
      BY <2>6, <2>8, <2>9 DEF Queued
  <2> QED BY <1>3, <1>7, <2>1, <2>7, <2>10 DEF SendStep
<1> QED BY <1>6, <1>7 DEF Becomes

\* Such a step that asks for nothing, and posts nothing.
LEMMA SendsNothing ==
    ASSUME Inv, Queued, NEW y, Good(y), Becomes(y), Ended(y), Carries(c, y),
           y.state # "new", ~c.deleted, UNCHANGED <<Linked, posted, owed>>
    PROVE  Queued' /\ SendStep
<1> DEFINE r == <<>>
<1>1. /\ Out(c) \in Seq(FrameOut) /\ owed \in Seq(FrameOut) /\ posted \in Seq(FrameOut)
    BY QueuedTypes
<1>2. Then(Out(c), posted) \in Seq(FrameOut) /\ r \in Seq(FrameOut)
    BY <1>1, ThenFrames
<1>3. owed' = Then(owed, r) /\ Then(Then(Out(c), posted), r) = Then(Out(c), posted)
    BY <1>1, <1>2, ThenEmpty
<1>4. Then(Out(y), posted') = Then(Then(Out(c), posted), r)
    BY <1>3 DEF Carries
<1>5. (y.open => c.open) /\ posted' \in Seq(FrameOut) /\ (Linked' => Linked)
    BY <1>1 DEF Carries
<1>6. r = <<>>
    OBVIOUS
<1> HIDE DEF r
<1> QED BY <1>2, <1>3, <1>4, <1>5, <1>6, Sends

\* Such a step that posts the frame it asks for, with nothing posted before.
LEMMA SendsPosted ==
    ASSUME Inv, Queued, NEW y, Good(y), Becomes(y), Ended(y), Carries(c, y),
           y.state # "new", ~c.deleted, UNCHANGED Linked, NEW f \in FrameOut, posted = <<>>,
           posted' = Append(posted, f), owed' = Append(owed, f)
    PROVE  Queued' /\ SendStep
<1> DEFINE r == <<f>>
<1>1. /\ Out(c) \in Seq(FrameOut) /\ owed \in Seq(FrameOut) /\ r \in Seq(FrameOut)
    BY QueuedTypes
<1>2. owed' = Then(owed, r) /\ posted' = r
    BY <1>1, ThenOne
<1>3. \E g \in FrameOut : r = <<g>>
    OBVIOUS
<1> HIDE DEF r
<1>4. Then(Out(c), posted) = Out(c)
    BY <1>1, ThenEmpty
<1>5. Then(Out(y), posted') = Then(Then(Out(c), posted), r)
    BY <1>2, <1>4 DEF Carries
<1>6. (y.open => c.open) /\ posted' \in Seq(FrameOut) /\ (Linked' => Linked)
    BY <1>1, <1>2 DEF Carries
<1> QED BY <1>1, <1>2, <1>3, <1>5, <1>6, Sends

\* Such a step that puts the frame it asks for into the object, with nothing posted.
LEMMA SendsQueued ==
    ASSUME Inv, Queued, NEW y, Good(y), Becomes(y), Ended(y), y.open => c.open,
           y.state # "new", ~c.deleted, Linked' => Linked, NEW f \in FrameOut, posted = <<>>,
           Out(y) = Append(Out(c), f), UNCHANGED posted, owed' = Append(owed, f)
    PROVE  Queued' /\ SendStep
<1> DEFINE r == <<f>>
<1>1. /\ Out(c) \in Seq(FrameOut) /\ owed \in Seq(FrameOut) /\ r \in Seq(FrameOut)
    BY QueuedTypes
<1>2. owed' = Then(owed, r) /\ Out(y) = Then(Out(c), r)
    BY <1>1, ThenOne
<1>3. \E g \in FrameOut : r = <<g>>
    OBVIOUS
<1> HIDE DEF r
<1>4. Then(Out(c), posted) = Out(c) /\ Then(Out(y), posted') = Out(y)
  <2>1. Out(y) \in Seq(FrameOut) /\ posted' = <<>>
      BY OutType DEF Good
  <2> QED BY <1>1, <2>1, ThenEmpty
<1>5. Then(Out(y), posted') = Then(Then(Out(c), posted), r)
    BY <1>2, <1>4
<1>6. posted' \in Seq(FrameOut)
    OBVIOUS
<1> QED BY <1>1, <1>2, <1>3, <1>5, <1>6, Sends
-----------------------------------------------------------------------------
(* One lemma for each action that touches the queues, and one for those that do not. *)

LEMMA StartSends == ASSUME Inv, Queued, Start PROVE Queued' /\ SendStep
<1> DEFINE q == <<Hello>>
           x == [c EXCEPT !.state = "mini", !.queue = q]
           y == DoWrite(x)
           z == [y EXCEPT !.deleted = TRUE, !.open = FALSE]
<1>1. /\ Good(c) /\ c \in Object /\ ~c.deleted /\ posted = <<>> /\ owed = <<>> /\ tx = <<>>
      /\ c.queue = <<>> /\ c.sending = <<>> /\ c.write = "idle"
    BY QueuedTypes DEF Inv, Queued, Start
<1>2. q \in Seq(FrameOut) /\ Hello \in FrameOut /\ owed' = q /\ posted' = posted
    BY DEF Hello, FrameOut, Start
<1>3. \/ Becomes(DoRead(y)) /\ UNCHANGED Linked
      \/ DebugLog /\ Becomes(z) /\ ~Linked'
    BY DEF Start, Linked
<1>4. x \in Object
    BY <1>1, <1>2 DEF Object
<1>5. /\ x.isReading = c.isReading /\ x.deleted = c.deleted /\ x.state = "mini"
      /\ x.sentClose = c.sentClose /\ x.recvClose = c.recvClose
      /\ x.sending = <<>> /\ x.write = "idle" /\ x.queue = q /\ x.open = c.open
      /\ x.closeCalled = c.closeCalled /\ x.closes = c.closes
    BY <1>1 DEF Object
<1> HIDE DEF x
<1>6. Good(x) /\ ~x.deleted /\ x.queue # <<>>
    BY <1>1, <1>4, <1>5 DEF Good, Sound
<1>7. /\ Good(y) /\ ~y.deleted /\ y.state = "mini" /\ Carries(x, y)
    BY <1>5, <1>6, DoWriteGood, DoWriteCarries
<1>8. Out(c) = <<>> /\ Out(x) = q
  <2> HIDE DEF q
  <2>1. Then(<<>>, <<>>) = <<>> /\ Then(<<>>, q) = q
      BY <1>2, ThenNone, ThenEmpty
  <2> QED BY <1>1, <1>5, <2>1 DEF Out
<1>9. Out(y) = Append(Out(c), Hello) /\ owed' = Append(owed, Hello) /\ (y.open => c.open)
    BY <1>1, <1>2, <1>5, <1>7, <1>8 DEF Carries
<1> HIDE DEF y, q
<1>10. CASE Becomes(DoRead(y)) /\ UNCHANGED Linked
  <2> DEFINE w == DoRead(y)
  <2>1. Good(w) /\ w.state = "mini" /\ Carries(y, w) /\ Ended(w)
      BY <1>7, DoReadGood, DoReadCarries
  <2>2. Becomes(w) /\ (Linked' => Linked)
      BY <1>10
  <2> HIDE DEF w
  <2>3. Out(w) = Append(Out(c), Hello) /\ (w.open => c.open)
      BY <1>9, <2>1 DEF Carries
  <2> QED BY <1>1, <1>2, <1>9, <2>1, <2>2, <2>3, SendsQueued
<1>11. CASE DebugLog /\ Becomes(z) /\ ~Linked'
  <2>1. z \in Object
      BY <1>7 DEF Good, Object
  <2>2. /\ z.isReading = y.isReading /\ z.deleted /\ z.state = "mini" /\ ~z.open
        /\ z.sentClose = y.sentClose /\ z.recvClose = y.recvClose
        /\ z.sending = y.sending /\ z.write = y.write /\ z.queue = y.queue
        /\ z.closeCalled = y.closeCalled /\ z.closes = y.closes
      BY <1>7 DEF Good, Object
  <2> HIDE DEF z
  <2>3. Good(z) /\ Ended(z)
      BY <1>7, <1>11, <2>1, <2>2 DEF Good, Sound, Ended
  <2>4. Out(z) = Append(Out(c), Hello)
      BY <1>9, <2>2 DEF Out
  <2> QED BY <1>1, <1>2, <1>9, <1>11, <2>2, <2>3, <2>4, SendsQueued
<1> QED BY <1>3, <1>10, <1>11

LEMMA GoToSends ==
    ASSUME Inv, Queued, NEW s \in {"len", "mask", "payload"}, NEW n \in Nat, GoTo(s, n),
           ~c.deleted, UNCHANGED <<Linked, posted, owed>>
    PROVE  Queued' /\ SendStep
<1> DEFINE x == [c EXCEPT !.isReading = FALSE, !.state = s, !.remaining = n]
           y == DoRead(x)
<1>1. Good(c)
    BY QueuedTypes
<1>2. x \in Object
    BY <1>1 DEF Good, Object
<1>3. /\ ~x.isReading /\ x.deleted = c.deleted /\ x.state = s
      /\ x.sentClose = c.sentClose /\ x.recvClose = c.recvClose
      /\ x.sending = c.sending /\ x.write = c.write /\ x.queue = c.queue /\ x.open = c.open
      /\ x.closeCalled = c.closeCalled /\ x.closes = c.closes
    BY <1>1 DEF Good, Object
<1>4. Becomes(y)
    BY DEF GoTo
<1> HIDE DEF x
<1>5. Good(x) /\ Carries(c, x)
    BY <1>1, <1>2, <1>3, CarriesSame DEF Good, Sound
<1>6. /\ Good(y) /\ y.state # "new" /\ Carries(x, y) /\ Ended(y)
    BY <1>3, <1>5, DoReadGood, DoReadCarries
<1> HIDE DEF y
<1>7. Carries(c, y)
    BY <1>5, <1>6 DEF Carries
<1> QED BY <1>4, <1>6, <1>7, SendsNothing

LEMMA HeaderSends ==
    ASSUME Inv, Queued, ReadHeader \/ ReadHalfHeader \/ ReadLength \/ ReadMask
    PROVE  Queued' /\ SendStep
<1>1. ~c.deleted /\ UNCHANGED <<Linked, posted, owed>>
    BY Zenon DEF ReadHeader, ReadHalfHeader, ReadLength, ReadMask, MayRead, Linked
<1>2. \E s \in {"len", "mask", "payload"}, n \in Nat : GoTo(s, n)
  <2>1. CASE ReadHeader
    <3>1. Head(wire).size \in Nat
        BY <2>1, Reading DEF ReadHeader, NumberedSet
    <3> QED BY <2>1, <3>1 DEF ReadHeader
  <2>2. CASE ReadHalfHeader
      BY <2>2 DEF ReadHalfHeader
  <2>3. CASE ReadLength \/ ReadMask
    <3>1. c.remaining \in Nat
        BY QueuedTypes DEF Object
    <3> QED BY <2>3, <3>1 DEF ReadLength, ReadMask
  <2> QED BY <2>1, <2>2, <2>3
<1> QED BY <1>1, <1>2, GoToSends

\* A step to the next frame, from an object that has sent and asked for nothing since.
LEMMA NextFrameSends ==
    ASSUME Inv, Queued, NEW x, Good(x), ~x.deleted, Carries(c, x), Becomes(NextFrame(x)),
           ~c.deleted, UNCHANGED <<Linked, posted, owed>>
    PROVE  Queued' /\ SendStep
<1> DEFINE y == NextFrame(x)
<1>1. /\ Good(y) /\ y.state # "new" /\ Carries(x, y) /\ Ended(y)
    BY NextFrameGood, NextFrameCarries
<1>2. Becomes(y)
    OBVIOUS
<1> HIDE DEF y
<1>3. Carries(c, y)
    BY <1>1 DEF Carries
<1> QED BY <1>1, <1>2, <1>3, SendsNothing

\* The object when the last byte of a frame is there.
LEMMA LastReadSends ==
    ASSUME Inv, NEW op, LastRead(op)
    PROVE  Carries(c, WithPayload(c.remaining)) /\ ~c.deleted
<1>1. Good(c) /\ c.remaining \in Nat /\ ~c.deleted
    BY QueuedTypes DEF Object, LastRead, MayRead
<1> QED BY <1>1, WithPayloadCarries

LEMMA MessageCarries ==
    ASSUME NEW x, Good(x), NEW m
    PROVE  Carries(x, [x EXCEPT !.message = m])
<1> DEFINE y == [x EXCEPT !.message = m]
<1>1. /\ y.sending = x.sending /\ y.write = x.write /\ y.queue = x.queue /\ y.open = x.open
    BY DEF Good, Object
<1> HIDE DEF y
<1> QED BY <1>1, CarriesSame DEF y

LEMMA ReadSomeSends == ASSUME Inv, Queued, ReadSome PROVE Queued' /\ SendStep
<1>1. PICK n \in 1 .. c.remaining : n < c.remaining /\ Becomes(DoRead(WithPayload(n)))
    BY DEF ReadSome
<1>2. /\ Good(c) /\ ~c.deleted /\ ~(c.sentClose /\ c.recvClose)
      /\ wire \in Seq(NumberedSet) /\ wire # <<>> /\ c.remaining \in Nat
    BY Reading DEF ReadSome
<1> DEFINE x == WithPayload(n)
           y == DoRead(x)
<1>3. n \in Nat /\ n <= c.remaining
    BY <1>1, <1>2
<1>4. Good(x) /\ ~x.deleted /\ x.state = "payload" /\ Carries(c, x)
    BY <1>2, <1>3, WithPayloadGood, WithPayloadCarries DEF ReadSome, MayRead
<1> HIDE DEF x
<1>5. Good(y) /\ y.state # "new" /\ Carries(x, y) /\ Ended(y)
    BY <1>4, DoReadGood, DoReadCarries
<1>6. Becomes(y) /\ UNCHANGED <<Linked, posted, owed>>
    BY <1>1 DEF x, ReadSome, Linked
<1> HIDE DEF y
<1>7. Carries(c, y)
    BY <1>4, <1>5 DEF Carries
<1> QED BY <1>2, <1>5, <1>6, <1>7, SendsNothing

LEMMA ReadPartSends == ASSUME Inv, Queued, ReadPart PROVE Queued' /\ SendStep
<1> DEFINE x == WithPayload(c.remaining)
           m == x.message \o x.fragment
           y == [x EXCEPT !.message = m]
<1>1. Good(x) /\ ~x.deleted /\ Carries(c, x) /\ ~c.deleted
    BY LastReadGood, LastReadSends DEF ReadPart
<1>2. Becomes(NextFrame(y)) /\ UNCHANGED <<Linked, posted, owed>>
    BY DEF ReadPart, Linked
<1> HIDE DEF x
<1>3. m \in Bytes
  <2>1. x.message \in Bytes /\ x.fragment \in Bytes
      BY <1>1 DEF Good, Object
  <2> QED BY <2>1 DEF Bytes
<1> HIDE DEF m
<1>4. Good(y) /\ ~y.deleted /\ Carries(c, y)
    BY <1>1, <1>3, MessageGood, MessageCarries DEF Carries
<1> HIDE DEF y
<1> QED BY <1>1, <1>2, <1>4, NextFrameSends

LEMMA ReadMessageSends == ASSUME Inv, Queued, ReadMessage PROVE Queued' /\ SendStep
<1> DEFINE x == WithPayload(c.remaining)
           m == Whole(x)
           none == <<>>
           y == [x EXCEPT !.message = none]
           z == [x EXCEPT !.message = m]
           answer == <<"reply", Len(handled) + 1>>
<1>1. /\ Good(x) /\ ~x.deleted /\ ~x.isReading /\ x.state = "payload"
      /\ posted = <<>> /\ Carries(c, x) /\ ~c.deleted
    BY LastReadGood, LastReadSends DEF ReadMessage
<1>2. /\ \/ /\ posted' = Append(posted, answer) /\ owed' = Append(owed, answer)
            /\ Becomes(NextFrame(y))
         \/ Becomes(NextFrame(y)) /\ UNCHANGED <<posted, owed>>
         \/ /\ Becomes(NextFrame(Close(y))) /\ owed' = Append(owed, CloseFrame)
            /\ UNCHANGED posted
         \/ Becomes(z) /\ UNCHANGED <<posted, owed>>
      /\ UNCHANGED Linked
    BY DEF ReadMessage, Linked
<1> HIDE DEF x
<1>3. m \in Bytes /\ none \in Bytes
  <2>1. x.message \in Bytes /\ x.fragment \in Bytes
      BY <1>1 DEF Good, Object
  <2> QED BY <2>1 DEF Bytes, Whole
<1> HIDE DEF m, none
<1>4. Good(y) /\ ~y.deleted /\ ~y.isReading /\ Carries(c, y)
    BY <1>1, <1>3, MessageGood, MessageCarries DEF Carries
<1>5. Good(z) /\ ~z.deleted /\ z.state = "payload" /\ Carries(c, z)
    BY <1>1, <1>3, MessageGood, MessageCarries DEF Carries
<1> HIDE DEF y, z
<1>6. answer \in FrameOut /\ CloseFrame \in FrameOut
  <2>1. Len(handled) + 1 \in Nat
      BY DEF Inv, TypeOK
  <2> QED BY <2>1 DEF FrameOut, CloseFrame
<1> HIDE DEF answer
<1>7. CASE /\ posted' = Append(posted, answer) /\ owed' = Append(owed, answer)
           /\ Becomes(NextFrame(y))
  <2> DEFINE w == NextFrame(y)
  <2>1. Good(w) /\ w.state # "new" /\ Carries(y, w) /\ Ended(w)
      BY <1>4, NextFrameGood, NextFrameCarries
  <2>2. Becomes(w)
      BY <1>7
  <2> HIDE DEF w
  <2>3. Carries(c, w)
      BY <1>4, <2>1 DEF Carries
  <2> QED BY <1>1, <1>2, <1>6, <1>7, <2>1, <2>2, <2>3, SendsPosted
<1>8. CASE Becomes(NextFrame(y)) /\ UNCHANGED <<posted, owed>>
    BY <1>1, <1>2, <1>4, <1>8, NextFrameSends
<1>9. CASE /\ Becomes(NextFrame(Close(y))) /\ owed' = Append(owed, CloseFrame)
           /\ UNCHANGED posted
  <2> DEFINE v == Close(y)
             w == NextFrame(v)
  <2>1. /\ Good(v) /\ ~v.deleted /\ v.open = y.open
        /\ Out(v) = Append(Out(y), CloseFrame)
      BY <1>4, CloseGood, CloseAdds
  <2> HIDE DEF v
  <2>2. Good(w) /\ w.state # "new" /\ Carries(v, w) /\ Ended(w)
      BY <2>1, NextFrameGood, NextFrameCarries
  <2>3. Becomes(w)
      BY <1>9 DEF v
  <2> HIDE DEF w
  <2>4. Out(w) = Append(Out(c), CloseFrame) /\ (w.open => c.open)
      BY <1>4, <2>1, <2>2 DEF Carries
  <2> QED BY <1>1, <1>2, <1>6, <1>9, <2>2, <2>3, <2>4, SendsQueued
<1>10. CASE Becomes(z) /\ UNCHANGED <<posted, owed>>
  <2>1. Ended(z)
      BY <1>5 DEF Ended
  <2> QED BY <1>1, <1>2, <1>5, <1>10, <2>1, SendsNothing
<1> QED BY <1>2, <1>7, <1>8, <1>9, <1>10

LEMMA ReadPingSends == ASSUME Inv, Queued, ReadPing PROVE Queued' /\ SendStep
<1> DEFINE x == WithPayload(c.remaining)
           pong == <<"pong", Head(wire).id>>
           w == NextFrame(x)
<1>1. /\ Good(x) /\ ~x.deleted /\ Carries(c, x) /\ posted = <<>> /\ ~c.deleted
      /\ Head(wire).id \in Nat
    BY LastReadGood, LastReadSends DEF ReadPing
<1>2. /\ posted' = Append(posted, pong) /\ owed' = Append(owed, pong)
      /\ Becomes(w) /\ UNCHANGED Linked
    BY DEF ReadPing, Linked
<1> HIDE DEF x
<1>3. pong \in FrameOut
    BY <1>1 DEF FrameOut
<1> HIDE DEF pong
<1>4. Good(w) /\ w.state # "new" /\ Carries(x, w) /\ Ended(w)
    BY <1>1, NextFrameGood, NextFrameCarries
<1> HIDE DEF w
<1>5. Carries(c, w)
    BY <1>1, <1>4 DEF Carries
<1> QED BY <1>1, <1>2, <1>3, <1>4, <1>5, SendsPosted

LEMMA ReadPongSends == ASSUME Inv, Queued, ReadPong PROVE Queued' /\ SendStep
<1>1. /\ Good(WithPayload(c.remaining)) /\ ~WithPayload(c.remaining).deleted
      /\ Carries(c, WithPayload(c.remaining)) /\ ~c.deleted
    BY LastReadGood, LastReadSends DEF ReadPong
<1>2. Becomes(NextFrame(WithPayload(c.remaining))) /\ UNCHANGED <<Linked, posted, owed>>
    BY DEF ReadPong, Linked
<1> QED BY <1>1, <1>2, NextFrameSends

LEMMA ReadCloseSends == ASSUME Inv, Queued, ReadClose PROVE Queued' /\ SendStep
<1> DEFINE u == WithPayload(c.remaining)
           x == [u EXCEPT !.recvClose = TRUE]
<1>1. /\ Good(u) /\ ~u.deleted /\ ~u.isReading /\ u.state = "payload"
      /\ posted = <<>> /\ Carries(c, u) /\ ~c.deleted
    BY LastReadGood, LastReadSends DEF ReadClose
<1>2. /\ \/ Becomes(ReceiveLastClose(x)) /\ UNCHANGED owed
         \/ Becomes(NextFrame(Close(x))) /\ owed' = Append(owed, CloseFrame)
      /\ UNCHANGED <<Linked, posted>>
    BY DEF ReadClose, Linked
<1> HIDE DEF u
<1>3. x \in Object
    BY <1>1 DEF Good, Object
<1>4. /\ x.isReading = u.isReading /\ x.deleted = u.deleted /\ x.state = u.state
      /\ x.sending = u.sending /\ x.write = u.write /\ x.queue = u.queue /\ x.open = u.open
      /\ x.closeCalled = u.closeCalled /\ x.closes = u.closes
    BY <1>1 DEF Good, Object
<1> HIDE DEF x
<1>5. Good(x) /\ ~x.deleted /\ ~x.isReading
    BY <1>1, <1>3, <1>4 DEF Good, Sound
<1>6. Carries(c, x)
    BY <1>1, <1>4, CarriesSame DEF Carries
<1>7. CASE Becomes(ReceiveLastClose(x)) /\ UNCHANGED owed
  <2> DEFINE w == ReceiveLastClose(x)
  <2>1. Good(w) /\ w.state = "payload" /\ Carries(x, w) /\ Ended(w)
      BY <1>1, <1>4, <1>5, ReceiveLastCloseGood, ReceiveLastCloseCarries
  <2>2. Becomes(w)
      BY <1>7
  <2> HIDE DEF w
  <2>3. Carries(c, w)
      BY <1>6, <2>1 DEF Carries
  <2> QED BY <1>1, <1>2, <1>7, <2>1, <2>2, <2>3, SendsNothing
<1>8. CASE Becomes(NextFrame(Close(x))) /\ owed' = Append(owed, CloseFrame)
  <2> DEFINE v == Close(x)
             w == NextFrame(v)
  <2>1. /\ Good(v) /\ ~v.deleted /\ v.open = x.open
        /\ Out(v) = Append(Out(x), CloseFrame)
      BY <1>5, CloseGood, CloseAdds
  <2> HIDE DEF v
  <2>2. Good(w) /\ w.state # "new" /\ Carries(v, w) /\ Ended(w)
      BY <2>1, NextFrameGood, NextFrameCarries
  <2>3. Becomes(w)
      BY <1>8 DEF v
  <2> HIDE DEF w
  <2>4. Out(w) = Append(Out(c), CloseFrame) /\ (w.open => c.open)
      BY <1>6, <2>1, <2>2 DEF Carries
  <2>5. CloseFrame \in FrameOut
      BY DEF CloseFrame, FrameOut
  <2> QED BY <1>1, <1>2, <1>8, <2>2, <2>3, <2>4, <2>5, SendsQueued
<1> QED BY <1>2, <1>7, <1>8

LEMMA ReadFailsSends == ASSUME Inv, Queued, ReadFails PROVE Queued' /\ SendStep
<1> DEFINE y == ReadFailed(c)
<1>1. Good(c) /\ ~c.deleted /\ c.state # "new"
    BY DEF ReadFails, Inv, TypeOK, Good
<1>2. Good(y) /\ y.state # "new" /\ Carries(c, y) /\ Ended(y)
    BY <1>1, ReadFailedGood, ReadFailedCarries
<1>3. Becomes(y) /\ UNCHANGED <<Linked, posted, owed>>
    BY DEF ReadFails, Linked
<1> HIDE DEF y
<1> QED BY <1>1, <1>2, <1>3, SendsNothing

\* What was posted first moves to the end of the object's queue.
LEMMA RunPostedSends == ASSUME Inv, Queued, RunPosted PROVE Queued' /\ SendStep
<1> DEFINE h == Head(posted)
           t == Tail(posted)
           q == Append(c.queue, h)
           x == [c EXCEPT !.queue = q]
           y == DoWrite(x)
           first == IF c.write = "started" THEN c.sending ELSE <<>>
<1>1. /\ Good(c) /\ c \in Object /\ ~c.deleted /\ c.state # "new"
      /\ posted \in Seq(FrameOut) /\ posted # <<>>
      /\ owed \in Seq(FrameOut) /\ Out(c) \in Seq(FrameOut)
    BY QueuedTypes DEF RunPosted, Inv
<1>2. /\ c.queue \in Seq(FrameOut) /\ c.sending \in Seq(FrameOut)
      /\ first \in Seq(FrameOut)
    BY <1>1 DEF Object
<1>3. h \in FrameOut /\ t \in Seq(FrameOut) /\ posted = Then(<<h>>, t)
    BY <1>1 DEF Then
<1>4. /\ Becomes(y) /\ posted' = t /\ UNCHANGED <<Linked, owed>>
    BY DEF RunPosted, Linked
<1> HIDE DEF h, t
<1>5. q \in Seq(FrameOut) /\ q = Then(c.queue, <<h>>) /\ q # <<>>
  <2>1. q = Then(c.queue, <<h>>)
      BY <1>2, <1>3, ThenOne
  <2> QED BY <2>1, <1>2, <1>3, AppendProperties
<1> HIDE DEF q
<1>6. x \in Object
    BY <1>1, <1>5 DEF Object
<1>7. /\ x.isReading = c.isReading /\ x.deleted = c.deleted /\ x.state = c.state
      /\ x.sentClose = c.sentClose /\ x.recvClose = c.recvClose
      /\ x.sending = c.sending /\ x.write = c.write /\ x.queue = q /\ x.open = c.open
      /\ x.closeCalled = c.closeCalled /\ x.closes = c.closes
    BY <1>1 DEF Object
<1> HIDE DEF x
<1>8. Good(x) /\ ~x.deleted
    BY <1>1, <1>6, <1>7 DEF Good, Sound
<1>9. Good(y) /\ ~y.deleted /\ y.state # "new" /\ Carries(x, y)
    BY <1>1, <1>5, <1>7, <1>8, DoWriteGood, DoWriteCarries
<1>10. Ended(y)
    BY <1>9 DEF Ended
<1>11. Then(Out(x), t) = Then(Out(c), posted)
  <2> DEFINE one == <<h>>
             k == c.queue
             o == Then(first, k)
  <2>1. one \in Seq(FrameOut) /\ k \in Seq(FrameOut)
      BY <1>2, <1>3
  <2>2. Out(x) = Then(first, Then(k, one)) /\ Out(c) = o /\ posted = Then(one, t)
      BY <1>3, <1>5, <1>7 DEF Out
  <2>3. o \in Seq(FrameOut)
      BY <1>2, <2>1, ThenFrames
  <2> HIDE DEF one, k, first
  <2>4. Then(first, Then(k, one)) = Then(o, one)
      BY <1>2, <2>1, Regroup
  <2> HIDE DEF o
  <2>5. Then(o, Then(one, t)) = Then(Then(o, one), t)
      BY <1>3, <2>1, <2>3, Regroup
  <2> QED BY <2>2, <2>4, <2>5
<1> DEFINE r == <<>>
<1>12. r \in Seq(FrameOut) /\ owed' = Then(owed, r)
    BY <1>1, <1>4, ThenEmpty
<1>13. Then(Out(y), posted') = Then(Then(Out(c), posted), r)
  <2>1. Then(Out(c), posted) \in Seq(FrameOut)
      BY <1>1, ThenFrames
  <2>2. Then(Then(Out(c), posted), r) = Then(Out(c), posted)
      BY <2>1, ThenEmpty
  <2> QED BY <1>4, <1>9, <1>11, <2>2 DEF Carries
<1>14. (y.open => c.open) /\ r = <<>> /\ posted' \in Seq(FrameOut)
    BY <1>3, <1>4, <1>7, <1>9 DEF Carries
<1> HIDE DEF y, r
<1> QED BY <1>1, <1>4, <1>9, <1>10, <1>12, <1>13, <1>14, Sends

LEMMA WriteSucceedsSends == ASSUME Inv, Queued, WriteSucceeds PROVE Queued' /\ SendStep
<1> DEFINE y == IF c.closeConn THEN WriteEnded(c) ELSE Written(c)
<1>1. /\ Good(c) /\ ~c.deleted /\ c.write = "taken" /\ c.state # "new"
      /\ Becomes(y) /\ UNCHANGED <<Linked, posted, owed>>
    BY DEF WriteSucceeds, Inv, TypeOK, Good, Queued, Linked
<1>2. Good(y) /\ y.state = c.state /\ Carries(c, y) /\ Ended(y)
    BY <1>1, WriteEndedGood, WrittenGood, WriteEndedEnds, WrittenCarries
<1> HIDE DEF y
<1> QED BY <1>1, <1>2, SendsNothing

\* A write fails only once the connection is cut, when nothing need be kept.
LEMMA WriteFailsSends == ASSUME Inv, Queued, WriteFails PROVE Queued' /\ SendStep
<1> DEFINE i == [c EXCEPT !.write = "idle"]
           y == IF c.deleted THEN i ELSE WriteEnded(c)
<1>1. /\ Good(c) /\ c \in Object /\ c.write = "started" /\ c.state # "new"
      /\ ~(c.open /\ Linked) /\ UNCHANGED <<Linked, posted, owed>>
    BY DEF WriteFails, Inv, TypeOK, Good, Queued, Linked
<1>2. c' = y /\ UNCHANGED tx
    BY <1>1 DEF WriteFails, Becomes
<1>3. /\ y.state = c.state /\ y.open = c.open /\ Ended(y) /\ (c.deleted => y.deleted)
  <2>1. CASE c.deleted
    <3>1. y = i
        BY <2>1
    <3>2. /\ i.state = c.state /\ i.open = c.open /\ i.deleted = c.deleted
          /\ i.write = "idle"
        BY <1>1 DEF Object
    <3> HIDE DEF i, y
    <3> QED BY <3>1, <3>2 DEF Ended
  <2>2. CASE ~c.deleted
      BY <1>1, <2>2, WriteEndedGood, WriteEndedEnds
  <2> QED BY <2>1, <2>2
<1> HIDE DEF y
<1>4. Queued'
    BY <1>1, <1>2, <1>3 DEF Queued
<1>5. IsPrefix(tx, tx')
    BY <1>2, QueuedTypes, PrefixItself
<1> QED BY <1>1, <1>2, <1>3, <1>4, <1>5 DEF SendStep

LEMMA KernelTakesSends == ASSUME Inv, Queued, KernelTakes PROVE Queued' /\ SendStep
<1>1. /\ Good(c) /\ ~c.deleted /\ c.state # "new" /\ Becomes(c) /\ Ended(c)
      /\ UNCHANGED <<Linked, posted, owed>>
    BY QueuedTypes DEF KernelTakes, Becomes, Queued, Ended, Linked
<1>2. Carries(c, c)
    BY DEF Carries
<1> QED BY <1>1, <1>2, SendsNothing

LEMMA PeerSendStep ==
    ASSUME Inv, Queued, PeerSends \/ PeerLeaves \/ UNCHANGED vars
    PROVE  Queued' /\ SendStep
<1>1. UNCHANGED <<c, posted, tx, owed>>
    BY DEF PeerSends, PeerLeaves, vars
<1>2. Linked' => Linked
  <2>1. CASE PeerSends \/ UNCHANGED vars
      BY <2>1 DEF PeerSends, Linked, vars
  <2>2. CASE PeerLeaves
      BY <2>2 DEF PeerLeaves, Here, Linked
  <2> QED BY <2>1, <2>2
<1>3. IsPrefix(tx, tx')
    BY <1>1, QueuedTypes, PrefixItself
<1> QED BY <1>1, <1>2, <1>3 DEF Queued, SendStep, Ended
-----------------------------------------------------------------------------
LEMMA QueuedInit == Init => Queued
<1> SUFFICES ASSUME Init PROVE Queued
    OBVIOUS
<1>1. /\ tx = <<>> /\ owed = <<>> /\ posted = <<>>
      /\ c.queue = <<>> /\ c.sending = <<>> /\ c.write = "idle" /\ ~c.deleted
    BY DEF Init
<1>2. <<>> \in Seq(FrameOut) /\ Then(<<>>, <<>>) = <<>>
    BY ThenNone
<1>3. Out(c) = <<>> /\ IsPrefix(tx, owed)
    BY <1>1, <1>2, PrefixItself DEF Out
<1> QED BY <1>1, <1>2, <1>3 DEF Queued, Ended

LEMMA QueuedStep == ASSUME Inv, Queued, [Next]_vars PROVE Queued' /\ SendStep
<1>1. CASE Start
    BY <1>1, StartSends
<1>2. CASE ReadHeader \/ ReadHalfHeader \/ ReadLength \/ ReadMask
    BY <1>2, HeaderSends
<1>3. CASE ReadSome \/ ReadPart \/ ReadMessage
    BY <1>3, ReadSomeSends, ReadPartSends, ReadMessageSends
<1>4. CASE ReadPing \/ ReadPong \/ ReadClose \/ ReadFails
    BY <1>4, ReadPingSends, ReadPongSends, ReadCloseSends, ReadFailsSends
<1>5. CASE RunPosted
    BY <1>5, RunPostedSends
<1>6. CASE WriteSucceeds \/ WriteFails
    BY <1>6, WriteSucceedsSends, WriteFailsSends
<1>7. CASE KernelTakes
    BY <1>7, KernelTakesSends
<1>8. CASE PeerSends \/ PeerLeaves \/ UNCHANGED vars
    BY <1>8, PeerSendStep
<1> QED BY <1>1, <1>2, <1>3, <1>4, <1>5, <1>6, <1>7, <1>8 DEF Next, Reads, Writes

LEMMA QueuedHolds == Spec => []Queued
<1>1. Inv /\ Queued /\ [Next]_vars => Queued'
    BY QueuedStep
<1> QED BY <1>1, QueuedInit, InvHolds, PTL DEF Spec

\* What the server asked to send (send_text, the pongs, the close frames) reaches the kernel in
\* that order and nothing twice, for any frames and any outcomes of onmessage; and as long as
\* the connection is up nothing of it is lost between sending_buffers_, write_buffers_ and
\* what was posted.
THEOREM RepliesSafe == Spec => []RepliesInOrder
<1>1. Inv /\ Queued => RepliesInOrder
  <2> SUFFICES ASSUME Inv, Queued, Linked, c.open
               PROVE  tx \o Unsent \o c.queue \o posted = owed
      BY DEF RepliesInOrder, Queued
  <2>1. /\ tx \in Seq(FrameOut) /\ posted \in Seq(FrameOut)
        /\ Unsent \in Seq(FrameOut) /\ c.queue \in Seq(FrameOut)
      BY QueuedTypes DEF Object, Unsent
  <2>2. Out(c) = Then(Unsent, c.queue) /\ Then(tx, Then(Out(c), posted)) = owed
      BY DEF Queued, Out, Unsent
  <2>3. Then(tx, Then(Unsent, c.queue)) = Then(Then(tx, Unsent), c.queue)
      BY <2>1, Regroup
  <2>4. Then(Unsent, c.queue) \in Seq(FrameOut)
      BY <2>1, ThenFrames
  <2>5. Then(Then(Then(tx, Unsent), c.queue), posted) = owed
      BY <2>1, <2>2, <2>3, <2>4, Regroup
  <2> QED BY <2>5 DEF Then
<1> QED BY <1>1, QueuedHolds, InvHolds, PTL

\* The channel's prefixes are these prefixes.
LEMMA ChannelPrefix == \A s, t : IsPrefix(s, t) => Channel!IsPrefix(s, t)
    BY DEF IsPrefix, Channel!IsPrefix

\* The connection implements the channel of AnswerChannel: no handler of it delivers what was
\* not asked for, reorders, repeats, delivers once the connection is cut, or asks for anything
\* once the object is deleted.
THEOREM ImplementsChannel == Spec => IsChannel
<1>1. Init => Channel!Init
    BY DEF Init, Channel!Init, Life, Linked
<1>2. ASSUME Inv, Queued, [Next]_vars PROVE [Channel!Next]_Channel!vars
  <2>1. Queued' /\ SendStep
      BY <1>2, QueuedStep
  <2>2. CASE c.deleted
    <3>1. UNCHANGED <<owed, tx, Life>>
        BY <2>1, <2>2 DEF SendStep, Life
    <3> QED BY <3>1 DEF Channel!vars
  <2>3. CASE ~c.deleted
    <3>1. Life # "over"
        BY <2>3 DEF Life
    <3>2. Channel!Ask
      <4>1. CASE owed' = owed
          BY <4>1 DEF Channel!Ask
      <4>2. CASE \E f \in FrameOut : owed' = Append(owed, f)
        <5>1. PICK f \in FrameOut : owed' = Append(owed, f)
            BY <4>2
        <5>2. owed \in Seq(FrameOut) /\ <<f>> \in Seq(FrameOut)
            BY <1>2, QueuedTypes
        <5>3. owed' = owed \o <<f>> /\ Len(owed') = Len(owed) + 1
            BY <5>1, <5>2, AppendIsConcat, AppendProperties
        <5>4. IsPrefix(owed, owed \o <<f>>)
            BY <5>2, PrefixOfConcat
        <5> QED BY <5>3, <5>4, ChannelPrefix DEF Channel!Ask
      <4> QED BY <2>1, <4>1, <4>2 DEF SendStep
    <3>3. Channel!Deliver
      <4>1. CASE tx' = tx
          BY <4>1 DEF Channel!Deliver
      <4>2. CASE tx' # tx
        <5>1. Life = "live"
            BY <2>1, <2>3, <4>2 DEF SendStep, Life
        <5>2. IsPrefix(tx, tx') /\ IsPrefix(tx', owed')
            BY <2>1 DEF SendStep, Queued
        <5> QED BY <5>1, <5>2, ChannelPrefix DEF Channel!Deliver
      <4> QED BY <4>1, <4>2
    <3>4. Channel!Age
        BY <2>1, <2>3 DEF SendStep, Life, Channel!Age
    <3> QED BY <3>1, <3>2, <3>3, <3>4 DEF Channel!Next
  <2> QED BY <2>2, <2>3
<1>3. Inv /\ Queued /\ [Next]_vars => [Channel!Next]_Channel!vars
    BY <1>2
<1> QED BY <1>1, <1>3, InvHolds, QueuedHolds, PTL DEF Spec, IsChannel, Channel!Spec
-----------------------------------------------------------------------------
(* How often onclose is called: once by the object itself, and by the writes to come. *)

InFlight(x) == IF x.write = "idle" THEN 0 ELSE 1
Waiting(x) == IF x.queue = <<>> THEN 0 ELSE 1
Ending(x) == IF x.closeConn THEN InFlight(x) ELSE 0

\* No handler is noted yet: there are r calls of the object's own to come and p frames posted, o
\* is what was asked for and b says whether the peer is there.  Each write to come may call once;
\* while the peer is there, only the writes from the close frame on may.
Early(x, r, p, o, b) ==
    /\ ~x.closeCalled /\ ~x.recvClose
    /\ x.closes + InFlight(x) + Waiting(x) + p + r <= 1 + Len(o)
    /\ b => /\ x.open \/ x.closeConn
            /\ ~x.sentClose => x.closes = 0 /\ ~x.closeConn
            /\ x.sentClose =>
                  \E k \in 1 .. Len(o) :
                      /\ o[k] = CloseFrame
                      /\ x.closes + Ending(x) + Waiting(x) + p <= Len(o) - k + 1

\* The handler is noted: no call is to come.
Noted(x, o, b) ==
    /\ x.closeCalled /\ x.closes <= 1 + Len(o)
    /\ b => \E k \in 1 .. Len(o) : o[k] = CloseFrame /\ x.closes <= Len(o) - k + 2

\* The read in flight, or the one start() will begin, may fail or find the close frame.
Own(x) == IF x.state = "new" \/ x.isReading THEN 1 ELSE 0

\* The inductive invariant behind OncloseBounded.
Calls == IF c.closeCalled THEN Noted(c, owed, Here)
         ELSE Early(c, Own(c), Len(posted), owed, Here)

\* The objects x and y agree in all that counts here.
SameCount(x, y) ==
    /\ y.closes = x.closes /\ y.closeCalled = x.closeCalled
    /\ y.recvClose = x.recvClose /\ y.sentClose = x.sentClose
    /\ y.closeConn = x.closeConn /\ y.open = x.open
    /\ InFlight(y) = InFlight(x) /\ Waiting(y) = Waiting(x)

LEMMA SameEarly ==
    ASSUME NEW x, NEW y, SameCount(x, y), NEW r, NEW p, NEW o, NEW b, Early(x, r, p, o, b)
    PROVE  Early(y, r, p, o, b)
    BY DEF SameCount, Early, Ending

\* One more frame is asked for.
LEMMA Longer ==
    ASSUME NEW o \in Seq(FrameOut), NEW f \in FrameOut
    PROVE  /\ Append(o, f) \in Seq(FrameOut) /\ Len(Append(o, f)) = Len(o) + 1
           /\ Len(o) \in Nat /\ Append(o, f)[Len(o) + 1] = f
           /\ \A k \in 1 .. Len(o) : k \in 1 .. Len(o) + 1 /\ Append(o, f)[k] = o[k]
    OBVIOUS

LEMMA NotedLonger ==
    ASSUME NEW x \in Object, NEW o \in Seq(FrameOut), NEW f \in FrameOut, NEW b, Noted(x, o, b)
    PROVE  Noted(x, Append(o, f), b)
<1>1. x.closes \in Nat
    BY DEF Object
<1>2. b => \E k \in 1 .. Len(o) + 1 :
              Append(o, f)[k] = CloseFrame /\ x.closes <= Len(o) + 1 - k + 2
  <2>1. SUFFICES ASSUME b
                 PROVE  \E k \in 1 .. Len(o) + 1 :
                           Append(o, f)[k] = CloseFrame /\ x.closes <= Len(o) + 1 - k + 2
      OBVIOUS
  <2>2. PICK k \in 1 .. Len(o) : o[k] = CloseFrame /\ x.closes <= Len(o) - k + 2
      BY <2>1 DEF Noted
  <2>3. k \in 1 .. Len(o) + 1 /\ Append(o, f)[k] = CloseFrame /\ x.closes <= Len(o) + 1 - k + 2
      BY <1>1, <2>2, Longer
  <2> QED BY <2>3
<1> QED BY <1>1, <1>2, Longer DEF Noted

LEMMA EarlyLonger ==
    ASSUME NEW x \in Object, NEW o \in Seq(FrameOut), NEW f \in FrameOut, NEW b,
           NEW r \in Nat, NEW p \in Nat, NEW q \in Nat, q <= p + 1, Early(x, r, p, o, b)
    PROVE  Early(x, r, q, Append(o, f), b)
<1>1. x.closes \in Nat /\ InFlight(x) \in Nat /\ Waiting(x) \in Nat /\ Ending(x) \in Nat
    BY DEF Object, InFlight, Waiting, Ending
<1>2. x.closes + InFlight(x) + Waiting(x) + q + r <= 1 + (Len(o) + 1)
    BY <1>1, Longer DEF Early
<1>3. b /\ x.sentClose =>
        \E k \in 1 .. Len(o) + 1 :
            /\ Append(o, f)[k] = CloseFrame
            /\ x.closes + Ending(x) + Waiting(x) + q <= Len(o) + 1 - k + 1
  <2>1. SUFFICES ASSUME b, x.sentClose
                 PROVE  \E k \in 1 .. Len(o) + 1 :
                            /\ Append(o, f)[k] = CloseFrame
                            /\ x.closes + Ending(x) + Waiting(x) + q <= Len(o) + 1 - k + 1
      OBVIOUS
  <2>2. PICK k \in 1 .. Len(o) :
            o[k] = CloseFrame /\ x.closes + Ending(x) + Waiting(x) + p <= Len(o) - k + 1
      BY <2>1 DEF Early
  <2>3. /\ k \in 1 .. Len(o) + 1 /\ Append(o, f)[k] = CloseFrame
        /\ x.closes + Ending(x) + Waiting(x) + q <= Len(o) + 1 - k + 1
      BY <1>1, <2>2, Longer
  <2> QED BY <2>3
<1> QED BY <1>2, <1>3, Longer DEF Early

\* A write is started from the queue: what waited is in flight.
LEMMA DoWriteCalls ==
    ASSUME NEW x \in Object, x.write = "idle" <=> x.sending = <<>>, x.queue # <<>>,
           NEW o \in Seq(FrameOut), NEW b, NEW r \in Nat, NEW p \in Nat, Early(x, r, p, o, b)
    PROVE  Early(DoWrite(x), r, p, o, b)
<1> DEFINE y == DoWrite(x)
<1>1. /\ y.closes = x.closes /\ y.closeCalled = x.closeCalled /\ y.recvClose = x.recvClose
      /\ y.sentClose = x.sentClose /\ y.closeConn = x.closeConn /\ y.open = x.open
    BY DEF DoWrite, Object
<1>2. /\ InFlight(x) \in Nat /\ Waiting(x) \in Nat /\ Ending(x) \in Nat
      /\ \/ /\ InFlight(y) = InFlight(x) /\ Waiting(y) = Waiting(x) /\ Ending(y) = Ending(x)
         \/ /\ InFlight(y) = 1 /\ Waiting(y) = 0 /\ Ending(y) \in {0, 1}
            /\ InFlight(x) = 0 /\ Waiting(x) = 1 /\ Ending(x) = 0
  <2>1. CASE x.sending = <<>>
    <3>1. y.write = "started" /\ y.queue = <<>> /\ x.write = "idle"
        BY <2>1 DEF DoWrite, Object
    <3> QED BY <3>1 DEF InFlight, Waiting, Ending
  <2>2. CASE x.sending # <<>>
    <3>1. y = x
        BY <2>2 DEF DoWrite
    <3> QED BY <3>1 DEF InFlight, Waiting, Ending
  <2> QED BY <2>1, <2>2
<1> HIDE DEF y
<1>3. x.closes \in Nat /\ Len(o) \in Nat
    BY DEF Object
<1>4. b /\ x.sentClose =>
        \E k \in 1 .. Len(o) : o[k] = CloseFrame
                               /\ x.closes + Ending(y) + Waiting(y) + p <= Len(o) - k + 1
  <2>1. SUFFICES ASSUME b, x.sentClose
                 PROVE  \E k \in 1 .. Len(o) :
                            /\ o[k] = CloseFrame
                            /\ x.closes + Ending(y) + Waiting(y) + p <= Len(o) - k + 1
      OBVIOUS
  <2>2. PICK k \in 1 .. Len(o) :
            o[k] = CloseFrame /\ x.closes + Ending(x) + Waiting(x) + p <= Len(o) - k + 1
      BY <2>1 DEF Early
  <2>3. x.closes + Ending(y) + Waiting(y) + p <= Len(o) - k + 1
      BY <1>2, <1>3, <2>2
  <2> QED BY <2>2, <2>3
<1>5. x.closes + InFlight(y) + Waiting(y) + p + r <= 1 + Len(o)
    BY <1>2, <1>3 DEF Early
<1>6. Early(y, r, p, o, b)
    BY <1>1, <1>4, <1>5 DEF Early
<1> QED BY <1>6 DEF y

\* do_read reads on: no close frame of the peer has come.
LEMMA DoReadCalls ==
    ASSUME NEW x \in Object, NEW o, NEW b, NEW r, NEW p, Early(x, r, p, o, b)
    PROVE  Early(DoRead(x), r, p, o, b) /\ DoRead(x) \in Object
<1>1. DoRead(x) = [x EXCEPT !.isReading = TRUE]
    BY DEF DoRead, Early
<1>2. SameCount(x, DoRead(x)) /\ DoRead(x) \in Object
    BY <1>1 DEF Object, SameCount, InFlight, Waiting
<1> QED BY <1>2, SameEarly

LEMMA NextFrameCalls ==
    ASSUME NEW x \in Object, NEW o, NEW b, NEW r, NEW p, Early(x, r, p, o, b)
    PROVE  Early(NextFrame(x), r, p, o, b) /\ NextFrame(x) \in Object
<1> DEFINE y == [x EXCEPT !.fragment = <<>>, !.state = "mini"]
<1>1. y \in Object
  <2>1. <<>> \in Bytes
      BY DEF Bytes
  <2> QED BY <2>1 DEF Object
<1>2. SameCount(x, y)
    BY DEF Object, SameCount, InFlight, Waiting
<1>3. NextFrame(x) = DoRead(y)
    BY DEF NextFrame
<1> HIDE DEF y
<1>4. Early(y, r, p, o, b)
    BY <1>2, SameEarly
<1> QED BY <1>1, <1>3, <1>4, DoReadCalls

LEMMA CloseType ==
    ASSUME NEW x \in Object
    PROVE  Close(x) \in Object
<1> DEFINE q == Append(x.queue, CloseFrame)
           n == IF x.recvClose /\ ~x.closeCalled THEN x.closes + 1 ELSE x.closes
           b == x.closeCalled \/ x.recvClose
           y == [x EXCEPT !.sentClose = TRUE, !.closeCalled = b, !.closes = n, !.queue = q]
<1>1. CloseFrame \in FrameOut /\ x.queue \in Seq(FrameOut) /\ x.closes \in Nat
    BY DEF CloseFrame, FrameOut, Object
<1>2. q \in Seq(FrameOut) /\ n \in Nat /\ b \in BOOLEAN /\ <<>> \in Seq(FrameOut)
    BY <1>1
<1>3. Close(x) = DoWrite(y)
    BY DEF Close
<1> HIDE DEF q, n, b
<1>4. y \in Object
    BY <1>2 DEF Object
<1> HIDE DEF y
<1> QED BY <1>2, <1>3, <1>4 DEF DoWrite, Object

\* The server closes first: its close frame is the one the bound counts from, unless there was one.
LEMMA CloseCalls ==
    ASSUME NEW x \in Object, x.write = "idle" <=> x.sending = <<>>,
           NEW o \in Seq(FrameOut), NEW b, NEW r \in Nat, Early(x, r, 0, o, b)
    PROVE  Early(Close(x), r, 0, Append(o, CloseFrame), b)
<1> DEFINE q == Append(x.queue, CloseFrame)
           y == [x EXCEPT !.sentClose = TRUE, !.queue = q]
           oo == Append(o, CloseFrame)
<1>1. CloseFrame \in FrameOut /\ x.queue \in Seq(FrameOut) /\ x.closes \in Nat
    BY DEF CloseFrame, FrameOut, Object
<1>2. q \in Seq(FrameOut) /\ q # <<>>
    BY <1>1, AppendProperties
<1>3. Close(x) = DoWrite(y)
  <2>1. [x EXCEPT !.sentClose = TRUE, !.closeCalled = @ \/ x.recvClose,
                  !.closes = IF x.recvClose /\ ~x.closeCalled THEN @ + 1 ELSE @,
                  !.queue = Append(@, CloseFrame)] = y
      BY DEF Object, Early
  <2> QED BY <2>1 DEF Close
<1> HIDE DEF q
<1>4. y \in Object
    BY <1>2 DEF Object
<1>5. /\ y.closes = x.closes /\ y.closeCalled = x.closeCalled /\ y.recvClose = x.recvClose
      /\ y.sentClose /\ y.closeConn = x.closeConn /\ y.open = x.open
      /\ y.write = x.write /\ y.sending = x.sending /\ y.queue = q
    BY DEF Object
<1> HIDE DEF y
<1>6. /\ InFlight(y) = InFlight(x) /\ Ending(y) = Ending(x) /\ Waiting(y) = 1
      /\ InFlight(x) \in Nat /\ Ending(x) \in Nat /\ Waiting(x) \in Nat
    BY <1>2, <1>5 DEF InFlight, Waiting, Ending
<1>7. /\ oo \in Seq(FrameOut) /\ Len(oo) = Len(o) + 1 /\ Len(o) \in Nat
      /\ oo[Len(o) + 1] = CloseFrame
      /\ \A k \in 1 .. Len(o) : k \in 1 .. Len(o) + 1 /\ oo[k] = o[k]
    BY <1>1, Longer
<1> HIDE DEF oo
<1>8. y.closes + InFlight(y) + Waiting(y) + 0 + r <= 1 + Len(oo)
    BY <1>1, <1>5, <1>6, <1>7 DEF Early
<1>9. b => \E k \in 1 .. Len(oo) :
              oo[k] = CloseFrame /\ y.closes + Ending(y) + Waiting(y) + 0 <= Len(oo) - k + 1
  <2>1. SUFFICES ASSUME b
                 PROVE  \E k \in 1 .. Len(oo) :
                           /\ oo[k] = CloseFrame
                           /\ y.closes + Ending(y) + Waiting(y) + 0 <= Len(oo) - k + 1
      OBVIOUS
  <2>2. CASE x.sentClose
    <3>1. PICK k \in 1 .. Len(o) :
              o[k] = CloseFrame /\ x.closes + Ending(x) + Waiting(x) + 0 <= Len(o) - k + 1
        BY <2>1, <2>2 DEF Early
    <3>2. /\ k \in 1 .. Len(oo) /\ oo[k] = CloseFrame
          /\ y.closes + Ending(y) + Waiting(y) + 0 <= Len(oo) - k + 1
        BY <1>1, <1>5, <1>6, <1>7, <3>1
    <3> QED BY <3>2
  <2>3. CASE ~x.sentClose
    <3>1. x.closes = 0 /\ Ending(x) = 0
        BY <2>1, <2>3 DEF Early, Ending
    <3>2. /\ Len(oo) \in 1 .. Len(oo) /\ oo[Len(oo)] = CloseFrame
          /\ y.closes + Ending(y) + Waiting(y) + 0 <= Len(oo) - Len(oo) + 1
        BY <1>5, <1>6, <1>7, <3>1
    <3> QED BY <3>2
  <2> QED BY <2>2, <2>3
<1>10. Early(y, r, 0, oo, b)
    BY <1>5, <1>8, <1>9 DEF Early
<1>11. Early(DoWrite(y), r, 0, oo, b)
    BY <1>2, <1>4, <1>5, <1>7, <1>10, DoWriteCalls
<1> QED BY <1>3, <1>11 DEF oo

\* What is left of a write that went well is in flight, and ends the connection after a close.
LEMMA WrittenCalls ==
    ASSUME NEW x \in Object, x.write # "idle", ~x.closeConn,
           NEW o \in Seq(FrameOut), NEW b, NEW r \in Nat, NEW p \in Nat, Early(x, r, p, o, b)
    PROVE  Early(Written(x), r, p, o, b)
<1> DEFINE y == [x EXCEPT !.sending = <<>>, !.write = "idle"]
           z == IF y.queue # <<>> THEN DoWrite(y) ELSE y
           n == z.closeConn \/ x.sentClose
           w == [z EXCEPT !.closeConn = n]
<1>1. y \in Object
  <2>1. <<>> \in Seq(FrameOut)
      OBVIOUS
  <2> QED BY <2>1 DEF Object
<1>2. /\ y.closes = x.closes /\ y.closeCalled = x.closeCalled /\ y.recvClose = x.recvClose
      /\ y.sentClose = x.sentClose /\ y.closeConn = x.closeConn /\ y.open = x.open
      /\ y.write = "idle" /\ y.sending = <<>> /\ y.queue = x.queue
    BY DEF Object
<1>3. Written(x) = w
    BY DEF Written
<1> HIDE DEF y
<1>4. /\ z.closes = x.closes /\ z.closeCalled = x.closeCalled /\ z.recvClose = x.recvClose
      /\ z.sentClose = x.sentClose /\ z.closeConn = x.closeConn /\ z.open = x.open
      /\ z \in Object
      /\ x.queue # <<>> => z.write = "started" /\ z.queue = <<>>
      /\ x.queue = <<>> => z.write = "idle" /\ z.queue = <<>>
  <2>1. CASE x.queue # <<>>
    <3>1. z = [y EXCEPT !.sending = y.queue, !.queue = <<>>, !.write = "started"]
        BY <1>2, <2>1 DEF DoWrite
    <3>2. <<>> \in Seq(FrameOut)
        OBVIOUS
    <3> HIDE DEF z
    <3> QED BY <1>1, <1>2, <2>1, <3>1, <3>2 DEF Object
  <2>2. CASE x.queue = <<>>
    <3>1. z = y
        BY <1>2, <2>2
    <3> QED BY <1>1, <1>2, <2>2, <3>1
  <2> QED BY <2>1, <2>2
<1> HIDE DEF z
<1>5. n = x.sentClose
    BY <1>4 DEF Object
<1> HIDE DEF n
<1>6. /\ w.closes = x.closes /\ w.closeCalled = x.closeCalled /\ w.recvClose = x.recvClose
      /\ w.sentClose = x.sentClose /\ w.closeConn = x.sentClose /\ w.open = x.open
      /\ w.write = z.write /\ w.queue = <<>>
    BY <1>4, <1>5 DEF Object
<1> HIDE DEF w
<1>7. /\ InFlight(w) = Waiting(x) /\ Waiting(w) = 0 /\ InFlight(x) = 1 /\ Ending(x) = 0
      /\ Ending(w) <= Waiting(x) /\ Ending(w) \in Nat /\ Waiting(x) \in Nat
    BY <1>4, <1>6 DEF InFlight, Waiting, Ending
<1>8. x.closes \in Nat /\ Len(o) \in Nat
    BY DEF Object
<1>9. w.closes + InFlight(w) + Waiting(w) + p + r <= 1 + Len(o)
    BY <1>6, <1>7, <1>8 DEF Early
<1>10. b /\ x.sentClose =>
        \E k \in 1 .. Len(o) : o[k] = CloseFrame
                               /\ w.closes + Ending(w) + Waiting(w) + p <= Len(o) - k + 1
  <2>1. SUFFICES ASSUME b, x.sentClose
                 PROVE  \E k \in 1 .. Len(o) :
                            /\ o[k] = CloseFrame
                            /\ w.closes + Ending(w) + Waiting(w) + p <= Len(o) - k + 1
      OBVIOUS
  <2>2. PICK k \in 1 .. Len(o) :
            o[k] = CloseFrame /\ x.closes + Ending(x) + Waiting(x) + p <= Len(o) - k + 1
      BY <2>1 DEF Early
  <2>3. w.closes + Ending(w) + Waiting(w) + p <= Len(o) - k + 1
      BY <1>6, <1>7, <1>8, <2>2
  <2> QED BY <2>2, <2>3
<1>11. Early(w, r, p, o, b)
    BY <1>6, <1>9, <1>10 DEF Early
<1> QED BY <1>3, <1>11

\* What check_destroy does to the counts of an object whose handler is not noted.
LEMMA DestroyCounts ==
    ASSUME NEW x \in Object, ~x.closeCalled
    PROVE  LET y == CheckDestroy(x)
           IN  /\ y.closes = x.closes + 1 /\ ~y.closeCalled /\ y.recvClose = x.recvClose
               /\ y.sentClose = x.sentClose /\ y.closeConn = x.closeConn /\ y.open = x.open
               /\ y.write = x.write /\ y.queue = x.queue
               /\ y.isReading = x.isReading /\ y.state = x.state
    BY DEF Object, CheckDestroy

\* A write that ends on a closing connection calls the handler and is in flight no more.
LEMMA WriteEndedCalls ==
    ASSUME NEW x \in Object, x.write # "idle", NEW o \in Seq(FrameOut), NEW b, b => x.closeConn,
           NEW r \in Nat, NEW p \in Nat, Early(x, r, p, o, b)
    PROVE  Early(WriteEnded(x), r, p, o, b)
<1> DEFINE y == [x EXCEPT !.sending = <<>>, !.write = "idle", !.closeConn = TRUE]
           z == CheckDestroy(y)
<1>1. y \in Object
  <2>1. <<>> \in Seq(FrameOut)
      OBVIOUS
  <2> QED BY <2>1 DEF Object
<1>2. /\ y.closes = x.closes /\ y.closeCalled = x.closeCalled /\ y.recvClose = x.recvClose
      /\ y.sentClose = x.sentClose /\ y.closeConn /\ y.open = x.open
      /\ y.write = "idle" /\ y.queue = x.queue
    BY DEF Object
<1>3. WriteEnded(x) = z /\ ~x.closeCalled
    BY DEF WriteEnded, Early
<1> HIDE DEF y
<1>4. /\ z.closes = x.closes + 1 /\ ~z.closeCalled /\ z.recvClose = x.recvClose
      /\ z.sentClose = x.sentClose /\ z.closeConn /\ z.open = x.open
      /\ z.write = "idle" /\ z.queue = x.queue
    BY <1>1, <1>2, <1>3, DestroyCounts
<1> HIDE DEF z
<1>5. /\ InFlight(z) = 0 /\ Ending(z) = 0 /\ Waiting(z) = Waiting(x) /\ InFlight(x) = 1
      /\ (b => Ending(x) = 1) /\ Waiting(x) \in Nat
    BY <1>4 DEF InFlight, Waiting, Ending
<1>6. x.closes \in Nat /\ Len(o) \in Nat
    BY DEF Object
<1>7. z.closes + InFlight(z) + Waiting(z) + p + r <= 1 + Len(o)
    BY <1>4, <1>5, <1>6 DEF Early
<1>8. b => \E k \in 1 .. Len(o) :
              o[k] = CloseFrame /\ z.closes + Ending(z) + Waiting(z) + p <= Len(o) - k + 1
  <2>1. SUFFICES ASSUME b
                 PROVE  \E k \in 1 .. Len(o) :
                           /\ o[k] = CloseFrame
                           /\ z.closes + Ending(z) + Waiting(z) + p <= Len(o) - k + 1
      OBVIOUS
  <2>2. PICK k \in 1 .. Len(o) :
            o[k] = CloseFrame /\ x.closes + Ending(x) + Waiting(x) + p <= Len(o) - k + 1
      BY <2>1 DEF Early
  <2>3. z.closes + Ending(z) + Waiting(z) + p <= Len(o) - k + 1
      BY <2>1, <1>4, <1>5, <1>6, <2>2
  <2> QED BY <2>2, <2>3
<1>9. b => x.sentClose
    BY DEF Early
<1>10. Early(z, r, p, o, b)
    BY <1>3, <1>4, <1>7, <1>8, <1>9 DEF Early
<1> QED BY <1>3, <1>10

\* The failed read is the object's own call.
LEMMA ReadFailedCalls ==
    ASSUME NEW x \in Object, NEW o \in Seq(FrameOut), NEW p \in Nat,
           Early(x, 1, p, o, FALSE)
    PROVE  Early(ReadFailed(x), 0, p, o, FALSE)
<1> DEFINE y == [x EXCEPT !.isReading = FALSE]
           z == CloseSocket(y)
           w == CheckDestroy(z)
<1>1. y \in Object
    BY DEF Object
<1>2. /\ y.closes = x.closes /\ y.closeCalled = x.closeCalled /\ y.recvClose = x.recvClose
      /\ y.write = x.write /\ y.queue = x.queue
    BY DEF Object
<1>3. ReadFailed(x) = w /\ ~x.closeCalled
    BY DEF ReadFailed, Early
<1> HIDE DEF y
<1>4. z \in Object /\ z.closes = x.closes /\ ~z.closeCalled /\ z.recvClose = x.recvClose
      /\ z.write = x.write /\ z.queue = x.queue
    BY <1>1, <1>2, <1>3 DEF CloseSocket, Object
<1> HIDE DEF z
<1>5. /\ w.closes = x.closes + 1 /\ ~w.closeCalled /\ w.recvClose = x.recvClose
      /\ w.write = x.write /\ w.queue = x.queue
    BY <1>4, DestroyCounts
<1> HIDE DEF w
<1>6. /\ InFlight(w) = InFlight(x) /\ Waiting(w) = Waiting(x)
      /\ InFlight(x) \in Nat /\ Waiting(x) \in Nat /\ x.closes \in Nat /\ Len(o) \in Nat
    BY <1>5 DEF InFlight, Waiting, Object
<1>7. w.closes + InFlight(w) + Waiting(w) + p + 0 <= 1 + Len(o)
    BY <1>5, <1>6 DEF Early
<1> QED BY <1>3, <1>5, <1>7 DEF Early

\* An object whose handler is noted calls it no more.
LEMMA EndNoted ==
    ASSUME NEW x \in Object, x.closeCalled
    PROVE  LET y == CheckDestroy(CloseSocket(x))
           IN  y.closes = x.closes /\ y.closeCalled /\ y \in Object
<1> DEFINE z == CloseSocket(x)
<1>1. z \in Object /\ z.closeCalled /\ z.closes = x.closes
    BY DEF CloseSocket, Object
<1> HIDE DEF z
<1>2. CheckDestroy(z) \in Object
  <2> DEFINE d == z.sending = <<>> /\ ~z.isReading
             n == IF z.closeCalled THEN z.closes ELSE z.closes + 1
  <2>1. z.closes \in Nat /\ n = z.closes
      BY <1>1 DEF Object
  <2>2. d \in BOOLEAN /\ n \in Nat
      BY <2>1
  <2>3. CheckDestroy(z) = [z EXCEPT !.closes = n, !.deleted = d]
      BY DEF CheckDestroy
  <2> HIDE DEF d, n
  <2> QED BY <1>1, <2>2, <2>3, EndedType
<1>3. CheckDestroy(z).closes = z.closes /\ CheckDestroy(z).closeCalled = z.closeCalled
    BY <1>1 DEF CheckDestroy, Object
<1> QED BY <1>1, <1>2, <1>3 DEF z

\* The peer closes first, and the answer to its close frame is the server's.
LEMMA ClosedByPeer ==
    ASSUME NEW x \in Object, ~x.closeCalled, x.recvClose,
           NEW o \in Seq(FrameOut), NEW b, x.closes <= Len(o), b => x.closes = 0
    PROVE  Noted(NextFrame(Close(x)), Append(o, CloseFrame), b) /\ NextFrame(Close(x)) \in Object
<1> DEFINE q == Append(x.queue, CloseFrame)
           n == x.closes + 1
           y == [x EXCEPT !.sentClose = TRUE, !.closeCalled = TRUE, !.closes = n, !.queue = q]
           z == DoWrite(y)
           w == [z EXCEPT !.fragment = <<>>, !.state = "mini"]
           v == CheckDestroy(CloseSocket(w))
           oo == Append(o, CloseFrame)
<1>1. CloseFrame \in FrameOut /\ x.queue \in Seq(FrameOut) /\ x.closes \in Nat
    BY DEF CloseFrame, FrameOut, Object
<1>2. q \in Seq(FrameOut) /\ n \in Nat
    BY <1>1
<1>3. Close(x) = z
    BY DEF Close, Object
<1> HIDE DEF q, n
<1>4. y \in Object /\ y.closeCalled /\ y.closes = n /\ y.sentClose /\ y.recvClose
    BY <1>2 DEF Object
<1> HIDE DEF y
<1>5. z \in Object /\ z.closeCalled /\ z.closes = n /\ z.sentClose /\ z.recvClose
  <2>1. <<>> \in Seq(FrameOut)
      OBVIOUS
  <2> QED BY <1>4, <2>1 DEF DoWrite, Object
<1> HIDE DEF z
<1>6. w \in Object /\ w.closeCalled /\ w.closes = n /\ w.sentClose /\ w.recvClose
  <2>1. <<>> \in Bytes
      BY DEF Bytes
  <2> QED BY <1>5, <2>1 DEF Object
<1>7. NextFrame(z) = DoRead(w)
    BY DEF NextFrame
<1> HIDE DEF w
<1>8. NextFrame(z) = v
    BY <1>6, <1>7 DEF DoRead
<1>9. v.closes = n /\ v.closeCalled /\ v \in Object
    BY <1>6, EndNoted
<1> HIDE DEF v
<1>10. Len(oo) = Len(o) + 1 /\ Len(o) \in Nat /\ oo[Len(o) + 1] = CloseFrame
    BY <1>1, Longer
<1> HIDE DEF oo
<1>11. Len(oo) \in 1 .. Len(oo) /\ oo[Len(oo)] = CloseFrame /\ (b => n <= Len(oo) - Len(oo) + 2)
    BY <1>10 DEF n
<1>12. n <= 1 + Len(oo)
    BY <1>1, <1>10 DEF n
<1>13. Noted(v, oo, b)
    BY <1>9, <1>11, <1>12 DEF Noted
<1> QED BY <1>3, <1>8, <1>9, <1>13 DEF oo

\* The peer answers the server's close frame.
LEMMA ClosedByServer ==
    ASSUME NEW x \in Object, ~x.closeCalled, NEW o \in Seq(FrameOut), NEW b, x.closes <= Len(o),
           b => \E k \in 1 .. Len(o) : o[k] = CloseFrame /\ x.closes <= Len(o) - k + 1
    PROVE  Noted(ReceiveLastClose(x), o, b) /\ ReceiveLastClose(x) \in Object
<1> DEFINE n == x.closes + 1
           y == [x EXCEPT !.closeCalled = TRUE, !.closes = n]
           z == CheckDestroy(CloseSocket(y))
<1>1. x.closes \in Nat /\ n \in Nat /\ Len(o) \in Nat
    BY DEF Object
<1>2. ReceiveLastClose(x) = z
    BY DEF ReceiveLastClose, Object
<1>3. y \in Object /\ y.closeCalled /\ y.closes = n
    BY <1>1 DEF Object
<1> HIDE DEF y
<1>4. z \in Object /\ z.closeCalled /\ z.closes = x.closes + 1
    BY <1>3, EndNoted
<1> HIDE DEF z
<1>5. b => \E k \in 1 .. Len(o) : o[k] = CloseFrame /\ z.closes <= Len(o) - k + 2
  <2>1. SUFFICES ASSUME b
                 PROVE  \E k \in 1 .. Len(o) : o[k] = CloseFrame /\ z.closes <= Len(o) - k + 2
      OBVIOUS
  <2>2. PICK k \in 1 .. Len(o) : o[k] = CloseFrame /\ x.closes <= Len(o) - k + 1
      BY <2>1
  <2> QED BY <1>1, <1>4, <2>2
<1>6. Noted(z, o, b)
    BY <1>1, <1>4, <1>5 DEF Noted
<1> QED BY <1>2, <1>4, <1>6

LEMMA PayloadCounts ==
    ASSUME Good(c), NEW n \in Nat, Early(c, 1, 0, owed, Here), WithPayload(n) \in Object
    PROVE  /\ Early(WithPayload(n), 1, 0, owed, Here)
           /\ WithPayload(n).closeCalled = c.closeCalled /\ WithPayload(n).closes = c.closes
           /\ WithPayload(n).sentClose = c.sentClose
           /\ WithPayload(n).write = c.write /\ WithPayload(n).sending = c.sending
<1> DEFINE r == c.remaining - n
           f == c.fragment \o [k \in 1 .. n |-> <<Head(wire).id, Len(c.fragment) + k>>]
           y == [c EXCEPT !.isReading = FALSE, !.remaining = r, !.fragment = f]
<1>1. WithPayload(n) = y
    BY DEF WithPayload
<1> HIDE DEF r, f
<1>2. /\ SameCount(c, y) /\ y.closeCalled = c.closeCalled /\ y.closes = c.closes
      /\ y.sentClose = c.sentClose /\ y.write = c.write /\ y.sending = c.sending
    BY DEF Good, Object, SameCount, InFlight, Waiting
<1> HIDE DEF y
<1> QED BY <1>1, <1>2, SameEarly
-----------------------------------------------------------------------------
\* A step that makes the object y, be its write accepted or not.
LEMMA Settles ==
    ASSUME NEW y \in Object, Becomes(y), NEW r, Early(y, r, Len(posted'), owed', Here'),
           \/ r = 1
           \/ r = 0 /\ y.state # "new" /\ ~y.isReading,
           Len(posted') \in Nat, Len(owed') \in Nat
    PROVE  Calls'
<1>1. SameCount(y, c') /\ c'.state = y.state /\ c'.isReading = y.isReading
  <2>1. CASE c' = y
      BY <2>1 DEF SameCount
  <2>2. CASE y.write = "started" /\ c' = [y EXCEPT !.write = "taken"]
      BY <2>2 DEF SameCount, InFlight, Waiting, Object
  <2> QED BY <2>1, <2>2 DEF Becomes
<1>2. Early(c', r, Len(posted'), owed', Here')
    BY <1>1, SameEarly
<1>3. y.closes \in Nat /\ InFlight(y) \in Nat /\ Waiting(y) \in Nat
    BY DEF Object, InFlight, Waiting
<1>4. Own(c') \in {0, 1} /\ (r = 0 => Own(c') = 0)
    BY <1>1 DEF Own
<1>5. c'.closes = y.closes /\ InFlight(c') = InFlight(y) /\ Waiting(c') = Waiting(y)
    BY <1>1 DEF SameCount
<1>6. c'.closes + InFlight(c') + Waiting(c') + Len(posted') + Own(c') <= 1 + Len(owed')
    BY <1>2, <1>3, <1>4, <1>5 DEF Early
<1>7. Early(c', Own(c'), Len(posted'), owed', Here')
    BY <1>2, <1>6 DEF Early
<1>8. ~c'.closeCalled
    BY <1>7 DEF Early
<1>9. Own(c)' = Own(c')
    BY DEF Own
<1> QED BY <1>7, <1>8, <1>9 DEF Calls

LEMMA SettlesNoted ==
    ASSUME NEW y \in Object, Becomes(y), Noted(y, owed', Here')
    PROVE  Calls'
<1>1. c'.closes = y.closes /\ c'.closeCalled = y.closeCalled
  <2>1. CASE c' = y
      BY <2>1
  <2>2. CASE c' = [y EXCEPT !.write = "taken"]
      BY <2>2 DEF Object
  <2> QED BY <2>1, <2>2 DEF Becomes
<1>2. Noted(c', owed', Here')
    BY <1>1 DEF Noted
<1>3. c'.closeCalled
    BY <1>2 DEF Noted
<1> QED BY <1>2, <1>3 DEF Calls

\* A peer that left does not come back.
LEMMA LeftForGood == ASSUME [Next]_vars PROVE Here' => Here
<1>1. CASE Start
    BY <1>1 DEF Start, Here
<1>2. CASE ReadHeader \/ ReadHalfHeader \/ ReadLength \/ ReadMask
    BY <1>2, Zenon DEF ReadHeader, ReadHalfHeader, ReadLength, ReadMask, Here
<1>3. CASE ReadSome \/ ReadPart \/ ReadMessage \/ ReadPing \/ ReadPong \/ ReadClose
    BY <1>3, Zenon DEF ReadSome, ReadPart, ReadMessage, ReadPing, ReadPong, ReadClose, Here
<1>4. CASE ReadFails \/ RunPosted \/ WriteSucceeds \/ WriteFails \/ KernelTakes
    BY <1>4, Zenon DEF ReadFails, RunPosted, WriteSucceeds, WriteFails, KernelTakes, Here
<1>5. CASE PeerSends \/ PeerLeaves \/ UNCHANGED vars
    BY <1>5 DEF PeerSends, PeerLeaves, Here, vars
<1> QED BY <1>1, <1>2, <1>3, <1>4, <1>5 DEF Next, Reads, Writes

\* No call is to come once the handler is noted, and what was asked for only grows.
LEMMA NotedStays ==
    ASSUME Inv, Queued, Calls, [Next]_vars, c.closeCalled
    PROVE  Calls'
<1>1. c'.closeCalled /\ c'.closes = c.closes
    BY Steps, Stutter DEF ObjectStep, Keeps
<1>2. /\ owed' = owed \/ \E f \in FrameOut : owed' = Append(owed, f)
      /\ Here' => Here
    BY QueuedStep, LeftForGood DEF SendStep
<1>3. Noted(c, owed, Here) /\ c \in Object /\ owed \in Seq(FrameOut)
    BY DEF Calls, Inv, TypeOK
<1>4. Noted(c, owed', Here)
    BY <1>2, <1>3, NotedLonger
<1>5. Noted(c', owed', Here')
    BY <1>1, <1>2, <1>4 DEF Noted
<1> QED BY <1>1, <1>5 DEF Calls

\* What a completion of a read finds when no handler is noted.
LEMMA ReadingCalls ==
    ASSUME Inv, Calls, ~c.closeCalled, NEW s, MayRead(s)
    PROVE  /\ Early(c, 1, 0, owed, Here) /\ Len(posted) = 0 /\ owed \in Seq(FrameOut)
           /\ c \in Object /\ Good(c) /\ (c.write = "idle" <=> c.sending = <<>>)
<1>1. c.isReading /\ ~c.deleted /\ posted = <<>>
    BY DEF MayRead
<1>2. Own(c) = 1 /\ Len(posted) = 0
    BY <1>1 DEF Own
<1> QED BY <1>1, <1>2 DEF Calls, Inv, TypeOK, Good

\* One lemma for each action, from an object whose handler is not noted.

LEMMA StartCalls ==
    ASSUME Inv, Queued, Calls, ~c.closeCalled, Start
    PROVE  Calls'
<1> DEFINE q == <<Hello>>
           x == [c EXCEPT !.state = "mini", !.queue = q]
           y == DoWrite(x)
           z == [y EXCEPT !.deleted = TRUE, !.open = FALSE]
<1>1. /\ c \in Object /\ posted = <<>> /\ owed = <<>> /\ c.queue = <<>>
      /\ c.sending = <<>> /\ c.write = "idle" /\ Early(c, 1, 0, owed, Here)
  <2>1. c.state = "new" /\ posted = <<>> /\ Len(posted) = 0
      BY DEF Start, Inv
  <2>2. Own(c) = 1
      BY <2>1 DEF Own
  <2> QED BY <2>1, <2>2 DEF Inv, TypeOK, Queued, Calls
<1>2. /\ q \in Seq(FrameOut) /\ Hello \in FrameOut /\ q # <<>> /\ owed' = q /\ Len(q) = 1
      /\ posted' = <<>> /\ Len(posted') = 0 /\ q = Append(owed, Hello)
    BY <1>1 DEF Hello, FrameOut, Start
<1>3. \/ Becomes(DoRead(y)) /\ UNCHANGED Here
      \/ Becomes(z) /\ ~Here'
    BY DEF Start, Here
<1>4. x \in Object
    BY <1>1, <1>2 DEF Object
<1>5. /\ x.closes = c.closes /\ x.closeCalled = c.closeCalled /\ x.recvClose = c.recvClose
      /\ x.sentClose = c.sentClose /\ x.closeConn = c.closeConn /\ x.open = c.open
      /\ x.write = "idle" /\ x.sending = <<>> /\ x.queue = q
    BY <1>1 DEF Object
<1> HIDE DEF x
<1>6. Early(x, 1, 0, q, Here)
  <2>1. /\ InFlight(x) = 0 /\ InFlight(c) = 0 /\ Waiting(x) = 1 /\ Waiting(c) = 0
        /\ Ending(x) = 0 /\ Ending(c) = 0
      BY <1>1, <1>2, <1>5 DEF InFlight, Waiting, Ending
  <2>2. c.closes = 0 /\ Len(owed) = 0
    <3>1. c.closes \in Nat /\ Len(owed) = 0
        BY <1>1 DEF Object
    <3> QED BY <1>1, <2>1, <3>1 DEF Early
  <2>3. Here => ~c.sentClose
      BY <1>1, <2>2 DEF Early
  <2> QED BY <1>1, <1>2, <1>5, <2>1, <2>2, <2>3 DEF Early
<1>7. Early(y, 1, 0, q, Here) /\ y \in Object
  <2>1. Early(y, 1, 0, q, Here)
      BY <1>2, <1>4, <1>5, <1>6, DoWriteCalls
  <2>2. <<>> \in Seq(FrameOut)
      OBVIOUS
  <2> QED BY <1>4, <2>1, <2>2 DEF DoWrite, Object
<1> HIDE DEF y
<1>8. CASE Becomes(DoRead(y)) /\ UNCHANGED Here
  <2>1. Early(DoRead(y), 1, Len(posted'), owed', Here') /\ DoRead(y) \in Object
      BY <1>2, <1>7, <1>8, DoReadCalls
  <2> QED BY <1>2, <1>8, <2>1, Settles
<1>9. CASE Becomes(z) /\ ~Here'
  <2>1. /\ z \in Object /\ z.closes = y.closes /\ z.closeCalled = y.closeCalled
        /\ z.recvClose = y.recvClose /\ InFlight(z) = InFlight(y) /\ Waiting(z) = Waiting(y)
      BY <1>7 DEF Object, InFlight, Waiting
  <2> HIDE DEF z
  <2>2. Early(z, 1, Len(posted'), owed', Here')
      BY <1>2, <1>7, <1>9, <2>1 DEF Early
  <2> QED BY <1>2, <1>9, <2>1, <2>2, Settles
<1> QED BY <1>3, <1>8, <1>9

LEMMA GoToCalls ==
    ASSUME Inv, Calls, ~c.closeCalled, NEW t, MayRead(t),
           NEW s \in {"len", "mask", "payload"}, NEW n \in Nat, GoTo(s, n),
           UNCHANGED <<Here, posted, owed>>
    PROVE  Calls'
<1> DEFINE x == [c EXCEPT !.isReading = FALSE, !.state = s, !.remaining = n]
<1>1. Early(c, 1, 0, owed, Here) /\ Len(posted) = 0 /\ owed \in Seq(FrameOut) /\ c \in Object
    BY ReadingCalls
<1>2. x \in Object /\ SameCount(c, x)
    BY <1>1 DEF Object, SameCount, InFlight, Waiting
<1>3. Becomes(DoRead(x))
    BY DEF GoTo
<1> HIDE DEF x
<1>4. Early(DoRead(x), 1, Len(posted'), owed', Here') /\ DoRead(x) \in Object
    BY <1>1, <1>2, SameEarly, DoReadCalls
<1> QED BY <1>1, <1>3, <1>4, Settles

LEMMA HeaderCalls ==
    ASSUME Inv, Calls, ~c.closeCalled, ReadHeader \/ ReadHalfHeader \/ ReadLength \/ ReadMask
    PROVE  Calls'
<1>1. CASE ReadHeader
  <2>1. MayRead("mini") /\ UNCHANGED <<Here, posted, owed>> /\ Head(wire).size \in Nat
      BY <1>1, Reading DEF ReadHeader, NumberedSet, Here
  <2> QED BY <1>1, <2>1, GoToCalls DEF ReadHeader
<1>2. CASE ReadHalfHeader
    BY <1>2, GoToCalls DEF ReadHalfHeader, Here
<1>3. CASE ReadLength
  <2>1. MayRead("len") /\ UNCHANGED <<Here, posted, owed>> /\ c.remaining \in Nat
      BY <1>3, Reading DEF ReadLength, Here
  <2> QED BY <1>3, <2>1, GoToCalls DEF ReadLength
<1>4. CASE ReadMask
  <2>1. MayRead("mask") /\ UNCHANGED <<Here, posted, owed>> /\ c.remaining \in Nat
      BY <1>4, Reading DEF ReadMask, Here
  <2> QED BY <1>4, <2>1, GoToCalls DEF ReadMask
<1> QED BY <1>1, <1>2, <1>3, <1>4

LEMMA ReadSomeCalls ==
    ASSUME Inv, Calls, ~c.closeCalled, ReadSome
    PROVE  Calls'
<1>1. PICK n \in 1 .. c.remaining : n < c.remaining /\ Becomes(DoRead(WithPayload(n)))
    BY DEF ReadSome
<1>2. MayRead("payload") /\ UNCHANGED <<Here, posted, owed>>
    BY DEF ReadSome, Here
<1>3. /\ Early(c, 1, 0, owed, Here) /\ Len(posted) = 0 /\ owed \in Seq(FrameOut) /\ Good(c)
      /\ ~c.deleted /\ wire \in Seq(NumberedSet) /\ wire # <<>> /\ c.remaining \in Nat
    BY <1>2, ReadingCalls, Reading
<1>4. n \in Nat /\ n <= c.remaining
    BY <1>1, <1>3
<1> DEFINE x == WithPayload(n)
<1>5. x \in Object
    BY <1>3, <1>4, WithPayloadGood DEF Good
<1>6. Early(x, 1, 0, owed, Here) /\ Becomes(DoRead(x))
    BY <1>1, <1>3, <1>4, <1>5, PayloadCounts
<1> HIDE DEF x
<1>7. Early(DoRead(x), 1, Len(posted'), owed', Here') /\ DoRead(x) \in Object
    BY <1>2, <1>3, <1>5, <1>6, DoReadCalls
<1> QED BY <1>2, <1>3, <1>6, <1>7, Settles

\* The object when the last byte of a frame is there.
LEMMA LastReadCalls ==
    ASSUME Inv, Calls, ~c.closeCalled, NEW op, LastRead(op)
    PROVE  LET x == WithPayload(c.remaining)
           IN  /\ x \in Object /\ Early(x, 1, 0, owed, Here) /\ Len(posted) = 0
               /\ owed \in Seq(FrameOut) /\ (x.write = "idle" <=> x.sending = <<>>)
               /\ x.sentClose = c.sentClose
<1>1. MayRead("payload")
    BY DEF LastRead
<1>2. /\ Early(c, 1, 0, owed, Here) /\ Len(posted) = 0 /\ owed \in Seq(FrameOut) /\ Good(c)
      /\ (c.write = "idle" <=> c.sending = <<>>) /\ c.remaining \in Nat
    BY <1>1, ReadingCalls, Reading
<1>3. WithPayload(c.remaining) \in Object
    BY LastReadGood DEF Good
<1> QED BY <1>2, <1>3, PayloadCounts

\* The step to the next frame from an object x that may have asked for a frame.
LEMMA NextFrameSettles ==
    ASSUME NEW x \in Object, Becomes(NextFrame(x)), Early(x, 1, Len(posted'), owed', Here'),
           Len(posted') \in Nat, Len(owed') \in Nat
    PROVE  Calls'
<1>1. Early(NextFrame(x), 1, Len(posted'), owed', Here') /\ NextFrame(x) \in Object
    BY NextFrameCalls
<1> QED BY <1>1, Settles

LEMMA MessageCounts ==
    ASSUME NEW x \in Object, NEW m \in Bytes, NEW r, NEW p, NEW o, NEW b, Early(x, r, p, o, b)
    PROVE  LET y == [x EXCEPT !.message = m]
           IN  /\ y \in Object /\ Early(y, r, p, o, b)
               /\ y.write = x.write /\ y.sending = x.sending
<1> DEFINE y == [x EXCEPT !.message = m]
<1>1. /\ y \in Object /\ SameCount(x, y) /\ y.write = x.write /\ y.sending = x.sending
    BY DEF Object, SameCount, InFlight, Waiting
<1> QED BY <1>1, SameEarly

LEMMA ReadPartCalls ==
    ASSUME Inv, Calls, ~c.closeCalled, ReadPart
    PROVE  Calls'
<1> DEFINE x == WithPayload(c.remaining)
           m == x.message \o x.fragment
           y == [x EXCEPT !.message = m]
<1>1. /\ x \in Object /\ Early(x, 1, 0, owed, Here) /\ Len(posted) = 0 /\ owed \in Seq(FrameOut)
    BY LastReadCalls DEF ReadPart
<1>2. Becomes(NextFrame(y)) /\ UNCHANGED <<Here, posted, owed>>
    BY DEF ReadPart, Here
<1> HIDE DEF x
<1>3. m \in Bytes
  <2>1. x.message \in Bytes /\ x.fragment \in Bytes
      BY <1>1 DEF Object
  <2> QED BY <2>1 DEF Bytes
<1> HIDE DEF m
<1>4. y \in Object /\ Early(y, 1, 0, owed, Here)
    BY <1>1, <1>3, MessageCounts
<1> HIDE DEF y
<1>5. Early(y, 1, Len(posted'), owed', Here') /\ Len(posted') \in Nat /\ Len(owed') \in Nat
    BY <1>1, <1>2, <1>4
<1> QED BY <1>2, <1>4, <1>5, NextFrameSettles

LEMMA ReadMessageCalls ==
    ASSUME Inv, Calls, ~c.closeCalled, ReadMessage
    PROVE  Calls'
<1> DEFINE x == WithPayload(c.remaining)
           m == Whole(x)
           none == <<>>
           y == [x EXCEPT !.message = none]
           z == [x EXCEPT !.message = m]
           answer == <<"reply", Len(handled) + 1>>
<1>1. /\ x \in Object /\ Early(x, 1, 0, owed, Here) /\ Len(posted) = 0 /\ posted = <<>>
      /\ owed \in Seq(FrameOut) /\ (x.write = "idle" <=> x.sending = <<>>)
      /\ ~x.isReading /\ x.state = "payload"
    BY LastReadCalls, LastReadGood DEF ReadMessage
<1>2. /\ \/ /\ posted' = Append(posted, answer) /\ owed' = Append(owed, answer)
            /\ Becomes(NextFrame(y))
         \/ Becomes(NextFrame(y)) /\ UNCHANGED <<posted, owed>>
         \/ /\ Becomes(NextFrame(Close(y))) /\ owed' = Append(owed, CloseFrame)
            /\ UNCHANGED posted
         \/ Becomes(z) /\ UNCHANGED <<posted, owed>>
      /\ UNCHANGED Here
    BY DEF ReadMessage, Here
<1> HIDE DEF x
<1>3. m \in Bytes /\ none \in Bytes
  <2>1. x.message \in Bytes /\ x.fragment \in Bytes
      BY <1>1 DEF Object
  <2> QED BY <2>1 DEF Bytes, Whole
<1> HIDE DEF m, none
<1>4. /\ y \in Object /\ Early(y, 1, 0, owed, Here)
      /\ (y.write = "idle" <=> y.sending = <<>>)
    BY <1>1, <1>3, MessageCounts
<1>5. z \in Object /\ Early(z, 1, 0, owed, Here)
    BY <1>1, <1>3, MessageCounts
<1> HIDE DEF y, z
<1>6. answer \in FrameOut /\ CloseFrame \in FrameOut
  <2>1. Len(handled) + 1 \in Nat
      BY DEF Inv, TypeOK
  <2> QED BY <2>1 DEF FrameOut, CloseFrame
<1> HIDE DEF answer
<1>7. CASE /\ posted' = Append(posted, answer) /\ owed' = Append(owed, answer)
           /\ Becomes(NextFrame(y))
  <2>1. Len(posted') = 1 /\ Len(owed') \in Nat
      BY <1>1, <1>6, <1>7, Longer
  <2>2. Early(y, 1, 1, owed', Here')
      BY <1>1, <1>2, <1>4, <1>6, <1>7, EarlyLonger
  <2> QED BY <1>4, <1>7, <2>1, <2>2, NextFrameSettles
<1>8. CASE Becomes(NextFrame(y)) /\ UNCHANGED <<posted, owed>>
  <2>1. Early(y, 1, Len(posted'), owed', Here') /\ Len(posted') \in Nat /\ Len(owed') \in Nat
      BY <1>1, <1>2, <1>4, <1>8
  <2> QED BY <1>4, <1>8, <2>1, NextFrameSettles
<1>9. CASE /\ Becomes(NextFrame(Close(y))) /\ owed' = Append(owed, CloseFrame)
           /\ UNCHANGED posted
  <2>1. Early(Close(y), 1, 0, owed', Here')
      BY <1>1, <1>2, <1>4, <1>9, CloseCalls
  <2>2. Close(y) \in Object
      BY <1>4, CloseType
  <2>3. Len(posted') = 0 /\ Len(owed') \in Nat
      BY <1>1, <1>6, <1>9, Longer
  <2> QED BY <1>9, <2>1, <2>2, <2>3, NextFrameSettles
<1>10. CASE Becomes(z) /\ UNCHANGED <<posted, owed>>
  <2>1. Early(z, 1, Len(posted'), owed', Here') /\ Len(posted') \in Nat /\ Len(owed') \in Nat
      BY <1>1, <1>2, <1>5, <1>10
  <2> QED BY <1>5, <1>10, <2>1, Settles
<1> QED BY <1>2, <1>7, <1>8, <1>9, <1>10

LEMMA ReadControlCalls ==
    ASSUME Inv, Calls, ~c.closeCalled, ReadPing \/ ReadPong
    PROVE  Calls'
<1> DEFINE x == WithPayload(c.remaining)
           pong == <<"pong", Head(wire).id>>
<1>1. PICK op \in {"ping", "pong"} : LastRead(op)
    BY DEF ReadPing, ReadPong
<1>2. /\ x \in Object /\ Early(x, 1, 0, owed, Here) /\ Len(posted) = 0 /\ posted = <<>>
      /\ owed \in Seq(FrameOut) /\ Head(wire).id \in Nat
    BY <1>1, LastReadCalls, LastReadGood
<1>3. /\ \/ posted' = Append(posted, pong) /\ owed' = Append(owed, pong)
         \/ UNCHANGED <<posted, owed>>
      /\ Becomes(NextFrame(x)) /\ UNCHANGED Here
    BY DEF ReadPing, ReadPong, Here
<1>4. pong \in FrameOut
    BY <1>2 DEF FrameOut
<1> HIDE DEF x, pong
<1>5. CASE posted' = Append(posted, pong) /\ owed' = Append(owed, pong)
  <2>1. Len(posted') = 1 /\ Len(owed') \in Nat
      BY <1>2, <1>4, <1>5, Longer
  <2>2. Early(x, 1, 1, owed', Here')
      BY <1>2, <1>3, <1>4, <1>5, EarlyLonger
  <2> QED BY <1>2, <1>3, <2>1, <2>2, NextFrameSettles
<1>6. CASE UNCHANGED <<posted, owed>>
  <2>1. Early(x, 1, Len(posted'), owed', Here') /\ Len(posted') \in Nat /\ Len(owed') \in Nat
      BY <1>2, <1>3, <1>6
  <2> QED BY <1>2, <1>3, <2>1, NextFrameSettles
<1> QED BY <1>3, <1>5, <1>6

LEMMA ReadCloseCalls ==
    ASSUME Inv, Calls, ~c.closeCalled, ReadClose
    PROVE  Calls'
<1> DEFINE w == WithPayload(c.remaining)
           x == [w EXCEPT !.recvClose = TRUE]
<1>1. /\ w \in Object /\ Early(w, 1, 0, owed, Here) /\ owed \in Seq(FrameOut)
    BY LastReadCalls DEF ReadClose
<1>2. /\ IF x.sentClose
         THEN Becomes(ReceiveLastClose(x)) /\ UNCHANGED owed
         ELSE Becomes(NextFrame(Close(x))) /\ owed' = Append(owed, CloseFrame)
      /\ UNCHANGED Here
    BY DEF ReadClose, Here
<1> HIDE DEF w
<1>3. /\ x \in Object /\ x.recvClose /\ x.closes = w.closes /\ x.closeCalled = w.closeCalled
      /\ x.sentClose = w.sentClose
    BY <1>1 DEF Object
<1> HIDE DEF x
<1>4. ~x.closeCalled /\ x.closes <= Len(owed)
  <2>1. w.closes \in Nat /\ InFlight(w) \in Nat /\ Waiting(w) \in Nat /\ Len(owed) \in Nat
      BY <1>1 DEF Object, InFlight, Waiting
  <2> QED BY <1>1, <1>3, <2>1 DEF Early
<1>5. CASE x.sentClose
  <2>1. Here => \E k \in 1 .. Len(owed) :
                   owed[k] = CloseFrame /\ x.closes <= Len(owed) - k + 1
    <3>1. SUFFICES ASSUME Here
                   PROVE  \E k \in 1 .. Len(owed) :
                              owed[k] = CloseFrame /\ x.closes <= Len(owed) - k + 1
        OBVIOUS
    <3>2. PICK k \in 1 .. Len(owed) :
              /\ owed[k] = CloseFrame
              /\ w.closes + Ending(w) + Waiting(w) + 0 <= Len(owed) - k + 1
        BY <1>1, <1>3, <1>5, <3>1 DEF Early
    <3>3. w.closes \in Nat /\ Ending(w) \in Nat /\ Waiting(w) \in Nat /\ Len(owed) \in Nat
        BY <1>1 DEF Object, Ending, InFlight, Waiting
    <3> QED BY <1>3, <3>2, <3>3
  <2>2. Noted(ReceiveLastClose(x), owed, Here) /\ ReceiveLastClose(x) \in Object
      BY <1>1, <1>3, <1>4, <2>1, ClosedByServer
  <2> QED BY <1>2, <1>5, <2>2, SettlesNoted
<1>6. CASE ~x.sentClose
  <2>1. Here => x.closes = 0
      BY <1>1, <1>3, <1>6 DEF Early
  <2>2. /\ Noted(NextFrame(Close(x)), Append(owed, CloseFrame), Here)
        /\ NextFrame(Close(x)) \in Object
      BY <1>1, <1>3, <1>4, <2>1, ClosedByPeer
  <2> QED BY <1>2, <1>6, <2>2, SettlesNoted
<1> QED BY <1>5, <1>6

LEMMA ReadFailsCalls ==
    ASSUME Inv, Calls, ~c.closeCalled, ReadFails
    PROVE  Calls'
<1> DEFINE y == ReadFailed(c)
<1>1. /\ Good(c) /\ c \in Object /\ ~c.deleted /\ c.isReading /\ posted = <<>> /\ ~Here
      /\ owed \in Seq(FrameOut) /\ c.state # "new" /\ Becomes(y)
      /\ UNCHANGED <<Here, posted, owed>>
    BY DEF ReadFails, Inv, TypeOK, Good, Here
<1>2. Early(c, 1, 0, owed, FALSE)
  <2>1. Own(c) = 1 /\ Len(posted) = 0
      BY <1>1 DEF Own
  <2> QED BY <2>1 DEF Calls, Early
<1>3. Early(y, 0, 0, owed, FALSE)
    BY <1>1, <1>2, ReadFailedCalls
<1>4. y \in Object /\ y.state # "new" /\ ~y.isReading
    BY <1>1, ReadFailedGood DEF Good
<1> HIDE DEF y
<1>5. Early(y, 0, Len(posted'), owed', Here') /\ Len(posted') \in Nat /\ Len(owed') \in Nat
    BY <1>1, <1>3 DEF Early
<1> QED BY <1>1, <1>4, <1>5, Settles

\* What was posted waits in the queue, or is in flight.
LEMMA RunPostedCalls ==
    ASSUME Inv, Calls, ~c.closeCalled, RunPosted
    PROVE  Calls'
<1> DEFINE q == Append(c.queue, Head(posted))
           x == [c EXCEPT !.queue = q]
           p == Len(posted) - 1
<1>1. /\ c \in Object /\ ~c.deleted /\ (c.write = "idle" <=> c.sending = <<>>)
      /\ posted \in Seq(FrameOut) /\ posted # <<>> /\ c.isReading /\ owed \in Seq(FrameOut)
      /\ UNCHANGED <<Here, owed>> /\ posted' = Tail(posted) /\ Becomes(DoWrite(x))
    BY DEF RunPosted, Inv, TypeOK, Here
<1>2. Len(posted) \in Nat /\ p \in Nat /\ Len(posted') = p /\ Len(owed') \in Nat
    BY <1>1
<1>3. q \in Seq(FrameOut) /\ q # <<>>
  <2>1. c.queue \in Seq(FrameOut) /\ Head(posted) \in FrameOut
      BY <1>1 DEF Object
  <2> QED BY <2>1
<1>4. Early(c, 1, Len(posted), owed, Here)
  <2>1. Own(c) = 1
      BY <1>1 DEF Own
  <2> QED BY <2>1 DEF Calls
<1> HIDE DEF q
<1>5. x \in Object
    BY <1>1, <1>3 DEF Object
<1>6. /\ x.closes = c.closes /\ x.closeCalled = c.closeCalled /\ x.recvClose = c.recvClose
      /\ x.sentClose = c.sentClose /\ x.closeConn = c.closeConn /\ x.open = c.open
      /\ x.write = c.write /\ x.sending = c.sending /\ x.queue = q
    BY <1>1 DEF Object
<1> HIDE DEF x
<1>7. /\ InFlight(x) = InFlight(c) /\ Ending(x) = Ending(c)
      /\ Waiting(x) = 1 /\ Len(posted) = p + 1
      /\ InFlight(c) \in Nat /\ Ending(c) \in Nat /\ Waiting(c) \in Nat
      /\ c.closes \in Nat /\ Len(owed) \in Nat
    BY <1>1, <1>2, <1>3, <1>6 DEF InFlight, Ending, Waiting, Object
<1> HIDE DEF p
<1>8. x.closes + InFlight(x) + Waiting(x) + p + 1 <= 1 + Len(owed)
    BY <1>2, <1>4, <1>6, <1>7 DEF Early
<1>9. Here /\ x.sentClose =>
        \E k \in 1 .. Len(owed) : owed[k] = CloseFrame
                                  /\ x.closes + Ending(x) + Waiting(x) + p <= Len(owed) - k + 1
  <2>1. SUFFICES ASSUME Here, x.sentClose
                 PROVE  \E k \in 1 .. Len(owed) :
                            /\ owed[k] = CloseFrame
                            /\ x.closes + Ending(x) + Waiting(x) + p <= Len(owed) - k + 1
      OBVIOUS
  <2>2. PICK k \in 1 .. Len(owed) :
            /\ owed[k] = CloseFrame
            /\ c.closes + Ending(c) + Waiting(c) + Len(posted) <= Len(owed) - k + 1
      BY <2>1, <1>4, <1>6 DEF Early
  <2>3. x.closes + Ending(x) + Waiting(x) + p <= Len(owed) - k + 1
      BY <1>2, <1>6, <1>7, <2>2
  <2> QED BY <2>2, <2>3
<1>10. Early(x, 1, p, owed, Here)
    BY <1>4, <1>6, <1>8, <1>9 DEF Early
<1>11. Early(DoWrite(x), 1, p, owed, Here) /\ DoWrite(x) \in Object
  <2>1. Early(DoWrite(x), 1, p, owed, Here)
      BY <1>1, <1>2, <1>3, <1>5, <1>6, <1>10, DoWriteCalls
  <2>2. <<>> \in Seq(FrameOut)
      OBVIOUS
  <2> QED BY <1>5, <2>1, <2>2 DEF DoWrite, Object
<1>12. Early(DoWrite(x), 1, Len(posted'), owed', Here') /\ Len(posted') \in Nat
    BY <1>1, <1>2, <1>11
<1> QED BY <1>1, <1>2, <1>11, <1>12, Settles

LEMMA WriteSucceedsCalls ==
    ASSUME Inv, Calls, ~c.closeCalled, WriteSucceeds
    PROVE  Calls'
<1> DEFINE y == IF c.closeConn THEN WriteEnded(c) ELSE Written(c)
           r == Own(c)
<1>1. /\ Good(c) /\ c \in Object /\ ~c.deleted /\ c.write # "idle" /\ Becomes(y)
      /\ owed \in Seq(FrameOut) /\ posted \in Seq(FrameOut)
      /\ UNCHANGED <<Here, posted, owed>>
    BY DEF WriteSucceeds, Inv, TypeOK, Good, Here
<1>2. Early(c, r, Len(posted), owed, Here) /\ Len(posted) \in Nat /\ Len(owed) \in Nat
    BY <1>1 DEF Calls
<1>3. r \in {0, 1} /\ r \in Nat /\ (r = 0 => c.state # "new" /\ ~c.isReading)
    BY DEF Own
<1> HIDE DEF r
<1>4. Early(y, r, Len(posted), owed, Here)
    BY <1>1, <1>2, <1>3, WriteEndedCalls, WrittenCalls
<1>5. y \in Object /\ y.isReading = c.isReading /\ y.state = c.state
    BY <1>1, WriteEndedGood, WrittenGood DEF Good
<1> HIDE DEF y
<1>6. Early(y, r, Len(posted'), owed', Here') /\ Len(posted') \in Nat /\ Len(owed') \in Nat
    BY <1>1, <1>2, <1>4
<1> QED BY <1>1, <1>3, <1>5, <1>6, Settles

\* A write fails on a closed socket or without the peer: then it may call the handler.
LEMMA WriteFailsCalls ==
    ASSUME Inv, Calls, ~c.closeCalled, WriteFails
    PROVE  Calls'
<1> DEFINE i == [c EXCEPT !.write = "idle"]
           y == IF c.deleted THEN i ELSE WriteEnded(c)
           r == Own(c)
<1>1. /\ Good(c) /\ c \in Object /\ c.write # "idle" /\ Becomes(y) /\ (~c.open \/ ~Here)
      /\ owed \in Seq(FrameOut) /\ posted \in Seq(FrameOut)
      /\ UNCHANGED <<Here, posted, owed>>
    BY DEF WriteFails, Inv, TypeOK, Good, Here, Linked
<1>2. Early(c, r, Len(posted), owed, Here) /\ Len(posted) \in Nat /\ Len(owed) \in Nat
    BY <1>1 DEF Calls
<1>3. r \in {0, 1} /\ r \in Nat /\ (r = 0 => c.state # "new" /\ ~c.isReading)
    BY DEF Own
<1>4. Here => c.closeConn
    BY <1>1, <1>2 DEF Early
<1> HIDE DEF r
<1>5. /\ Early(y, r, Len(posted), owed, Here)
      /\ y \in Object /\ y.isReading = c.isReading /\ y.state = c.state
  <2>1. CASE c.deleted
    <3>1. /\ i \in Object /\ i.isReading = c.isReading /\ i.state = c.state
          /\ i.closes = c.closes /\ i.closeCalled = c.closeCalled /\ i.recvClose = c.recvClose
          /\ i.sentClose = c.sentClose /\ i.closeConn = c.closeConn /\ i.open = c.open
          /\ i.write = "idle" /\ i.queue = c.queue
        BY <1>1 DEF Object
    <3> HIDE DEF i
    <3>2. /\ InFlight(i) = 0 /\ Ending(i) = 0 /\ Waiting(i) = Waiting(c) /\ InFlight(c) = 1
          /\ Ending(c) \in {0, 1} /\ Waiting(c) \in Nat /\ c.closes \in Nat
        BY <1>1, <3>1 DEF InFlight, Ending, Waiting, Object
    <3>3. i.closes + InFlight(i) + Waiting(i) + Len(posted) + r <= 1 + Len(owed)
        BY <1>2, <1>3, <3>1, <3>2 DEF Early
    <3>4. Here /\ c.sentClose =>
            \E k \in 1 .. Len(owed) :
                /\ owed[k] = CloseFrame
                /\ i.closes + Ending(i) + Waiting(i) + Len(posted) <= Len(owed) - k + 1
      <4>1. SUFFICES ASSUME Here, c.sentClose
                     PROVE  \E k \in 1 .. Len(owed) :
                                /\ owed[k] = CloseFrame
                                /\ i.closes + Ending(i) + Waiting(i) + Len(posted)
                                     <= Len(owed) - k + 1
          OBVIOUS
      <4>2. PICK k \in 1 .. Len(owed) :
                /\ owed[k] = CloseFrame
                /\ c.closes + Ending(c) + Waiting(c) + Len(posted) <= Len(owed) - k + 1
          BY <1>2, <4>1 DEF Early
      <4>3. i.closes + Ending(i) + Waiting(i) + Len(posted) <= Len(owed) - k + 1
          BY <1>2, <3>1, <3>2, <4>2
      <4> QED BY <4>2, <4>3
    <3>5. Early(i, r, Len(posted), owed, Here)
        BY <1>2, <3>1, <3>3, <3>4 DEF Early
    <3> QED BY <2>1, <3>1, <3>5
  <2>2. CASE ~c.deleted
    <3>1. Early(WriteEnded(c), r, Len(posted), owed, Here)
        BY <1>1, <1>2, <1>3, <1>4, WriteEndedCalls
    <3>2. /\ WriteEnded(c) \in Object /\ WriteEnded(c).isReading = c.isReading
          /\ WriteEnded(c).state = c.state
        BY <1>1, <2>2, WriteEndedGood DEF Good
    <3> QED BY <2>2, <3>1, <3>2
  <2> QED BY <2>1, <2>2
<1> HIDE DEF y
<1>6. Early(y, r, Len(posted'), owed', Here') /\ Len(posted') \in Nat /\ Len(owed') \in Nat
    BY <1>1, <1>2, <1>5
<1> QED BY <1>1, <1>3, <1>5, <1>6, Settles

LEMMA KernelTakesCalls ==
    ASSUME Inv, Calls, ~c.closeCalled, KernelTakes
    PROVE  Calls'
<1>1. c \in Object /\ Becomes(c) /\ UNCHANGED <<Here, posted, owed>>
    BY DEF KernelTakes, Becomes, Inv, TypeOK, Here
<1>2. /\ Early(c, Own(c), Len(posted'), owed', Here')
      /\ Len(posted') \in Nat /\ Len(owed') \in Nat
    BY <1>1 DEF Calls, Inv, TypeOK
<1>3. Own(c) = 1 \/ (Own(c) = 0 /\ c.state # "new" /\ ~c.isReading)
    BY DEF Own
<1> QED BY <1>1, <1>2, <1>3, Settles

LEMMA PeerCalls ==
    ASSUME Calls, ~c.closeCalled, PeerSends \/ PeerLeaves \/ UNCHANGED vars
    PROVE  Calls'
<1>1. UNCHANGED <<c, posted, owed>> /\ (Here' => Here)
    BY DEF PeerSends, PeerLeaves, vars, Here
<1>2. Own(c)' = Own(c)
    BY <1>1 DEF Own
<1>3. Early(c, Own(c), Len(posted), owed, Here')
    BY <1>1 DEF Calls, Early
<1> QED BY <1>1, <1>2, <1>3 DEF Calls

LEMMA CallsInit == Init => Calls
<1> SUFFICES ASSUME Init PROVE Calls
    OBVIOUS
<1>1. /\ ~c.closeCalled /\ ~c.recvClose /\ ~c.sentClose /\ ~c.closeConn /\ c.open
      /\ c.closes = 0 /\ c.state = "new" /\ owed = <<>> /\ posted = <<>>
    BY DEF Init
<1>2. InFlight(c) = 0 /\ Waiting(c) = 0
    BY DEF Init, InFlight, Waiting
<1>3. Own(c) = 1
    BY <1>1 DEF Own
<1>4. Len(owed) = 0 /\ Len(posted) = 0
    BY <1>1
<1> QED BY <1>1, <1>2, <1>3, <1>4 DEF Calls, Early

LEMMA CallsStep == ASSUME Inv, Queued, Calls, [Next]_vars PROVE Calls'
<1>1. CASE c.closeCalled
    BY <1>1, NotedStays
<1>2. CASE ~c.closeCalled
  <2>1. CASE Start
      BY <1>2, <2>1, StartCalls
  <2>2. CASE ReadHeader \/ ReadHalfHeader \/ ReadLength \/ ReadMask
      BY <1>2, <2>2, HeaderCalls
  <2>3. CASE ReadSome \/ ReadPart \/ ReadMessage
      BY <1>2, <2>3, ReadSomeCalls, ReadPartCalls, ReadMessageCalls
  <2>4. CASE ReadPing \/ ReadPong \/ ReadClose \/ ReadFails
      BY <1>2, <2>4, ReadControlCalls, ReadCloseCalls, ReadFailsCalls
  <2>5. CASE RunPosted
      BY <1>2, <2>5, RunPostedCalls
  <2>6. CASE WriteSucceeds \/ WriteFails
      BY <1>2, <2>6, WriteSucceedsCalls, WriteFailsCalls
  <2>7. CASE KernelTakes
      BY <1>2, <2>7, KernelTakesCalls
  <2>8. CASE PeerSends \/ PeerLeaves \/ UNCHANGED vars
      BY <1>2, <2>8, PeerCalls
  <2> QED BY <2>1, <2>2, <2>3, <2>4, <2>5, <2>6, <2>7, <2>8 DEF Next, Reads, Writes
<1> QED BY <1>1, <1>2

LEMMA CallsBound == ASSUME Inv, Calls PROVE OncloseBounded
<1>1. /\ c.closes \in Nat /\ InFlight(c) \in Nat /\ Waiting(c) \in Nat /\ Ending(c) \in Nat
      /\ Own(c) \in Nat /\ Len(posted) \in Nat /\ Len(owed) \in Nat
    BY DEF Inv, TypeOK, Object, InFlight, Waiting, Ending, Own
<1>2. CASE c.closeCalled
    BY <1>2 DEF Calls, Noted, OncloseBounded
<1>3. CASE ~c.closeCalled
  <2>1. Early(c, Own(c), Len(posted), owed, Here)
      BY <1>3 DEF Calls
  <2>2. c.closes <= 1 + Len(owed)
      BY <1>1, <2>1 DEF Early
  <2>3. ASSUME Here, c.closes > 0
        PROVE  \E k \in 1 .. Len(owed) : owed[k] = CloseFrame /\ c.closes <= Len(owed) - k + 2
    <3>1. c.sentClose
        BY <1>1, <2>1, <2>3 DEF Early
    <3>2. PICK k \in 1 .. Len(owed) :
              /\ owed[k] = CloseFrame
              /\ c.closes + Ending(c) + Waiting(c) + Len(posted) <= Len(owed) - k + 1
        BY <2>1, <2>3, <3>1 DEF Early
    <3> QED BY <1>1, <3>2
  <2> QED BY <2>2, <2>3 DEF OncloseBounded
<1> QED BY <1>2, <1>3

\* For any frames, outcomes and number of frames, split headers included: onclose is called at most
\* once more than the server asked for frames; and while the peer is there not before the server
\* has asked for its close frame, and at most once more than the frames from that one on.
THEOREM OncloseBoundedSafe == Spec => []OncloseBounded
<1>1. Inv /\ Queued /\ Calls /\ [Next]_vars => Calls'
    BY CallsStep
<1>2. Inv /\ Calls => OncloseBounded
    BY CallsBound
<1> QED BY <1>1, <1>2, CallsInit, InvHolds, QueuedHolds, PTL DEF Spec
-----------------------------------------------------------------------------
(* What is read: the frames in order, and the messages they carry. *)

\* The objects x and y stand at the same place of the stream.
SameSide(x, y) ==
    /\ y.state = x.state /\ y.isReading = x.isReading /\ y.remaining = x.remaining
    /\ y.fragment = x.fragment /\ y.message = x.message

\* The object y reads on where x stands, or reads no more.
Follows(x, y) ==
    /\ y.state = x.state /\ y.remaining = x.remaining
    /\ y.fragment = x.fragment /\ y.message = x.message

LEMMA DoWriteSide == ASSUME NEW x \in Object PROVE SameSide(x, DoWrite(x))
    BY DEF DoWrite, Object, SameSide

LEMMA CheckDestroySide == ASSUME NEW x \in Object PROVE SameSide(x, CheckDestroy(x))
    BY DEF CheckDestroy, Object, SameSide

LEMMA CloseSide == ASSUME NEW x, Good(x), ~x.deleted PROVE SameSide(x, Close(x))
<1> DEFINE q == Append(x.queue, CloseFrame)
           n == IF x.recvClose /\ ~x.closeCalled THEN x.closes + 1 ELSE x.closes
           b == x.closeCalled \/ x.recvClose
           y == [x EXCEPT !.sentClose = TRUE, !.closeCalled = b, !.closes = n, !.queue = q]
<1>1. x \in Object /\ x.queue \in Seq(FrameOut) /\ CloseFrame \in FrameOut
    BY DEF Good, Object, CloseFrame, FrameOut
<1>2. q \in Seq(FrameOut) /\ n \in Nat /\ b \in BOOLEAN
    BY <1>1 DEF Object
<1>3. Close(x) = DoWrite(y)
    BY DEF Close
<1> HIDE DEF q, n, b
<1>4. y \in Object
    BY <1>1, <1>2 DEF Object
<1>5. SameSide(x, y)
    BY <1>1 DEF Object, SameSide
<1> HIDE DEF y
<1> QED BY <1>3, <1>4, <1>5, DoWriteSide DEF SameSide

\* Where the socket is closed, the place is kept.
LEMMA EndSide ==
    ASSUME NEW x \in Object
    PROVE  SameSide(x, CheckDestroy(CloseSocket(x)))
<1> DEFINE y == CloseSocket(x)
<1>1. y \in Object /\ SameSide(x, y)
    BY DEF CloseSocket, Object, SameSide
<1> HIDE DEF y
<1> QED BY <1>1, CheckDestroySide DEF SameSide, y

LEMMA DoReadFollows == ASSUME NEW x \in Object PROVE Follows(x, DoRead(x))
<1>1. CASE x.sentClose /\ x.recvClose
    BY <1>1, EndSide DEF DoRead, SameSide, Follows
<1>2. CASE ~(x.sentClose /\ x.recvClose)
    BY <1>2 DEF DoRead, Object, Follows
<1> QED BY <1>1, <1>2

LEMMA NextFrameFollows ==
    ASSUME NEW x \in Object
    PROVE  /\ NextFrame(x).state = "mini" /\ NextFrame(x).fragment = <<>>
           /\ NextFrame(x).message = x.message
<1> DEFINE y == [x EXCEPT !.fragment = <<>>, !.state = "mini"]
<1>1. y \in Object
  <2>1. <<>> \in Bytes
      BY DEF Bytes
  <2> QED BY <2>1 DEF Object
<1>2. y.state = "mini" /\ y.fragment = <<>> /\ y.message = x.message
    BY DEF Object
<1>3. NextFrame(x) = DoRead(y)
    BY DEF NextFrame
<1> HIDE DEF y
<1> QED BY <1>1, <1>2, <1>3, DoReadFollows DEF Follows

LEMMA ReceiveLastCloseSide ==
    ASSUME NEW x, Good(x), ~x.deleted
    PROVE  SameSide(x, ReceiveLastClose(x))
<1> DEFINE n == IF x.closeCalled THEN x.closes ELSE x.closes + 1
           y == [x EXCEPT !.closeCalled = TRUE, !.closes = n]
<1>1. x \in Object /\ n \in Nat
    BY DEF Good, Object
<1>2. ReceiveLastClose(x) = CheckDestroy(CloseSocket(y))
    BY DEF ReceiveLastClose
<1> HIDE DEF n
<1>3. y \in Object /\ SameSide(x, y)
    BY <1>1 DEF Object, SameSide
<1> HIDE DEF y
<1> QED BY <1>2, <1>3, EndSide DEF SameSide

LEMMA WrittenSide ==
    ASSUME NEW x, Good(x), ~x.deleted
    PROVE  SameSide(x, Written(x))
<1> DEFINE y == [x EXCEPT !.sending = <<>>, !.write = "idle"]
           z == IF y.queue # <<>> THEN DoWrite(y) ELSE y
           b == z.closeConn \/ x.sentClose
           w == [z EXCEPT !.closeConn = b]
<1>1. y \in Object /\ SameSide(x, y)
  <2>1. <<>> \in Seq(FrameOut)
      OBVIOUS
  <2> QED BY <2>1 DEF Good, Object, SameSide
<1>2. /\ y.isReading = x.isReading /\ y.deleted = x.deleted
      /\ y.sentClose = x.sentClose /\ y.recvClose = x.recvClose
      /\ y.sending = <<>> /\ y.write = "idle"
      /\ y.closeCalled = x.closeCalled /\ y.closes = x.closes
    BY DEF Good, Object
<1>3. Written(x) = w
    BY DEF Written
<1> HIDE DEF y
<1>4. Good(y)
    BY <1>1, <1>2 DEF Good, Sound
<1>5. z \in Object /\ SameSide(y, z)
    BY <1>1, <1>2, <1>4, DoWriteGood, DoWriteSide DEF Good, SameSide
<1> HIDE DEF z, b
<1>6. SameSide(z, w)
    BY <1>5 DEF Object, SameSide
<1> HIDE DEF w
<1> QED BY <1>1, <1>3, <1>5, <1>6 DEF SameSide

LEMMA WriteEndedSide == ASSUME NEW x \in Object PROVE SameSide(x, WriteEnded(x))
<1> DEFINE y == [x EXCEPT !.sending = <<>>, !.write = "idle", !.closeConn = TRUE]
<1>1. y \in Object /\ SameSide(x, y)
  <2>1. <<>> \in Seq(FrameOut)
      OBVIOUS
  <2> QED BY <2>1 DEF Object, SameSide
<1>2. WriteEnded(x) = CheckDestroy(y)
    BY DEF WriteEnded
<1> HIDE DEF y
<1> QED BY <1>1, <1>2, CheckDestroySide DEF SameSide

LEMMA BecomesSide == ASSUME NEW y \in Object, Becomes(y) PROVE SameSide(y, c')
    BY DEF Becomes, Object, SameSide
-----------------------------------------------------------------------------
(* The bytes of a frame. *)

LEMMA PiecesFrom ==
    ASSUME NEW i \in Nat, NEW n \in Nat
    PROVE  /\ Pieces(i, n) \in Bytes /\ Len(Pieces(i, n)) = n
           /\ \A k \in 1 .. n : Pieces(i, n)[k] = <<i, k>>
<1> DEFINE e(k) == <<i, k>>
           p == [k \in 1 .. n |-> e(k)]
<1>1. Pieces(i, n) = p
    BY DEF Pieces
<1>2. \A k \in 1 .. n : e(k) \in Nat \X Nat
    OBVIOUS
<1>3. \A k \in 1 .. n : p[k] = <<i, k>>
    OBVIOUS
<1> HIDE DEF e
<1>4. p \in [1 .. n -> Nat \X Nat]
    BY <1>2
<1>5. DOMAIN p = 1 .. n
    OBVIOUS
<1> HIDE DEF p
<1>6. p \in Bytes
    BY <1>4, SeqDef DEF Bytes
<1>7. Len(p) = n
    BY <1>5, <1>6, LenProperties DEF Bytes
<1> QED BY <1>1, <1>3, <1>6, <1>7

LEMMA PiecesNone == \A i \in Nat : Pieces(i, 0) = <<>>
<1> SUFFICES ASSUME NEW i \in Nat PROVE Pieces(i, 0) = <<>>
    OBVIOUS
<1>1. Pieces(i, 0) \in Seq(Nat \X Nat) /\ Len(Pieces(i, 0)) = 0
    BY PiecesFrom DEF Bytes
<1> QED BY <1>1, EmptySeq

\* The bytes a read adds to the first a bytes of frame i.
LEMMA PiecesGrow ==
    ASSUME NEW i \in Nat, NEW a \in Nat, NEW n \in Nat, NEW s, s = Pieces(i, a)
    PROVE  s \o [k \in 1 .. n |-> <<i, Len(s) + k>>] = Pieces(i, a + n)
<1> DEFINE e(k) == <<i, a + k>>
           t == [k \in 1 .. n |-> e(k)]
           u == Pieces(i, a + n)
           v == s \o t
<1>1. /\ s \in Bytes /\ Len(s) = a /\ \A k \in 1 .. a : s[k] = <<i, k>>
    BY PiecesFrom
<1>2. /\ u \in Bytes /\ Len(u) = a + n /\ \A k \in 1 .. a + n : u[k] = <<i, k>>
    BY PiecesFrom
<1>3. [k \in 1 .. n |-> <<i, Len(s) + k>>] = t
  <2>1. Len(s) = a
      BY <1>1
  <2>2. \A k \in 1 .. n : <<i, Len(s) + k>> = e(k)
      BY <2>1
  <2> HIDE DEF e
  <2> QED BY <2>2
<1>4. t \in Bytes /\ Len(t) = n /\ \A k \in 1 .. n : t[k] = <<i, a + k>>
  <2>1. \A k \in 1 .. n : e(k) \in Nat \X Nat
      OBVIOUS
  <2>2. \A k \in 1 .. n : t[k] = <<i, a + k>>
      OBVIOUS
  <2> HIDE DEF e
  <2>3. t \in [1 .. n -> Nat \X Nat] /\ DOMAIN t = 1 .. n
      BY <2>1
  <2> HIDE DEF t
  <2>4. t \in Bytes
      BY <2>3, SeqDef DEF Bytes
  <2>5. Len(t) = n
      BY <2>3, <2>4, LenProperties DEF Bytes
  <2> QED BY <2>2, <2>4, <2>5
<1> HIDE DEF t, u
<1>5. /\ v \in Bytes /\ Len(v) = a + n
      /\ \A k \in 1 .. a + n : v[k] = IF k <= a THEN s[k] ELSE t[k - a]
  <2>1. s \in Seq(Nat \X Nat) /\ t \in Seq(Nat \X Nat) /\ Len(s) = a /\ Len(t) = n
      BY <1>1, <1>4 DEF Bytes
  <2>2. /\ v \in Seq(Nat \X Nat) /\ Len(v) = Len(s) + Len(t)
        /\ \A k \in 1 .. Len(s) + Len(t) : v[k] = IF k <= Len(s) THEN s[k] ELSE t[k - Len(s)]
      BY ONLY <2>1, ConcatProperties
  <2> HIDE DEF v
  <2> QED BY <2>1, <2>2 DEF Bytes
<1>6. \A k \in 1 .. a + n : v[k] = <<i, k>>
  <2> SUFFICES ASSUME NEW k \in 1 .. a + n PROVE v[k] = <<i, k>>
      OBVIOUS
  <2>1. CASE k <= a
      BY <2>1, <1>1, <1>5
  <2>2. CASE ~(k <= a)
    <3>1. k - a \in 1 .. n /\ a + (k - a) = k
        BY <2>2
    <3>2. v[k] = t[k - a] /\ t[k - a] = <<i, a + (k - a)>>
        BY <2>2, <3>1, <1>4, <1>5
    <3> QED BY <3>1, <3>2
  <2> QED BY <2>1, <2>2
<1> HIDE DEF v
<1>7. v = u
    BY <1>2, <1>5, <1>6, SeqEqual DEF Bytes
<1> QED BY <1>3, <1>7 DEF u, v
-----------------------------------------------------------------------------
\* The place x in the stream whose next frames are w.
At(x, w) ==
    /\ x.state \in {"new", "mini"} => x.fragment = <<>>
    /\ x.state \in {"len", "mask"} =>
          x.fragment = <<>> /\ w # <<>> /\ x.remaining = Head(w).size
    /\ x.state = "payload" =>
          /\ w # <<>> /\ x.remaining <= Head(w).size
          /\ x.fragment = Pieces(Head(w).id, Head(w).size - x.remaining)

\* How many frames the object is through with.
Consumed == Len(sent) - Len(wire)

\* The inductive invariant behind MessagesWhole: what is on its way are the last frames sent, in
\* order and with their numbers; what was handed over is what the frames before them say; and an
\* object that reads has the fragments left open by them and the first bytes of the next.
Record ==
    /\ Len(said) = Len(sent) + 1 /\ Len(wire) <= Len(sent)
    /\ \A j \in 1 .. Len(wire) : wire[j] = Numbered(sent[Consumed + j], Consumed + j)
    /\ \A i \in 1 .. Len(sent) : said[i + 1] = Take(said[i], sent[i], i)
    /\ \A i \in 1 .. Len(said) : IsPrefix(said[i].done, said[Len(said)].done)
Place ==
    c.isReading \/ c.state = "new" => c.message = said[Consumed + 1].open /\ At(c, wire)
Heard == Record /\ handled = said[Consumed + 1].done /\ Place

LEMMA AtSame ==
    ASSUME NEW x, NEW y, SameSide(x, y), NEW w, At(x, w)
    PROVE  At(y, w)
    BY DEF SameSide, At

\* A step that leaves the stream alone, to an object that stands where the old one stood.
LEMMA HeardKept ==
    ASSUME Inv, Heard, NEW y \in Object, Becomes(y), UNCHANGED <<wire, sent, said, handled>>,
           y.isReading \/ y.state = "new" =>
              y.message = said[Consumed + 1].open /\ At(y, wire)
    PROVE  Heard'
<1>1. SameSide(y, c')
    BY BecomesSide
<1>2. Record' /\ (handled = said[Consumed + 1].done)' /\ Consumed' = Consumed
    BY DEF Heard, Record, Consumed
<1>3. Place'
    BY <1>1, <1>2, AtSame DEF Place, SameSide
<1> QED BY <1>2, <1>3 DEF Heard

LEMMA HeardAside ==
    ASSUME Inv, Heard, NEW y \in Object, Becomes(y), UNCHANGED <<wire, sent, said, handled>>,
           SameSide(c, y)
    PROVE  Heard'
<1>1. y.isReading \/ y.state = "new" => y.message = said[Consumed + 1].open /\ At(y, wire)
    BY AtSame DEF SameSide, Heard, Place
<1> QED BY <1>1, HeardKept

\* A step of a read within a frame.
LEMMA HeardWithin ==
    ASSUME Inv, Heard, NEW y \in Object, Becomes(y), UNCHANGED <<wire, sent, said, handled>>,
           c.isReading, y.message = c.message, At(y, wire)
    PROVE  Heard'
    BY HeardKept DEF Heard, Place

\* The frame that is read, and the frames that remain.
LEMMA NextIs ==
    ASSUME Inv, Heard, wire # <<>>
    PROVE  /\ Consumed \in Nat /\ Consumed + 1 \in 1 .. Len(sent)
           /\ sent[Consumed + 1] \in FrameSet
           /\ Head(wire) = Numbered(sent[Consumed + 1], Consumed + 1)
           /\ Len(Tail(wire)) = Len(wire) - 1
           /\ \A j \in 1 .. Len(wire) - 1 : Tail(wire)[j] = wire[j + 1]
<1>1. wire \in Seq(NumberedSet) /\ sent \in Seq(FrameSet) /\ wire # <<>>
    BY DEF Inv, TypeOK
<1>2. /\ Len(wire) \in Nat \ {0} /\ Len(sent) \in Nat
    BY <1>1, EmptySeq, LenProperties
<1>3. Len(wire) <= Len(sent)
    BY DEF Heard, Record
<1>4. Consumed \in Nat /\ Consumed + 1 \in 1 .. Len(sent)
    BY <1>2, <1>3 DEF Consumed
<1>5. sent[Consumed + 1] \in FrameSet
    BY <1>1, <1>4, ElementOfSeq
<1>6. Head(wire) = wire[1] /\ 1 \in 1 .. Len(wire)
    BY <1>1, <1>2, HeadTailProperties
<1>7. wire[1] = Numbered(sent[Consumed + 1], Consumed + 1)
    BY <1>6 DEF Heard, Record
<1>8. /\ Len(Tail(wire)) = Len(wire) - 1
      /\ \A j \in 1 .. Len(wire) - 1 : Tail(wire)[j] = wire[j + 1]
    BY <1>1, HeadTailProperties
<1> QED BY <1>4, <1>5, <1>6, <1>7, <1>8

\* A step that is through with a frame: what it hands over is what the frame adds.
LEMMA HeardNext ==
    ASSUME Inv, Heard, NEW y \in Object, Becomes(y), y.state # "new", wire # <<>>,
           wire' = Tail(wire), UNCHANGED <<sent, said>>,
           NEW now, now = Take(said[Consumed + 1], sent[Consumed + 1], Consumed + 1),
           handled' = now.done,
           y.isReading => y.message = now.open /\ y.state = "mini" /\ y.fragment = <<>>
    PROVE  Heard'
<1> DEFINE k == Consumed
<1>1. /\ k \in Nat /\ k + 1 \in 1 .. Len(sent) /\ Len(wire') = Len(wire) - 1
      /\ \A j \in 1 .. Len(wire) - 1 : wire'[j] = wire[j + 1]
    BY NextIs
<1>2. Len(wire) \in Nat \ {0} /\ Len(sent) \in Nat /\ k = Len(sent) - Len(wire)
  <2>1. wire \in Seq(NumberedSet) /\ sent \in Seq(FrameSet)
      BY DEF Inv, TypeOK
  <2> QED BY <2>1, EmptySeq, LenProperties DEF Consumed
<1>3. Consumed' = k + 1
    BY <1>1, <1>2 DEF Consumed
<1>4. now = said[k + 2]
  <2>1. said[(k + 1) + 1] = Take(said[k + 1], sent[k + 1], k + 1)
      BY <1>1 DEF Heard, Record
  <2> QED BY <2>1, <1>1
<1>5. \A j \in 1 .. Len(wire') : wire'[j] = Numbered(sent[k + 1 + j], k + 1 + j)
  <2> SUFFICES ASSUME NEW j \in 1 .. Len(wire')
               PROVE  wire'[j] = Numbered(sent[k + 1 + j], k + 1 + j)
      OBVIOUS
  <2>1. j \in 1 .. Len(wire) - 1 /\ j + 1 \in 1 .. Len(wire) /\ k + (j + 1) = k + 1 + j
      BY <1>1, <1>2
  <2>2. wire[j + 1] = Numbered(sent[k + (j + 1)], k + (j + 1))
      BY <2>1 DEF Heard, Record
  <2> QED BY <1>1, <2>1, <2>2
<1>6. Len(wire') <= Len(sent) /\ k + 1 + 1 = k + 2
    BY <1>1, <1>2 DEF Heard, Record
<1> HIDE DEF k
<1>7. Record'
    BY <1>3, <1>5, <1>6 DEF Heard, Record
<1>8. SameSide(y, c')
    BY BecomesSide
<1>9. Place'
    BY <1>3, <1>4, <1>6, <1>8 DEF Place, SameSide, At
<1> QED BY <1>3, <1>4, <1>6, <1>7, <1>9 DEF Heard

\* The object after the completion of a read of n bytes of the payload.
LEMMA Payload ==
    ASSUME Inv, Heard, MayRead("payload"), NEW n \in Nat, n <= c.remaining
    PROVE  /\ Good(WithPayload(n)) /\ ~WithPayload(n).deleted /\ ~WithPayload(n).isReading
           /\ WithPayload(n).message = c.message /\ c.isReading
           /\ WithPayload(n).state = "payload" /\ At(WithPayload(n), wire)
           /\ WithPayload(n).remaining = c.remaining - n
<1> DEFINE i == Head(wire).id
           size == Head(wire).size
           a == size - c.remaining
           more == [k \in 1 .. n |-> <<i, Len(c.fragment) + k>>]
           f == c.fragment \o more
           r == c.remaining - n
           y == [c EXCEPT !.isReading = FALSE, !.remaining = r, !.fragment = f]
<1>1. /\ Good(c) /\ ~c.deleted /\ c.isReading /\ wire \in Seq(NumberedSet) /\ wire # <<>>
      /\ c.remaining \in Nat /\ Head(wire) \in NumberedSet /\ c.state = "payload"
    BY Reading DEF MayRead
<1>2. i \in Nat /\ size \in Nat
    BY <1>1 DEF NumberedSet
<1>3. c.remaining <= size /\ c.fragment = Pieces(i, a)
    BY <1>1 DEF Heard, Place, At
<1>4. a \in Nat /\ r \in Nat /\ a + n = size - r /\ r <= size
    BY <1>1, <1>2, <1>3
<1>5. WithPayload(n) = y
    BY DEF WithPayload
<1> HIDE DEF i, size, a
<1>6. f = Pieces(i, a + n)
  <2>1. \A s : s = Pieces(i, a) =>
                  s \o [k \in 1 .. n |-> <<i, Len(s) + k>>] = Pieces(i, a + n)
      BY <1>2, <1>4, PiecesGrow
  <2> QED BY <2>1, <1>3
<1> HIDE DEF f, more, r
<1>7. /\ y.message = c.message /\ y.state = "payload" /\ y.remaining = r /\ y.fragment = f
    BY <1>1 DEF Good, Object
<1>8. Good(WithPayload(n)) /\ ~WithPayload(n).deleted /\ ~WithPayload(n).isReading
    BY <1>1, WithPayloadGood
<1> HIDE DEF y
<1>9. At(y, wire)
    BY <1>1, <1>4, <1>6, <1>7 DEF At, i, size
<1> QED BY <1>1, <1>5, <1>7, <1>8, <1>9 DEF r

\* The object after the completion of the last read of a frame: what it has of the message is
\* what the frames before leave open, and what it has of the frame is all of it.
LEMMA LastPayload ==
    ASSUME Inv, Heard, NEW op, LastRead(op)
    PROVE  LET x == WithPayload(c.remaining)
               f == sent[Consumed + 1]
           IN  /\ Good(x) /\ ~x.deleted /\ ~x.isReading /\ x.state = "payload"
               /\ wire # <<>> /\ wire' = Tail(wire)
               /\ Head(wire).op = f.op /\ Head(wire).fin = f.fin
               /\ x.message = said[Consumed + 1].open
               /\ x.fragment = Pieces(Consumed + 1, f.size)
<1> DEFINE x == WithPayload(c.remaining)
           f == sent[Consumed + 1]
<1>1. MayRead("payload") /\ wire # <<>> /\ wire' = Tail(wire)
    BY DEF LastRead, MayRead
<1>2. c.remaining \in Nat /\ c.remaining <= c.remaining
    BY <1>1, Reading
<1>3. /\ Good(x) /\ ~x.deleted /\ ~x.isReading /\ x.message = c.message /\ c.isReading
      /\ x.state = "payload" /\ At(x, wire) /\ x.remaining = c.remaining - c.remaining
    BY <1>1, <1>2, Payload
<1> HIDE DEF x
<1>4. f \in FrameSet /\ Head(wire) = Numbered(f, Consumed + 1)
    BY <1>1, NextIs
<1> HIDE DEF f
<1>5. /\ Head(wire).op = f.op /\ Head(wire).fin = f.fin /\ Head(wire).size = f.size
      /\ Head(wire).id = Consumed + 1 /\ f.size \in Nat
    BY <1>4 DEF Numbered, FrameSet
<1>6. x.fragment = Pieces(Consumed + 1, f.size - (c.remaining - c.remaining))
    BY <1>3, <1>5 DEF At
<1>7. f.size - (c.remaining - c.remaining) = f.size
    BY <1>2, <1>5
<1>8. x.message = said[Consumed + 1].open
    BY <1>3 DEF Heard, Place
<1>9. x.fragment = Pieces(Consumed + 1, f.size)
    BY <1>6, <1>7
<1>10. /\ Good(x) /\ ~x.deleted /\ ~x.isReading /\ x.state = "payload"
       /\ wire # <<>> /\ wire' = Tail(wire)
       /\ Head(wire).op = f.op /\ Head(wire).fin = f.fin
       /\ x.message = said[Consumed + 1].open
       /\ x.fragment = Pieces(Consumed + 1, f.size)
    BY <1>1, <1>3, <1>5, <1>8, <1>9
<1> USE DEF x, f
<1> QED BY <1>10
-----------------------------------------------------------------------------
(* One lemma for each action that reads, and one for those that do not. *)

LEMMA StartHears == ASSUME Inv, Heard, Start PROVE Heard'
<1> DEFINE q == <<Hello>>
           x == [c EXCEPT !.state = "mini", !.queue = q]
           y == DoWrite(x)
           z == [y EXCEPT !.deleted = TRUE, !.open = FALSE]
<1>1. /\ Good(c) /\ c \in Object /\ ~c.deleted /\ c.state = "new"
      /\ UNCHANGED <<wire, sent, said, handled>>
      /\ Becomes(DoRead(y)) \/ Becomes(z)
    BY DEF Start, Inv, TypeOK, Good
<1>2. q \in Seq(FrameOut) /\ q # <<>>
    BY DEF Hello, FrameOut
<1> HIDE DEF q
<1>3. x \in Object
    BY <1>1, <1>2 DEF Object
<1>4. /\ x.state = "mini" /\ x.fragment = c.fragment /\ x.message = c.message
      /\ x.isReading = c.isReading /\ x.deleted = c.deleted /\ x.queue = q
      /\ x.sentClose = c.sentClose /\ x.recvClose = c.recvClose
      /\ x.sending = c.sending /\ x.write = c.write
      /\ x.closeCalled = c.closeCalled /\ x.closes = c.closes
    BY <1>1 DEF Object
<1>5. c.fragment = <<>> /\ c.message = said[Consumed + 1].open
    BY <1>1 DEF Heard, Place, At
<1> HIDE DEF x
<1>6. SameSide(x, y)
    BY <1>3, DoWriteSide
<1>7. Good(y) /\ y \in Object /\ ~y.deleted
  <2>1. Good(x)
      BY <1>1, <1>3, <1>4 DEF Good, Sound
  <2> QED BY <1>1, <1>2, <1>4, <2>1, DoWriteGood DEF Good
<1> HIDE DEF y
<1>8. DoRead(y) \in Object /\ Follows(y, DoRead(y))
    BY <1>7, DoReadGood, DoReadFollows DEF Good
<1>9. z \in Object /\ SameSide(y, z)
    BY <1>7 DEF Object, SameSide
<1> HIDE DEF z
<1>10. CASE Becomes(DoRead(y))
  <2> DEFINE w == DoRead(y)
  <2>1. w \in Object /\ w.state = "mini" /\ w.fragment = <<>> /\ w.message = c.message
      BY <1>4, <1>5, <1>6, <1>8 DEF SameSide, Follows
  <2>2. Becomes(w)
      BY <1>10
  <2> HIDE DEF w
  <2>3. At(w, wire)
      BY <2>1 DEF At
  <2> QED BY <1>1, <1>5, <2>1, <2>2, <2>3, HeardKept
<1>11. CASE Becomes(z)
  <2>1. z.state = "mini" /\ z.fragment = <<>> /\ z.message = c.message
      BY <1>4, <1>5, <1>6, <1>9 DEF SameSide
  <2>2. At(z, wire)
      BY <2>1 DEF At
  <2> QED BY <1>1, <1>5, <1>9, <1>11, <2>1, <2>2, HeardKept
<1> QED BY <1>1, <1>10, <1>11

\* A step through the header of a frame.
LEMMA GoToHears ==
    ASSUME Inv, Heard, NEW s \in {"len", "mask", "payload"}, NEW old, MayRead(old),
           GoTo(s, Head(wire).size), c.fragment = <<>>,
           UNCHANGED <<wire, sent, said, handled>>
    PROVE  Heard'
<1> DEFINE n == Head(wire).size
           i == Head(wire).id
           x == [c EXCEPT !.isReading = FALSE, !.state = s, !.remaining = n]
           y == DoRead(x)
<1>1. /\ Good(c) /\ ~c.deleted /\ c.isReading /\ wire # <<>> /\ Head(wire) \in NumberedSet
    BY Reading
<1>2. n \in Nat /\ i \in Nat /\ Becomes(y)
    BY <1>1 DEF NumberedSet, GoTo
<1>3. n - n = 0 /\ Pieces(i, 0) = <<>> /\ n <= n
    BY <1>2, PiecesNone
<1> HIDE DEF n, i
<1>4. x \in Object
    BY <1>1, <1>2 DEF Good, Object
<1>5. /\ ~x.isReading /\ x.deleted = c.deleted /\ x.state = s /\ x.remaining = n
      /\ x.fragment = c.fragment /\ x.message = c.message
      /\ x.sentClose = c.sentClose /\ x.recvClose = c.recvClose
      /\ x.sending = c.sending /\ x.write = c.write
      /\ x.closeCalled = c.closeCalled /\ x.closes = c.closes
    BY <1>1 DEF Good, Object
<1> HIDE DEF x
<1>6. Good(x) /\ ~x.deleted
    BY <1>1, <1>4, <1>5 DEF Good, Sound
<1>7. y \in Object /\ Follows(x, y)
    BY <1>6, DoReadGood, DoReadFollows DEF Good
<1> HIDE DEF y
<1>8. /\ y.state = s /\ y.remaining = n /\ y.fragment = <<>> /\ y.message = c.message
    BY <1>5, <1>7 DEF Follows
<1>9. At(y, wire)
    BY <1>1, <1>3, <1>8 DEF At, n, i
<1> QED BY <1>1, <1>2, <1>7, <1>8, <1>9, HeardWithin

LEMMA HeaderHears ==
    ASSUME Inv, Heard, ReadHeader \/ ReadLength \/ ReadMask
    PROVE  Heard'
<1>1. UNCHANGED <<wire, sent, said, handled>>
    BY DEF ReadHeader, ReadLength, ReadMask
<1>2. CASE ReadHeader
  <2>1. c.fragment = <<>> /\ MayRead("mini")
      BY <1>2 DEF ReadHeader, MayRead, Heard, Place, At
  <2>2. PICK s \in {"len", "mask", "payload"} : GoTo(s, Head(wire).size)
      BY <1>2 DEF ReadHeader
  <2> QED BY <1>1, <2>1, <2>2, GoToHears
<1>3. CASE ReadLength
  <2>1. c.fragment = <<>> /\ MayRead("len") /\ c.remaining = Head(wire).size
      BY <1>3 DEF ReadLength, MayRead, Heard, Place, At
  <2>2. PICK s \in {"mask", "payload"} : GoTo(s, c.remaining)
      BY <1>3 DEF ReadLength
  <2> QED BY <1>1, <2>1, <2>2, GoToHears
<1>4. CASE ReadMask
  <2>1. c.fragment = <<>> /\ MayRead("mask") /\ c.remaining = Head(wire).size
      BY <1>4 DEF ReadMask, MayRead, Heard, Place, At
  <2>2. GoTo("payload", c.remaining)
      BY <1>4 DEF ReadMask
  <2> QED BY <1>1, <2>1, <2>2, GoToHears
<1> QED BY <1>2, <1>3, <1>4

LEMMA ReadSomeHears == ASSUME Inv, Heard, ReadSome PROVE Heard'
<1>1. PICK n \in 1 .. c.remaining : n < c.remaining /\ Becomes(DoRead(WithPayload(n)))
    BY DEF ReadSome
<1>2. MayRead("payload") /\ UNCHANGED <<wire, sent, said, handled>>
    BY DEF ReadSome
<1> DEFINE x == WithPayload(n)
           y == DoRead(x)
<1>3. c.remaining \in Nat
    BY <1>2, Reading
<1>4. n \in Nat /\ n <= c.remaining
    BY <1>1, <1>3
<1>5. /\ Good(x) /\ ~x.deleted /\ x.message = c.message /\ c.isReading
      /\ At(x, wire) /\ Becomes(y)
    BY <1>1, <1>2, <1>4, Payload
<1> HIDE DEF x
<1>6. y \in Object /\ Follows(x, y)
    BY <1>5, DoReadGood, DoReadFollows DEF Good
<1> HIDE DEF y
<1>7. At(y, wire) /\ y.message = c.message
    BY <1>5, <1>6 DEF At, Follows
<1> QED BY <1>2, <1>5, <1>6, <1>7, HeardWithin

\* The end of a frame that hands nothing over or the message it ends, with no more to it than
\* that: the next read begins with the object x.
LEMMA NextFrameHears ==
    ASSUME Inv, Heard, NEW x, Good(x), ~x.deleted, Becomes(NextFrame(x)), wire # <<>>,
           wire' = Tail(wire), UNCHANGED <<sent, said>>,
           NEW now, now = Take(said[Consumed + 1], sent[Consumed + 1], Consumed + 1),
           handled' = now.done, x.message = now.open
    PROVE  Heard'
<1> DEFINE y == NextFrame(x)
<1>1. y \in Object /\ y.state = "mini" /\ y.fragment = <<>> /\ y.message = x.message
    BY NextFrameGood, NextFrameFollows DEF Good
<1>2. Becomes(y)
    OBVIOUS
<1> HIDE DEF y
<1> QED BY <1>1, <1>2, HeardNext

\* What the next frame adds to what was said.
LEMMA TakeControl ==
    ASSUME NEW s, NEW f, NEW i, f.op # "data"
    PROVE  Take(s, f, i) = s
    BY DEF Take

LEMMA TakePart ==
    ASSUME NEW s, NEW f, NEW i, f.op = "data", ~f.fin
    PROVE  /\ Take(s, f, i).done = s.done
           /\ Take(s, f, i).open = s.open \o Pieces(i, f.size)
    BY DEF Take

LEMMA TakeWhole ==
    ASSUME NEW s, NEW f, NEW i, f.op = "data", f.fin
    PROVE  /\ Take(s, f, i).done = Append(s.done, s.open \o Pieces(i, f.size))
           /\ Take(s, f, i).open = <<>>
    BY DEF Take

LEMMA ReadPartHears == ASSUME Inv, Heard, ReadPart PROVE Heard'
<1> DEFINE x == WithPayload(c.remaining)
           m == x.message \o x.fragment
           y == [x EXCEPT !.message = m]
           f == sent[Consumed + 1]
           s == said[Consumed + 1]
           now == Take(s, f, Consumed + 1)
<1>1. /\ Good(x) /\ ~x.deleted /\ wire # <<>> /\ wire' = Tail(wire)
      /\ f.op = "data" /\ ~f.fin
      /\ x.message = s.open /\ x.fragment = Pieces(Consumed + 1, f.size)
    BY LastPayload DEF ReadPart, LastRead
<1>2. Becomes(NextFrame(y)) /\ UNCHANGED <<sent, said, handled>>
    BY DEF ReadPart
<1> HIDE DEF x
<1>3. m \in Bytes
  <2>1. x.message \in Bytes /\ x.fragment \in Bytes
      BY <1>1 DEF Good, Object
  <2> QED BY <2>1 DEF Bytes
<1>4. now.done = s.done /\ now.open = m
  <2> HIDE DEF s, f
  <2>1. f.op = "data" /\ ~f.fin
      BY <1>1
  <2>2. now.done = s.done /\ now.open = s.open \o Pieces(Consumed + 1, f.size)
      BY <2>1, TakePart
  <2> HIDE DEF now
  <2> QED BY <2>2, <1>1
<1>5. handled' = now.done
    BY <1>2, <1>4 DEF Heard
<1> HIDE DEF m
<1>6. Good(y) /\ ~y.deleted /\ y.message = m
  <2>1. y.message = m
      BY <1>1 DEF Good, Object
  <2> QED BY <1>1, <1>3, <2>1, MessageGood
<1> HIDE DEF y
<1>7. now = Take(said[Consumed + 1], sent[Consumed + 1], Consumed + 1)
    OBVIOUS
<1> HIDE DEF now
<1> QED BY <1>1, <1>2, <1>4, <1>5, <1>6, <1>7, NextFrameHears

LEMMA ReadMessageHears == ASSUME Inv, Heard, ReadMessage PROVE Heard'
<1> DEFINE x == WithPayload(c.remaining)
           m == Whole(x)
           none == <<>>
           y == [x EXCEPT !.message = none]
           z == [x EXCEPT !.message = m]
           f == sent[Consumed + 1]
           s == said[Consumed + 1]
           now == Take(s, f, Consumed + 1)
<1>1. /\ Good(x) /\ ~x.deleted /\ ~x.isReading /\ x.state = "payload"
      /\ wire # <<>> /\ wire' = Tail(wire) /\ f.op = "data" /\ f.fin
      /\ x.message = s.open /\ x.fragment = Pieces(Consumed + 1, f.size)
    BY LastPayload DEF ReadMessage, LastRead
<1>2. /\ handled' = Append(handled, m)
      /\ Becomes(NextFrame(y)) \/ Becomes(NextFrame(Close(y))) \/ Becomes(z)
      /\ UNCHANGED <<sent, said>>
    BY DEF ReadMessage
<1> HIDE DEF x
<1>3. m \in Bytes /\ none \in Bytes
  <2>1. x.message \in Bytes /\ x.fragment \in Bytes
      BY <1>1 DEF Good, Object
  <2> QED BY <2>1 DEF Bytes, Whole
<1>4. now.done = Append(s.done, m) /\ now.open = none
  <2>1. /\ now.done = Append(s.done, s.open \o Pieces(Consumed + 1, f.size))
        /\ now.open = <<>>
      BY <1>1, TakeWhole
  <2> HIDE DEF now, s, f
  <2> QED BY <2>1, <1>1 DEF Whole
<1>5. handled' = now.done
    BY <1>2, <1>4 DEF Heard
<1> HIDE DEF m, none
<1>6. /\ Good(y) /\ ~y.deleted /\ ~y.isReading /\ y.message = none
      /\ Good(z) /\ ~z.isReading /\ z.state = "payload"
  <2>1. y.message = none
      BY <1>1 DEF Good, Object
  <2> QED BY <1>1, <1>3, <2>1, MessageGood
<1> HIDE DEF y, z
<1>7. now = Take(said[Consumed + 1], sent[Consumed + 1], Consumed + 1)
    OBVIOUS
<1> HIDE DEF now
<1>8. CASE Becomes(NextFrame(y))
    BY <1>1, <1>2, <1>4, <1>5, <1>6, <1>7, <1>8, NextFrameHears
<1>9. CASE Becomes(NextFrame(Close(y)))
  <2> DEFINE v == Close(y)
  <2>1. Good(v) /\ ~v.deleted /\ v.message = none
      BY <1>6, CloseGood, CloseSide DEF SameSide
  <2>2. Becomes(NextFrame(v))
      BY <1>9
  <2> HIDE DEF v
  <2> QED BY <1>1, <1>2, <1>4, <1>5, <1>7, <2>1, <2>2, NextFrameHears
<1>10. CASE Becomes(z)
    BY <1>1, <1>2, <1>5, <1>6, <1>7, <1>10, HeardNext DEF Good
<1> QED BY <1>2, <1>8, <1>9, <1>10

LEMMA ReadControlHears ==
    ASSUME Inv, Heard, ReadPing \/ ReadPong
    PROVE  Heard'
<1> DEFINE x == WithPayload(c.remaining)
           f == sent[Consumed + 1]
           s == said[Consumed + 1]
           now == Take(s, f, Consumed + 1)
<1>1. /\ Good(x) /\ ~x.deleted /\ wire # <<>> /\ wire' = Tail(wire)
      /\ f.op # "data" /\ x.message = s.open
    BY LastPayload DEF ReadPing, ReadPong, LastRead
<1>2. Becomes(NextFrame(x)) /\ UNCHANGED <<sent, said, handled>>
    BY DEF ReadPing, ReadPong
<1> HIDE DEF x
<1>3. now = s
    BY <1>1, TakeControl
<1>4. handled' = now.done
    BY <1>2, <1>3 DEF Heard
<1>5. now = Take(said[Consumed + 1], sent[Consumed + 1], Consumed + 1)
    OBVIOUS
<1> HIDE DEF now
<1> QED BY <1>1, <1>2, <1>3, <1>4, <1>5, NextFrameHears

LEMMA ReadCloseHears == ASSUME Inv, Heard, ReadClose PROVE Heard'
<1> DEFINE u == WithPayload(c.remaining)
           x == [u EXCEPT !.recvClose = TRUE]
           f == sent[Consumed + 1]
           s == said[Consumed + 1]
           now == Take(s, f, Consumed + 1)
<1>1. /\ Good(u) /\ ~u.deleted /\ ~u.isReading /\ u.state = "payload"
      /\ wire # <<>> /\ wire' = Tail(wire) /\ f.op # "data" /\ u.message = s.open
    BY LastPayload DEF ReadClose, LastRead
<1>2. /\ Becomes(ReceiveLastClose(x)) \/ Becomes(NextFrame(Close(x)))
      /\ UNCHANGED <<sent, said, handled>>
    BY DEF ReadClose
<1> HIDE DEF u
<1>3. x \in Object
    BY <1>1 DEF Good, Object
<1>4. /\ x.isReading = u.isReading /\ x.deleted = u.deleted /\ x.state = u.state
      /\ x.sending = u.sending /\ x.write = u.write /\ x.message = u.message
      /\ x.closeCalled = u.closeCalled /\ x.closes = u.closes
    BY <1>1 DEF Good, Object
<1> HIDE DEF x
<1>5. Good(x) /\ ~x.deleted /\ ~x.isReading
    BY <1>1, <1>3, <1>4 DEF Good, Sound
<1>6. now = s
    BY <1>1, TakeControl
<1>7. handled' = now.done
    BY <1>2, <1>6 DEF Heard
<1>8. now = Take(said[Consumed + 1], sent[Consumed + 1], Consumed + 1)
    OBVIOUS
<1> HIDE DEF now
<1>9. CASE Becomes(ReceiveLastClose(x))
  <2> DEFINE w == ReceiveLastClose(x)
  <2>1. w \in Object /\ ~w.isReading /\ w.state = "payload"
      BY <1>1, <1>4, <1>5, ReceiveLastCloseGood, ReceiveLastCloseSide DEF Good, SameSide
  <2>2. Becomes(w)
      BY <1>9
  <2> HIDE DEF w
  <2> QED BY <1>1, <1>2, <1>7, <1>8, <2>1, <2>2, HeardNext
<1>10. CASE Becomes(NextFrame(Close(x)))
  <2> DEFINE v == Close(x)
  <2>1. Good(v) /\ ~v.deleted /\ v.message = s.open
      BY <1>1, <1>4, <1>5, CloseGood, CloseSide DEF SameSide
  <2>2. Becomes(NextFrame(v))
      BY <1>10
  <2> HIDE DEF v
  <2> QED BY <1>1, <1>2, <1>6, <1>7, <1>8, <2>1, <2>2, NextFrameHears
<1> QED BY <1>2, <1>9, <1>10

\* Steps of the reading side that read nothing, and the steps of the writing side.
LEMMA ReadFailsHears == ASSUME Inv, Heard, ReadFails PROVE Heard'
<1> DEFINE y == ReadFailed(c)
<1>1. Good(c) /\ ~c.deleted /\ c.isReading
    BY DEF ReadFails, Inv, TypeOK, Good
<1>2. Good(y) /\ y.state = c.state /\ ~y.isReading
    BY <1>1, ReadFailedGood
<1>3. Becomes(y) /\ UNCHANGED <<wire, sent, said, handled>>
    BY DEF ReadFails
<1>4. c.state # "new"
    BY <1>1 DEF Inv
<1> HIDE DEF y
<1> QED BY <1>2, <1>3, <1>4, HeardKept DEF Good

LEMMA RunPostedHears == ASSUME Inv, Heard, RunPosted PROVE Heard'
<1> DEFINE q == Append(c.queue, Head(posted))
           x == [c EXCEPT !.queue = q]
           y == DoWrite(x)
<1>1. /\ Good(c) /\ ~c.deleted /\ posted \in Seq(FrameOut) /\ posted # <<>>
      /\ Becomes(y) /\ UNCHANGED <<wire, sent, said, handled>>
    BY DEF RunPosted, Inv, TypeOK, Good
<1>2. q \in Seq(FrameOut) /\ q # <<>>
  <2>1. c.queue \in Seq(FrameOut) /\ Head(posted) \in FrameOut
      BY <1>1 DEF Good, Object
  <2> QED BY <2>1, AppendProperties
<1> HIDE DEF q
<1>3. /\ x \in Object /\ SameSide(c, x)
    BY <1>1, <1>2 DEF Good, Object, SameSide
<1>4. /\ x.isReading = c.isReading /\ x.deleted = c.deleted /\ x.queue = q
      /\ x.sentClose = c.sentClose /\ x.recvClose = c.recvClose
      /\ x.sending = c.sending /\ x.write = c.write
      /\ x.closeCalled = c.closeCalled /\ x.closes = c.closes
    BY <1>1 DEF Good, Object
<1> HIDE DEF x
<1>5. Good(x) /\ ~x.deleted
    BY <1>1, <1>3, <1>4 DEF Good, Sound
<1>6. y \in Object /\ SameSide(x, y)
    BY <1>2, <1>3, <1>4, <1>5, DoWriteGood, DoWriteSide DEF Good
<1> HIDE DEF y
<1> QED BY <1>1, <1>3, <1>6, HeardAside DEF SameSide

LEMMA WritesHear == ASSUME Inv, Heard, Writes PROVE Heard'
<1>1. Good(c) /\ UNCHANGED <<wire, sent, said, handled>>
    BY DEF Writes, WriteSucceeds, WriteFails, Inv, TypeOK, Good
<1>2. CASE c.deleted
  <2> DEFINE y == [c EXCEPT !.write = "idle"]
  <2>1. Becomes(y)
      BY <1>2 DEF Writes, WriteSucceeds, WriteFails
  <2>2. y \in Object /\ SameSide(c, y)
      BY <1>1 DEF Good, Object, SameSide
  <2> HIDE DEF y
  <2> QED BY <1>1, <2>1, <2>2, HeardAside
<1>3. CASE ~c.deleted
  <2>1. Becomes(WriteEnded(c)) \/ Becomes(Written(c))
      BY <1>3 DEF Writes, WriteSucceeds, WriteFails
  <2>2. /\ WriteEnded(c) \in Object /\ SameSide(c, WriteEnded(c))
        /\ Written(c) \in Object /\ SameSide(c, Written(c))
      BY <1>1, <1>3, WriteEndedGood, WrittenGood, WriteEndedSide, WrittenSide DEF Good
  <2> QED BY <1>1, <2>1, <2>2, HeardAside
<1> QED BY <1>2, <1>3

LEMMA KernelHears ==
    ASSUME Inv, Heard, KernelTakes \/ PeerLeaves \/ UNCHANGED vars
    PROVE  Heard'
<1>1. CASE KernelTakes
  <2>1. c \in Object /\ Becomes(c) /\ UNCHANGED <<wire, sent, said, handled>>
      BY <1>1 DEF KernelTakes, Becomes, Inv, TypeOK
  <2>2. SameSide(c, c)
      BY DEF SameSide
  <2> QED BY <2>1, <2>2, HeardAside
<1>2. CASE PeerLeaves \/ UNCHANGED vars
    BY <1>2 DEF PeerLeaves, vars, Heard, Record, Place, Consumed
<1> QED BY <1>1, <1>2

\* A frame that is sent adds its share to what was said, at the end.
LEMMA PeerSendsHears == ASSUME Inv, Heard, PeerSends PROVE Heard'
<1> DEFINE n == Len(sent) + 1
           last == said[Len(said)]
<1>1. PICK f \in Frames : /\ sent' = Append(sent, f)
                          /\ said' = Append(said, Take(last, f, n))
                          /\ wire' = Append(wire, Numbered(f, n))
    BY DEF PeerSends
<1> DEFINE now == Take(last, f, n)
           w == Numbered(f, n)
<1>2. UNCHANGED <<c, handled>>
    BY DEF PeerSends
<1>3. /\ sent \in Seq(FrameSet) /\ wire \in Seq(NumberedSet) /\ said \in Seq(Said)
      /\ f \in FrameSet /\ n \in Nat
  <2>1. f \in FrameSet
      BY WebSocketSessionAssumption
  <2> QED BY <2>1 DEF Inv, TypeOK
<1>4. /\ Len(said) = n /\ Len(wire) <= Len(sent) /\ Len(wire) \in Nat /\ Len(sent) \in Nat
      /\ Consumed = Len(sent) - Len(wire) /\ Consumed \in Nat
    BY <1>3 DEF Heard, Record, Consumed
<1>5. last \in Said /\ now \in Said /\ w \in NumberedSet
  <2>1. Len(said) \in 1 .. Len(said)
      BY <1>3, <1>4
  <2>2. last \in Said
      BY <1>3, <2>1, ElementOfSeq
  <2>3. w \in NumberedSet
      BY <1>3 DEF FrameSet, Numbered, NumberedSet
  <2> HIDE DEF last, n
  <2> QED BY <1>3, <2>2, <2>3, TakeType
<1>6. IsPrefix(last.done, now.done)
  <2> HIDE DEF last, n
  <2>1. last.done \in Seq(Bytes) /\ last.open \o Pieces(n, f.size) \in Bytes
    <3>1. f.size \in Nat /\ last.open \in Bytes /\ last.done \in Seq(Bytes)
        BY <1>3, <1>5 DEF FrameSet, Said
    <3>2. Pieces(n, f.size) \in Bytes
        BY <1>3, <3>1, PiecesFrom
    <3> QED BY <3>1, <3>2, ConcatProperties DEF Bytes
  <2>2. CASE f.op = "data" /\ f.fin
    <3> DEFINE m == last.open \o Pieces(n, f.size)
    <3>1. now.done = Append(last.done, m)
        BY <2>2 DEF Take
    <3> HIDE DEF m
    <3>2. m \in Bytes /\ <<m>> \in Seq(Bytes)
        BY <2>1 DEF m
    <3>3. now.done = last.done \o <<m>>
        BY <2>1, <3>1, <3>2, AppendIsConcat
    <3> QED BY <2>1, <3>2, <3>3, PrefixOfConcat
  <2>3. CASE ~(f.op = "data" /\ f.fin)
    <3>1. now.done = last.done
        BY <2>3 DEF Take
    <3> QED BY <2>1, <3>1, PrefixItself
  <2> QED BY <2>2, <2>3
<1> HIDE DEF now, w
<1>7. /\ Len(sent') = n /\ Len(said') = n + 1 /\ Len(wire') = Len(wire) + 1
      /\ \A i \in 1 .. n - 1 : sent'[i] = sent[i]
      /\ sent'[n] = f
      /\ \A i \in 1 .. n : said'[i] = said[i]
      /\ said'[n + 1] = now
      /\ \A j \in 1 .. Len(wire) : wire'[j] = wire[j]
      /\ wire'[Len(wire) + 1] = w
  <2>1. said' = Append(said, now) /\ wire' = Append(wire, w)
      BY <1>1 DEF now, w
  <2>2. /\ Len(sent') = Len(sent) + 1 /\ sent'[Len(sent) + 1] = f
        /\ \A i \in 1 .. Len(sent) : sent'[i] = sent[i]
      BY <1>1, <1>3, AppendProperties
  <2>3. /\ Len(said') = Len(said) + 1 /\ said'[Len(said) + 1] = now
        /\ \A i \in 1 .. Len(said) : said'[i] = said[i]
      BY <1>3, <1>5, <2>1, AppendProperties
  <2>4. /\ Len(wire') = Len(wire) + 1 /\ wire'[Len(wire) + 1] = w
        /\ \A i \in 1 .. Len(wire) : wire'[i] = wire[i]
      BY <1>3, <1>5, <2>1, AppendProperties
  <2> QED BY <1>3, <1>4, <2>2, <2>3, <2>4
<1>8. Consumed' = Consumed
    BY <1>4, <1>7 DEF Consumed
<1>9. \A j \in 1 .. Len(wire') : wire'[j] = Numbered(sent'[Consumed + j], Consumed + j)
  <2> SUFFICES ASSUME NEW j \in 1 .. Len(wire')
               PROVE  wire'[j] = Numbered(sent'[Consumed + j], Consumed + j)
      OBVIOUS
  <2>1. CASE j = Len(wire) + 1
    <3>1. Consumed + j = n
        BY <1>4, <2>1
    <3> QED BY <1>7, <2>1, <3>1 DEF w
  <2>2. CASE j # Len(wire) + 1
    <3>1. j \in 1 .. Len(wire) /\ Consumed + j \in 1 .. n - 1
        BY <1>4, <1>7, <2>2
    <3>2. wire[j] = Numbered(sent[Consumed + j], Consumed + j)
        BY <3>1 DEF Heard, Record
    <3> QED BY <1>7, <3>1, <3>2
  <2> QED BY <2>1, <2>2
<1>10. \A i \in 1 .. Len(sent') : said'[i + 1] = Take(said'[i], sent'[i], i)
  <2> SUFFICES ASSUME NEW i \in 1 .. n
               PROVE  said'[i + 1] = Take(said'[i], sent'[i], i)
      BY <1>7
  <2>1. CASE i = n
    <3>1. said'[i] = last
        BY <1>3, <1>4, <1>7, <2>1
    <3> QED BY <1>7, <2>1, <3>1 DEF now
  <2>2. CASE i # n
    <3>1. i \in 1 .. Len(sent) /\ i + 1 \in 1 .. n /\ i \in 1 .. n - 1
        BY <1>4, <2>2
    <3>2. said[i + 1] = Take(said[i], sent[i], i)
        BY <3>1 DEF Heard, Record
    <3> QED BY <1>7, <3>1, <3>2
  <2> QED BY <2>1, <2>2
<1>11. \A i \in 1 .. Len(said') : IsPrefix(said'[i].done, said'[Len(said')].done)
  <2> SUFFICES ASSUME NEW i \in 1 .. n + 1
               PROVE  IsPrefix(said'[i].done, now.done)
      BY <1>7
  <2>1. CASE i = n + 1
    <3>1. now.done \in Seq(Bytes)
        BY <1>5 DEF Said
    <3> QED BY <1>7, <2>1, <3>1, PrefixItself
  <2>2. CASE i # n + 1
    <3>1. i \in 1 .. n /\ said'[i] = said[i]
        BY <1>3, <1>7, <2>2
    <3>2. said[i] \in Said
        BY <1>3, <1>4, <3>1, ElementOfSeq
    <3>3. IsPrefix(said[i].done, last.done)
        BY <1>4, <3>1 DEF Heard, Record
    <3>4. /\ said[i].done \in Seq(Bytes) /\ last.done \in Seq(Bytes)
          /\ now.done \in Seq(Bytes)
        BY <1>5, <3>2 DEF Said
    <3>5. PICK r \in Seq(Bytes) : now.done = last.done \o r
        BY <1>6, <3>4, PrefixHasRest
    <3> QED BY <3>1, <3>3, <3>4, <3>5, PrefixExtends
  <2> QED BY <2>1, <2>2
<1>12. Record'
    BY <1>4, <1>7, <1>8, <1>9, <1>10, <1>11 DEF Record
<1>13. said'[Consumed + 1] = said[Consumed + 1]
    BY <1>4, <1>7
<1>14. At(c, wire) => At(c, wire')
  <2>1. wire # <<>> => Head(wire') = Head(wire)
    <3>1. wire # <<>> => Len(wire) \in Nat \ {0}
        BY <1>3, EmptySeq
    <3>2. wire' \in Seq(NumberedSet) /\ wire' # <<>>
        BY <1>1, <1>3, <1>5, AppendProperties DEF w
    <3> QED BY <1>3, <1>7, <3>1, <3>2, HeadTailProperties
  <2>2. wire' # <<>>
      BY <1>1, <1>3, <1>5, AppendProperties DEF w
  <2> QED BY <2>1, <2>2 DEF At
<1> QED BY <1>2, <1>8, <1>12, <1>13, <1>14 DEF Heard, Place
-----------------------------------------------------------------------------
LEMMA HeardInit == Init => Heard
<1> SUFFICES ASSUME Init PROVE Heard
    OBVIOUS
<1>1. /\ sent = <<>> /\ wire = <<>> /\ said = <<NothingSaid>> /\ handled = <<>>
      /\ c.message = <<>> /\ c.fragment = <<>> /\ c.state = "new"
    BY DEF Init
<1>2. /\ Len(sent) = 0 /\ Len(wire) = 0 /\ Len(said) = 1 /\ Consumed = 0
      /\ said[1] = NothingSaid
    BY <1>1 DEF Consumed
<1>3. NothingSaid.done = <<>> /\ NothingSaid.open = <<>>
    BY DEF NothingSaid
<1>4. \A i \in 1 .. 1 : IsPrefix(said[i].done, said[1].done)
  <2> DEFINE none == <<>>
  <2>1. none \in Seq(Bytes)
      OBVIOUS
  <2>2. said[1].done = none
      BY <1>2, <1>3
  <2> HIDE DEF none
  <2>3. IsPrefix(none, none)
      BY <2>1, PrefixItself
  <2> QED BY <2>2, <2>3
<1>5. Record
    BY <1>2, <1>4 DEF Record
<1>6. Place /\ handled = said[Consumed + 1].done
    BY <1>1, <1>2, <1>3 DEF Place, At
<1> QED BY <1>5, <1>6 DEF Heard

LEMMA HeardStep ==
    ASSUME ~SplitHeaders, Inv, Heard, [Next]_vars
    PROVE  Heard'
<1>1. CASE Start
    BY <1>1, StartHears
<1>2. CASE Reads
  <2>1. ~ReadHalfHeader
      BY DEF ReadHalfHeader
  <2>2. CASE ReadHeader \/ ReadLength \/ ReadMask
      BY <2>2, HeaderHears
  <2>3. CASE ReadSome \/ ReadPart \/ ReadMessage
      BY <2>3, ReadSomeHears, ReadPartHears, ReadMessageHears
  <2>4. CASE ReadPing \/ ReadPong \/ ReadClose \/ ReadFails
      BY <2>4, ReadControlHears, ReadCloseHears, ReadFailsHears
  <2> QED BY <1>2, <2>1, <2>2, <2>3, <2>4 DEF Reads
<1>3. CASE RunPosted \/ Writes
    BY <1>3, RunPostedHears, WritesHear
<1>4. CASE KernelTakes \/ PeerLeaves \/ UNCHANGED vars
    BY <1>4, KernelHears
<1>5. CASE PeerSends
    BY <1>5, PeerSendsHears
<1> QED BY <1>1, <1>2, <1>3, <1>4, <1>5 DEF Next

\* Where the two bytes of a header always arrive together, onmessage is called with the peer's
\* messages, each with all its fragments, in order and once, for any frames, however a payload
\* is cut into reads, and whatever pings, pongs and close frames lie between the fragments.
THEOREM MessagesSafe == ~SplitHeaders => (Spec => []MessagesWhole)
<1> SUFFICES ASSUME ~SplitHeaders PROVE Spec => []MessagesWhole
    OBVIOUS
<1>1. Inv /\ Heard /\ [Next]_vars => Heard'
    BY HeardStep
<1>2. Inv /\ Heard => MessagesWhole
  <2> SUFFICES ASSUME Inv, Heard PROVE MessagesWhole
      OBVIOUS
  <2>1. Consumed + 1 \in 1 .. Len(said)
    <3>1. Len(sent) \in Nat /\ Len(wire) \in Nat
        BY DEF Inv, TypeOK
    <3> QED BY <3>1 DEF Heard, Record, Consumed
  <2> QED BY <2>1 DEF Heard, Record, MessagesWhole
<1> QED BY <1>1, <1>2, HeardInit, InvHolds, PTL DEF Spec
=============================================================================
