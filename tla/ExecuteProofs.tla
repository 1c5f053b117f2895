--------------------------- MODULE ExecuteProofs ----------------------------
(***************************************************************************)
(* Theorems about Execute, for any calls, threads, descriptors, pipe size, *)
(* input and commands: its types, that a call no other overlaps returns    *)
(* all its child wrote and the child's result, that it leaves nothing      *)
(* behind if it waited for the child, and that every call implements       *)
(* CommandCall.                                                            *)
(*                                                                         *)
(* The invariant IInv is about the calls that are alone and have not       *)
(* failed: which descriptors are theirs at each place of exec_command_     *)
(* (HasR, HasW, OwnTable), what their child has (OwnChild, ChildAt), where *)
(* what the child wrote is (Streams), and that what other calls, failed    *)
(* ones among them, left running holds none of it (HoldsNot).              *)
(***************************************************************************)
EXTENDS Execute, TLAPS, SequenceTheorems

-----------------------------------------------------------------------------
(* Types.                                                                  *)

LEMMA EndTyped ==
  ASSUME NEW t \in [Fds -> EndSet], NEW f
  PROVE  End(t, f) \in EndSet
BY DEF End, EndSet

LEMMA WithoutTyped ==
  ASSUME NEW t \in [Fds -> EndSet], NEW F
  PROVE  Without(t, F) \in [Fds -> EndSet]
BY DEF Without, EndSet

LEMMA EndHasPipe ==
  ASSUME NEW e \in EndSet, e.dir \in {"r", "w"}
  PROVE  e.pipe \in Pipes
BY DEF EndSet, Closed

LEMMA InitTyped == Init => TypeOK
<1> SUFFICES ASSUME Init PROVE TypeOK
    OBVIOUS
<1>1. NoFds \in [r: Fds \cup {0}, w: Fds \cup {0}]
      BY DEF NoFds
<1>2. NoArray \in Array
      BY <1>1 DEF NoArray, Array
<1>3. Unused \in [Fds -> EndSet]
      BY DEF Unused, EndSet
<1>4. [i \in Ids |-> Closed] \in [Ids -> EndSet]
      BY DEF EndSet
<1>5. /\ <<>> \in Seq(Ops)
      /\ <<>> \in Seq(Unit)
      OBVIOUS
<1>6. NoChild \in ChildSet
      BY <1>2, <1>3, <1>4, <1>5 DEF NoChild, ChildSet
<1>7. Stdin \in Ids
      BY DEF Stdin, Ids, Stderr
<1>8. [k \in Calls |-> [i \in Ids |-> <<>>]] \in [Calls -> [Ids -> Seq(Unit)]]
      BY <1>5
<1>9. buf \in [Pipes -> Seq(Unit)]
      BY <1>5 DEF Init
<1>10. /\ pc \in [Calls -> Places] /\ step \in [Calls -> Ids]
       /\ fd \in [Calls -> Fds \cup {0}] /\ left \in [Calls -> Nat]
       /\ \A k \in Calls : left[k] > 0
       /\ result \in [Calls -> {"zero", "nonzero"}]
  <2>1. InputUnits \in Nat /\ InputUnits > 0
        BY ExecuteAssumption
  <2>2. left = [k \in Calls |-> InputUnits]
        BY DEF Init
  <2>3. left \in [Calls -> Nat] /\ \A k \in Calls : left[k] > 0
        BY <2>1, <2>2
  <2>4. pc \in [Calls -> Places] /\ step \in [Calls -> Ids]
        BY <1>7 DEF Init, Places, Stdin
  <2>5. fd \in [Calls -> Fds \cup {0}] /\ result \in [Calls -> {"zero", "nonzero"}]
        BY DEF Init
  <2> QED
      BY <2>3, <2>4, <2>5
<1>11. killed \in BOOLEAN /\ alone \in [Calls -> BOOLEAN]
      BY DEF Init
<1> QED
    BY <1>2, <1>3, <1>6, <1>8, <1>9, <1>10, <1>11 DEF Init, TypeOK

LEMMA FailTyped ==
  ASSUME TypeOK, NEW k \in Calls, Fail(k)
  PROVE  TypeOK'
BY DEF TypeOK, Fail, Goto, Places, Returned

LEMMA CloseOrTyped ==
  ASSUME TypeOK, NEW k \in Calls, NEW f, NEW next \in {"callOut", "closeErr", "wait"}, CloseOr(k, f, next)
  PROVE  TypeOK'
<1>1. CASE Fail(k)
      BY <1>1, FailTyped
<1>2. CASE /\ table' = Without(table, {f}) /\ Goto(k, next)
           /\ UNCHANGED <<step, pipes, fd, left, got, result, buf, child, killed, alone>>
  <2>1. table' \in [Fds -> EndSet]
        BY <1>2, WithoutTyped DEF TypeOK
  <2>2. pc' \in [Calls -> Places]
        BY <1>2 DEF TypeOK, Goto, Places
  <2>3. \A j \in Calls : pc'[j] \in {"new", "pipe", "fork", "close", "write"} => left'[j] > 0
        BY <1>2 DEF TypeOK, Goto
  <2> QED
      BY <1>2, <2>1, <2>2, <2>3 DEF TypeOK
<1> QED
    BY <1>1, <1>2 DEF CloseOr

LEMMA BecomesTyped ==
  ASSUME TypeOK, NEW k \in Calls, NEW x \in ChildSet, Becomes(k, x), buf' \in [Pipes -> Seq(Unit)]
  PROVE  TypeOK'
BY DEF TypeOK, Becomes

LEMMA ExitedTyped ==
  ASSUME NEW x \in ChildSet, NEW good \in BOOLEAN
  PROVE  Exited(x, good) \in ChildSet
<1>1. Unused \in [Fds -> EndSet] /\ [i \in Ids |-> Closed] \in [Ids -> EndSet]
      BY DEF Unused, EndSet
<1>2. NoArray \in Array
      BY DEF NoArray, NoFds, Array
<1>3. <<>> \in Seq(Ops)
      OBVIOUS
<1> QED
    BY <1>1, <1>2, <1>3 DEF Exited, ChildSet

LEMMA CallTyped ==
  ASSUME TypeOK, NEW k \in Calls, Call(k)
  PROVE  TypeOK'
<1>1. pc' \in [Calls -> Places]
      BY DEF Call, Goto, TypeOK, Places
<1>2. \A j \in Calls : pc'[j] \in {"new", "pipe", "fork", "close", "write"} => left'[j] > 0
      BY DEF Call, Goto, TypeOK
<1>3. alone' \in [Calls -> BOOLEAN]
  <2>1. \A j \in Calls : (alone[j] /\ ~Active(j) /\ (j = k => \A i \in Calls : ~Active(i))) \in BOOLEAN
        OBVIOUS
  <2> QED
      BY <2>1, Zenon DEF Call
<1> QED
    BY <1>1, <1>2, <1>3 DEF Call, TypeOK

LEMMA MakePipeTyped ==
  ASSUME TypeOK, NEW k \in Calls, MakePipe(k)
  PROVE  TypeOK'
<1>1. PICK r \in Free, w \in Free :
          /\ pipes' = [pipes EXCEPT ![step[k]] = [r |-> r, w |-> w]]
          /\ table' = [table EXCEPT ![r] = ReadEnd(<<k, step[k]>>), ![w] = WriteEnd(<<k, step[k]>>)]
      BY DEF MakePipe
<1>2. r \in Fds /\ w \in Fds /\ step[k] \in Ids
      BY DEF Free, TypeOK
<1>3. pipes' \in Array
      BY <1>1, <1>2 DEF TypeOK, Array
<1>4. /\ ReadEnd(<<k, step[k]>>) \in EndSet
      /\ WriteEnd(<<k, step[k]>>) \in EndSet
      BY <1>2 DEF ReadEnd, WriteEnd, EndSet, Pipes
<1>5. table' \in [Fds -> EndSet]
      BY <1>1, <1>2, <1>4 DEF TypeOK
<1>6. pc' \in [Calls -> Places] /\ step' \in [Calls -> Ids]
  <2>1. CASE step[k] = Stderr
    <3>1. pc' = [pc EXCEPT ![k] = "fork"] /\ step' = [step EXCEPT ![k] = 1]
          BY <2>1 DEF MakePipe, Goto
    <3>2. 1 \in Ids /\ "fork" \in Places
          BY DEF Ids, Stdin, Stderr, Places
    <3> QED
        BY <3>1, <3>2 DEF TypeOK
  <2>2. CASE step[k] # Stderr
    <3>1. step[k] + 1 \in Ids
          BY <1>2, <2>2 DEF Ids, Stdin, Stderr
    <3>2. pc' = pc /\ step' = [step EXCEPT ![k] = step[k] + 1]
          BY <2>2 DEF MakePipe
    <3> QED
        BY <3>1, <3>2 DEF TypeOK
  <2> QED
      BY <2>1, <2>2
<1>7. \A j \in Calls : pc'[j] \in {"new", "pipe", "fork", "close", "write"} => left'[j] > 0
      BY DEF TypeOK, MakePipe, Goto
<1> QED
    BY <1>3, <1>5, <1>6, <1>7 DEF TypeOK, MakePipe

LEMMA ForkTyped ==
  ASSUME TypeOK, NEW k \in Calls, Fork(k)
  PROVE  TypeOK'
<1>1. child' \in [Calls -> ChildSet]
  <2> DEFINE x == child[k]
             y == [x EXCEPT !.state = "forked", !.table = table, !.pipes = pipes]
  <2>1. child' = [child EXCEPT ![k] = y]
        BY DEF Fork
  <2>2. x \in ChildSet
        BY DEF TypeOK
  <2>3. y \in ChildSet
    <3> HIDE DEF x
    <3> QED
        BY <2>2 DEF TypeOK, ChildSet
  <2> HIDE DEF y
  <2> QED
      BY <2>1, <2>3 DEF TypeOK
<1>2. pc' \in [Calls -> Places]
      BY DEF TypeOK, Fork, Goto, Places
<1>3. \A j \in Calls : pc'[j] \in {"new", "pipe", "fork", "close", "write"} => left'[j] > 0
      BY DEF TypeOK, Fork, Goto
<1> QED
    BY <1>1, <1>2, <1>3 DEF TypeOK, Fork

LEMMA ForkFailsTyped ==
  ASSUME TypeOK, NEW k \in Calls, ForkFails(k)
  PROVE  TypeOK'
<1>1. table' \in [Fds -> EndSet]
      BY WithoutTyped DEF TypeOK, ForkFails
<1>2. pc' \in [Calls -> Places]
      BY DEF TypeOK, ForkFails, Goto, Places, Returned
<1>3. \A j \in Calls : pc'[j] \in {"new", "pipe", "fork", "close", "write"} => left'[j] > 0
      BY DEF TypeOK, ForkFails, Goto
<1> QED
    BY <1>1, <1>2, <1>3 DEF TypeOK, ForkFails

LEMMA CloseChildEndTyped ==
  ASSUME TypeOK, NEW k \in Calls, CloseChildEnd(k)
  PROVE  TypeOK'
<1>1. table' \in [Fds -> EndSet]
      BY WithoutTyped DEF TypeOK, CloseChildEnd
<1>2. pc' \in [Calls -> Places] /\ step' \in [Calls -> Ids]
  <2>1. CASE step[k] = Stderr
        BY <2>1 DEF TypeOK, CloseChildEnd, Goto, Places
  <2>2. CASE step[k] # Stderr
    <3> step[k] \in Ids
        BY DEF TypeOK
    <3>1. step[k] + 1 \in Ids
          BY <2>2 DEF Ids, Stdin, Stderr
    <3>2. pc' = pc /\ step' = [step EXCEPT ![k] = @ + 1]
          BY <2>2 DEF CloseChildEnd
    <3> QED
        BY <3>1, <3>2 DEF TypeOK
  <2> QED
      BY <2>1, <2>2
<1>3. \A j \in Calls : pc'[j] \in {"new", "pipe", "fork", "close", "write"} => left'[j] > 0
      BY DEF TypeOK, CloseChildEnd, Goto
<1> QED
    BY <1>1, <1>2, <1>3 DEF TypeOK, CloseChildEnd

LEMMA WriteTyped ==
  ASSUME TypeOK, NEW k \in Calls, Write(k)
  PROVE  TypeOK'
<1>1. WriteTo \in EndSet
      BY EndTyped DEF WriteTo, TypeOK
<1>2. WriteTo.pipe \in Pipes
      BY <1>1, EndHasPipe DEF Write
<1>3. left[k] \in Nat /\ left[k] > 0
      BY DEF TypeOK, Write
<1>4. Append(buf[WriteTo.pipe], <<k, left[k]>>) \in Seq(Unit)
  <2>1. <<k, left[k]>> \in Unit
        BY <1>3 DEF Unit
  <2>2. buf[WriteTo.pipe] \in Seq(Unit)
        BY <1>2 DEF TypeOK
  <2> QED
      BY <2>1, <2>2
<1>5. buf' \in [Pipes -> Seq(Unit)]
      BY <1>2, <1>4 DEF Write, TypeOK
<1>6. pc' \in [Calls -> Places] /\ left' \in [Calls -> Nat]
  <2>1. left[k] - 1 \in Nat
        BY <1>3
  <2>2. left' \in [Calls -> Nat]
        BY <2>1 DEF TypeOK, Write
  <2>3. pc' = pc \/ pc' = [pc EXCEPT ![k] = "closeIn"]
        BY DEF Write, Goto
  <2>4. pc' \in [Calls -> Places]
        BY <2>3 DEF TypeOK, Places
  <2> QED
      BY <2>2, <2>4
<1>7. \A j \in Calls : pc'[j] \in {"new", "pipe", "fork", "close", "write"} => left'[j] > 0
      BY <1>3 DEF TypeOK, Write, Goto
<1> QED
    BY <1>5, <1>6, <1>7 DEF TypeOK, Write

LEMMA WriteBreaksTyped ==
  ASSUME TypeOK, NEW k \in Calls, WriteBreaks(k)
  PROVE  TypeOK'
BY DEF TypeOK, WriteBreaks, Goto, Places, Returned

LEMMA CallReadAllTyped ==
  ASSUME TypeOK, NEW k \in Calls, CallReadAll(k)
  PROVE  TypeOK'
<1>1. fd' \in [Calls -> Fds \cup {0}]
      BY DEF TypeOK, CallReadAll, Array, Ids, Stdin, Stdout, Stderr
<1>2. pc' \in [Calls -> Places]
      BY DEF TypeOK, CallReadAll, Goto, Places
<1>3. \A j \in Calls : pc'[j] \in {"new", "pipe", "fork", "close", "write"} => left'[j] > 0
      BY DEF TypeOK, CallReadAll, Goto
<1> QED
    BY <1>1, <1>2, <1>3 DEF TypeOK, CallReadAll

LEMMA ReadTyped ==
  ASSUME TypeOK, NEW k \in Calls, Read(k)
  PROVE  TypeOK'
<1>1. ReadFrom(k).pipe \in Pipes
  <2>1. ReadFrom(k) \in EndSet
        BY EndTyped DEF ReadFrom, TypeOK
  <2> QED
      BY <2>1, EndHasPipe DEF Read
<1> DEFINE p == ReadFrom(k).pipe
<1>2. buf[p] \in Seq(Unit) /\ buf[p] # <<>>
      BY <1>1 DEF TypeOK, Read
<1>3. Head(buf[p]) \in Unit /\ Tail(buf[p]) \in Seq(Unit)
      BY <1>2, HeadTailProperties
<1>4. /\ got' = [got EXCEPT ![k][Reading(k)] = Append(@, Head(buf[p]))]
      /\ buf' = [buf EXCEPT ![p] = Tail(@)]
      BY DEF Read
<1> HIDE DEF p
<1>5. Reading(k) \in Ids
      BY DEF Read, Reading, Ids, Stdin, Stdout, Stderr
<1>6. got' \in [Calls -> [Ids -> Seq(Unit)]]
  <2>1. got[k] \in [Ids -> Seq(Unit)]
        BY DEF TypeOK
  <2>2. Append(got[k][Reading(k)], Head(buf[p])) \in Seq(Unit)
        BY <2>1, <1>3, <1>5
  <2> QED
      BY <2>1, <2>2, <1>4, <1>5 DEF TypeOK
<1>7. buf' \in [Pipes -> Seq(Unit)]
      BY <1>1, <1>3, <1>4 DEF TypeOK, p
<1> QED
    BY <1>6, <1>7 DEF TypeOK, Read

LEMMA ReadEofTyped ==
  ASSUME TypeOK, NEW k \in Calls, ReadEof(k)
  PROVE  TypeOK'
<1>1. pc' \in [Calls -> Places]
      BY DEF TypeOK, ReadEof, Goto, Places, AfterRead
<1>2. \A j \in Calls : pc'[j] \in {"new", "pipe", "fork", "close", "write"} => left'[j] > 0
      BY DEF TypeOK, ReadEof, Goto, AfterRead
<1> QED
    BY <1>1, <1>2 DEF TypeOK, ReadEof

LEMMA WaitTyped ==
  ASSUME TypeOK, NEW k \in Calls, Wait(k)
  PROVE  TypeOK'
<1>1. child' \in [Calls -> ChildSet]
  <2> DEFINE x == child[k]
             y == [x EXCEPT !.state = "reaped"]
  <2>1. child' = [child EXCEPT ![k] = y]
        BY DEF Wait
  <2>2. x \in ChildSet
        BY DEF TypeOK
  <2>3. y \in ChildSet
    <3> HIDE DEF x
    <3> QED
        BY <2>2 DEF ChildSet
  <2> HIDE DEF y
  <2> QED
      BY <2>1, <2>3 DEF TypeOK
<1>2. pc' \in [Calls -> Places] /\ result' \in [Calls -> {"zero", "nonzero"}]
      BY DEF TypeOK, Wait, Goto, Places, Returned
<1>3. \A j \in Calls : pc'[j] \in {"new", "pipe", "fork", "close", "write"} => left'[j] > 0
      BY DEF TypeOK, Wait, Goto
<1> QED
    BY <1>1, <1>2, <1>3 DEF TypeOK, Wait

LEMMA ExecTyped ==
  ASSUME TypeOK, NEW k \in Calls, Exec(k)
  PROVE  TypeOK'
<1> DEFINE x == child[k]
           io == [i \in Ids |-> End(x.table, IF i = Stdin THEN x.pipes[i].r ELSE x.pipes[i].w)]
<1>1. x \in ChildSet
      BY DEF TypeOK
<1>2. io \in [Ids -> EndSet]
  <2>1. x.table \in [Fds -> EndSet]
        BY <1>1 DEF ChildSet
  <2> QED
      BY <2>1, EndTyped
<1>3. buf' \in [Pipes -> Seq(Unit)]
      BY DEF Exec, TypeOK
<1>4. CASE \E p \in Programs :
            Becomes(k, [x EXCEPT !.state = "running", !.io = io, !.todo = p,
                                 !.table = Without(@, AllFds(x.pipes)), !.pipes = NoArray])
  <2>1. PICK p \in Programs :
            Becomes(k, [x EXCEPT !.state = "running", !.io = io, !.todo = p,
                                 !.table = Without(@, AllFds(x.pipes)), !.pipes = NoArray])
        BY <1>4
  <2>2. p \in Seq(Ops)
        BY ExecuteAssumption
  <2>3. Without(x.table, AllFds(x.pipes)) \in [Fds -> EndSet]
        BY <1>1, WithoutTyped DEF ChildSet
  <2>4. NoArray \in Array
        BY DEF NoArray, NoFds, Array
  <2>5. [x EXCEPT !.state = "running", !.io = io, !.todo = p,
                  !.table = Without(@, AllFds(x.pipes)), !.pipes = NoArray] \in ChildSet
    <3> HIDE DEF x, io
    <3> QED
        BY <1>1, <1>2, <2>2, <2>3, <2>4 DEF ChildSet
  <2> QED
      BY <2>1, <2>5, <1>3, BecomesTyped
<1>5. CASE Becomes(k, Exited(x, FALSE))
      BY <1>5, <1>1, <1>3, ExitedTyped, BecomesTyped
<1> QED
    BY <1>4, <1>5, Zenon DEF Exec

LEMMA ChildReadsTyped ==
  ASSUME TypeOK, NEW k \in Calls, ChildReads(k)
  PROVE  TypeOK'
<1> DEFINE x == child[k]
           e == x.io[Stdin]
           y == [x EXCEPT !.todo = Tail(@)]
<1>1. x \in ChildSet /\ x.todo # <<>>
      BY DEF TypeOK, ChildReads, NextIs
<1>2. Tail(x.todo) \in Seq(Ops)
      BY <1>1, HeadTailProperties DEF ChildSet
<1>3. y \in ChildSet
  <2> HIDE DEF x
  <2> QED
      BY <1>1, <1>2 DEF ChildSet
<1>4. Becomes(k, y)
      BY DEF ChildReads
<1>5. buf' \in [Pipes -> Seq(Unit)]
  <2>1. CASE /\ e.dir = "r" /\ buf[e.pipe] # <<>>
             /\ buf' = [buf EXCEPT ![e.pipe] = Tail(@)]
    <3>1. e \in EndSet
          BY <1>1 DEF ChildSet, Ids, Stdin, Stderr
    <3>2. e.pipe \in Pipes
          BY <2>1, <3>1, EndHasPipe
    <3>3. Tail(buf[e.pipe]) \in Seq(Unit)
          BY <2>1, <3>2, HeadTailProperties DEF TypeOK
    <3> QED
        BY <2>1, <3>2, <3>3 DEF TypeOK
  <2>2. CASE UNCHANGED buf
        BY <2>2 DEF TypeOK
  <2> QED
      BY <2>1, <2>2 DEF ChildReads
<1> HIDE DEF y
<1> QED
    BY <1>3, <1>4, <1>5, BecomesTyped

LEMMA ChildWritesTyped ==
  ASSUME TypeOK, NEW k \in Calls, NEW i \in {Stdout, Stderr}, ChildWrites(k, i)
  PROVE  TypeOK'
<1> DEFINE x == child[k]
           e == x.io[i]
           n == x.wrote[i] + 1
           y == [x EXCEPT !.todo = Tail(@), !.wrote[i] = n]
<1>1. x \in ChildSet /\ x.todo # <<>>
      BY Zenon DEF TypeOK, ChildWrites, NextIs
<1>2. Tail(x.todo) \in Seq(Ops)
      BY <1>1, HeadTailProperties DEF ChildSet
<1>3. i \in Ids /\ n \in Nat
      BY <1>1 DEF ChildSet, Ids, Stdin, Stdout, Stderr
<1>4. CASE /\ e.dir = "w"
           /\ buf' = [buf EXCEPT ![e.pipe] = Append(@, <<k, n>>)]
           /\ Becomes(k, y)
  <2>1. y \in ChildSet
    <3> HIDE DEF x, n
    <3> QED
        BY <1>1, <1>2, <1>3 DEF ChildSet
  <2>2. e.pipe \in Pipes
        BY <1>1, <1>3, <1>4, EndHasPipe DEF ChildSet
  <2>3. Append(buf[e.pipe], <<k, n>>) \in Seq(Unit)
    <3>1. <<k, n>> \in Unit
          BY <1>3 DEF Unit
    <3>2. buf[e.pipe] \in Seq(Unit)
          BY <2>2 DEF TypeOK
    <3> QED
        BY <3>1, <3>2
  <2>4. buf' \in [Pipes -> Seq(Unit)]
        BY <1>4, <2>2, <2>3 DEF TypeOK
  <2> HIDE DEF y
  <2> QED
      BY <1>4, <2>1, <2>4, BecomesTyped
<1>5. CASE Becomes(k, Exited(x, FALSE)) /\ UNCHANGED buf
  <2>1. buf' \in [Pipes -> Seq(Unit)]
        BY <1>5 DEF TypeOK
  <2> QED
      BY <1>1, <1>5, <2>1, ExitedTyped, BecomesTyped
<1>6. \/ /\ e.dir = "w"
         /\ buf' = [buf EXCEPT ![e.pipe] = Append(@, <<k, n>>)]
         /\ Becomes(k, y)
      \/ Becomes(k, Exited(x, FALSE)) /\ UNCHANGED buf
      BY Zenon DEF ChildWrites
<1> QED
    BY <1>4, <1>5, <1>6, Zenon

LEMMA ChildEndsTyped ==
  ASSUME TypeOK, NEW k \in Calls, ChildExits(k) \/ ChildDies(k)
  PROVE  TypeOK'
<1>1. PICK good \in BOOLEAN : Becomes(k, Exited(child[k], good)) /\ UNCHANGED buf
      BY DEF ChildExits, ChildDies
<1>2. child[k] \in ChildSet /\ buf' \in [Pipes -> Seq(Unit)]
      BY <1>1 DEF TypeOK
<1> QED
    BY <1>1, <1>2, ExitedTyped, BecomesTyped

LEMMA NextTyped == TypeOK /\ [Next]_vars => TypeOK'
<1> SUFFICES ASSUME TypeOK, [Next]_vars PROVE TypeOK'
    OBVIOUS
<1>1. CASE UNCHANGED vars
      BY <1>1 DEF vars, TypeOK
<1>2. ASSUME NEW k \in Calls,
             Call(k) \/ Parent(k) \/ Child(k) \/ ChildDies(k)
      PROVE  TypeOK'
  <2>1. CASE Call(k)
        BY <2>1, CallTyped
  <2>2. CASE Parent(k)
    <3>1. CASE MakePipe(k)
          BY <3>1, MakePipeTyped
    <3>2. CASE Fork(k)
          BY <3>2, ForkTyped
    <3>3. CASE ForkFails(k)
          BY <3>3, ForkFailsTyped
    <3>4. CASE CloseChildEnd(k)
          BY <3>4, CloseChildEndTyped
    <3>5. CASE Write(k)
          BY <3>5, WriteTyped
    <3>6. CASE WriteBreaks(k)
          BY <3>6, WriteBreaksTyped
    <3>7. CASE PipeFails(k) \/ WriteFails(k) \/ ReadFails(k)
          BY <3>7, FailTyped DEF PipeFails, WriteFails, ReadFails
    <3>8. CASE CloseInput(k) \/ CloseRead(k)
          BY <3>8, CloseOrTyped DEF CloseInput, CloseRead
    <3>9. CASE CallReadAll(k)
          BY <3>9, CallReadAllTyped
    <3>10. CASE Read(k)
          BY <3>10, ReadTyped
    <3>11. CASE ReadEof(k)
          BY <3>11, ReadEofTyped
    <3>12. CASE Wait(k)
          BY <3>12, WaitTyped
    <3> QED
        BY <2>2, <3>1, <3>2, <3>3, <3>4, <3>5, <3>6, <3>7, <3>8, <3>9, <3>10, <3>11, <3>12 DEF Parent
  <2>3. CASE Child(k) \/ ChildDies(k)
    <3>1. CASE Exec(k)
          BY <3>1, ExecTyped
    <3>2. CASE ChildReads(k)
          BY <3>2, ChildReadsTyped
    <3>3. CASE \E i \in {Stdout, Stderr} : ChildWrites(k, i)
          BY <3>3, ChildWritesTyped
    <3>4. CASE ChildExits(k) \/ ChildDies(k)
          BY <3>4, ChildEndsTyped
    <3> QED
        BY <2>3, <3>1, <3>2, <3>3, <3>4 DEF Child
  <2> QED
      BY <1>2, <2>1, <2>2, <2>3
<1> QED
    BY <1>1, <1>2 DEF Next

\* Every variable of exec_command_ and of the kernel keeps its type, and no call that is still to
\* write has nothing left to write: the loop over modified_input stops where it should.
THEOREM TypeCorrect == Spec => []TypeOK
BY InitTyped, NextTyped, PTL DEF Spec
-----------------------------------------------------------------------------
(* Sequences.                                                              *)

LEMMA HeadMoves ==
  ASSUME NEW S, NEW s \in Seq(S), NEW t \in Seq(S), t # <<>>
  PROVE  Append(s, Head(t)) \o Tail(t) = s \o t
<1>1. Head(t) \in S /\ Tail(t) \in Seq(S)
      BY HeadTailProperties
<1>2. <<Head(t)>> \in Seq(S)
      BY <1>1
<1>3. Append(s, Head(t)) = s \o <<Head(t)>>
      BY <1>1, AppendIsConcat
<1>4. (s \o <<Head(t)>>) \o Tail(t) = s \o (<<Head(t)>> \o Tail(t))
      BY <1>1, <1>2, ConcatAssociative
<1>5. <<Head(t)>> \o Tail(t) = t
  <2>1. t = <<Head(t)>> \o Tail(t)
        BY HeadTailProperties
  <2> QED
      BY <2>1
<1> QED
    BY <1>3, <1>4, <1>5

LEMMA AppendLast ==
  ASSUME NEW S, NEW s \in Seq(S), NEW t \in Seq(S), NEW x \in S
  PROVE  s \o Append(t, x) = Append(s \o t, x)
<1>1. <<x>> \in Seq(S) /\ s \o t \in Seq(S)
      BY ConcatProperties
<1>2. Append(t, x) = t \o <<x>>
      BY AppendIsConcat
<1>3. Append(s \o t, x) = (s \o t) \o <<x>>
      BY <1>1, AppendIsConcat
<1> QED
    BY <1>1, <1>2, <1>3, ConcatAssociative

LEMMA MoreOutput ==
  ASSUME NEW k \in Calls, NEW n \in Nat
  PROVE  [m \in 1 .. n + 1 |-> <<k, m>>] = Append([m \in 1 .. n |-> <<k, m>>], <<k, n + 1>>)
OBVIOUS
-----------------------------------------------------------------------------
(* The invariant of a call no other overlaps.                              *)

Output2 == {Stdout, Stderr}
Before == {"new", "pipe", "fork"}
Idle == {"new", "done", "noChild"}

\* Which ends of its pipes a call that runs alone has open: pipe i, reading or writing.
HasR(k, i) ==
    \/ pc[k] = "pipe" /\ i < step[k]
    \/ pc[k] = "fork"
    \/ pc[k] = "close" /\ (i = Stdin => step[k] = Stdin)
    \/ i # Stdin /\ pc[k] \in {"write", "closeIn", "callOut", "readOut", "callErr", "readErr", "closeOut"}
    \/ i = Stderr /\ pc[k] = "closeErr"
HasW(k, i) ==
    \/ pc[k] = "pipe" /\ i < step[k]
    \/ pc[k] = "fork"
    \/ pc[k] = "close" /\ (i # Stdin => step[k] <= i)
    \/ i = Stdin /\ pc[k] \in {"write", "closeIn"}

\* No descriptor of t stands for an end of k's pipes.
NoEnds(t, k) == \A f \in Fds, i \in Ids : t[f].pipe # <<k, i>>

\* The descriptors of the process that stand for ends of k's pipes are those of the array.
OwnTable(k) ==
    \A i \in Ids :
        /\ HasR(k, i) => pipes[i].r \in Fds /\ table[pipes[i].r] = ReadEnd(<<k, i>>)
        /\ HasW(k, i) => pipes[i].w \in Fds /\ table[pipes[i].w] = WriteEnd(<<k, i>>)
        /\ \A f \in Fds : table[f].pipe = <<k, i>> =>
              \/ HasR(k, i) /\ f = pipes[i].r
              \/ HasW(k, i) /\ f = pipes[i].w

\* A child holds no end of k's pipes.
HoldsNot(x, k) == NoEnds(x.table, k) /\ \A n, i \in Ids : x.io[n].pipe # <<k, i>>

\* k's own child: before execv it has the six descriptors, after it its three streams.
OwnChild(k) ==
    LET x == child[k]
    IN  /\ x.state = "forked" =>
              /\ \A i \in Ids : /\ x.pipes[i].r \in Fds /\ x.table[x.pipes[i].r] = ReadEnd(<<k, i>>)
                                /\ x.pipes[i].w \in Fds /\ x.table[x.pipes[i].w] = WriteEnd(<<k, i>>)
              /\ \A i \in Ids, f \in Fds : x.table[f].pipe = <<k, i>> => f \in AllFds(x.pipes)
        /\ x.state = "running" =>
              /\ NoEnds(x.table, k)
              /\ \A i \in Ids : x.io[i] = IF i = Stdin THEN ReadEnd(<<k, i>>) ELSE WriteEnd(<<k, i>>)

\* Where the child is while its call is at a place.
ChildAt(k) ==
    /\ pc[k] \in Before \cup {"noChild"} => child[k].state = "none"
    /\ pc[k] \in {"close", "write", "closeIn", "callOut", "readOut"} =>
          child[k].state \in {"forked", "running", "exited"}
    /\ pc[k] \in {"callErr", "readErr", "closeOut", "closeErr", "wait"} => child[k].state = "exited"
    /\ pc[k] = "done" => child[k].state = "reaped"

\* Nothing a child writes is lost or read by another, and what was read to the end is read.
Streams(k) ==
    /\ \A i \in Output2 : got[k][i] \o buf[<<k, i>>] = Output(k, i)
    /\ pc[k] \in {"callErr", "readErr", "closeOut", "closeErr", "wait", "done"} =>
          buf[<<k, Stdout>>] = <<>>
    /\ pc[k] \in {"closeOut", "closeErr", "wait", "done"} => buf[<<k, Stderr>>] = <<>>

AloneInv(k) ==
    /\ pc[k] \notin Idle => \A j \in Calls \ {k} : ~Active(j)
    /\ pc[k] \in {"new", "fork"} => step[k] = Stdin
    /\ pc[k] = "readOut" => fd[k] = pipes[Stdout].r
    /\ pc[k] = "readErr" => fd[k] = pipes[Stderr].r
    /\ pc[k] = "done" /\ result[k] = "zero" => child[k].good
    /\ OwnTable(k)
    /\ OwnChild(k)
    /\ ChildAt(k)
    /\ Streams(k)
    /\ \A j \in Calls \ {k} : HoldsNot(child[j], k)

IInv == TypeOK /\ \A k \in Calls : alone[k] /\ pc[k] # "failed" => AloneInv(k)

LEMMA InitAlone == Init => IInv
<1> SUFFICES ASSUME Init, NEW k \in Calls PROVE AloneInv(k)
    BY InitTyped DEF IInv
<1>1. \A i \in Ids : <<>> # <<k, i>>
      OBVIOUS
<1>2. pc[k] = "new" /\ step[k] = 1 /\ \A j \in Calls : child[j] = NoChild
      BY DEF Init
<1>3. \A i \in Ids : ~HasR(k, i) /\ ~HasW(k, i)
      BY <1>2 DEF HasR, HasW
<1>4. OwnTable(k)
  <2>1. \A f \in Fds : table[f].pipe = <<>>
        BY DEF Init, Unused, Closed
  <2>2. \A f \in Fds, i \in Ids : table[f].pipe # <<k, i>>
        BY <1>1, <2>1
  <2> QED
      BY <1>3, <2>2 DEF OwnTable
<1>5. HoldsNot(NoChild, k)
  <2>1. NoChild.table = Unused /\ NoChild.io = [i \in Ids |-> Closed]
        BY DEF NoChild
  <2>2. \A i \in Ids : Closed.pipe # <<k, i>>
        BY <1>1 DEF Closed
  <2> QED
      BY <2>1, <2>2 DEF HoldsNot, NoEnds, Unused
<1>6. \A i \in Output2 : got[k][i] \o buf[<<k, i>>] = Output(k, i)
  <2> SUFFICES ASSUME NEW i \in Output2 PROVE got[k][i] \o buf[<<k, i>>] = Output(k, i)
      OBVIOUS
  <2>1. i \in Ids
        BY DEF Output2, Ids, Stdin, Stdout, Stderr
  <2>2. got[k][i] = <<>> /\ buf[<<k, i>>] = <<>>
        BY <2>1 DEF Init, Pipes
  <2>3. child[k].wrote[i] = 0
        BY <1>2, <2>1 DEF NoChild
  <2>4. Output(k, i) = <<>>
        BY <2>3 DEF Output
  <2> QED
      BY <2>2, <2>4
<1>7. child[k].state = "none"
      BY <1>2 DEF NoChild
<1> QED
    BY <1>2, <1>4, <1>5, <1>6, <1>7 DEF AloneInv, OwnChild, ChildAt, Streams, Idle, Before, Stdin
-----------------------------------------------------------------------------
(* Steps of other calls and of their children.                             *)

Same(k) ==
    /\ pc'[k] = pc[k] /\ step'[k] = step[k] /\ fd'[k] = fd[k]
    /\ got'[k] = got[k] /\ result'[k] = result[k] /\ child'[k] = child[k]
    /\ \A i \in Output2 : buf'[<<k, i>>] = buf[<<k, i>>]

LEMMA SameStreams ==
  ASSUME NEW k \in Calls, Streams(k), ChildAt(k), Same(k)
  PROVE  Streams(k)' /\ ChildAt(k)'
<1>1. Stdout \in Output2 /\ Stderr \in Output2
      BY DEF Output2
<1>2. \A i \in Output2 : Output(k, i)' = Output(k, i)
      BY DEF Output, Same
<1> QED
    BY <1>1, <1>2 DEF Streams, ChildAt, Same

LEMMA Unmoved ==
  ASSUME NEW k \in Calls, AloneInv(k), Same(k), pipes' = pipes, table' = table,
         \A j \in Calls \ {k} : Active(j)' => Active(j),
         \A j \in Calls \ {k} : HoldsNot(child'[j], k)
  PROVE  AloneInv(k)'
<1>1. Streams(k)' /\ ChildAt(k)'
      BY SameStreams DEF AloneInv
<1>2. \A i \in Ids : (HasR(k, i)' <=> HasR(k, i)) /\ (HasW(k, i)' <=> HasW(k, i))
      BY DEF HasR, HasW, Same
<1>3. OwnTable(k)'
  <2>1. OwnTable(k)
        BY Zenon DEF AloneInv
  <2> QED
      BY <1>2, <2>1 DEF OwnTable
<1>4. OwnChild(k)'
      BY DEF AloneInv, OwnChild, Same
<1>5. \A j \in Calls \ {k} : HoldsNot(child[j], k)'
      BY DEF HoldsNot, NoEnds
<1> QED
    BY <1>1, <1>3, <1>4, <1>5 DEF AloneInv, Same

LEMMA Rested ==
  ASSUME NEW k \in Calls, AloneInv(k), pc[k] \in Idle, Same(k), NoEnds(table', k),
         \A j \in Calls \ {k} : HoldsNot(child'[j], k)
  PROVE  AloneInv(k)'
<1>1. Streams(k)' /\ ChildAt(k)'
      BY SameStreams DEF AloneInv
<1>2. \A i \in Ids : ~HasR(k, i)' /\ ~HasW(k, i)'
      BY DEF HasR, HasW, Same, Idle
<1>3. OwnTable(k)'
  <2>1. \A f \in Fds, i \in Ids : table'[f].pipe # <<k, i>>
        BY Zenon DEF NoEnds
  <2> QED
      BY <1>2, <2>1 DEF OwnTable
<1>4. OwnChild(k)'
      BY DEF AloneInv, OwnChild, Same
<1>5. \A j \in Calls \ {k} : HoldsNot(child[j], k)'
      BY DEF HoldsNot, NoEnds
<1> QED
    BY <1>1, <1>3, <1>4, <1>5 DEF AloneInv, Same, Idle

LEMMA NoEndsIdle ==
  ASSUME NEW k \in Calls, OwnTable(k), pc[k] \in Idle
  PROVE  NoEnds(table, k)
<1>1. \A i \in Ids : ~HasR(k, i) /\ ~HasW(k, i)
      BY DEF HasR, HasW, Idle
<1> QED
    BY <1>1 DEF OwnTable, NoEnds

LEMMA EndNotOf ==
  ASSUME NEW k \in Calls, NEW t, NoEnds(t, k), NEW f, NEW i \in Ids
  PROVE  End(t, f).pipe # <<k, i>>
<1>1. Closed.pipe # <<k, i>>
      BY DEF Closed
<1> QED
    BY <1>1 DEF End, NoEnds

LEMMA WithoutEnds ==
  ASSUME NEW k \in Calls, NEW t, NoEnds(t, k), NEW F
  PROVE  NoEnds(Without(t, F), k)
<1>1. \A i \in Ids : Closed.pipe # <<k, i>>
      BY DEF Closed
<1> QED
    BY <1>1 DEF Without, NoEnds

LEMMA ExitedHoldsNot ==
  ASSUME NEW k \in Calls, NEW x \in ChildSet, NEW good \in BOOLEAN
  PROVE  HoldsNot(Exited(x, good), k)
<1>1. \A i \in Ids : Closed.pipe # <<k, i>>
      BY DEF Closed
<1>2. /\ Exited(x, good).table = Unused
      /\ Exited(x, good).io = [i \in Ids |-> Closed]
      BY DEF Exited, ChildSet
<1> QED
    BY <1>1, <1>2 DEF HoldsNot, NoEnds, Unused

\* A step of another call's child.
LEMMA OtherChild ==
  ASSUME TypeOK, NEW k \in Calls, NEW j \in Calls, j # k,
         AloneInv(k), Child(j) \/ ChildDies(j)
  PROVE  AloneInv(k)'
<1> DEFINE x == child[j]
           Keeps(y) == /\ Becomes(j, y) /\ HoldsNot(y, k)
                       /\ \A i \in Ids : buf'[<<k, i>>] = buf[<<k, i>>]
<1>1. x \in ChildSet /\ NoEnds(x.table, k) /\ \A n, i \in Ids : x.io[n].pipe # <<k, i>>
      BY DEF TypeOK, AloneInv, HoldsNot
<1>2. \A i \in Ids : <<k, i>> \in Pipes
      BY DEF Pipes
<1>3. ASSUME NEW good \in BOOLEAN, Becomes(j, Exited(x, good)), UNCHANGED buf
      PROVE  \E y : Keeps(y)
      BY <1>1, <1>3, ExitedHoldsNot
<1>4. ASSUME Exec(j) PROVE \E y : Keeps(y)
  <2> DEFINE io == [i \in Ids |-> End(x.table, IF i = Stdin THEN x.pipes[i].r ELSE x.pipes[i].w)]
             Run(p) == [x EXCEPT !.state = "running", !.io = io, !.todo = p,
                                 !.table = Without(@, AllFds(x.pipes)), !.pipes = NoArray]
  <2>1. CASE \E p \in Programs : Becomes(j, Run(p))
    <3>1. PICK p \in Programs : Becomes(j, Run(p))
          BY <2>1
    <3>2. Run(p).table = Without(x.table, AllFds(x.pipes)) /\ Run(p).io = io
      <4> HIDE DEF x, io
      <4> QED
          BY <1>1 DEF ChildSet
    <3>3. \A n, i \in Ids : io[n].pipe # <<k, i>>
          BY <1>1, EndNotOf
    <3>4. HoldsNot(Run(p), k)
      <4> HIDE DEF Run, io
      <4> QED
          BY <1>1, <3>2, <3>3, WithoutEnds, Zenon DEF HoldsNot
    <3> HIDE DEF Run
    <3>5. UNCHANGED buf
          BY <1>4, Zenon DEF Exec
    <3> QED
        BY <3>1, <3>4, <3>5, Zenon
  <2>2. CASE Becomes(j, Exited(x, FALSE))
        BY <2>2, <1>3, <1>4 DEF Exec
  <2> QED
      BY <2>1, <2>2, <1>4, Zenon DEF Exec
<1>5. ASSUME ChildReads(j) PROVE \E y : Keeps(y)
  <2> DEFINE e == x.io[Stdin]
             y == [x EXCEPT !.todo = Tail(@)]
  <2>1. y.table = x.table /\ y.io = x.io
    <3> HIDE DEF x
    <3> QED
        BY <1>1 DEF ChildSet
  <2>2. HoldsNot(y, k)
    <3> HIDE DEF y
    <3> QED
        BY <1>1, <2>1 DEF HoldsNot
  <2>3. \A i \in Ids : e.pipe # <<k, i>>
    <3>1. Stdin \in Ids
          BY DEF Ids, Stdin, Stderr
    <3> HIDE DEF x
    <3> QED
        BY <1>1, <3>1
  <2>4. \A i \in Ids : buf'[<<k, i>>] = buf[<<k, i>>]
        BY <1>2, <1>5, <2>3 DEF ChildReads, TypeOK
  <2>5. Becomes(j, y)
        BY <1>5 DEF ChildReads
  <2> HIDE DEF y
  <2> QED
      BY <2>2, <2>4, <2>5
<1>6. ASSUME \E i \in {Stdout, Stderr} : ChildWrites(j, i) PROVE \E y : Keeps(y)
  <2>1. PICK n \in {Stdout, Stderr} : ChildWrites(j, n)
        BY <1>6
  <2> DEFINE e == x.io[n]
             u == x.wrote[n] + 1
             y == [x EXCEPT !.todo = Tail(@), !.wrote[n] = u]
  <2>2. CASE /\ buf' = [buf EXCEPT ![e.pipe] = Append(@, <<j, u>>)]
             /\ Becomes(j, y)
    <3>1. y.table = x.table /\ y.io = x.io
      <4> HIDE DEF x, u
      <4> QED
          BY <1>1 DEF ChildSet
    <3>2. HoldsNot(y, k)
      <4> HIDE DEF y
      <4> QED
          BY <1>1, <3>1 DEF HoldsNot
    <3>3. \A i \in Ids : e.pipe # <<k, i>>
      <4>1. n \in Ids
            BY DEF Ids, Stdin, Stdout, Stderr
      <4> HIDE DEF x
      <4> QED
          BY <1>1, <4>1
    <3>4. \A i \in Ids : buf'[<<k, i>>] = buf[<<k, i>>]
          BY <1>2, <2>2, <3>3 DEF TypeOK
    <3> HIDE DEF y
    <3> QED
        BY <3>2, <3>4, <2>2
  <2>3. CASE Becomes(j, Exited(x, FALSE)) /\ UNCHANGED buf
        BY <2>3, <1>3
  <2> QED
      BY <2>1, <2>2, <2>3, Zenon DEF ChildWrites
<1>7. ASSUME ChildExits(j) \/ ChildDies(j) PROVE \E y : Keeps(y)
      BY <1>3, <1>7 DEF ChildExits, ChildDies
<1>8. PICK y : Keeps(y)
      BY <1>4, <1>5, <1>6, <1>7 DEF Child
<1>9. Same(k)
  <2>1. Output2 \subseteq Ids
        BY DEF Output2, Ids, Stdin, Stdout, Stderr
  <2> QED
      BY <1>8, <2>1 DEF Same, Becomes, TypeOK
<1>10. \A m \in Calls \ {k} : HoldsNot(child'[m], k)
       BY <1>8 DEF Becomes, TypeOK, AloneInv
<1> QED
    BY <1>8, <1>9, <1>10, Unmoved DEF Becomes, Active

LEMMA ParentActive ==
  ASSUME NEW j \in Calls, Parent(j)
  PROVE  Active(j)
<1>1. CASE MakePipe(j) \/ PipeFails(j) \/ Fork(j) \/ ForkFails(j) \/ CloseChildEnd(j)
      BY <1>1 DEF MakePipe, PipeFails, Fork, ForkFails, CloseChildEnd, Active, Returned
<1>2. CASE Write(j) \/ WriteBreaks(j) \/ WriteFails(j) \/ CloseInput(j) \/ CallReadAll(j)
      BY <1>2 DEF Write, WriteBreaks, WriteFails, CloseInput, CallReadAll, Active, Returned
<1>3. CASE Read(j) \/ ReadEof(j) \/ ReadFails(j) \/ CloseRead(j) \/ Wait(j)
      BY <1>3 DEF Read, ReadEof, ReadFails, CloseRead, Wait, Reading, Active, Returned
<1> QED
    BY <1>1, <1>2, <1>3 DEF Parent

\* A step of another call: none of k's ends are in the table.
LEMMA OtherParent ==
  ASSUME TypeOK, NEW k \in Calls, NEW j \in Calls, j # k,
         pc[k] # "failed", AloneInv(k), Parent(j)
  PROVE  AloneInv(k)'
<1> DEFINE Rests == Same(k) /\ NoEnds(table', k) /\ \A m \in Calls \ {k} : HoldsNot(child'[m], k)
<1>1. pc[k] \in Idle
      BY ParentActive DEF AloneInv
<1>2. NoEnds(table, k)
      BY <1>1, NoEndsIdle DEF AloneInv
<1>3. \A m \in Calls \ {k} : HoldsNot(child[m], k)
      BY DEF AloneInv
<1>4. \A i \in Ids : <<k, i>> \in Pipes
      BY DEF Pipes
<1>5. Output2 \subseteq Ids
      BY DEF Output2, Ids, Stdin, Stdout, Stderr
<1>6. ASSUME Fail(j) PROVE Rests
      BY <1>2, <1>3, <1>6 DEF Fail, Goto, Same, TypeOK
<1>7. ASSUME NEW f, NEW next, CloseOr(j, f, next) PROVE Rests
  <2>1. CASE Fail(j)
        BY <2>1, <1>6
  <2>2. CASE /\ table' = Without(table, {f}) /\ Goto(j, next)
             /\ UNCHANGED <<step, pipes, fd, left, got, result, buf, child, killed, alone>>
    <3>1. NoEnds(table', k)
          BY <1>2, <2>2, WithoutEnds
    <3> QED
        BY <1>3, <2>2, <3>1 DEF Goto, Same, TypeOK
  <2> QED
      BY <1>7, <2>1, <2>2 DEF CloseOr
<1>8. ASSUME MakePipe(j) PROVE Rests
  <2>1. PICK r \in Free, w \in Free :
            table' = [table EXCEPT ![r] = ReadEnd(<<j, step[j]>>), ![w] = WriteEnd(<<j, step[j]>>)]
        BY <1>8 DEF MakePipe
  <2>2. \A i \in Ids : /\ ReadEnd(<<j, step[j]>>).pipe # <<k, i>>
                       /\ WriteEnd(<<j, step[j]>>).pipe # <<k, i>>
        BY DEF ReadEnd, WriteEnd
  <2>3. r \in Fds /\ w \in Fds /\ table \in [Fds -> EndSet]
        BY DEF Free, TypeOK
  <2>4. NoEnds(table', k)
        BY <1>2, <2>1, <2>2, <2>3 DEF NoEnds
  <2>5. pc'[k] = pc[k] /\ step'[k] = step[k]
        BY <1>8 DEF MakePipe, Goto, TypeOK
  <2> QED
      BY <1>3, <1>8, <2>4, <2>5 DEF MakePipe, Same
<1>9. ASSUME Fork(j) PROVE Rests
  <2> DEFINE y == [child[j] EXCEPT !.state = "forked", !.table = table, !.pipes = pipes]
  <2>1. child[j] \in ChildSet
        BY DEF TypeOK
  <2>2. y.table = table /\ y.io = child[j].io
        BY <2>1 DEF ChildSet
  <2>3. HoldsNot(y, k)
    <3> HIDE DEF y
    <3> QED
        BY <1>2, <1>3, <2>2 DEF HoldsNot
  <2>4. child' = [child EXCEPT ![j] = y] /\ pc'[k] = pc[k]
        BY <1>9 DEF Fork, Goto, TypeOK
  <2> HIDE DEF y
  <2>5. \A m \in Calls \ {k} : HoldsNot(child'[m], k)
        BY <1>3, <2>3, <2>4 DEF TypeOK
  <2>6. child'[k] = child[k]
        BY <2>4 DEF TypeOK
  <2> QED
      BY <1>2, <1>9, <2>4, <2>5, <2>6 DEF Fork, Same
<1>10. ASSUME ForkFails(j) PROVE Rests
  <2>1. NoEnds(table', k)
        BY <1>2, <1>10, WithoutEnds DEF ForkFails
  <2> QED
      BY <1>3, <1>10, <2>1 DEF ForkFails, Goto, Same, TypeOK
<1>11. ASSUME CloseChildEnd(j) PROVE Rests
  <2>1. NoEnds(table', k)
        BY <1>2, <1>11, WithoutEnds DEF CloseChildEnd
  <2>2. pc'[k] = pc[k] /\ step'[k] = step[k]
        BY <1>11 DEF CloseChildEnd, Goto, TypeOK
  <2> QED
      BY <1>3, <1>11, <2>1, <2>2 DEF CloseChildEnd, Same
<1>12. ASSUME Write(j) PROVE Rests
  <2>1. \A i \in Ids : WriteTo.pipe # <<k, i>>
        BY <1>2, EndNotOf DEF WriteTo
  <2>2. \A i \in Output2 : buf'[<<k, i>>] = buf[<<k, i>>]
        BY <1>4, <1>5, <1>12, <2>1 DEF Write, TypeOK
  <2>3. pc'[k] = pc[k]
        BY <1>12 DEF Write, Goto, TypeOK
  <2> QED
      BY <1>2, <1>3, <1>12, <2>2, <2>3 DEF Write, Same
<1>13. ASSUME WriteBreaks(j) PROVE Rests
      BY <1>2, <1>3, <1>13 DEF WriteBreaks, Goto, Same, TypeOK
<1>14. ASSUME CallReadAll(j) PROVE Rests
      BY <1>2, <1>3, <1>14 DEF CallReadAll, Goto, Same, TypeOK
<1>15. ASSUME Read(j) PROVE Rests
  <2> DEFINE p == ReadFrom(j).pipe
  <2>1. \A i \in Ids : p # <<k, i>>
        BY <1>2, EndNotOf DEF ReadFrom
  <2>2. /\ got' = [got EXCEPT ![j][Reading(j)] = Append(@, Head(buf[p]))]
        /\ buf' = [buf EXCEPT ![p] = Tail(@)]
        /\ UNCHANGED <<pc, step, pipes, table, fd, left, result, child, killed, alone>>
        BY <1>15 DEF Read
  <2> HIDE DEF p
  <2>3. \A i \in Output2 : buf'[<<k, i>>] = buf[<<k, i>>]
        BY <1>4, <1>5, <2>1, <2>2 DEF TypeOK
  <2>4. got'[k] = got[k]
        BY <2>2 DEF TypeOK
  <2> QED
      BY <1>2, <1>3, <2>2, <2>3, <2>4 DEF Same
<1>16. ASSUME ReadEof(j) PROVE Rests
      BY <1>2, <1>3, <1>16 DEF ReadEof, Goto, Same, TypeOK
<1>17. ASSUME Wait(j) PROVE Rests
  <2> DEFINE y == [child[j] EXCEPT !.state = "reaped"]
  <2>1. child[j] \in ChildSet
        BY DEF TypeOK
  <2>2. y.table = child[j].table /\ y.io = child[j].io
        BY <2>1 DEF ChildSet
  <2>3. HoldsNot(y, k)
    <3> HIDE DEF y
    <3> QED
        BY <1>3, <2>2 DEF HoldsNot
  <2>4. child' = [child EXCEPT ![j] = y] /\ pc'[k] = pc[k] /\ result'[k] = result[k]
        BY <1>17 DEF Wait, Goto, TypeOK
  <2> HIDE DEF y
  <2>5. \A m \in Calls \ {k} : HoldsNot(child'[m], k)
        BY <1>3, <2>3, <2>4 DEF TypeOK
  <2>6. child'[k] = child[k]
        BY <2>4 DEF TypeOK
  <2> QED
      BY <1>2, <1>17, <2>4, <2>5, <2>6 DEF Wait, Same
<1>18. CASE PipeFails(j) \/ WriteFails(j) \/ ReadFails(j)
      BY <1>1, <1>6, <1>18, Rested DEF PipeFails, WriteFails, ReadFails
<1>19. CASE CloseInput(j) \/ CloseRead(j)
      BY <1>1, <1>7, <1>19, Rested DEF CloseInput, CloseRead
<1> QED
    BY <1>1, <1>8, <1>9, <1>10, <1>11, <1>12, <1>13, <1>14, <1>15, <1>16, <1>17, <1>18, <1>19, Rested
       DEF Parent
-----------------------------------------------------------------------------
(* Steps of the call itself.                                               *)

LEMMA CallAlone ==
  ASSUME TypeOK, NEW k \in Calls, pc[k] # "failed", AloneInv(k), NEW j \in Calls, Call(j), alone'[k]
  PROVE  AloneInv(k)'
<1>1. ~Active(k) /\ (k = j => \A i \in Calls : ~Active(i))
      BY DEF Call
<1>2. pc[k] \in Idle
      BY <1>1 DEF TypeOK, Places, Active, Returned, Idle
<1>3. NoEnds(table, k)
      BY <1>2, NoEndsIdle DEF AloneInv
<1>4. CASE k # j
  <2>1. Same(k) /\ table' = table /\ child' = child
        BY <1>4 DEF Call, Goto, Same, TypeOK
  <2>2. \A m \in Calls \ {k} : HoldsNot(child'[m], k)
        BY <2>1 DEF AloneInv
  <2> QED
      BY <1>2, <1>3, <2>1, <2>2, Rested
<1>5. CASE k = j
  <2>1. /\ pc[k] = "new" /\ pc' = [pc EXCEPT ![k] = "pipe"] /\ step[k] = Stdin
        /\ UNCHANGED <<step, pipes, table, fd, left, got, result, buf, child, killed>>
        BY <1>5 DEF Call, Goto, AloneInv
  <2>2. pc'[k] = "pipe" /\ \A m \in Calls \ {k} : ~Active(m)'
        BY <1>1, <1>5, <2>1 DEF TypeOK, Active
  <2>3. \A i \in Ids : ~HasR(k, i)' /\ ~HasW(k, i)'
        BY <2>1, <2>2 DEF HasR, HasW, Ids, Stdin, Stderr
  <2>4. OwnTable(k)'
        BY <1>3, <2>1, <2>3 DEF OwnTable, NoEnds
  <2>5. OwnChild(k)' /\ \A m \in Calls \ {k} : HoldsNot(child[m], k)'
        BY <2>1 DEF AloneInv, OwnChild, HoldsNot, NoEnds
  <2>6. ChildAt(k)'
        BY <2>1, <2>2 DEF AloneInv, ChildAt, Before
  <2>7. Streams(k)'
        BY <2>1, <2>2 DEF AloneInv, Streams, Output
  <2> QED
      BY <2>2, <2>4, <2>5, <2>6, <2>7 DEF AloneInv
<1> QED
    BY <1>4, <1>5

LEMMA Distinct ==
  ASSUME NEW k \in Calls, OwnTable(k), NEW i \in Ids, NEW j \in Ids
  PROVE  /\ HasR(k, i) /\ HasR(k, j) /\ i # j => pipes[i].r # pipes[j].r
         /\ HasW(k, i) /\ HasW(k, j) /\ i # j => pipes[i].w # pipes[j].w
         /\ HasR(k, i) /\ HasW(k, j) => pipes[i].r # pipes[j].w
<1>1. \A n \in {i, j} : /\ HasR(k, n) => table[pipes[n].r] = ReadEnd(<<k, n>>)
                        /\ HasW(k, n) => table[pipes[n].w] = WriteEnd(<<k, n>>)
      BY DEF OwnTable
<1>2. \A n, m \in Ids : /\ ReadEnd(<<k, n>>) = ReadEnd(<<k, m>>) => n = m
                        /\ WriteEnd(<<k, n>>) = WriteEnd(<<k, m>>) => n = m
                        /\ ReadEnd(<<k, n>>) # WriteEnd(<<k, m>>)
  <2> SUFFICES ASSUME NEW n \in Ids, NEW m \in Ids
               PROVE  /\ ReadEnd(<<k, n>>) = ReadEnd(<<k, m>>) => n = m
                      /\ WriteEnd(<<k, n>>) = WriteEnd(<<k, m>>) => n = m
                      /\ ReadEnd(<<k, n>>) # WriteEnd(<<k, m>>)
      OBVIOUS
  <2>1. /\ ReadEnd(<<k, n>>).pipe = <<k, n>> /\ ReadEnd(<<k, m>>).pipe = <<k, m>>
        /\ WriteEnd(<<k, n>>).pipe = <<k, n>> /\ WriteEnd(<<k, m>>).pipe = <<k, m>>
        /\ ReadEnd(<<k, n>>).dir = "r" /\ WriteEnd(<<k, m>>).dir = "w"
        BY DEF ReadEnd, WriteEnd
  <2>2. <<k, n>> = <<k, m>> => n = m
        OBVIOUS
  <2> QED
      BY <2>1, <2>2
<1> QED
    BY <1>1, <1>2

LEMMA CloseEnds ==
  ASSUME TypeOK, NEW k \in Calls, OwnTable(k), NEW F, table' = Without(table, F), pipes' = pipes,
         \A i \in Ids : /\ HasR(k, i)' <=> HasR(k, i) /\ pipes[i].r \notin F
                        /\ HasW(k, i)' <=> HasW(k, i) /\ pipes[i].w \notin F
  PROVE  OwnTable(k)'
<1>1. \A f \in Fds : table'[f] = IF f \in F THEN Closed ELSE table[f]
      BY DEF Without
<1>2. \A i \in Ids : Closed.pipe # <<k, i>>
      BY DEF Closed
<1> QED
    BY <1>1, <1>2 DEF OwnTable

LEMMA OthersQuiet ==
  ASSUME TypeOK, NEW k \in Calls, AloneInv(k), pc[k] \notin Idle,
         \A j \in Calls \ {k} : pc'[j] = pc[j]
  PROVE  \A j \in Calls \ {k} : ~Active(j)'
BY DEF AloneInv, Active

LEMMA DataKept ==
  ASSUME NEW k \in Calls, AloneInv(k), UNCHANGED <<got, buf, child>>
  PROVE  /\ OwnChild(k)'
         /\ \A j \in Calls \ {k} : HoldsNot(child[j], k)'
         /\ \A i \in Output2 : (got[k][i] \o buf[<<k, i>>] = Output(k, i))'
BY DEF AloneInv, OwnChild, HoldsNot, NoEnds, Streams, Output

LEMMA MakePipeAlone ==
  ASSUME TypeOK, NEW k \in Calls, AloneInv(k), MakePipe(k)
  PROVE  AloneInv(k)'
<1> DEFINE s == step[k]
<1>1. PICK r \in Free, w \in Free :
          /\ r # w
          /\ pipes' = [pipes EXCEPT ![s] = [r |-> r, w |-> w]]
          /\ table' = [table EXCEPT ![r] = ReadEnd(<<k, s>>), ![w] = WriteEnd(<<k, s>>)]
      BY DEF MakePipe
<1>2. s \in Ids /\ r \in Fds /\ w \in Fds /\ table[r] = Closed /\ table[w] = Closed
      BY DEF Free, TypeOK
<1>3. pc[k] = "pipe" /\ UNCHANGED <<fd, got, result, buf, child>>
      BY DEF MakePipe
<1>4. \/ s = Stderr /\ pc' = [pc EXCEPT ![k] = "fork"] /\ step' = [step EXCEPT ![k] = 1]
      \/ s # Stderr /\ pc' = pc /\ step' = [step EXCEPT ![k] = s + 1]
      BY DEF MakePipe, Goto
<1>5. \/ s = Stderr /\ pc'[k] = "fork" /\ step'[k] = Stdin
      \/ s # Stderr /\ pc'[k] = "pipe" /\ step'[k] = s + 1
      BY <1>3, <1>4 DEF TypeOK, Stdin
<1> HIDE DEF s
<1>6. \A i \in Ids : /\ HasR(k, i) <=> i < s
                     /\ HasW(k, i) <=> i < s
      BY <1>3 DEF HasR, HasW, s
<1>7. \A i \in Ids : (HasR(k, i)' <=> i <= s) /\ (HasW(k, i)' <=> i <= s)
  <2>1. CASE s = Stderr /\ pc'[k] = "fork"
        BY <2>1 DEF HasR, HasW, Ids, Stdin, Stderr
  <2>2. CASE pc'[k] = "pipe" /\ step'[k] = s + 1
        BY <1>2, <2>2 DEF HasR, HasW, Ids, Stdin, Stderr
  <2> QED
      BY <1>5, <2>1, <2>2
<1>8. table'[r] = ReadEnd(<<k, s>>) /\ table'[w] = WriteEnd(<<k, s>>)
      BY <1>1, <1>2 DEF TypeOK
<1>9. \A f \in Fds : f # r /\ f # w => table'[f] = table[f]
      BY <1>1, <1>2 DEF TypeOK
<1>10. pipes'[s].r = r /\ pipes'[s].w = w /\ \A i \in Ids : i # s => pipes'[i] = pipes[i]
      BY <1>1, <1>2 DEF TypeOK, Array
<1>11. \A i \in Ids : Closed # ReadEnd(<<k, i>>) /\ Closed # WriteEnd(<<k, i>>)
      BY DEF Closed, ReadEnd, WriteEnd
<1>12. \A i \in Ids : i <= s <=> i < s \/ i = s
      BY <1>2 DEF Ids, Stdin, Stderr
<1>13. OwnTable(k)'
  <2> SUFFICES ASSUME NEW i \in Ids
               PROVE  /\ i <= s => pipes'[i].r \in Fds /\ table'[pipes'[i].r] = ReadEnd(<<k, i>>)
                      /\ i <= s => pipes'[i].w \in Fds /\ table'[pipes'[i].w] = WriteEnd(<<k, i>>)
                      /\ \A f \in Fds : table'[f].pipe = <<k, i>> =>
                            i <= s /\ (f = pipes'[i].r \/ f = pipes'[i].w)
      BY <1>7 DEF OwnTable
  <2>1. OwnTable(k)
        BY DEF AloneInv
  <2>2. CASE i = s
    <3>1. \A f \in Fds : table[f].pipe # <<k, i>>
          BY <1>2, <1>6, <2>1, <2>2 DEF OwnTable, Ids, Stdin, Stderr
    <3> QED
        BY <1>2, <1>8, <1>9, <1>10, <1>12, <2>2, <3>1
  <2>3. CASE i # s
    <3>1. i < s => /\ pipes[i].r \in Fds /\ table[pipes[i].r] = ReadEnd(<<k, i>>)
                   /\ pipes[i].w \in Fds /\ table[pipes[i].w] = WriteEnd(<<k, i>>)
          BY <1>6, <2>1 DEF OwnTable
    <3>2. i < s => /\ pipes[i].r \notin {r, w} /\ pipes[i].w \notin {r, w}
          BY <1>2, <1>11, <3>1
    <3>3. \A f \in Fds : table[f].pipe = <<k, i>> => i < s /\ (f = pipes[i].r \/ f = pipes[i].w)
          BY <1>6, <2>1 DEF OwnTable
    <3>4. table'[r].pipe # <<k, i>> /\ table'[w].pipe # <<k, i>>
          BY <1>8, <2>3 DEF ReadEnd, WriteEnd
    <3> QED
        BY <1>9, <1>10, <1>12, <2>3, <3>1, <3>2, <3>3, <3>4
  <2> QED
      BY <2>2, <2>3
<1>14. pc[k] \notin Idle /\ \A j \in Calls \ {k} : pc'[j] = pc[j]
      BY <1>3, <1>4 DEF TypeOK, Idle
<1>15. \A j \in Calls \ {k} : ~Active(j)'
      BY <1>14, OthersQuiet
<1>16. ChildAt(k)' /\ Streams(k)'
      BY <1>3, <1>5, DataKept DEF AloneInv, ChildAt, Streams, Before
<1> QED
    BY <1>3, <1>5, <1>13, <1>15, <1>16, DataKept DEF AloneInv

LEMMA ForkAlone ==
  ASSUME TypeOK, NEW k \in Calls, AloneInv(k), Fork(k)
  PROVE  AloneInv(k)'
<1> DEFINE x == child[k]
           y == [x EXCEPT !.state = "forked", !.table = table, !.pipes = pipes]
<1>1. /\ pc[k] = "fork" /\ pc' = [pc EXCEPT ![k] = "close"] /\ child' = [child EXCEPT ![k] = y]
      /\ UNCHANGED <<step, pipes, table, fd, left, got, result, buf, killed, alone>>
      BY DEF Fork, Goto
<1>2. pc'[k] = "close" /\ step'[k] = Stdin /\ child'[k] = y
      BY <1>1 DEF TypeOK, AloneInv
<1>3. y.state = "forked" /\ y.table = table /\ y.pipes = pipes /\ y.wrote = x.wrote
  <2>1. x \in ChildSet
        BY DEF TypeOK
  <2> HIDE DEF x
  <2> QED
      BY <2>1 DEF ChildSet
<1> HIDE DEF y
<1>4. \A i \in Ids : HasR(k, i) /\ HasW(k, i) /\ HasR(k, i)' /\ HasW(k, i)'
      BY <1>1, <1>2 DEF HasR, HasW, Ids, Stdin, Stderr
<1>5. OwnTable(k)'
      BY <1>1, <1>4 DEF AloneInv, OwnTable
<1>6. OwnChild(k)'
  <2>1. \A i \in Ids : /\ pipes[i].r \in Fds /\ table[pipes[i].r] = ReadEnd(<<k, i>>)
                       /\ pipes[i].w \in Fds /\ table[pipes[i].w] = WriteEnd(<<k, i>>)
        BY <1>4 DEF AloneInv, OwnTable
  <2>2. \A i \in Ids, f \in Fds : table[f].pipe = <<k, i>> => f \in AllFds(pipes)
        BY DEF AloneInv, OwnTable, AllFds
  <2> QED
      BY <1>2, <1>3, <2>1, <2>2 DEF OwnChild
<1>7. ChildAt(k)'
      BY <1>2, <1>3 DEF ChildAt, Before
<1>8. \A i \in Output2 : Output(k, i)' = Output(k, i)
      BY <1>2, <1>3 DEF Output
<1>9. Streams(k)'
      BY <1>1, <1>2, <1>8 DEF AloneInv, Streams
<1>10. \A j \in Calls \ {k} : child'[j] = child[j] /\ pc'[j] = pc[j]
      BY <1>1 DEF TypeOK
<1>11. \A j \in Calls \ {k} : HoldsNot(child[j], k)'
      BY <1>10 DEF AloneInv, HoldsNot, NoEnds
<1>12. \A j \in Calls \ {k} : ~Active(j)'
      BY <1>1, <1>10, OthersQuiet DEF Idle
<1> QED
    BY <1>2, <1>5, <1>6, <1>7, <1>9, <1>11, <1>12 DEF AloneInv

LEMMA ForkFailsAlone ==
  ASSUME TypeOK, NEW k \in Calls, AloneInv(k), ForkFails(k)
  PROVE  AloneInv(k)'
<1>1. /\ pc[k] = "fork" /\ pc' = [pc EXCEPT ![k] = "noChild"]
      /\ table' = Without(table, AllFds(pipes))
      /\ UNCHANGED <<step, pipes, fd, left, got, result, buf, child, killed, alone>>
      BY DEF ForkFails, Goto
<1>2. pc'[k] = "noChild"
      BY <1>1 DEF TypeOK
<1>3. \A i \in Ids : pipes[i].r \in AllFds(pipes) /\ pipes[i].w \in AllFds(pipes)
      BY DEF AllFds
<1>4. \A i \in Ids : ~HasR(k, i)' /\ ~HasW(k, i)'
      BY <1>2 DEF HasR, HasW
<1>5. OwnTable(k)'
      BY <1>1, <1>3, <1>4, CloseEnds DEF AloneInv
<1>6. ChildAt(k)' /\ Streams(k)'
      BY <1>1, <1>2, DataKept DEF AloneInv, ChildAt, Streams, Before
<1> QED
    BY <1>1, <1>2, <1>5, <1>6, DataKept DEF AloneInv, Idle

\* A step of the parent that closes ends of its own and goes on from place to place.
LEMMA CloseAlone ==
  ASSUME TypeOK, NEW k \in Calls, AloneInv(k), NEW F, NEW l,
         table' = Without(table, F), pc' = [pc EXCEPT ![k] = l],
         UNCHANGED <<pipes, fd, left, got, result, buf, child, killed, alone>>,
         pc[k] \notin Idle,
         l \notin Idle \cup {"fork", "readOut", "readErr"},
         \A i \in Ids : /\ HasR(k, i)' <=> HasR(k, i) /\ pipes[i].r \notin F
                        /\ HasW(k, i)' <=> HasW(k, i) /\ pipes[i].w \notin F,
         ChildAt(k)', l \in {"closeErr", "wait", "closeOut"} => pc[k] \in {"closeOut", "closeErr"},
         l # "callErr"
  PROVE  AloneInv(k)'
<1>1. pc'[k] = l /\ \A j \in Calls \ {k} : pc'[j] = pc[j]
      BY DEF TypeOK
<1>2. OwnTable(k)'
      BY CloseEnds DEF AloneInv
<1>3. \A j \in Calls \ {k} : ~Active(j)'
      BY <1>1, OthersQuiet
<1>4. Streams(k)'
      BY <1>1, DataKept DEF AloneInv, Streams, Idle
<1> QED
    BY <1>1, <1>2, <1>3, <1>4, DataKept DEF AloneInv, Idle

LEMMA CloseChildEndAlone ==
  ASSUME TypeOK, NEW k \in Calls, AloneInv(k), CloseChildEnd(k)
  PROVE  AloneInv(k)'
<1> DEFINE s == step[k]
           l == IF s = Stderr THEN "write" ELSE "close"
           F == {ChildFd(s)}
<1>1. pc[k] = "close" /\ s \in Ids /\ table' = Without(table, F)
      BY DEF CloseChildEnd, TypeOK
<1>2. UNCHANGED <<pipes, fd, left, got, result, buf, child, killed, alone>>
      BY DEF CloseChildEnd
<1>3. pc' = [pc EXCEPT ![k] = l] /\ (s # Stderr => step' = [step EXCEPT ![k] = s + 1])
  <2>1. CASE s = Stderr
        BY <2>1 DEF CloseChildEnd, Goto
  <2>2. CASE s # Stderr
    <3>1. pc' = pc /\ step' = [step EXCEPT ![k] = @ + 1]
          BY <2>2 DEF CloseChildEnd
    <3>2. pc = [pc EXCEPT ![k] = "close"]
          BY <1>1 DEF TypeOK
    <3> QED
        BY <2>2, <3>1, <3>2
  <2> QED
      BY <2>1, <2>2
<1>4. pc'[k] = l /\ (s # Stderr => step'[k] = s + 1)
      BY <1>3 DEF TypeOK
<1> HIDE DEF s
<1>5. \A i \in Ids : /\ HasR(k, i) <=> (i = Stdin => s = Stdin)
                     /\ HasW(k, i) <=> (i # Stdin => s <= i)
      BY <1>1 DEF HasR, HasW, s
<1>6. \A i \in Ids : /\ HasR(k, i)' <=> i # Stdin
                     /\ HasW(k, i)' <=> (i # Stdin => s < i)
  <2>1. CASE s = Stderr
        BY <1>4, <2>1 DEF HasR, HasW, Ids, Stdin, Stderr
  <2>2. CASE s # Stderr
        BY <1>1, <1>4, <2>2 DEF HasR, HasW, Ids, Stdin, Stderr
  <2> QED
      BY <2>1, <2>2
<1>7. ASSUME NEW i \in Ids
      PROVE  /\ HasR(k, i)' <=> HasR(k, i) /\ pipes[i].r \notin F
             /\ HasW(k, i)' <=> HasW(k, i) /\ pipes[i].w \notin F
  <2>1. HasR(k, i) => (pipes[i].r \in F <=> i = Stdin)
        BY <1>1, <1>5, Distinct DEF AloneInv, ChildFd, Ids, Stdin, Stderr
  <2>2. HasW(k, i) => (pipes[i].w \in F <=> s # Stdin /\ i = s)
        BY <1>1, <1>5, Distinct DEF AloneInv, ChildFd, Ids, Stdin, Stderr
  <2> QED
      BY <1>1, <1>5, <1>6, <2>1, <2>2 DEF Ids, Stdin, Stderr
<1>8. ChildAt(k)'
      BY <1>1, <1>2, <1>4 DEF AloneInv, ChildAt, Before
<1> HIDE DEF F
<1> QED
    BY <1>1, <1>2, <1>3, <1>7, <1>8, CloseAlone DEF Idle

LEMMA CloseInputAlone ==
  ASSUME TypeOK, NEW k \in Calls, AloneInv(k), CloseInput(k), pc'[k] # "failed"
  PROVE  AloneInv(k)'
<1> DEFINE F == {pipes[Stdin].w}
<1>1. /\ pc[k] = "closeIn" /\ pc' = [pc EXCEPT ![k] = "callOut"] /\ table' = Without(table, F)
      /\ UNCHANGED <<step, pipes, fd, left, got, result, buf, child, killed, alone>>
      BY DEF CloseInput, CloseOr, Fail, Goto, TypeOK
<1>2. pc'[k] = "callOut"
      BY <1>1 DEF TypeOK
<1>3. Stdin \in Ids
      BY DEF Ids, Stdin, Stderr
<1>4. \A i \in Ids : /\ HasR(k, i) <=> i # Stdin
                     /\ HasW(k, i) <=> i = Stdin
                     /\ HasR(k, i)' <=> i # Stdin
                     /\ ~HasW(k, i)'
      BY <1>1, <1>2 DEF HasR, HasW
<1>5. ASSUME NEW i \in Ids
      PROVE  /\ HasR(k, i)' <=> HasR(k, i) /\ pipes[i].r \notin F
             /\ HasW(k, i)' <=> HasW(k, i) /\ pipes[i].w \notin F
      BY <1>3, <1>4, Distinct DEF AloneInv
<1>6. ChildAt(k)'
      BY <1>1, <1>2 DEF AloneInv, ChildAt, Before
<1> HIDE DEF F
<1> QED
    BY <1>1, <1>5, <1>6, CloseAlone DEF Idle

LEMMA CloseReadAlone ==
  ASSUME TypeOK, NEW k \in Calls, AloneInv(k), CloseRead(k), pc'[k] # "failed"
  PROVE  AloneInv(k)'
<1>1. ASSUME NEW n \in {Stdout, Stderr}, NEW l \in {"closeErr", "wait"},
             n = Stdout => pc[k] = "closeOut" /\ l = "closeErr",
             n = Stderr => pc[k] = "closeErr" /\ l = "wait",
             CloseOr(k, pipes[n].r, l)
      PROVE  AloneInv(k)'
  <2> DEFINE F == {pipes[n].r}
  <2>1. /\ pc' = [pc EXCEPT ![k] = l] /\ table' = Without(table, F)
        /\ UNCHANGED <<step, pipes, fd, left, got, result, buf, child, killed, alone>>
        BY <1>1 DEF CloseOr, Fail, Goto, TypeOK
  <2>2. pc'[k] = l
        BY <2>1 DEF TypeOK
  <2>3. n \in Ids
        BY DEF Ids, Stdin, Stdout, Stderr
  <2>4. \A i \in Ids : /\ HasR(k, i) <=> i # Stdin /\ n <= i
                       /\ HasR(k, i)' <=> i # Stdin /\ n < i
                       /\ ~HasW(k, i) /\ ~HasW(k, i)'
        BY <1>1, <2>2 DEF HasR, HasW, Ids, Stdin, Stdout, Stderr
  <2>5. ASSUME NEW i \in Ids
        PROVE  /\ HasR(k, i)' <=> HasR(k, i) /\ pipes[i].r \notin F
               /\ HasW(k, i)' <=> HasW(k, i) /\ pipes[i].w \notin F
    <3>1. HasR(k, n)
          BY <2>3, <2>4 DEF Stdin, Stdout, Stderr
    <3>2. HasR(k, i) => (pipes[i].r \in F <=> i = n)
          BY <2>3, <3>1, Distinct DEF AloneInv
    <3> QED
        BY <2>3, <2>4, <3>2 DEF Ids, Stdin, Stdout, Stderr
  <2>6. ChildAt(k)'
        BY <1>1, <2>1, <2>2 DEF AloneInv, ChildAt, Before
  <2>7. pc[k] \in {"closeOut", "closeErr"}
        BY <1>1
  <2> HIDE DEF F
  <2> QED
      BY <2>1, <2>5, <2>6, <2>7, CloseAlone DEF Idle
<1> QED
    BY <1>1 DEF CloseRead, Stdout, Stderr

\* A step of the parent that opens and closes nothing.
LEMMA GoesOn ==
  ASSUME TypeOK, NEW k \in Calls, AloneInv(k), NEW l,
         pc' = [pc EXCEPT ![k] = l], UNCHANGED <<step, pipes, table, child>>,
         pc[k] \notin Idle, l \notin Idle \cup {"fork"},
         \A i \in Ids : (HasR(k, i)' <=> HasR(k, i)) /\ (HasW(k, i)' <=> HasW(k, i)),
         l = "readOut" => fd'[k] = pipes[Stdout].r,
         l = "readErr" => fd'[k] = pipes[Stderr].r,
         ChildAt(k)', Streams(k)'
  PROVE  AloneInv(k)'
<1>1. pc'[k] = l /\ \A j \in Calls \ {k} : pc'[j] = pc[j]
      BY DEF TypeOK
<1>2. OwnTable(k)'
      BY DEF AloneInv, OwnTable
<1>3. OwnChild(k)' /\ \A j \in Calls \ {k} : HoldsNot(child[j], k)'
      BY DEF AloneInv, OwnChild, HoldsNot, NoEnds
<1>4. \A j \in Calls \ {k} : ~Active(j)'
      BY <1>1, OthersQuiet
<1> QED
    BY <1>1, <1>2, <1>3, <1>4 DEF AloneInv, Idle

LEMMA WriteAlone ==
  ASSUME TypeOK, NEW k \in Calls, AloneInv(k), Write(k)
  PROVE  AloneInv(k)'
<1> DEFINE l == IF left[k] = 1 THEN "closeIn" ELSE "write"
           p == WriteTo.pipe
<1>1. /\ pc[k] = "write" /\ buf' = [buf EXCEPT ![p] = Append(@, <<k, left[k]>>)]
      /\ UNCHANGED <<step, pipes, table, fd, got, result, child, killed, alone>>
      BY DEF Write
<1>2. pc' = [pc EXCEPT ![k] = l]
  <2>1. CASE left[k] = 1
        BY <2>1 DEF Write, Goto
  <2>2. CASE left[k] # 1
        BY <2>2, <1>1 DEF Write, TypeOK
  <2> QED
      BY <2>1, <2>2
<1>3. pc'[k] = l
      BY <1>2 DEF TypeOK
<1>4. \A i \in Ids : (HasR(k, i)' <=> HasR(k, i)) /\ (HasW(k, i)' <=> HasW(k, i))
      BY <1>1, <1>3 DEF HasR, HasW
<1>5. p = <<k, Stdin>>
  <2>1. Stdin \in Ids /\ HasW(k, Stdin)
        BY <1>1 DEF HasW, Ids, Stdin, Stderr
  <2>2. pipes[Stdin].w \in Fds /\ table[pipes[Stdin].w] = WriteEnd(<<k, Stdin>>)
        BY <2>1 DEF AloneInv, OwnTable
  <2> QED
      BY <2>2 DEF WriteTo, End, WriteEnd
<1> HIDE DEF p
<1>6. \A i \in Output2 : <<k, i>> \in Pipes /\ <<k, i>> # p
      BY <1>5 DEF Output2, Pipes, Ids, Stdin, Stdout, Stderr
<1>7. \A i \in Output2 : buf'[<<k, i>>] = buf[<<k, i>>]
      BY <1>1, <1>6 DEF TypeOK
<1>8. \A i \in Output2 : Output(k, i)' = Output(k, i)
      BY <1>1 DEF Output
<1>9. Streams(k)'
      BY <1>1, <1>3, <1>7, <1>8 DEF AloneInv, Streams
<1>10. ChildAt(k)'
      BY <1>1, <1>3 DEF AloneInv, ChildAt, Before
<1> QED
    BY <1>1, <1>2, <1>4, <1>9, <1>10, GoesOn DEF Idle

LEMMA WriteBreaksAlone ==
  ASSUME TypeOK, NEW k \in Calls, AloneInv(k), WriteBreaks(k), pc'[k] # "failed"
  PROVE  AloneInv(k)'
<1>1. UNCHANGED <<pc, step, pipes, table, fd, left, got, result, buf, child, alone>>
      BY DEF WriteBreaks, Goto, TypeOK
<1>2. Same(k)
      BY <1>1 DEF Same
<1>3. \A j \in Calls \ {k} : (Active(j)' => Active(j)) /\ HoldsNot(child'[j], k)
      BY <1>1 DEF AloneInv, Active
<1> QED
    BY <1>1, <1>2, <1>3, Unmoved

LEMMA CallReadAllAlone ==
  ASSUME TypeOK, NEW k \in Calls, AloneInv(k), CallReadAll(k)
  PROVE  AloneInv(k)'
<1>1. /\ pc[k] \in {"callOut", "callErr"}
      /\ UNCHANGED <<step, pipes, table, left, got, result, buf, child, killed, alone>>
      BY DEF CallReadAll
<1>2. ASSUME NEW l \in {"readOut", "readErr"}, NEW i \in {Stdout, Stderr},
             l = "readOut" <=> i = Stdout, pc[k] = "callOut" <=> l = "readOut",
             pc' = [pc EXCEPT ![k] = l], fd' = [fd EXCEPT ![k] = pipes[i].r]
      PROVE  AloneInv(k)'
  <2>1. pc'[k] = l /\ fd'[k] = pipes[i].r
        BY <1>2 DEF TypeOK
  <2>2. \A n \in Ids : (HasR(k, n)' <=> HasR(k, n)) /\ (HasW(k, n)' <=> HasW(k, n))
        BY <1>1, <1>2, <2>1 DEF HasR, HasW
  <2>3. ChildAt(k)'
        BY <1>1, <1>2, <2>1 DEF AloneInv, ChildAt, Before
  <2>4. Streams(k)'
        BY <1>1, <1>2, <2>1, DataKept DEF AloneInv, Streams
  <2> QED
      BY <1>1, <1>2, <2>1, <2>2, <2>3, <2>4, GoesOn DEF Idle, Stdout, Stderr
<1>3. CASE pc[k] = "callOut"
      BY <1>2, <1>3 DEF CallReadAll, Goto, Stdout, Stderr
<1>4. CASE pc[k] = "callErr"
      BY <1>2, <1>4 DEF CallReadAll, Goto, Stdout, Stderr
<1> QED
    BY <1>1, <1>3, <1>4

\* read_all reads the stream it was called for.
LEMMA ReadsOwn ==
  ASSUME TypeOK, NEW k \in Calls, AloneInv(k), Reading(k) # 0
  PROVE  /\ Reading(k) \in Output2 /\ ReadFrom(k) = ReadEnd(<<k, Reading(k)>>)
         /\ pc[k] = IF Reading(k) = Stdout THEN "readOut" ELSE "readErr"
<1>1. \/ pc[k] = "readOut" /\ Reading(k) = Stdout
      \/ pc[k] = "readErr" /\ Reading(k) = Stderr
      BY DEF Reading
<1>2. Reading(k) \in Ids /\ HasR(k, Reading(k)) /\ fd[k] = pipes[Reading(k)].r
      BY <1>1 DEF AloneInv, HasR, Ids, Stdin, Stdout, Stderr
<1>3. fd[k] \in Fds /\ table[fd[k]] = ReadEnd(<<k, Reading(k)>>)
      BY <1>2 DEF AloneInv, OwnTable
<1> QED
    BY <1>1, <1>3 DEF Output2, ReadFrom, End, Stdout, Stderr

LEMMA ReadAlone ==
  ASSUME TypeOK, NEW k \in Calls, AloneInv(k), Read(k)
  PROVE  AloneInv(k)'
<1> DEFINE r == Reading(k)
           p == ReadFrom(k).pipe
<1>1. /\ r # 0 /\ buf[p] # <<>>
      /\ got' = [got EXCEPT ![k][r] = Append(@, Head(buf[p]))]
      /\ buf' = [buf EXCEPT ![p] = Tail(@)]
      /\ UNCHANGED <<pc, step, pipes, table, fd, left, result, child, killed, alone>>
      BY DEF Read
<1>2. r \in Output2 /\ p = <<k, r>> /\ pc[k] = IF r = Stdout THEN "readOut" ELSE "readErr"
      BY <1>1, ReadsOwn DEF ReadEnd
<1> HIDE DEF r, p
<1>3. \A i \in Output2 : i \in Ids /\ <<k, i>> \in Pipes
      BY DEF Output2, Pipes, Ids, Stdin, Stdout, Stderr
<1>4. \A i \in Output2 : Output(k, i)' = Output(k, i)
      BY <1>1 DEF Output
<1>5. ASSUME NEW i \in Output2
      PROVE  (got[k][i] \o buf[<<k, i>>] = Output(k, i))'
  <2>1. got[k][i] \o buf[<<k, i>>] = Output(k, i)
        BY DEF AloneInv, Streams
  <2>2. CASE i = r
    <3>1. got[k][r] \in Seq(Unit) /\ buf[p] \in Seq(Unit)
          BY <1>2, <1>3 DEF TypeOK
    <3>2. got'[k][r] = Append(got[k][r], Head(buf[p])) /\ buf'[p] = Tail(buf[p])
          BY <1>1, <1>2, <1>3 DEF TypeOK
    <3>3. Append(got[k][r], Head(buf[p])) \o Tail(buf[p]) = got[k][r] \o buf[p]
          BY <1>1, <3>1, HeadMoves
    <3> QED
        BY <1>2, <1>4, <2>1, <2>2, <3>2, <3>3
  <2>3. CASE i # r
    <3>1. <<k, i>> # p
          BY <1>2, <2>3
    <3>2. got'[k][i] = got[k][i] /\ buf'[<<k, i>>] = buf[<<k, i>>]
          BY <1>1, <1>2, <1>3, <2>3, <3>1 DEF TypeOK
    <3> QED
        BY <1>4, <2>1, <3>2
  <2> QED
      BY <2>2, <2>3
<1>6. pc[k] \in {"readOut", "readErr"} /\ (pc[k] = "readErr" => r # Stdout)
      BY <1>2
<1>7. pc[k] = "readErr" => buf'[<<k, Stdout>>] = <<>>
  <2> SUFFICES ASSUME pc[k] = "readErr" PROVE buf'[<<k, Stdout>>] = <<>>
      OBVIOUS
  <2>1. Stdout \in Output2
        BY DEF Output2
  <2>2. <<k, Stdout>> # p
        BY <1>2, <1>6
  <2>3. buf'[<<k, Stdout>>] = buf[<<k, Stdout>>]
        BY <1>1, <1>3, <2>1, <2>2 DEF TypeOK
  <2> QED
      BY <2>3 DEF AloneInv, Streams
<1>8. Streams(k)'
      BY <1>1, <1>5, <1>6, <1>7 DEF Streams
<1>9. pc' = [pc EXCEPT ![k] = pc[k]]
      BY <1>1 DEF TypeOK
<1>10. \A i \in Ids : (HasR(k, i)' <=> HasR(k, i)) /\ (HasW(k, i)' <=> HasW(k, i))
      BY <1>1 DEF HasR, HasW
<1>11. ChildAt(k)'
      BY <1>1 DEF AloneInv, ChildAt
<1>12. /\ pc[k] = "readOut" => fd'[k] = pipes[Stdout].r
       /\ pc[k] = "readErr" => fd'[k] = pipes[Stderr].r
      BY <1>1 DEF AloneInv
<1> QED
    BY <1>1, <1>6, <1>8, <1>9, <1>10, <1>11, <1>12, GoesOn DEF Idle

\* The end of the output comes only when the child has exited.
LEMMA ReadEofAlone ==
  ASSUME TypeOK, NEW k \in Calls, AloneInv(k), ReadEof(k)
  PROVE  AloneInv(k)'
<1> DEFINE r == Reading(k)
           l == AfterRead(k)
<1>1. /\ r # 0 /\ buf[ReadFrom(k).pipe] = <<>> /\ ~Held(WriteEnd(ReadFrom(k).pipe))
      /\ pc' = [pc EXCEPT ![k] = l]
      /\ UNCHANGED <<step, pipes, table, fd, left, got, result, buf, child, killed, alone>>
      BY DEF ReadEof, Goto
<1>2. r \in Output2 /\ ReadFrom(k).pipe = <<k, r>> /\ pc[k] = IF r = Stdout THEN "readOut" ELSE "readErr"
      BY <1>1, ReadsOwn DEF ReadEnd
<1>3. \/ r = Stdout /\ pc[k] = "readOut" /\ l = "callErr"
      \/ r = Stderr /\ pc[k] = "readErr" /\ l = "closeOut"
      BY <1>2 DEF AfterRead, Output2
<1>4. buf[<<k, r>>] = <<>> /\ ~Held(WriteEnd(<<k, r>>))
      BY <1>1, <1>2
<1>5. pc'[k] = l
      BY <1>1 DEF TypeOK
<1> HIDE DEF r, l
<1>6. r \in Ids /\ r # Stdin
      BY <1>2 DEF Output2, Ids, Stdin, Stdout, Stderr
<1>7. child[k].state = "exited"
  <2>1. child[k].state # "forked"
    <3>1. child[k].state = "forked" =>
            child[k].pipes[r].w \in Fds /\ child[k].table[child[k].pipes[r].w] = WriteEnd(<<k, r>>)
          BY <1>6 DEF AloneInv, OwnChild
    <3> QED
        BY <1>4, <3>1 DEF Held, Alive
  <2>2. child[k].state # "running"
    <3>1. child[k].state = "running" => child[k].io[r] = WriteEnd(<<k, r>>)
          BY <1>6 DEF AloneInv, OwnChild
    <3> QED
        BY <1>4, <1>6, <3>1 DEF Held, Alive
  <2> QED
      BY <1>3, <2>1, <2>2 DEF AloneInv, ChildAt
<1>8. ChildAt(k)'
      BY <1>1, <1>3, <1>5, <1>7 DEF ChildAt, Before
<1>9. Streams(k)'
  <2>1. \A i \in Output2 : (got[k][i] \o buf[<<k, i>>] = Output(k, i))'
        BY <1>1, DataKept
  <2>2. pc[k] = "readErr" => buf[<<k, Stdout>>] = <<>>
        BY DEF AloneInv, Streams
  <2> QED
      BY <1>1, <1>3, <1>4, <1>5, <2>1, <2>2 DEF Streams
<1>10. \A i \in Ids : (HasR(k, i)' <=> HasR(k, i)) /\ (HasW(k, i)' <=> HasW(k, i))
  <2>1. CASE pc[k] = "readOut" /\ pc'[k] = "callErr"
        BY <2>1 DEF HasR, HasW
  <2>2. CASE pc[k] = "readErr" /\ pc'[k] = "closeOut"
        BY <2>2 DEF HasR, HasW
  <2> QED
      BY <1>3, <1>5, <2>1, <2>2
<1> QED
    BY <1>1, <1>3, <1>8, <1>9, <1>10, GoesOn DEF Idle

LEMMA WaitAlone ==
  ASSUME TypeOK, NEW k \in Calls, AloneInv(k), Wait(k)
  PROVE  AloneInv(k)'
<1> DEFINE x == child[k]
           y == [x EXCEPT !.state = "reaped"]
<1>1. /\ pc[k] = "wait" /\ pc' = [pc EXCEPT ![k] = "done"] /\ child' = [child EXCEPT ![k] = y]
      /\ result' = [result EXCEPT ![k] = IF x.good THEN "zero" ELSE "nonzero"]
      /\ UNCHANGED <<step, pipes, table, fd, left, got, buf, killed, alone>>
      BY DEF Wait, Goto
<1>2. y.state = "reaped" /\ y.wrote = x.wrote /\ y.good = x.good
  <2>1. x \in ChildSet
        BY DEF TypeOK
  <2> HIDE DEF x
  <2> QED
      BY <2>1 DEF ChildSet
<1>3. pc'[k] = "done" /\ child'[k] = y /\ result'[k] = IF x.good THEN "zero" ELSE "nonzero"
      BY <1>1 DEF TypeOK
<1> HIDE DEF y
<1>4. \A i \in Ids : ~HasR(k, i) /\ ~HasW(k, i) /\ ~HasR(k, i)' /\ ~HasW(k, i)'
      BY <1>1, <1>3 DEF HasR, HasW
<1>5. OwnTable(k)'
      BY <1>1, <1>4 DEF AloneInv, OwnTable
<1>6. OwnChild(k)' /\ ChildAt(k)'
      BY <1>2, <1>3 DEF OwnChild, ChildAt, Before
<1>7. \A i \in Output2 : Output(k, i)' = Output(k, i)
      BY <1>2, <1>3 DEF Output
<1>8. Streams(k)'
      BY <1>1, <1>3, <1>7 DEF AloneInv, Streams
<1>9. \A j \in Calls \ {k} : child'[j] = child[j]
      BY <1>1 DEF TypeOK
<1>10. \A j \in Calls \ {k} : HoldsNot(child[j], k)'
      BY <1>9 DEF AloneInv, HoldsNot, NoEnds
<1>11. result'[k] = "zero" => child'[k].good
      BY <1>2, <1>3
<1> QED
    BY <1>3, <1>5, <1>6, <1>8, <1>10, <1>11 DEF AloneInv, Idle
-----------------------------------------------------------------------------
(* Steps of the call's own child.                                          *)

\* The child becomes y, which has its three streams or has exited.
LEMMA ChildMoves ==
  ASSUME TypeOK, NEW k \in Calls, pc[k] # "failed", AloneInv(k), Alive(k),
         NEW y, Becomes(k, y),
         \/ y.state = "exited"
         \/ /\ y.state = "running" /\ NoEnds(y.table, k)
            /\ \A i \in Ids : y.io[i] = IF i = Stdin THEN ReadEnd(<<k, i>>) ELSE WriteEnd(<<k, i>>),
         \A i \in Output2 : got[k][i] \o buf'[<<k, i>>] = [n \in 1 .. y.wrote[i] |-> <<k, n>>]
  PROVE  AloneInv(k)'
<1>1. child'[k] = y /\ \A j \in Calls \ {k} : child'[j] = child[j]
      BY DEF Becomes, TypeOK
<1>2. UNCHANGED <<pc, step, pipes, table, fd, left, got, result, killed, alone>>
      BY DEF Becomes
<1>3. pc[k] \in {"close", "write", "closeIn", "callOut", "readOut"}
  <2>1. pc[k] \in Places
        BY DEF TypeOK
  <2> QED
      BY <2>1 DEF AloneInv, ChildAt, Alive, Places, Returned, Before
<1>4. \A i \in Ids : (HasR(k, i)' <=> HasR(k, i)) /\ (HasW(k, i)' <=> HasW(k, i))
      BY <1>2 DEF HasR, HasW
<1>5. OwnTable(k)'
      BY <1>2, <1>4 DEF AloneInv, OwnTable
<1>6. OwnChild(k)'
      BY <1>1 DEF OwnChild, NoEnds
<1>7. ChildAt(k)'
      BY <1>1, <1>2, <1>3 DEF ChildAt, Before
<1>8. Streams(k)'
      BY <1>1, <1>2, <1>3 DEF Streams, Output
<1>9. \A j \in Calls \ {k} : HoldsNot(child[j], k)'
      BY <1>1 DEF AloneInv, HoldsNot, NoEnds
<1>10. \A j \in Calls \ {k} : ~Active(j)'
      BY <1>2, <1>3 DEF AloneInv, Active, Idle
<1> QED
    BY <1>2, <1>3, <1>5, <1>6, <1>7, <1>8, <1>9, <1>10 DEF AloneInv

LEMMA ChildGone ==
  ASSUME TypeOK, NEW k \in Calls, pc[k] # "failed", AloneInv(k), Alive(k),
         NEW good \in BOOLEAN, Becomes(k, Exited(child[k], good)), UNCHANGED buf
  PROVE  AloneInv(k)'
<1> DEFINE x == child[k]
           y == Exited(x, good)
<1>1. y.state = "exited" /\ y.wrote = x.wrote
  <2>1. x \in ChildSet
        BY DEF TypeOK
  <2> HIDE DEF x
  <2> QED
      BY <2>1 DEF Exited, ChildSet
<1> HIDE DEF y
<1>2. \A i \in Output2 : got[k][i] \o buf'[<<k, i>>] = [n \in 1 .. y.wrote[i] |-> <<k, n>>]
      BY <1>1, Zenon DEF AloneInv, Streams, Output
<1>3. Becomes(k, y)
      BY DEF y
<1> QED
    BY <1>1, <1>2, <1>3, ChildMoves

LEMMA ExecAlone ==
  ASSUME TypeOK, NEW k \in Calls, pc[k] # "failed", AloneInv(k), Exec(k)
  PROVE  AloneInv(k)'
<1> DEFINE x == child[k]
           io == [i \in Ids |-> End(x.table, IF i = Stdin THEN x.pipes[i].r ELSE x.pipes[i].w)]
           Run(p) == [x EXCEPT !.state = "running", !.io = io, !.todo = p,
                               !.table = Without(@, AllFds(x.pipes)), !.pipes = NoArray]
<1>1. x \in ChildSet /\ x.state = "forked" /\ Alive(k) /\ UNCHANGED buf
      BY DEF Exec, Alive, TypeOK
<1>2. /\ \A i \in Ids : /\ x.pipes[i].r \in Fds /\ x.table[x.pipes[i].r] = ReadEnd(<<k, i>>)
                        /\ x.pipes[i].w \in Fds /\ x.table[x.pipes[i].w] = WriteEnd(<<k, i>>)
      /\ \A i \in Ids, f \in Fds : x.table[f].pipe = <<k, i>> => f \in AllFds(x.pipes)
      BY <1>1 DEF AloneInv, OwnChild
<1>3. CASE \E p \in Programs : Becomes(k, Run(p))
  <2>1. PICK p \in Programs : Becomes(k, Run(p))
        BY <1>3
  <2> DEFINE y == Run(p)
  <2>2. /\ y.state = "running" /\ y.table = Without(x.table, AllFds(x.pipes)) /\ y.io = io
        /\ y.wrote = x.wrote
    <3> HIDE DEF x, io
    <3> QED
        BY <1>1 DEF ChildSet
  <2>3. \A i \in Ids : io[i] = IF i = Stdin THEN ReadEnd(<<k, i>>) ELSE WriteEnd(<<k, i>>)
        BY <1>2 DEF End
  <2>4. NoEnds(Without(x.table, AllFds(x.pipes)), k)
    <3>1. \A i \in Ids : Closed.pipe # <<k, i>>
          BY DEF Closed
    <3> QED
        BY <1>2, <3>1 DEF NoEnds, Without
  <2>5. \A i \in Output2 : got[k][i] \o buf'[<<k, i>>] = [n \in 1 .. y.wrote[i] |-> <<k, n>>]
        BY <1>1, <2>2 DEF AloneInv, Streams, Output
  <2> HIDE DEF y, io
  <2>6. Becomes(k, y)
        BY <2>1 DEF y, io
  <2> QED
      BY <1>1, <2>2, <2>3, <2>4, <2>5, <2>6, ChildMoves
<1>4. CASE Becomes(k, Exited(x, FALSE))
      BY <1>1, <1>4, ChildGone
<1> QED
    BY <1>3, <1>4, Zenon DEF Exec

LEMMA ChildReadsAlone ==
  ASSUME TypeOK, NEW k \in Calls, pc[k] # "failed", AloneInv(k), ChildReads(k)
  PROVE  AloneInv(k)'
<1> DEFINE x == child[k]
           e == x.io[Stdin]
           y == [x EXCEPT !.todo = Tail(@)]
<1>1. x \in ChildSet /\ x.state = "running" /\ Alive(k) /\ Becomes(k, y)
      BY DEF ChildReads, NextIs, Alive, TypeOK
<1>2. y.state = x.state /\ y.table = x.table /\ y.io = x.io /\ y.wrote = x.wrote
  <2> HIDE DEF x
  <2> QED
      BY <1>1 DEF ChildSet
<1>3. /\ NoEnds(x.table, k)
      /\ \A i \in Ids : x.io[i] = IF i = Stdin THEN ReadEnd(<<k, i>>) ELSE WriteEnd(<<k, i>>)
      BY <1>1 DEF AloneInv, OwnChild
<1>4. e.pipe = <<k, Stdin>>
      BY <1>3 DEF Ids, Stdin, Stderr, ReadEnd
<1>5. \A i \in Output2 : buf'[<<k, i>>] = buf[<<k, i>>]
  <2>1. \A i \in Output2 : <<k, i>> \in Pipes /\ <<k, i>> # e.pipe
        BY <1>4 DEF Output2, Pipes, Ids, Stdin, Stdout, Stderr
  <2>2. buf' = buf \/ buf' = [buf EXCEPT ![e.pipe] = Tail(@)]
        BY DEF ChildReads
  <2> HIDE DEF e
  <2> QED
      BY <2>1, <2>2 DEF TypeOK
<1> HIDE DEF y
<1>6. \A i \in Output2 : got[k][i] \o buf'[<<k, i>>] = [n \in 1 .. y.wrote[i] |-> <<k, n>>]
      BY <1>2, <1>5, Zenon DEF AloneInv, Streams, Output
<1>7. /\ y.state = "running" /\ NoEnds(y.table, k)
      /\ \A i \in Ids : y.io[i] = IF i = Stdin THEN ReadEnd(<<k, i>>) ELSE WriteEnd(<<k, i>>)
      BY <1>1, <1>2, <1>3
<1> HIDE DEF x
<1> QED
    BY <1>1, <1>6, <1>7, ChildMoves

LEMMA ChildWritesAlone ==
  ASSUME TypeOK, NEW k \in Calls, pc[k] # "failed", AloneInv(k),
         NEW i \in Output2, ChildWrites(k, i)
  PROVE  AloneInv(k)'
<1> DEFINE x == child[k]
           e == x.io[i]
           n == x.wrote[i] + 1
           y == [x EXCEPT !.todo = Tail(@), !.wrote[i] = n]
<1>1. x \in ChildSet /\ x.state = "running" /\ Alive(k)
      BY Zenon DEF ChildWrites, NextIs, Alive, TypeOK
<1>2. /\ NoEnds(x.table, k)
      /\ \A m \in Ids : x.io[m] = IF m = Stdin THEN ReadEnd(<<k, m>>) ELSE WriteEnd(<<k, m>>)
      BY <1>1 DEF AloneInv, OwnChild
<1>3. \A m \in Output2 : m \in Ids /\ m # Stdin /\ <<k, m>> \in Pipes
      BY DEF Output2, Pipes, Ids, Stdin, Stdout, Stderr
<1>4. e.pipe = <<k, i>>
  <2>1. i \in Ids /\ i # Stdin
        BY <1>3
  <2>2. e = WriteEnd(<<k, i>>)
        BY <1>2, <2>1
  <2> HIDE DEF e
  <2> QED
      BY <2>2 DEF WriteEnd
<1>5. CASE buf' = [buf EXCEPT ![e.pipe] = Append(@, <<k, n>>)] /\ Becomes(k, y)
  <2>1. /\ y.state = x.state /\ y.table = x.table /\ y.io = x.io
        /\ y.wrote = [x.wrote EXCEPT ![i] = n]
    <3> HIDE DEF x, n
    <3> QED
        BY <1>1 DEF ChildSet
  <2>2. x.wrote \in [Ids -> Nat] /\ i \in Ids
    <3> HIDE DEF x
    <3> QED
        BY <1>1, <1>3 DEF ChildSet
  <2>3. n \in Nat
        BY <2>2
  <2> HIDE DEF y, e
  <2>4. ASSUME NEW m \in Output2
        PROVE  got[k][m] \o buf'[<<k, m>>] = [u \in 1 .. y.wrote[m] |-> <<k, u>>]
    <3>1. got[k][m] \o buf[<<k, m>>] = [u \in 1 .. x.wrote[m] |-> <<k, u>>]
          BY DEF AloneInv, Streams, Output
    <3>2. CASE m = i
      <4> DEFINE v == <<k, n>>
      <4>1. buf'[<<k, i>>] = Append(buf[<<k, i>>], v) /\ y.wrote[i] = n
            BY <1>3, <1>4, <1>5, <2>1, <2>2 DEF TypeOK
      <4>2. got[k][i] \in Seq(Unit) /\ buf[<<k, i>>] \in Seq(Unit) /\ v \in Unit
            BY <1>3, <2>2, <2>3 DEF TypeOK, Unit
      <4>3. x.wrote[i] \in Nat
            BY <2>2
      <4>4. [u \in 1 .. n |-> <<k, u>>] = Append([u \in 1 .. x.wrote[i] |-> <<k, u>>], v)
            BY <4>3, MoreOutput
      <4> HIDE DEF v, n, x
      <4>5. got[k][i] \o Append(buf[<<k, i>>], v) = Append(got[k][i] \o buf[<<k, i>>], v)
        <5> DEFINE s == got[k][i]
                   t == buf[<<k, i>>]
        <5>1. s \in Seq(Unit) /\ t \in Seq(Unit) /\ v \in Unit
              BY <4>2
        <5> HIDE DEF s, t
        <5>2. s \o Append(t, v) = Append(s \o t, v)
              BY <5>1, AppendLast
        <5> QED
            BY <5>2 DEF s, t
      <4> QED
          BY <3>1, <3>2, <4>1, <4>4, <4>5
    <3>3. CASE m # i
      <4>1. <<k, m>> # e.pipe
            BY <1>4, <3>3
      <4>2. buf'[<<k, m>>] = buf[<<k, m>>] /\ y.wrote[m] = x.wrote[m]
            BY <1>3, <1>5, <2>1, <2>2, <3>3, <4>1 DEF TypeOK
      <4> QED
          BY <3>1, <4>2
    <3> QED
        BY <3>2, <3>3
  <2>5. /\ y.state = "running" /\ NoEnds(y.table, k)
        /\ \A m \in Ids : y.io[m] = IF m = Stdin THEN ReadEnd(<<k, m>>) ELSE WriteEnd(<<k, m>>)
        BY <1>1, <1>2, <2>1
  <2> HIDE DEF x, n
  <2> QED
      BY <1>1, <1>5, <2>4, <2>5, ChildMoves
<1>6. CASE Becomes(k, Exited(x, FALSE)) /\ UNCHANGED buf
      BY <1>1, <1>6, ChildGone
<1>7. \/ buf' = [buf EXCEPT ![e.pipe] = Append(@, <<k, n>>)] /\ Becomes(k, y)
      \/ Becomes(k, Exited(x, FALSE)) /\ UNCHANGED buf
      BY Zenon DEF ChildWrites
<1> QED
    BY <1>5, <1>6, <1>7, Zenon
-----------------------------------------------------------------------------
(* The theorems.                                                           *)

LEMMA ParentAlone ==
  ASSUME TypeOK, NEW k \in Calls, pc'[k] # "failed", AloneInv(k), Parent(k)
  PROVE  AloneInv(k)'
<1>1. ~Fail(k)
  <2>1. Fail(k) => pc'[k] = "failed"
        BY DEF Fail, Goto, TypeOK
  <2> QED
      BY <2>1
<1>2. ~PipeFails(k) /\ ~WriteFails(k) /\ ~ReadFails(k)
      BY <1>1 DEF PipeFails, WriteFails, ReadFails
<1>3. CASE MakePipe(k)
      BY <1>3, MakePipeAlone
<1>4. CASE Fork(k) \/ ForkFails(k)
      BY <1>4, ForkAlone, ForkFailsAlone
<1>5. CASE CloseChildEnd(k) \/ CloseInput(k) \/ CloseRead(k)
      BY <1>5, CloseChildEndAlone, CloseInputAlone, CloseReadAlone
<1>6. CASE Write(k) \/ WriteBreaks(k)
      BY <1>6, WriteAlone, WriteBreaksAlone
<1>7. CASE CallReadAll(k) \/ Read(k) \/ ReadEof(k)
      BY <1>7, CallReadAllAlone, ReadAlone, ReadEofAlone
<1>8. CASE Wait(k)
      BY <1>8, WaitAlone
<1> QED
    BY <1>2, <1>3, <1>4, <1>5, <1>6, <1>7, <1>8 DEF Parent

LEMMA ChildAlone ==
  ASSUME TypeOK, NEW k \in Calls, pc[k] # "failed", AloneInv(k), Child(k) \/ ChildDies(k)
  PROVE  AloneInv(k)'
<1>1. CASE Exec(k)
      BY <1>1, ExecAlone
<1>2. CASE ChildReads(k)
      BY <1>2, ChildReadsAlone
<1>3. CASE \E i \in {Stdout, Stderr} : ChildWrites(k, i)
      BY <1>3, ChildWritesAlone DEF Output2
<1>4. CASE ChildExits(k) \/ ChildDies(k)
      BY <1>4, ChildGone DEF ChildExits, ChildDies, Alive
<1> QED
    BY <1>1, <1>2, <1>3, <1>4 DEF Child

\* What a step may change of a call that is alone: it was alone, and had not failed, before.
LEMMA WasAlone ==
  ASSUME TypeOK, [Next]_vars, NEW k \in Calls, alone'[k], pc'[k] # "failed"
  PROVE  alone[k] /\ pc[k] # "failed"
<1>1. CASE \E j \in Calls : Call(j)
      BY <1>1 DEF Call, Goto, TypeOK
<1>2. CASE \E j \in Calls : Parent(j)
  <2>1. PICK j \in Calls : Parent(j)
        BY <1>2
  <2>2. Active(j)
        BY <2>1, ParentActive
  <2>3. alone' = alone /\ (j # k => pc'[k] = pc[k])
    <3>1. CASE MakePipe(j) \/ Fork(j) \/ ForkFails(j) \/ CloseChildEnd(j)
          BY <3>1 DEF MakePipe, Fork, ForkFails, CloseChildEnd, Goto, TypeOK
    <3>2. CASE Write(j) \/ WriteBreaks(j) \/ CallReadAll(j)
          BY <3>2 DEF Write, WriteBreaks, CallReadAll, Goto, TypeOK
    <3>3. CASE Read(j) \/ ReadEof(j) \/ Wait(j)
          BY <3>3 DEF Read, ReadEof, Wait, Goto, TypeOK
    <3>4. CASE CloseInput(j) \/ CloseRead(j)
          BY <3>4 DEF CloseInput, CloseRead, CloseOr, Fail, Goto, TypeOK
    <3>5. CASE PipeFails(j) \/ WriteFails(j) \/ ReadFails(j)
          BY <3>5 DEF PipeFails, WriteFails, ReadFails, Fail, Goto, TypeOK
    <3> QED
        BY <2>1, <3>1, <3>2, <3>3, <3>4, <3>5 DEF Parent
  <2> QED
      BY <2>2, <2>3 DEF Active, Returned
<1>3. CASE \E j \in Calls : Child(j) \/ ChildDies(j)
  <2>1. PICK j \in Calls : Child(j) \/ ChildDies(j)
        BY <1>3
  <2>2. ASSUME NEW y, Becomes(j, y) PROVE alone' = alone /\ pc' = pc
        BY <2>2, Zenon DEF Becomes
  <2>3. Exec(j) => alone' = alone /\ pc' = pc
        BY <2>2, Zenon DEF Exec
  <2>4. ChildReads(j) => alone' = alone /\ pc' = pc
        BY <2>2, Zenon DEF ChildReads
  <2>5. (\E i \in {Stdout, Stderr} : ChildWrites(j, i)) => alone' = alone /\ pc' = pc
        BY <2>2, Zenon DEF ChildWrites
  <2>6. ChildExits(j) \/ ChildDies(j) => alone' = alone /\ pc' = pc
        BY <2>2 DEF ChildExits, ChildDies
  <2> QED
      BY <2>1, <2>3, <2>4, <2>5, <2>6 DEF Child
<1>4. CASE UNCHANGED vars
      BY <1>4 DEF vars
<1> QED
    BY <1>1, <1>2, <1>3, <1>4 DEF Next

LEMMA NextAlone == IInv /\ [Next]_vars => IInv'
<1> SUFFICES ASSUME IInv, [Next]_vars PROVE IInv'
    OBVIOUS
<1>1. TypeOK /\ TypeOK'
      BY NextTyped DEF IInv
<1>2. ASSUME NEW k \in Calls, alone'[k], pc'[k] # "failed"
      PROVE  AloneInv(k)'
  <2>1. alone[k] /\ pc[k] # "failed" /\ AloneInv(k)
        BY <1>1, <1>2, WasAlone DEF IInv
  <2>2. ASSUME NEW j \in Calls, Call(j)
        PROVE  AloneInv(k)'
        BY <1>1, <1>2, <2>1, <2>2, CallAlone
  <2>3. ASSUME NEW j \in Calls, Parent(j)
        PROVE  AloneInv(k)'
        BY <1>1, <1>2, <2>1, <2>3, ParentAlone, OtherParent
  <2>4. ASSUME NEW j \in Calls, Child(j) \/ ChildDies(j)
        PROVE  AloneInv(k)'
        BY <1>1, <2>1, <2>4, ChildAlone, OtherChild
  <2>5. CASE UNCHANGED vars
    <3>1. Same(k) /\ pipes' = pipes /\ table' = table
          BY <2>5 DEF vars, Same
    <3>2. \A j \in Calls \ {k} : (Active(j)' => Active(j)) /\ HoldsNot(child'[j], k)
          BY <2>1, <2>5 DEF vars, AloneInv, Active
    <3> QED
        BY <2>1, <3>1, <3>2, Unmoved
  <2> QED
      BY <2>2, <2>3, <2>4, <2>5 DEF Next
<1> QED
    BY <1>1, <1>2 DEF IInv

LEMMA WholeNow == IInv => ResultWhole
<1> SUFFICES ASSUME IInv, NEW k \in Calls, alone[k], pc[k] = "done"
             PROVE  /\ \A i \in {Stdout, Stderr} : got[k][i] = Output(k, i)
                    /\ result[k] = "zero" => child[k].good
    BY DEF ResultWhole
<1>1. AloneInv(k) /\ TypeOK
      BY DEF IInv
<1>2. ASSUME NEW i \in Output2 PROVE got[k][i] = Output(k, i)
  <2>1. i \in Ids
        BY DEF Output2, Ids, Stdin, Stdout, Stderr
  <2>2. got[k][i] \o buf[<<k, i>>] = Output(k, i) /\ buf[<<k, i>>] = <<>>
        BY <1>1 DEF AloneInv, Streams, Output2
  <2>3. got[k][i] \in Seq(Unit)
        BY <1>1, <2>1 DEF TypeOK
  <2> QED
      BY <2>2, <2>3, ConcatEmptySeq
<1> QED
    BY <1>1, <1>2 DEF AloneInv, Output2

\* A call of exec_command_ that no other overlaps, and that waited for its child, returns each
\* stream as the child wrote it, to the end, and exit_status 0 only for a child that ended well,
\* whatever earlier calls left open or running.
THEOREM ResultSafe == Spec => []ResultWhole
BY InitAlone, NextAlone, WholeNow, PTL DEF Spec

\* A call of exec_command_ that no other overlaps, and that waited for its child or could not fork
\* one, leaves no end of its pipes among the descriptors and no child to wait for.
THEOREM HeldSafe == Spec => []NothingHeld
<1>1. IInv => NothingHeld
  <2> SUFFICES ASSUME IInv, NEW k \in Calls, alone[k], pc[k] \in {"done", "noChild"}
               PROVE  /\ \A f \in Fds, i \in Ids : table[f].pipe # <<k, i>>
                      /\ child[k].state = IF pc[k] = "done" THEN "reaped" ELSE "none"
      BY DEF NothingHeld
  <2>1. AloneInv(k)
        BY DEF IInv
  <2>2. NoEnds(table, k)
        BY <2>1, NoEndsIdle DEF AloneInv, Idle
  <2> QED
      BY <2>1, <2>2 DEF AloneInv, ChildAt, NoEnds
<1> QED
    BY <1>1, InitAlone, NextAlone, PTL DEF Spec

-----------------------------------------------------------------------------
(* Each call of exec_command_ implements CommandCall: every step of        *)
(* Execute is, seen through Phase, Output and Answer, a step of the        *)
(* abstract call or none at all.  IInv says what the call that returns has *)
(* read.                                                                   *)

CallStep(k) == [Calling(k)!Next]_(Calling(k)!vars)

\* Where exec_command_ has returned, and what the abstract call is then.
LEMMA PhaseIs ==
  ASSUME NEW k \in Calls
  PROVE  /\ ~alone[k] => Phase(k) = "void"
         /\ alone[k] /\ pc[k] = "done" => Phase(k) = "returned"
         /\ alone[k] /\ pc[k] \in {"failed", "noChild"} => Phase(k) = "failed"
         /\ alone[k] /\ pc[k] \notin Returned /\ child[k].state = "exited" => Phase(k) = "ended"
         /\ alone[k] /\ pc[k] \notin Returned /\ child[k].state # "exited" => Phase(k) = "running"
BY DEF Phase, Returned

LEMMA OneMore ==
  ASSUME NEW k \in Calls, NEW n \in Nat
  PROVE  /\ Len([m \in 1 .. n + 1 |-> <<k, m>>]) = Len([m \in 1 .. n |-> <<k, m>>]) + 1
         /\ SubSeq([m \in 1 .. n + 1 |-> <<k, m>>], 1, Len([m \in 1 .. n |-> <<k, m>>]))
               = [m \in 1 .. n |-> <<k, m>>]
OBVIOUS

LEMMA AnswerKept ==
  ASSUME NEW k \in Calls, Phase(k) # "returned", Phase(k)' # "returned"
  PROVE  Answer(k)' = Answer(k)
BY DEF Answer

LEMMA OutputKept ==
  ASSUME NEW k \in Calls, child'[k].wrote = child[k].wrote
  PROVE  [i \in {Stdout, Stderr} |-> Output(k, i)]' = [i \in {Stdout, Stderr} |-> Output(k, i)]
BY DEF Output

\* Nothing is seen of a step that leaves the phase and what the child wrote.
LEMMA Unseen ==
  ASSUME NEW k \in Calls, Phase(k)' = Phase(k), Answer(k)' = Answer(k),
         child'[k].wrote = child[k].wrote, child'[k].good = child[k].good
  PROVE  CallStep(k)
BY OutputKept DEF CallStep, Calling!vars

LEMMA Elsewhere ==
  ASSUME NEW k \in Calls, pc'[k] = pc[k], alone'[k] = alone[k], child'[k] = child[k],
         got'[k] = got[k], result'[k] = result[k]
  PROVE  CallStep(k)
<1>1. Phase(k)' = Phase(k)
      BY DEF Phase
<1>2. Answer(k)' = Answer(k)
      BY <1>1 DEF Answer
<1> QED
    BY <1>1, <1>2, Unseen

\* A step of another call or of its child.
LEMMA OtherUnseen ==
  ASSUME TypeOK, NEW k \in Calls, NEW j \in Calls, j # k,
         Parent(j) \/ Child(j) \/ ChildDies(j)
  PROVE  CallStep(k)
<1> DEFINE Quiet == /\ pc'[k] = pc[k] /\ alone'[k] = alone[k] /\ child'[k] = child[k]
                    /\ got'[k] = got[k] /\ result'[k] = result[k]
<1>1. Fail(j) => Quiet
      BY DEF Fail, Goto, TypeOK
<1>2. ASSUME NEW f, NEW next, CloseOr(j, f, next) PROVE Quiet
      BY <1>1, <1>2 DEF CloseOr, Goto, TypeOK
<1>3. MakePipe(j) \/ Fork(j) \/ ForkFails(j) \/ CloseChildEnd(j) => Quiet
      BY DEF MakePipe, Fork, ForkFails, CloseChildEnd, Goto, TypeOK
<1>4. Write(j) \/ WriteBreaks(j) \/ CallReadAll(j) => Quiet
      BY DEF Write, WriteBreaks, CallReadAll, Goto, TypeOK
<1>5. Read(j) \/ ReadEof(j) \/ Wait(j) => Quiet
      BY DEF Read, ReadEof, Wait, Goto, TypeOK
<1>6. PipeFails(j) \/ WriteFails(j) \/ ReadFails(j) => Quiet
      BY <1>1 DEF PipeFails, WriteFails, ReadFails
<1>7. CloseInput(j) \/ CloseRead(j) => Quiet
      BY <1>2 DEF CloseInput, CloseRead
<1>8. ASSUME NEW y, Becomes(j, y) PROVE Quiet
  <2>1. child'[k] = child[k]
        BY <1>8 DEF Becomes, TypeOK
  <2>2. UNCHANGED <<pc, alone, got, result>>
        BY <1>8, Zenon DEF Becomes
  <2> QED
      BY <2>1, <2>2
<1> HIDE DEF Quiet
<1>9. Exec(j) \/ ChildReads(j) => Quiet
  <2>1. Exec(j) => Quiet
        BY <1>8, Zenon DEF Exec
  <2>2. ChildReads(j) => Quiet
        BY <1>8, Zenon DEF ChildReads
  <2> QED
      BY <2>1, <2>2
<1>10. (\E i \in {Stdout, Stderr} : ChildWrites(j, i)) => Quiet
       BY <1>8, Zenon DEF ChildWrites
<1>11. ChildExits(j) \/ ChildDies(j) => Quiet
      BY <1>8 DEF ChildExits, ChildDies
<1>12. Quiet
      BY <1>3, <1>4, <1>5, <1>6, <1>7, <1>9, <1>10, <1>11 DEF Parent, Child
<1> QED
    BY <1>12, Elsewhere DEF Quiet
-----------------------------------------------------------------------------
(* The steps of the call.                                                  *)

LEMMA WholeThen == IInv' => ResultWhole'
BY WholeNow, PTL

\* A call begins: it, or one it overlaps, may be void from then on.
LEMMA CallSeen ==
  ASSUME TypeOK, NEW k \in Calls, NEW j \in Calls, Call(j)
  PROVE  CallStep(k)
<1>1. /\ pc'[k] = IF k = j THEN "pipe" ELSE pc[k]
      /\ pc[j] = "new"
      /\ alone'[k] = (alone[k] /\ ~Active(k) /\ (k = j => \A i \in Calls : ~Active(i)))
      /\ UNCHANGED <<got, result, child>>
      BY DEF Call, Goto, TypeOK
<1>2. CASE alone'[k] = alone[k]
  <2>1. Phase(k)' = Phase(k)
        BY <1>1, <1>2 DEF Phase
  <2>2. Answer(k)' = Answer(k)
        BY <1>1, <2>1 DEF Answer
  <2> QED
      BY <1>1, <2>1, <2>2, Unseen
<1>3. CASE alone'[k] # alone[k]
  <2>1. alone[k] /\ ~alone'[k] /\ pc[k] \notin Returned
        BY <1>1, <1>3 DEF Active, Returned, TypeOK
  <2>2. Phase(k) \in {"running", "ended"} /\ Phase(k)' = "void"
        BY <2>1 DEF Phase, Returned
  <2>3. Answer(k)' = Answer(k)
        BY <2>2, AnswerKept
  <2>4. Calling(k)!Overlap
        BY <1>1, <2>2, <2>3, OutputKept DEF Calling!Overlap
  <2> QED
      BY <2>4 DEF CallStep, Calling!Next
<1> QED
    BY <1>2, <1>3

\* The call fails, at any place.
LEMMA FailSeen ==
  ASSUME TypeOK, NEW k \in Calls, pc[k] \notin Returned, pc'[k] \in {"failed", "noChild"},
         UNCHANGED <<child, alone>>
  PROVE  CallStep(k)
<1>1. CASE alone[k]
  <2>1. Phase(k) \in {"running", "ended"} /\ Phase(k)' = "failed"
        BY <1>1 DEF Phase, Returned
  <2>2. Answer(k)' = Answer(k)
        BY <2>1, AnswerKept
  <2>3. Calling(k)!Fail
        BY <2>1, <2>2, OutputKept DEF Calling!Fail
  <2> QED
      BY <2>3 DEF CallStep, Calling!Next
<1>2. CASE ~alone[k]
  <2>1. Phase(k) = "void" /\ Phase(k)' = "void"
        BY <1>2 DEF Phase
  <2>2. Answer(k)' = Answer(k)
        BY <2>1, AnswerKept
  <2> QED
      BY <2>1, <2>2, Unseen
<1> QED
    BY <1>1, <1>2

\* The call goes on.
LEMMA WorkUnseen ==
  ASSUME NEW k \in Calls, pc[k] \notin Returned, pc'[k] \notin Returned, alone'[k] = alone[k],
         alone[k] => (child'[k].state = "exited" <=> child[k].state = "exited"),
         child'[k].wrote = child[k].wrote, child'[k].good = child[k].good
  PROVE  CallStep(k)
<1>1. Phase(k)' = Phase(k) /\ Phase(k) # "returned"
      BY DEF Phase, Returned
<1>2. Answer(k)' = Answer(k)
      BY <1>1, AnswerKept
<1> QED
    BY <1>1, <1>2, Unseen

\* The call returns what it read and its child's result.
LEMMA WaitSeen ==
  ASSUME IInv, IInv', NEW k \in Calls, Wait(k)
  PROVE  CallStep(k)
<1> DEFINE x == child[k]
           y == [x EXCEPT !.state = "reaped"]
<1>1. /\ pc[k] = "wait" /\ x.state = "exited" /\ pc'[k] = "done" /\ child'[k] = y
      /\ alone'[k] = alone[k]
      BY DEF Wait, Goto, IInv, TypeOK
<1>2. y.wrote = x.wrote /\ y.good = x.good
  <2>1. x \in ChildSet
        BY DEF IInv, TypeOK
  <2> HIDE DEF x
  <2> QED
      BY <2>1 DEF ChildSet
<1> HIDE DEF y
<1>3. CASE ~alone[k]
  <2>1. Phase(k) = "void" /\ Phase(k)' = "void"
        BY <1>1, <1>3 DEF Phase
  <2>2. Answer(k)' = Answer(k)
        BY <2>1, AnswerKept
  <2> QED
      BY <1>1, <1>2, <2>1, <2>2, Unseen
<1>4. CASE alone[k]
  <2>1. Phase(k) = "ended" /\ Phase(k)' = "returned"
        BY <1>1, <1>4 DEF Phase
  <2>2. ResultWhole'
        BY WholeThen
  <2>3. /\ \A i \in {Stdout, Stderr} : got'[k][i] = Output(k, i)'
        /\ result'[k] = "zero" => child'[k].good
        BY <1>1, <1>4, <2>2 DEF ResultWhole
  <2>4. /\ Answer(k)'.output = [i \in {Stdout, Stderr} |-> Output(k, i)]'
        /\ Answer(k)'.zero => child'[k].good
        BY <2>1, <2>3 DEF Answer
  <2>5. Calling(k)!Return
        BY <1>1, <1>2, <2>1, <2>4, OutputKept DEF Calling!Return
  <2> QED
      BY <2>5 DEF CallStep, Calling!Next
<1> QED
    BY <1>3, <1>4

LEMMA ParentSeen ==
  ASSUME IInv, IInv', NEW k \in Calls, Parent(k)
  PROVE  CallStep(k)
<1>1. pc[k] \notin Returned /\ TypeOK
      BY ParentActive DEF Active, IInv
<1>2. ASSUME Fail(k) PROVE CallStep(k)
  <2>1. pc'[k] = "failed" /\ UNCHANGED <<child, alone>>
        BY <1>1, <1>2 DEF Fail, Goto, TypeOK
  <2> QED
      BY <1>1, <2>1, FailSeen
<1>3. ASSUME pc'[k] \notin Returned, UNCHANGED <<child, alone>> PROVE CallStep(k)
      BY <1>1, <1>3, WorkUnseen
<1>4. ASSUME NEW f, NEW next \in {"callOut", "closeErr", "wait"}, CloseOr(k, f, next)
      PROVE  CallStep(k)
  <2>1. CASE Fail(k)
        BY <1>2, <2>1
  <2>2. CASE Goto(k, next) /\ UNCHANGED <<child, alone>>
        BY <1>1, <1>3, <2>2 DEF Goto, TypeOK, Returned
  <2> QED
      BY <1>4, <2>1, <2>2 DEF CloseOr
<1>5. CASE MakePipe(k) \/ CloseChildEnd(k)
  <2>1. UNCHANGED <<child, alone>> /\ pc'[k] \in {pc[k], "fork", "write"}
        BY <1>1, <1>5 DEF MakePipe, CloseChildEnd, Goto, TypeOK
  <2> QED
      BY <1>1, <1>3, <2>1 DEF Returned
<1>6. CASE Fork(k)
  <2> DEFINE x == child[k]
             y == [x EXCEPT !.state = "forked", !.table = table, !.pipes = pipes]
  <2>1. pc[k] = "fork" /\ pc'[k] = "close" /\ child'[k] = y /\ alone'[k] = alone[k]
        BY <1>1, <1>6 DEF Fork, Goto, TypeOK
  <2>2. y.state = "forked" /\ y.wrote = x.wrote /\ y.good = x.good
    <3>1. x \in ChildSet
          BY <1>1 DEF TypeOK
    <3> HIDE DEF x
    <3> QED
        BY <3>1 DEF ChildSet
  <2>3. alone[k] => x.state = "none"
        BY <2>1 DEF IInv, AloneInv, ChildAt, Before
  <2> HIDE DEF y
  <2> QED
      BY <2>1, <2>2, <2>3, WorkUnseen DEF Returned
<1>7. CASE ForkFails(k)
  <2>1. pc'[k] = "noChild" /\ UNCHANGED <<child, alone>>
        BY <1>1, <1>7 DEF ForkFails, Goto, TypeOK
  <2> QED
      BY <1>1, <2>1, FailSeen
<1>8. CASE Write(k) \/ CallReadAll(k)
  <2>1. UNCHANGED <<child, alone>> /\ pc'[k] \in {pc[k], "closeIn", "readOut", "readErr"}
        BY <1>1, <1>8 DEF Write, CallReadAll, Goto, TypeOK
  <2> QED
      BY <1>1, <1>3, <2>1 DEF Returned
<1>9. CASE WriteBreaks(k)
  <2>1. UNCHANGED <<child, alone>> /\ (pc'[k] = pc[k] \/ pc'[k] = "failed")
        BY <1>1, <1>9 DEF WriteBreaks, Goto, TypeOK
  <2> QED
      BY <1>1, <1>3, <2>1, FailSeen
<1>10. CASE Read(k) \/ ReadEof(k)
  <2>1. UNCHANGED <<child, alone>> /\ pc'[k] \in {pc[k], "callErr", "closeOut"}
        BY <1>1, <1>10 DEF Read, ReadEof, AfterRead, Goto, TypeOK
  <2> QED
      BY <1>1, <1>3, <2>1 DEF Returned
<1>11. CASE PipeFails(k) \/ WriteFails(k) \/ ReadFails(k)
      BY <1>2, <1>11 DEF PipeFails, WriteFails, ReadFails
<1>12. CASE CloseInput(k) \/ CloseRead(k)
      BY <1>4, <1>12 DEF CloseInput, CloseRead
<1>13. CASE Wait(k)
      BY <1>13, WaitSeen
<1> QED
    BY <1>5, <1>6, <1>7, <1>8, <1>9, <1>10, <1>11, <1>12, <1>13 DEF Parent
-----------------------------------------------------------------------------
(* The steps of its child.                                                 *)

\* A child that has not exited is that of a call that has not returned.
LEMMA NotReturned ==
  ASSUME IInv, NEW k \in Calls, Alive(k)
  PROVE  Phase(k) \in {"running", "failed", "void"}
<1>1. alone[k] /\ pc[k] = "done" => child[k].state = "reaped"
      BY DEF IInv, AloneInv, ChildAt
<1> QED
    BY <1>1 DEF Phase, Alive

LEMMA EndSeen ==
  ASSUME IInv, NEW k \in Calls, Alive(k), NEW good \in BOOLEAN, Becomes(k, Exited(child[k], good))
  PROVE  CallStep(k)
<1> DEFINE x == child[k]
           y == Exited(x, good)
<1>1. y.state = "exited" /\ y.wrote = x.wrote /\ y.good = good
  <2>1. x \in ChildSet
        BY DEF IInv, TypeOK
  <2> HIDE DEF x
  <2> QED
      BY <2>1 DEF Exited, ChildSet
<1>2. child'[k] = y /\ pc'[k] = pc[k] /\ alone'[k] = alone[k]
      BY DEF Becomes, IInv, TypeOK
<1> HIDE DEF y
<1>3. Phase(k) \in {"running", "failed", "void"}
      BY NotReturned
<1>4. Phase(k)' = IF Phase(k) = "running" THEN "ended" ELSE Phase(k)
      BY <1>1, <1>2, <1>3 DEF Phase
<1>5. Answer(k)' = Answer(k)
      BY <1>3, <1>4, AnswerKept
<1>6. Calling(k)!End
      BY <1>1, <1>2, <1>3, <1>4, <1>5, OutputKept DEF Calling!End
<1> QED
    BY <1>6 DEF CallStep, Calling!Next

LEMMA ChildSeen ==
  ASSUME IInv, NEW k \in Calls, Child(k) \/ ChildDies(k)
  PROVE  CallStep(k)
<1> DEFINE x == child[k]
<1>1. x \in ChildSet
      BY DEF IInv, TypeOK
<1>2. ASSUME Alive(k), NEW y, Becomes(k, y), y.state = "running",
             y.wrote = x.wrote, y.good = x.good
      PROVE  CallStep(k)
  <2>1. child'[k] = y /\ pc'[k] = pc[k] /\ alone'[k] = alone[k]
        BY <1>2 DEF Becomes, IInv, TypeOK
  <2>2. Phase(k) # "returned"
        BY <1>2, NotReturned
  <2>3. Phase(k)' = Phase(k)
        BY <1>2, <2>1 DEF Phase, Alive
  <2>4. Answer(k)' = Answer(k)
    <3>1. Phase(k)' # "returned"
          BY <2>2, <2>3, Zenon
    <3> QED
        BY <2>2, <3>1, AnswerKept, Zenon
  <2> QED
      BY <1>2, <2>1, <2>3, <2>4, Unseen
<1>3. CASE Exec(k)
  <2>1. Alive(k)
        BY <1>3 DEF Exec, Alive
  <2> DEFINE io == [i \in Ids |-> End(x.table, IF i = Stdin THEN x.pipes[i].r ELSE x.pipes[i].w)]
             Run(p) == [x EXCEPT !.state = "running", !.io = io, !.todo = p,
                                 !.table = Without(@, AllFds(x.pipes)), !.pipes = NoArray]
  <2>2. CASE \E p \in Programs : Becomes(k, Run(p))
    <3>1. PICK p \in Programs : Becomes(k, Run(p))
          BY <2>2
    <3>2. Run(p).state = "running" /\ Run(p).wrote = x.wrote /\ Run(p).good = x.good
      <4> HIDE DEF x, io
      <4> QED
          BY <1>1 DEF ChildSet
    <3> HIDE DEF Run
    <3> QED
        BY <1>2, <2>1, <3>1, <3>2
  <2>3. CASE Becomes(k, Exited(x, FALSE))
        BY <2>1, <2>3, EndSeen
  <2>4. (\E p \in Programs : Becomes(k, Run(p))) \/ Becomes(k, Exited(x, FALSE))
        BY <1>3, Zenon DEF Exec
  <2> HIDE DEF Run, io, x
  <2> QED
      BY <2>2, <2>3, <2>4, Zenon
<1>4. CASE ChildReads(k)
  <2> DEFINE y == [x EXCEPT !.todo = Tail(@)]
  <2>1. Alive(k) /\ x.state = "running" /\ Becomes(k, y)
        BY <1>4 DEF ChildReads, NextIs, Alive
  <2>2. y.state = x.state /\ y.wrote = x.wrote /\ y.good = x.good
    <3> HIDE DEF x
    <3> QED
        BY <1>1 DEF ChildSet
  <2> HIDE DEF y
  <2> QED
      BY <1>2, <2>1, <2>2
<1>5. CASE \E i \in {Stdout, Stderr} : ChildWrites(k, i)
  <2>1. PICK i \in {Stdout, Stderr} : ChildWrites(k, i)
        BY <1>5
  <2> DEFINE e == x.io[i]
             n == x.wrote[i] + 1
             y == [x EXCEPT !.todo = Tail(@), !.wrote[i] = n]
  <2>2. Alive(k)
        BY <2>1, Zenon DEF ChildWrites, NextIs, Alive
  <2>3. CASE Becomes(k, y)
    <3>1. y.state = x.state /\ y.good = x.good /\ y.wrote = [x.wrote EXCEPT ![i] = n]
      <4> HIDE DEF x, n
      <4> QED
          BY <1>1 DEF ChildSet
    <3>2. child'[k] = y /\ pc'[k] = pc[k] /\ alone'[k] = alone[k]
          BY <2>3 DEF Becomes, IInv, TypeOK
    <3> HIDE DEF y
    <3>3. Phase(k) \in {"running", "failed", "void"}
          BY <2>2, NotReturned
    <3>4. Phase(k)' = Phase(k)
          BY <3>1, <3>2 DEF Phase
    <3>5. Answer(k)' = Answer(k)
          BY <3>3, <3>4, AnswerKept
    <3>6. i \in Ids /\ x.wrote \in [Ids -> Nat]
      <4> HIDE DEF x
      <4> QED
          BY <1>1 DEF ChildSet, Ids, Stdin, Stdout, Stderr
    <3>7. child'[k].wrote[i] = x.wrote[i] + 1 /\ x.wrote[i] \in Nat
          BY <3>1, <3>2, <3>6
    <3>8. /\ Len(Output(k, i)') = Len(Output(k, i)) + 1
          /\ SubSeq(Output(k, i)', 1, Len(Output(k, i))) = Output(k, i)
          BY <3>7, OneMore DEF Output
    <3>9. \A m \in {Stdout, Stderr} : m # i => Output(k, m)' = Output(k, m)
      <4>1. \A m \in {Stdout, Stderr} : m # i => child'[k].wrote[m] = x.wrote[m]
            BY <3>1, <3>2, <3>6 DEF Ids, Stdin, Stdout, Stderr
      <4> QED
          BY <4>1 DEF Output
    <3>10. Calling(k)!Emit
          BY <3>1, <3>2, <3>3, <3>4, <3>5, <3>8, <3>9 DEF Calling!Emit
    <3> QED
        BY <3>10 DEF CallStep, Calling!Next
  <2>4. CASE Becomes(k, Exited(x, FALSE))
        BY <2>2, <2>4, EndSeen
  <2>5. Becomes(k, y) \/ Becomes(k, Exited(x, FALSE))
        BY <2>1, Zenon DEF ChildWrites
  <2> QED
      BY <2>3, <2>4, <2>5, Zenon
<1>6. CASE ChildExits(k) \/ ChildDies(k)
      BY <1>6, EndSeen DEF ChildExits, ChildDies, Alive
<1> QED
    BY <1>3, <1>4, <1>5, <1>6 DEF Child
-----------------------------------------------------------------------------
\* Every call of exec_command_, from pipe to waitpid, implements the abstract call: whatever it
\* shares, forks, interleaves or fails at, what is seen of it are steps of CommandCall.
THEOREM Implements == Spec => IsCommandCall
<1>1. Init => \A k \in Calls : Calling(k)!Init
  <2> SUFFICES ASSUME Init, NEW k \in Calls PROVE Calling(k)!Init
      OBVIOUS
  <2>1. pc[k] = "new" /\ alone[k] /\ child[k] = NoChild
        BY DEF Init
  <2>2. /\ child[k].state = "none" /\ child[k].good = FALSE
        /\ \A i \in {Stdout, Stderr} : child[k].wrote[i] = 0
        BY <2>1 DEF NoChild, Ids, Stdin, Stdout, Stderr
  <2>3. Phase(k) = "running"
        BY <2>1, <2>2 DEF Phase
  <2>4. \A i \in {Stdout, Stderr} : Output(k, i) = <<>>
        BY <2>2 DEF Output
  <2>5. Answer(k) = Calling(k)!NoAnswer
        BY <2>3 DEF Answer, Calling!NoAnswer
  <2> QED
      BY <2>2, <2>3, <2>4, <2>5 DEF Calling!Init
<1>2. IInv /\ IInv' /\ [Next]_vars => [\A k \in Calls : CallStep(k)]_vars
  <2> SUFFICES ASSUME IInv, IInv', Next, NEW k \in Calls PROVE CallStep(k)
      OBVIOUS
  <2>1. TypeOK
        BY DEF IInv
  <2>2. PICK j \in Calls : Call(j) \/ Parent(j) \/ Child(j) \/ ChildDies(j)
        BY DEF Next
  <2>3. CASE Call(j)
        BY <2>1, <2>3, CallSeen
  <2>4. CASE j = k /\ ~Call(j)
        BY <2>2, <2>4, ParentSeen, ChildSeen
  <2>5. CASE j # k /\ ~Call(j)
        BY <2>1, <2>2, <2>5, OtherUnseen
  <2> QED
      BY <2>3, <2>4, <2>5
<1>3. Spec => []IInv
      BY InitAlone, NextAlone, PTL DEF Spec
<1>4. (\A k \in Calls : CallStep(k)) => \A k \in Calls : [Calling(k)!Next]_(Calling(k)!vars)
      BY DEF CallStep
<1>5. IInv /\ IInv' /\ [Next]_vars => [\A k \in Calls : [Calling(k)!Next]_(Calling(k)!vars)]_vars
      BY <1>2, <1>4
<1> QED
    BY <1>1, <1>3, <1>5, PTL DEF Spec, IsCommandCall
=============================================================================
