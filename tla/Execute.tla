------------------------------ MODULE Execute -------------------------------
(***************************************************************************)
(* exec_command_ (src/src/helper/execute.cpp): it makes three pipes, forks *)
(* a child that runs a command on them, writes the command's input, reads  *)
(* its standard output to the end, then its standard error, and waits for  *)
(* it.  The backtrace of an error (src/src/helper/backtrace.cpp) calls it  *)
(* for every frame, on whatever thread the error is made.                  *)
(*                                                                         *)
(* The array "pipes" is global, as are the descriptors of the process;     *)
(* each close, read and write names its descriptor through the array, as   *)
(* the macros of the source do.  A pipe holds at most Capacity units, and  *)
(* the kernel's rules for it are those of pipe(7).  What the command does  *)
(* is external: it follows one of Programs and exits.                      *)
(***************************************************************************)
EXTENDS Naturals, FiniteSets, SequencesExt

CONSTANTS Calls,       \* the calls of exec_command_ made in a run
          Threads,     \* how many threads may be in exec_command_ at once
          Fds,         \* the descriptors the process may use beyond the standard ones
          Capacity,    \* units a pipe holds
          InputUnits,  \* units of modified_input, at least the newline
          Programs     \* what commands do: sequences of "in", "out" and "err"

Ops == {"in", "out", "err"}

ASSUME ExecuteAssumption ==
    /\ Threads \in Nat \ {0}
    /\ Fds \subseteq Nat \ {0}
    /\ Capacity \in Nat \ {0}
    /\ InputUnits \in Nat \ {0}
    /\ Programs \subseteq Seq(Ops)

VARIABLES
    pc,       \* where each call is in exec_command_
    step,     \* how many of the three pipes it has made, or of the child's ends it has closed
    pipes,    \* the global array: two descriptors for each of the three pipes
    table,    \* the process's descriptors: the end of a pipe, or Closed
    fd,       \* the argument of read_all
    left,     \* input still to be written
    got,      \* output, the pieces of status.fd_stdout (2) and status.fd_stderr (3)
    result,   \* status.exit_status: is it 0?
    buf,      \* what each pipe holds
    child,    \* the child process of each call
    killed,   \* has SIGPIPE ended the process?
    alone     \* history: has no other thread been in exec_command_ during the call?

vars == <<pc, step, pipes, table, fd, left, got, result, buf, child, killed, alone>>

Stdin == 1
Stdout == 2
Stderr == 3
Ids == Stdin .. Stderr
Pipes == Calls \X Ids

Closed == [pipe |-> <<>>, dir |-> "closed"]
ReadEnd(p) == [pipe |-> p, dir |-> "r"]
WriteEnd(p) == [pipe |-> p, dir |-> "w"]

\* Descriptor 0 in the array: no pipe was made yet.
NoFds == [r |-> 0, w |-> 0]
NoArray == [i \in Ids |-> NoFds]
Unused == [f \in Fds |-> Closed]
NoChild == [state |-> "none", table |-> Unused, pipes |-> NoArray,
            io |-> [i \in Ids |-> Closed], todo |-> <<>>, wrote |-> [i \in Ids |-> 0], good |-> FALSE]

Init ==
    /\ pc = [k \in Calls |-> "new"]
    /\ step = [k \in Calls |-> 1]
    /\ pipes = NoArray
    /\ table = Unused
    /\ fd = [k \in Calls |-> 0]
    /\ left = [k \in Calls |-> InputUnits]
    /\ got = [k \in Calls |-> [i \in Ids |-> <<>>]]
    /\ result = [k \in Calls |-> "nonzero"]
    /\ buf = [p \in Pipes |-> <<>>]
    /\ child = [k \in Calls |-> NoChild]
    /\ killed = FALSE
    /\ alone = [k \in Calls |-> TRUE]
-----------------------------------------------------------------------------
Returned == {"done", "noChild", "failed"}
Active(k) == pc[k] \notin Returned \cup {"new"}

\* What a descriptor stands for, in the parent or in a child; close in either.
End(t, f) == IF f \in Fds THEN t[f] ELSE Closed
Without(t, F) == [f \in Fds |-> IF f \in F THEN Closed ELSE t[f]]

\* The descriptors of the array, all six.
AllFds(a) == {a[i].r : i \in Ids} \cup {a[i].w : i \in Ids}

\* Which processes keep a pipe from its end of file, or from a broken pipe.
Alive(k) == child[k].state \in {"forked", "running"}
Held(e) ==
    \/ \E f \in Fds : table[f] = e
    \/ \E k \in Calls : /\ Alive(k)
                        /\ \/ \E f \in Fds : child[k].table[f] = e
                           \/ \E i \in Ids : child[k].io[i] = e

Goto(k, l) == pc' = [pc EXCEPT ![k] = l]

\* An early return with exit_status 1: what is open stays open.
Fail(k) ==
    /\ Goto(k, "failed")
    /\ UNCHANGED <<step, pipes, table, fd, left, got, result, buf, child, killed, alone>>

Call(k) ==
    /\ ~killed /\ pc[k] = "new"
    /\ Cardinality({j \in Calls : Active(j)}) < Threads
    /\ Goto(k, "pipe")
    /\ alone' = [j \in Calls |-> alone[j] /\ ~Active(j) /\ (j = k => \A i \in Calls : ~Active(i))]
    /\ UNCHANGED <<step, pipes, table, fd, left, got, result, buf, child, killed>>

\* The kernel gives the two lowest free descriptors, or none if there are not two.
Free == {f \in Fds : table[f] = Closed}
MakePipe(k) ==
    /\ pc[k] = "pipe"
    /\ \E r, w \in Free :
          /\ r # w
          /\ \A f \in Free : r <= f /\ (f # r => w <= f)
          /\ pipes' = [pipes EXCEPT ![step[k]] = [r |-> r, w |-> w]]
          /\ table' = [table EXCEPT ![r] = ReadEnd(<<k, step[k]>>), ![w] = WriteEnd(<<k, step[k]>>)]
    /\ IF step[k] = Stderr
       THEN Goto(k, "fork") /\ step' = [step EXCEPT ![k] = 1]
       ELSE UNCHANGED pc /\ step' = [step EXCEPT ![k] = @ + 1]
    /\ UNCHANGED <<fd, left, got, result, buf, child, killed, alone>>

PipeFails(k) ==
    /\ pc[k] = "pipe"
    /\ \A r, w \in Free : r = w
    /\ Fail(k)

Fork(k) ==
    /\ pc[k] = "fork"
    /\ child' = [child EXCEPT ![k].state = "forked", ![k].table = table, ![k].pipes = pipes]
    /\ Goto(k, "close")
    /\ UNCHANGED <<step, pipes, table, fd, left, got, result, buf, killed, alone>>

\* Mutant: the six descriptors stay open.
ForkFailsKeeping(k) ==
    /\ pc[k] = "fork"
    /\ Goto(k, "noChild")
    /\ UNCHANGED <<step, pipes, table, fd, left, got, result, buf, child, killed, alone>>

ForkFails(k) ==
    /\ pc[k] = "fork"
    /\ table' = Without(table, AllFds(pipes))
    /\ Goto(k, "noChild")
    /\ UNCHANGED <<step, pipes, fd, left, got, result, buf, child, killed, alone>>

\* The ends the parent does not use, in the order it closes them.
ChildFd(i) == IF i = Stdin THEN pipes[i].r ELSE pipes[i].w

\* Mutant: the parent keeps the write ends of the child's output.
CloseChildEndKept(k) ==
    /\ pc[k] = "close"
    /\ table' = IF step[k] = Stdin THEN Without(table, {ChildFd(step[k])}) ELSE table
    /\ IF step[k] = Stderr THEN Goto(k, "write") /\ UNCHANGED step
                           ELSE UNCHANGED pc /\ step' = [step EXCEPT ![k] = @ + 1]
    /\ UNCHANGED <<pipes, fd, left, got, result, buf, child, killed, alone>>

CloseChildEnd(k) ==
    /\ pc[k] = "close"
    /\ table' = Without(table, {ChildFd(step[k])})
    /\ IF step[k] = Stderr THEN Goto(k, "write") /\ UNCHANGED step
                           ELSE UNCHANGED pc /\ step' = [step EXCEPT ![k] = @ + 1]
    /\ UNCHANGED <<pipes, fd, left, got, result, buf, child, killed, alone>>
-----------------------------------------------------------------------------
WriteTo == End(table, pipes[Stdin].w)

\* Mutant: the loop runs once too often.
WriteOneMore(k) ==
    /\ pc[k] = "write" /\ WriteTo.dir = "w"
    /\ Held(ReadEnd(WriteTo.pipe))
    /\ Len(buf[WriteTo.pipe]) < Capacity
    /\ buf' = [buf EXCEPT ![WriteTo.pipe] = Append(@, <<k, left[k]>>)]
    /\ left' = [left EXCEPT ![k] = @ - 1]
    /\ IF left[k] = 0 THEN Goto(k, "closeIn") ELSE UNCHANGED pc
    /\ UNCHANGED <<step, pipes, table, fd, got, result, child, killed, alone>>

Write(k) ==
    /\ pc[k] = "write" /\ WriteTo.dir = "w"
    /\ Held(ReadEnd(WriteTo.pipe))
    /\ Len(buf[WriteTo.pipe]) < Capacity
    /\ buf' = [buf EXCEPT ![WriteTo.pipe] = Append(@, <<k, left[k]>>)]
    /\ left' = [left EXCEPT ![k] = @ - 1]
    /\ IF left[k] = 1 THEN Goto(k, "closeIn") ELSE UNCHANGED pc
    /\ UNCHANGED <<step, pipes, table, fd, got, result, child, killed, alone>>

\* Nobody reads: EPIPE if SIGPIPE is ignored, as it is once asio has an io_context; before that
\* the signal ends the process.
WriteBreaks(k) ==
    /\ pc[k] = "write" /\ WriteTo.dir = "w"
    /\ ~Held(ReadEnd(WriteTo.pipe))
    /\ \/ Goto(k, "failed") /\ UNCHANGED killed
       \/ killed' = TRUE /\ UNCHANGED pc
    /\ UNCHANGED <<step, pipes, table, fd, left, got, result, buf, child, alone>>

\* The descriptor is not one to write to (EBADF).
WriteFails(k) ==
    /\ pc[k] = "write" /\ WriteTo.dir # "w"
    /\ Fail(k)

\* close of the descriptor f on the way from one place of exec_command_ to the next.
CloseOr(k, f, next) ==
    IF End(table, f) = Closed
    THEN Fail(k)
    ELSE /\ table' = Without(table, {f})
         /\ Goto(k, next)
         /\ UNCHANGED <<step, pipes, fd, left, got, result, buf, child, killed, alone>>

CloseInput(k) == pc[k] = "closeIn" /\ CloseOr(k, pipes[Stdin].w, "callOut")

\* read_all is called; it names its descriptor once.
Reading(k) == IF pc[k] = "readOut" THEN Stdout ELSE IF pc[k] = "readErr" THEN Stderr ELSE 0

CallReadAll(k) ==
    /\ pc[k] \in {"callOut", "callErr"}
    /\ LET i == IF pc[k] = "callOut" THEN Stdout ELSE Stderr
       IN  /\ fd' = [fd EXCEPT ![k] = pipes[i].r]
           /\ Goto(k, IF i = Stdout THEN "readOut" ELSE "readErr")
    /\ UNCHANGED <<step, pipes, table, left, got, result, buf, child, killed, alone>>

ReadFrom(k) == End(table, fd[k])
AfterRead(k) == IF Reading(k) = Stdout THEN "callErr" ELSE "closeOut"

Read(k) ==
    /\ Reading(k) # 0 /\ ReadFrom(k).dir = "r"
    /\ LET p == ReadFrom(k).pipe
       IN  /\ buf[p] # <<>>
           /\ got' = [got EXCEPT ![k][Reading(k)] = Append(@, Head(buf[p]))]
           /\ buf' = [buf EXCEPT ![p] = Tail(@)]
    /\ UNCHANGED <<pc, step, pipes, table, fd, left, result, child, killed, alone>>

\* Mutant: the output is taken to be over when the pipe is empty.
ReadEofEarly(k) ==
    /\ Reading(k) # 0 /\ ReadFrom(k).dir = "r"
    /\ buf[ReadFrom(k).pipe] = <<>>
    /\ Goto(k, AfterRead(k))
    /\ UNCHANGED <<step, pipes, table, fd, left, got, result, buf, child, killed, alone>>

ReadEof(k) ==
    /\ Reading(k) # 0 /\ ReadFrom(k).dir = "r"
    /\ buf[ReadFrom(k).pipe] = <<>>
    /\ ~Held(WriteEnd(ReadFrom(k).pipe))
    /\ Goto(k, AfterRead(k))
    /\ UNCHANGED <<step, pipes, table, fd, left, got, result, buf, child, killed, alone>>

ReadFails(k) ==
    /\ Reading(k) # 0 /\ ReadFrom(k).dir # "r"
    /\ Fail(k)

CloseRead(k) ==
    \/ pc[k] = "closeOut" /\ CloseOr(k, pipes[Stdout].r, "closeErr")
    \/ pc[k] = "closeErr" /\ CloseOr(k, pipes[Stderr].r, "wait")

\* Mutant: a child a signal ended is taken for one that exited with 0.
WaitUnchecked(k) ==
    /\ pc[k] = "wait" /\ child[k].state = "exited"
    /\ child' = [child EXCEPT ![k].state = "reaped"]
    /\ result' = [result EXCEPT ![k] = "zero"]
    /\ Goto(k, "done")
    /\ UNCHANGED <<step, pipes, table, fd, left, got, buf, killed, alone>>

Wait(k) ==
    /\ pc[k] = "wait" /\ child[k].state = "exited"
    /\ child' = [child EXCEPT ![k].state = "reaped"]
    /\ result' = [result EXCEPT ![k] = IF child[k].good THEN "zero" ELSE "nonzero"]
    /\ Goto(k, "done")
    /\ UNCHANGED <<step, pipes, table, fd, left, got, buf, killed, alone>>
-----------------------------------------------------------------------------
\* What a child keeps when it is gone.
Exited(x, good) == [x EXCEPT !.state = "exited", !.table = Unused, !.pipes = NoArray,
                             !.io = [i \in Ids |-> Closed], !.todo = <<>>, !.good = good]

Becomes(k, x) ==
    /\ child' = [child EXCEPT ![k] = x]
    /\ UNCHANGED <<pc, step, pipes, table, fd, left, got, result, killed, alone>>

\* The child between fork and execv, on its copies of the array and of the descriptors: dup2
\* three times, each of which may find its descriptor closed, close six times, execv.  A
\* command that cannot be run is one that says so on standard error and fails.
Exec(k) ==
    LET x == child[k]
        io == [i \in Ids |-> End(x.table, IF i = Stdin THEN x.pipes[i].r ELSE x.pipes[i].w)]
    IN  /\ x.state = "forked"
        /\ \/ /\ \A i \in Ids : io[i] # Closed
              /\ \E p \in Programs :
                    Becomes(k, [x EXCEPT !.state = "running", !.io = io, !.todo = p,
                                         !.table = Without(@, AllFds(x.pipes)), !.pipes = NoArray])
           \/ /\ \E i \in Ids : io[i] = Closed
              /\ Becomes(k, Exited(x, FALSE))
        /\ UNCHANGED buf

NextIs(k, op) == child[k].state = "running" /\ child[k].todo # <<>> /\ Head(child[k].todo) = op

\* The command reads a unit, or finds the end of its input, or an end it cannot read from.
ChildReads(k) ==
    /\ NextIs(k, "in")
    /\ LET x == child[k]
           e == x.io[Stdin]
           y == [x EXCEPT !.todo = Tail(@)]
       IN  \/ /\ e.dir = "r" /\ buf[e.pipe] # <<>>
              /\ buf' = [buf EXCEPT ![e.pipe] = Tail(@)]
              /\ Becomes(k, y)
           \/ /\ e.dir = "r" => buf[e.pipe] = <<>> /\ ~Held(WriteEnd(e.pipe))
              /\ Becomes(k, y)
              /\ UNCHANGED buf

\* The command writes a unit, or ends because nobody reads it any more.
ChildWrites(k, i) ==
    /\ NextIs(k, IF i = Stdout THEN "out" ELSE "err")
    /\ LET x == child[k]
           e == x.io[i]
           n == x.wrote[i] + 1
       IN  \/ /\ e.dir = "w" /\ Held(ReadEnd(e.pipe)) /\ Len(buf[e.pipe]) < Capacity
              /\ buf' = [buf EXCEPT ![e.pipe] = Append(@, <<k, n>>)]
              /\ Becomes(k, [x EXCEPT !.todo = Tail(@), !.wrote[i] = n])
           \/ /\ e.dir = "w" => ~Held(ReadEnd(e.pipe))
              /\ Becomes(k, Exited(x, FALSE))
              /\ UNCHANGED buf

ChildExits(k) ==
    /\ child[k].state = "running" /\ child[k].todo = <<>>
    /\ \E good \in BOOLEAN : Becomes(k, Exited(child[k], good))
    /\ UNCHANGED buf

\* A signal from outside ends the command.
ChildDies(k) ==
    /\ Alive(k)
    /\ Becomes(k, Exited(child[k], FALSE))
    /\ UNCHANGED buf
-----------------------------------------------------------------------------
Parent(k) ==
    /\ ~killed
    /\ \/ MakePipe(k) \/ PipeFails(k) \/ Fork(k) \/ ForkFails(k) \/ CloseChildEnd(k)
       \/ Write(k) \/ WriteBreaks(k) \/ WriteFails(k) \/ CloseInput(k)
       \/ CallReadAll(k) \/ Read(k) \/ ReadEof(k) \/ ReadFails(k)
       \/ CloseRead(k) \/ Wait(k)

Child(k) == \/ Exec(k) \/ ChildReads(k) \/ ChildExits(k)
            \/ \E i \in {Stdout, Stderr} : ChildWrites(k, i)

Next == \E k \in Calls : Call(k) \/ Parent(k) \/ Child(k) \/ ChildDies(k)

Spec == Init /\ [][Next]_vars

\* A thread that is in exec_command_ runs, and so does a child.
FairSpec == Spec /\ \A k \in Calls : WF_vars(Parent(k)) /\ WF_vars(Child(k))
-----------------------------------------------------------------------------
EndSet == [pipe: Pipes, dir: {"r", "w"}] \cup {Closed}
Array == [Ids -> [r: Fds \cup {0}, w: Fds \cup {0}]]
Unit == Calls \X Nat
ChildSet == [state: {"none", "forked", "running", "exited", "reaped"}, table: [Fds -> EndSet],
             pipes: Array, io: [Ids -> EndSet], todo: Seq(Ops), wrote: [Ids -> Nat], good: BOOLEAN]
Places == {"new", "pipe", "fork", "close", "write", "closeIn", "callOut", "readOut", "callErr",
           "readErr", "closeOut", "closeErr", "wait"} \cup Returned

\* The type invariant; no call reads or writes past what it has to.
TypeOK ==
    /\ pc \in [Calls -> Places]
    /\ step \in [Calls -> Ids]
    /\ pipes \in Array
    /\ table \in [Fds -> EndSet]
    /\ fd \in [Calls -> Fds \cup {0}]
    /\ left \in [Calls -> Nat]
    /\ \A k \in Calls : pc[k] \in {"new", "pipe", "fork", "close", "write"} => left[k] > 0
    /\ got \in [Calls -> [Ids -> Seq(Unit)]]
    /\ result \in [Calls -> {"zero", "nonzero"}]
    /\ buf \in [Pipes -> Seq(Unit)]
    /\ child \in [Calls -> ChildSet]
    /\ killed \in BOOLEAN
    /\ alone \in [Calls -> BOOLEAN]

\* What child k wrote to stream i.
Output(k, i) == [n \in 1 .. child[k].wrote[i] |-> <<k, n>>]

\* Each call implements CommandCall: through the fork, the pipes and the order of the reads, what
\* it returns, and when, is what the command wrote and that it has ended.
Phase(k) == IF ~alone[k] THEN "void"
            ELSE IF pc[k] = "done" THEN "returned"
            ELSE IF pc[k] \in {"failed", "noChild"} THEN "failed"
            ELSE IF child[k].state = "exited" THEN "ended" ELSE "running"
Answer(k) == IF Phase(k) = "returned"
             THEN [output |-> [i \in {Stdout, Stderr} |-> got[k][i]], zero |-> result[k] = "zero"]
             ELSE [output |-> [i \in {Stdout, Stderr} |-> <<>>], zero |-> FALSE]
Calling(k) == INSTANCE CommandCall WITH
    Streams <- {Stdout, Stderr}, phase <- Phase(k), good <- child[k].good, answer <- Answer(k),
    written <- [i \in {Stdout, Stderr} |-> Output(k, i)]
IsCommandCall ==
    /\ \A k \in Calls : Calling(k)!Init
    /\ [][\A k \in Calls : [Calling(k)!Next]_(Calling(k)!vars)]_vars

\* A call no other overlaps, if it waited for its child, returns all the child wrote, each
\* stream in order, and exit status 0 only for a child that ended well.
ResultWhole ==
    \A k \in Calls : alone[k] /\ pc[k] = "done" =>
        /\ \A i \in {Stdout, Stderr} : got[k][i] = Output(k, i)
        /\ result[k] = "zero" => child[k].good

\* A call no other overlaps, if it waited for its child or could not fork one, leaves no
\* descriptor open, whatever the calls before it left, and no zombie.  Of the early returns after
\* the fork, which leave both (145 to 205), and of a pipe that fails (46), nothing is said.
NothingHeld ==
    \A k \in Calls : alone[k] /\ pc[k] \in {"done", "noChild"} =>
        /\ \A f \in Fds, i \in Ids : table[f].pipe # <<k, i>>
        /\ child[k].state = IF pc[k] = "done" THEN "reaped" ELSE "none"

\* The parent reads one stream, or writes, while its child waits to write to a pipe that is full.
CrossWait(k) ==
    /\ child[k].state = "running" /\ child[k].todo # <<>>
    /\ \/ /\ pc[k] = "readOut" /\ buf[<<k, Stdout>>] = <<>>
          /\ Head(child[k].todo) = "err" /\ Len(buf[<<k, Stderr>>]) = Capacity
       \/ /\ pc[k] = "write" /\ Len(buf[<<k, Stdin>>]) = Capacity
          /\ \/ Head(child[k].todo) = "out" /\ Len(buf[<<k, Stdout>>]) = Capacity
             \/ Head(child[k].todo) = "err" /\ Len(buf[<<k, Stderr>>]) = Capacity

\* Every call no other overlaps returns, unless parent and child wait for each other or SIGPIPE
\* ends the process.
CallEnds ==
    \A k \in Calls : Active(k) ~> (pc[k] \in Returned \/ CrossWait(k) \/ killed \/ ~alone[k])

\* execute.cpp 7-10, "we need three pipes: [...] Child writes to parent's stdout": what a call
\* returns was written by its child.
OutputsOwn ==
    \A k \in Calls : pc[k] = "done" =>
        \A i \in {Stdout, Stderr} : \A n \in DOMAIN got[k][i] : got[k][i][n][1] = k
=============================================================================
