----------------------- MODULE ServerLifecycleProofs -----------------------
(***************************************************************************)
(* Theorems about ServerLifecycle, for any worker threads and any number   *)
(* of signals: its types, that no thread of Crow outlives main, and, when  *)
(* the server starts within the 500 ms main sleeps, that the signals are   *)
(* main's once it says so.                                                 *)
(***************************************************************************)
EXTENDS ServerLifecycle, TLAPS

Early == {"bind", "sigint", "sigterm", "pool", "threads"}

\* How far the threads are at each place of Server::run.
Threads ==
    /\ server \in Early => \A w \in Workers : worker[w] = "none"
    /\ server \in Early \cup {"async", "spin"} => io = "none"
    /\ server = "reap" => io = "over"
    /\ server = "over" =>
          /\ io \in {"none", "over"}
          /\ \A w \in Workers : worker[w] \in {"none", "over"}
    /\ process = "exited" => server = "over"

\* Which signals are main's at each of its places, if the server is up by then.
Taken ==
    timely =>
        /\ main # "sleep" => server \in {"join", "reap", "over"}
        /\ main \notin {"sleep", "tstp"} => handler["TSTP"] = "main"
        /\ main \notin {"sleep", "tstp", "int"} => handler["INT"] = "main"
        /\ main \notin {"sleep", "tstp", "int", "term"} => handler["TERM"] = "main"

Inv == TypeOK /\ Threads /\ Taken

LEMMA InitInv == Init => Inv
<1> SUFFICES ASSUME Init PROVE Inv
    OBVIOUS
<1>1. TypeOK
  <2>1. sent \in 0 .. MaxSignals
        BY ServerLifecycleAssumption DEF Init
  <2>2. /\ handler \in [Signals -> {"default", "crow", "main"}]
        /\ worker \in [Workers -> {"none", "init", "run", "handle", "write", "over"}]
        BY DEF Init
  <2> QED
      BY <2>1, <2>2 DEF Init, TypeOK
<1>2. Threads
      BY DEF Init, Threads
<1>3. Taken
      BY DEF Init, Taken
<1> QED
    BY <1>1, <1>2, <1>3 DEF Inv
-----------------------------------------------------------------------------
(* One lemma for each thread of the process.                               *)

\* What a step leaves alone: the threads, or the signals.
LEMMA ThreadsKept ==
  ASSUME Threads, UNCHANGED <<server, io, worker>>, process' # "exited" \/ process' = process
  PROVE  Threads'
BY DEF Threads, Early

LEMMA TakenKept ==
  ASSUME Taken, UNCHANGED <<timely, main, server, handler>>
  PROVE  Taken'
BY DEF Taken

LEMMA StopPoolTyped ==
  ASSUME TypeOK, StopPool
  PROVE  /\ stopped' \subseteq pool /\ shutting' \in BOOLEAN
         /\ UNCHANGED <<process, running, server, assigned, handler, pipe, waiting, pool,
                        worker, ioStopped, conns, sent, asked>>
BY DEF StopPool, TypeOK

LEMMA MainInv ==
  ASSUME Inv, Main
  PROVE  Inv'
<1>0. timely' = timely
      BY DEF Main
<1> USE <1>0
<1>1. CASE MainWakes
      BY <1>1 DEF MainWakes, MainGoto, Inv, TypeOK, Threads, Taken, serverVars
<1>2. CASE MainInstallsAll
  <2>1. PICK s \in Signals, from \in {"tstp", "int", "term"}, to \in {"int", "term", "wait"} :
            /\ MainInstalls(s, from, to)
            /\ \/ s = "TSTP" /\ from = "tstp" /\ to = "int"
               \/ s = "INT" /\ from = "int" /\ to = "term"
               \/ s = "TERM" /\ from = "term" /\ to = "wait"
        BY <1>2 DEF MainInstallsAll, Signals
  <2>2. /\ main = from /\ main' = to /\ handler' = [handler EXCEPT ![s] = "main"]
        /\ UNCHANGED <<process, running, server, serverVars, sent, asked>>
        BY <2>1 DEF MainInstalls, MainGoto
  <2>3. /\ handler'[s] = "main" /\ \A r \in Signals : r # s => handler'[r] = handler[r]
        /\ handler' \in [Signals -> {"default", "crow", "main"}]
        BY <2>2 DEF Inv, TypeOK
  <2>4. TypeOK'
        BY <2>2, <2>3 DEF Inv, TypeOK, serverVars
  <2>5. Threads'
        BY <2>2, ThreadsKept DEF Inv, serverVars
  <2>6. Taken'
        BY <2>1, <2>2, <2>3 DEF Inv, Taken, Signals
  <2> QED
      BY <2>4, <2>5, <2>6 DEF Inv
<1>3. CASE MainSeesFlag
      BY <1>3 DEF MainSeesFlag, MainGoto, Inv, TypeOK, Threads, Taken, serverVars
<1>4. CASE MainStops
  <2>1. /\ main \in {"stop", "stop2"} /\ main' \in {"stop2", "join"}
        /\ UNCHANGED <<process, running, server, handler, worker, io, assigned, pipe, waiting,
                       pool, conns, sent, asked>>
        /\ stopped' \subseteq pool /\ shutting' \in BOOLEAN /\ ioStopped' \in BOOLEAN
    <3>1. CASE StopPool /\ MainGoto("stop", "stop2") /\ UNCHANGED io
          BY <3>1, StopPoolTyped DEF MainGoto, Inv, TypeOK
    <3>2. CASE /\ MainGoto("stop", "join")
               /\ UNCHANGED <<process, running, server, handler, serverVars, sent, asked>>
          BY <3>2 DEF MainGoto, Inv, TypeOK, serverVars
    <3>3. CASE MainGoto("stop2", "join") /\ StopAcceptor /\ UNCHANGED io
          BY <3>3 DEF MainGoto, StopAcceptor, Inv, TypeOK
    <3> QED
        BY <1>4, <3>1, <3>2, <3>3 DEF MainStops
  <2>2. TypeOK'
        BY <2>1 DEF Inv, TypeOK
  <2>3. Threads'
        BY <2>1, ThreadsKept DEF Inv
  <2>4. Taken'
        BY <2>1 DEF Inv, Taken
  <2> QED
      BY <2>2, <2>3, <2>4 DEF Inv
<1>5. CASE MainJoins
      BY <1>5 DEF MainJoins, MainGoto, Inv, TypeOK, Threads, Taken, Early, serverVars
<1> QED
    BY <1>1, <1>2, <1>3, <1>4, <1>5 DEF Main

LEMMA ServerInv ==
  ASSUME Inv, Server
  PROVE  Inv'
<1>0. timely' = timely
      BY DEF Server
<1> USE <1>0
<1>1. CASE BindStep
  <2>1. /\ server = "bind" /\ server' \in {"over", "sigint"}
        /\ process' \in {"alive", "killed"} /\ assigned' \in BOOLEAN
        BY <1>1 DEF BindStep, Bind, ServerGoto, Inv, TypeOK
  <2>2. UNCHANGED <<main, running, handler, pipe, waiting, pool, worker, stopped, io,
                    ioStopped, shutting, conns, sent, asked>>
        BY <1>1 DEF BindStep
  <2>3. TypeOK'
        BY <2>1, <2>2 DEF Inv, TypeOK
  <2>4. Threads' /\ Taken'
        BY <2>1, <2>2 DEF Inv, Threads, Taken, Early
  <2> QED
      BY <2>3, <2>4 DEF Inv
<1>2. CASE SignalAdd
  <2>1. PICK s \in Signals :
            /\ handler' = [handler EXCEPT ![s] = "crow"]
            /\ \/ server = "sigint" /\ server' = "sigterm"
               \/ server = "sigterm" /\ server' = "pool"
        BY <1>2 DEF SignalAdd, ServerGoto, Signals
  <2>2. UNCHANGED <<process, main, running, serverVars, sent, asked>>
        BY <1>2 DEF SignalAdd
  <2>3. TypeOK'
        BY <2>1, <2>2 DEF Inv, TypeOK, serverVars
  <2>4. Threads'
        BY <2>1, <2>2 DEF Inv, Threads, Early, TypeOK, serverVars
  <2>5. Taken'
        BY <2>1, <2>2 DEF Inv, Taken
  <2> QED
      BY <2>3, <2>4, <2>5 DEF Inv
<1>3. CASE GrowPool
  <2>1. /\ server = "pool" /\ server' \in {"pool", "threads"}
        /\ pool \subseteq pool' /\ pool' \subseteq Workers
        BY <1>3 DEF GrowPool, ServerGoto, Inv, TypeOK
  <2>2. UNCHANGED <<process, main, running, assigned, handler, pipe, waiting, worker,
                    stopped, io, ioStopped, shutting, conns, sent, asked>>
        BY <1>3 DEF GrowPool
  <2>3. TypeOK'
        BY <2>1, <2>2 DEF Inv, TypeOK
  <2>4. Threads' /\ Taken'
        BY <2>1, <2>2 DEF Inv, Threads, Taken, Early, TypeOK
  <2> QED
      BY <2>3, <2>4 DEF Inv
<1>4. CASE StartThreads
  <2>1. /\ server = "threads" /\ server' = "async" /\ worker' = [w \in Workers |-> "init"]
        /\ process = "alive"
        /\ UNCHANGED <<process, main, running, assigned, handler, pipe, waiting, pool,
                       stopped, io, ioStopped, shutting, conns, sent, asked>>
        BY <1>4 DEF StartThreads, ServerGoto
  <2>2. TypeOK'
        BY <2>1 DEF Inv, TypeOK
  <2>3. Threads' /\ Taken'
        BY <2>1 DEF Inv, Threads, Taken, Early
  <2> QED
      BY <2>2, <2>3 DEF Inv
<1>5. CASE AsyncWait \/ StartAccepting
  <2>1. /\ \/ server = "async" /\ server' = "spin" /\ io' = io
           \/ server = "spin" /\ server' = "join" /\ io' = "run"
        /\ process = "alive" /\ waiting' \in BOOLEAN
        /\ UNCHANGED <<process, main, running, assigned, handler, pipe, pool, worker,
                       stopped, ioStopped, shutting, conns, sent, asked>>
        BY <1>5 DEF AsyncWait, StartAccepting, ServerGoto, Inv, TypeOK
  <2>2. TypeOK'
        BY <2>1 DEF Inv, TypeOK
  <2>3. Threads' /\ Taken'
        BY <2>1 DEF Inv, Threads, Taken, Early
  <2> QED
      BY <2>2, <2>3 DEF Inv
<1>6. CASE JoinAcceptor \/ ReapWorkers
  <2>1. /\ \/ server = "join" /\ server' = "reap" /\ io = "over"
           \/ server = "reap" /\ server' = "over" /\ \A w \in Workers : worker[w] = "over"
        /\ process = "alive"
        /\ UNCHANGED <<process, main, running, handler, serverVars, sent, asked>>
        BY <1>6 DEF JoinAcceptor, ReapWorkers, ServerGoto
  <2>2. TypeOK'
        BY <2>1 DEF Inv, TypeOK, serverVars
  <2>3. Threads' /\ Taken'
        BY <2>1 DEF Inv, Threads, Taken, Early, serverVars
  <2> QED
      BY <2>2, <2>3 DEF Inv
<1> QED
    BY <1>1, <1>2, <1>3, <1>4, <1>5, <1>6 DEF Server

\* A thread of Crow's works only while Server::run is past its start and not over.
LEMMA WorkerInv ==
  ASSUME Inv, NEW w \in Workers, NEW from \in {"init", "run", "handle", "write"},
         NEW to \in {"run", "handle", "write", "over"}, WorkerGoto(w, from, to)
  PROVE  Inv'
<1>1. worker[w] = from /\ worker' = [worker EXCEPT ![w] = to]
      BY DEF WorkerGoto
<1>2. UNCHANGED <<timely, process, main, running, server, assigned, handler, pipe, waiting,
                  pool, stopped, io, ioStopped, shutting, conns, sent, asked>>
      BY DEF WorkerGoto
<1>3. TypeOK'
      BY <1>1, <1>2 DEF Inv, TypeOK
<1>4. server \notin Early \cup {"over"}
      BY <1>1 DEF Inv, Threads
<1>5. Threads'
      BY <1>2, <1>4 DEF Inv, Threads, Early
<1>6. Taken'
      BY <1>2, TakenKept DEF Inv
<1> QED
    BY <1>3, <1>5, <1>6 DEF Inv

LEMMA IoInv ==
  ASSUME Inv, Io \/ \E w \in Workers : Accept(w)
  PROVE  Inv'
<1>0. timely' = timely
      BY DEF Io, Accept
<1> USE <1>0
<1>1. CASE \E w \in Workers : Accept(w)
  <2>1. /\ conns' \subseteq Workers
        /\ UNCHANGED <<process, main, running, server, assigned, handler, pipe, waiting, pool,
                       worker, stopped, io, ioStopped, shutting, sent, asked>>
        BY <1>1 DEF Accept, Inv, TypeOK
  <2>2. TypeOK'
        BY <2>1 DEF Inv, TypeOK
  <2> QED
      BY <2>1, <2>2, ThreadsKept, TakenKept DEF Inv
<1>2. CASE Io
  <2>1. /\ io \in {"run", "stop", "stop2"} /\ io' \in {"run", "stop", "stop2", "over"}
        /\ stopped' \subseteq pool
        /\ pipe' \in BOOLEAN /\ waiting' \in BOOLEAN /\ shutting' \in BOOLEAN /\ ioStopped' \in BOOLEAN
        /\ UNCHANGED <<process, main, running, server, assigned, handler, pool, worker, conns,
                       sent, asked>>
    <3>1. CASE IoTakesSignal \/ IoEnds
          BY <3>1 DEF IoTakesSignal, IoEnds, IoStep, Inv, TypeOK
    <3>2. CASE IoStops /\ StopPool
          BY <3>2, StopPoolTyped DEF IoStops, Inv, TypeOK
    <3>3. CASE IoStops /\ StopAcceptor
          BY <3>3 DEF IoStops, StopAcceptor, Inv, TypeOK
    <3> QED
        BY <1>2, <3>1, <3>2, <3>3 DEF Io, IoStops
  <2>2. TypeOK'
        BY <2>1 DEF Inv, TypeOK
  <2>3. server = "join"
        BY <2>1 DEF Inv, TypeOK, Threads, Early
  <2>4. Threads'
        BY <2>1, <2>3 DEF Inv, Threads, Early
  <2> QED
      BY <2>1, <2>2, <2>4, TakenKept DEF Inv
<1> QED
    BY <1>1, <1>2

LEMMA DeliverInv ==
  ASSUME Inv, NEW s \in Signals, Deliver(s)
  PROVE  Inv'
<1>1. /\ process' \in {process, "killed"} /\ process = "alive"
      /\ running' \in BOOLEAN /\ pipe' \in BOOLEAN
      BY DEF Deliver, Inv, TypeOK
<1>2. /\ sent < MaxSignals /\ sent' = sent + 1
      /\ asked' = (asked \/ main \in {"wait", "stop", "stop2", "join"})
      BY DEF Deliver
<1>3. UNCHANGED <<timely, main, server, assigned, handler, waiting, pool, worker, stopped, io,
                  ioStopped, shutting, conns>>
      BY DEF Deliver
<1>4. sent' \in 0 .. MaxSignals
      BY <1>2, ServerLifecycleAssumption DEF Inv, TypeOK
<1>5. asked' \in BOOLEAN
      BY <1>2, Zenon DEF Inv, TypeOK
<1>6. TypeOK'
      BY <1>1, <1>3, <1>4, <1>5 DEF Inv, TypeOK
<1> QED
    BY <1>1, <1>3, <1>6, ThreadsKept, TakenKept DEF Inv

LEMMA NextInv == Inv /\ [Next]_vars => Inv'
<1> SUFFICES ASSUME Inv, [Next]_vars PROVE Inv'
    OBVIOUS
<1>1. CASE Main \/ Server
      BY <1>1, MainInv, ServerInv
<1>2. CASE Io \/ \E w \in Workers : Accept(w)
      BY <1>2, IoInv
<1>3. CASE \E w \in Workers : Worker(w) \/ BeginHandler(w) \/ EndWrite(w)
      BY <1>3, WorkerInv DEF Worker, WorkerInit, BeginHandler, BeginWrite, EndWrite, EndHandler, WorkerEnds
<1>4. CASE \E s \in Signals : Deliver(s)
      BY <1>4, DeliverInv
<1>5. CASE UNCHANGED vars
      BY <1>5 DEF vars, Inv, TypeOK, Threads, Taken
<1> QED
    BY <1>1, <1>2, <1>3, <1>4, <1>5 DEF Next
-----------------------------------------------------------------------------
\* Every variable of main, of App and of Server keeps its type, and only an io_context that is in the
\* pool is ever stopped.
THEOREM TypeCorrect == Spec => []TypeOK
<1>1. Inv => TypeOK
      BY DEF Inv
<1> QED
    BY <1>1, InitInv, NextInv, PTL DEF Spec

\* When main returns, the accepting thread and all workers of Crow are over, or were never started:
\* whether the server could bind or not, whoever stopped it, and however slowly it started.
THEOREM ExitSafe == Spec => []ExitIsClean
<1>1. Inv => ExitIsClean
      BY DEF Inv, Threads, ExitIsClean
<1> QED
    BY <1>1, InitInv, NextInv, PTL DEF Spec

\* If the server is up within main's 500 ms, Crow's registration of SIGINT and SIGTERM never comes
\* after main's own: from the message on all three signals are main's.
THEOREM OwnsSafe == Spec => []MainOwnsSignals
<1>1. Inv => MainOwnsSignals
      BY DEF Inv, Taken, MainOwnsSignals, Signals
<1> QED
    BY <1>1, InitInv, NextInv, PTL DEF Spec
=============================================================================
