-------------------------- MODULE ServerLifecycle --------------------------
(***************************************************************************)
(* The life of the backend process: main() (src/src/backend/main.cpp       *)
(* 158-183) starts Crow on a thread of its own, waits 500 ms, takes the    *)
(* signals over, waits for one, stops Crow and joins its thread.  Crow     *)
(* (src/src/include/crow/app.h, http_server.h) binds, registers its own    *)
(* handlers of SIGINT and SIGTERM, and runs one io_context per worker and  *)
(* one that accepts connections and receives the signals.                  *)
(***************************************************************************)
EXTENDS Naturals, FiniteSets

CONSTANTS Workers,     \* Crow's worker threads, each with its io_context
          MaxSignals   \* bound: signals the process is sent

ASSUME ServerLifecycleAssumption ==
    /\ IsFiniteSet(Workers) /\ Workers # {}
    /\ MaxSignals \in Nat

Signals == {"INT", "TERM", "TSTP"}

VARIABLES
    timely,     \* is the server up within main's 500 ms?  Never changes
    process,    \* "alive", "exited" by a return of main, "killed"
    main,       \* where main() is
    running,    \* the flag the signal handler of main.cpp clears
    server,     \* where App::run and Server::run are
    assigned,   \* App::server_ points to a server
    handler,    \* whose handler each signal has
    pipe,       \* a signal is in asio's pipe
    waiting,    \* signals_.async_wait has been called and not completed
    pool,       \* the io_contexts in io_context_pool_, by worker
    worker,     \* what each worker thread is doing
    stopped,    \* the io_contexts of the pool that were told to stop
    io, ioStopped,  \* the thread of the accepting io_context; its stop
    shutting,   \* shutting_down_
    conns,      \* workers that serve a connection
    sent,       \* history: signals sent so far
    asked       \* history: a signal came after main's message (main.cpp:170)

\* What the thread "Crow" and those it starts work with.
serverVars == <<assigned, pipe, waiting, pool, worker, stopped, io, ioStopped, shutting, conns>>
vars == <<timely, process, main, running, server, assigned, handler, pipe, waiting, pool,
          worker, stopped, io, ioStopped, shutting, conns, sent, asked>>

Init ==
    /\ timely \in BOOLEAN
    /\ process = "alive"
    /\ main = "sleep"
    /\ running = TRUE
    /\ server = "bind"
    /\ assigned = FALSE
    /\ handler = [s \in Signals |-> "default"]
    /\ pipe = FALSE
    /\ waiting = FALSE
    /\ pool = {}
    /\ worker = [w \in Workers |-> "none"]
    /\ stopped = {}
    /\ io = "none"
    /\ ioStopped = FALSE
    /\ shutting = FALSE
    /\ conns = {}
    /\ sent = 0
    /\ asked = FALSE
-----------------------------------------------------------------------------
(* Mutated form of StopPool: the loop over the pool misses one.            *)
StopPoolButOne ==
    /\ shutting' = TRUE
    /\ \E w \in Workers : stopped' = stopped \cup (pool \ {w})
    /\ UNCHANGED <<process, running, server, assigned, handler, pipe, waiting, pool,
                   worker, ioStopped, conns, sent, asked>>

(* Server::stop, called by main and by asio's signal handler: each         *)
(* io_context of the pool, then the accepting one.  A vector that is still *)
(* growing is read without a lock: any part of it may be seen.             *)
StopPool ==
    /\ shutting' = TRUE
    /\ \E seen \in SUBSET pool :
         /\ server # "pool" => seen = pool
         /\ stopped' = stopped \cup seen
    /\ UNCHANGED <<process, running, server, assigned, handler, pipe, waiting, pool,
                   worker, ioStopped, conns, sent, asked>>

(* Mutated form of StopAcceptor: the accepting io_context is left running. *)
StopAcceptorNot ==
    UNCHANGED <<process, running, server, assigned, handler, pipe, waiting, pool, worker,
                stopped, ioStopped, shutting, conns, sent, asked>>

StopAcceptor ==
    /\ ioStopped' = TRUE
    /\ UNCHANGED <<process, running, server, assigned, handler, pipe, waiting, pool,
                   worker, stopped, shutting, conns, sent, asked>>
-----------------------------------------------------------------------------
(* main() *)
MainGoto(from, to) == process = "alive" /\ main = from /\ main' = to

(* Mutated form of MainWakes: main does not sleep.                         *)
MainWakesAtOnce ==
    /\ MainGoto("sleep", "tstp")
    /\ UNCHANGED <<process, running, server, handler, serverVars, sent, asked>>

(* The end of the 500 ms.  When the server is timely it accepts by then,   *)
(* or has returned.                                                        *)
MainWakes ==
    /\ MainGoto("sleep", "tstp")
    /\ timely => server \in {"join", "reap", "over"}
    /\ UNCHANGED <<process, running, server, handler, serverVars, sent, asked>>

(* std::signal(SIGTSTP), std::signal(SIGINT), std::signal(SIGTERM)         *)
MainInstalls(s, from, to) ==
    /\ MainGoto(from, to)
    /\ handler' = [handler EXCEPT ![s] = "main"]
    /\ UNCHANGED <<process, running, server, serverVars, sent, asked>>

MainInstallsAll ==
    \/ MainInstalls("TSTP", "tstp", "int")
    \/ MainInstalls("INT", "int", "term")
    \/ MainInstalls("TERM", "term", "wait")

(* while (running) sleep *)
MainSeesFlag ==
    /\ MainGoto("wait", "stop")
    /\ ~running
    /\ UNCHANGED <<process, running, server, handler, serverVars, sent, asked>>

(* backend_instance.stop(): nothing to stop while server_ is null. *)
MainStops ==
    \/ /\ MainGoto("stop", "stop2")
       /\ assigned
       /\ StopPool
       /\ UNCHANGED io
    \/ /\ MainGoto("stop", "join")
       /\ ~assigned
       /\ UNCHANGED <<process, running, server, handler, serverVars, sent, asked>>
    \/ /\ MainGoto("stop2", "join")
       /\ StopAcceptor
       /\ UNCHANGED io

(* Mutated form of MainJoins: the thread is detached instead of joined.    *)
MainDetaches ==
    /\ MainGoto("join", "done")
    /\ process' = "exited"
    /\ UNCHANGED <<running, server, handler, serverVars, sent, asked>>

(* server_thread.join() and the return from main. *)
MainJoins ==
    /\ MainGoto("join", "done")
    /\ server = "over"
    /\ process' = "exited"
    /\ UNCHANGED <<running, server, handler, serverVars, sent, asked>>

Main == /\ MainWakes \/ MainInstallsAll \/ MainSeesFlag \/ MainStops \/ MainJoins
        /\ UNCHANGED timely
-----------------------------------------------------------------------------
(* The thread "Crow": App::run and Server::run. *)
ServerGoto(from, to) == process = "alive" /\ server = from /\ server' = to

(* make_address fails and run returns; or the acceptor's constructor       *)
(* throws, out of the thread's function; or server_ is assigned.           *)
Bind ==
    \/ /\ ServerGoto("bind", "over")
       /\ UNCHANGED <<process, assigned>>
    \/ /\ ServerGoto("bind", "over")
       /\ process' = "killed"
       /\ UNCHANGED assigned
    \/ /\ ServerGoto("bind", "sigint")
       /\ assigned' = TRUE
       /\ UNCHANGED process

BindStep ==
    /\ Bind
    /\ UNCHANGED <<main, running, handler, pipe, waiting, pool, worker, stopped, io,
                   ioStopped, shutting, conns, sent, asked>>

SignalAdd ==
    /\ \/ /\ ServerGoto("sigint", "sigterm")
          /\ handler' = [handler EXCEPT !["INT"] = "crow"]
       \/ /\ ServerGoto("sigterm", "pool")
          /\ handler' = [handler EXCEPT !["TERM"] = "crow"]
    /\ UNCHANGED <<process, main, running, serverVars, sent, asked>>

(* Mutated form of GrowPool: one io_context more than there are workers.   *)
GrowPoolByOneMore ==
    /\ \/ /\ ServerGoto("pool", "pool")
          /\ \E w \in (Workers \cup {"one more"}) \ pool : pool' = pool \cup {w}
       \/ /\ ServerGoto("pool", "threads")
          /\ pool = Workers \cup {"one more"}
          /\ UNCHANGED pool
    /\ UNCHANGED <<process, main, running, assigned, handler, pipe, waiting, worker,
                   stopped, io, ioStopped, shutting, conns, sent, asked>>

(* The loop that fills io_context_pool_, one io_context at a time.         *)
GrowPool ==
    /\ \/ /\ ServerGoto("pool", "pool")
          /\ \E w \in Workers \ pool : pool' = pool \cup {w}
       \/ /\ ServerGoto("pool", "threads")
          /\ pool = Workers
          /\ UNCHANGED pool
    /\ UNCHANGED <<process, main, running, assigned, handler, pipe, waiting, worker,
                   stopped, io, ioStopped, shutting, conns, sent, asked>>

StartThreads ==
    /\ ServerGoto("threads", "async")
    /\ worker' = [w \in Workers |-> "init"]
    /\ UNCHANGED <<process, main, running, assigned, handler, pipe, waiting, pool,
                   stopped, io, ioStopped, shutting, conns, sent, asked>>

AsyncWait ==
    /\ ServerGoto("async", "spin")
    /\ waiting' = TRUE
    /\ UNCHANGED <<process, main, running, assigned, handler, pipe, pool, worker,
                   stopped, io, ioStopped, shutting, conns, sent, asked>>

(* Wait for init_count, do_accept, start the accepting thread, join it.    *)
StartAccepting ==
    /\ ServerGoto("spin", "join")
    /\ \A w \in Workers : worker[w] # "init"
    /\ io' = "run"
    /\ UNCHANGED <<process, main, running, assigned, handler, pipe, waiting, pool, worker,
                   stopped, ioStopped, shutting, conns, sent, asked>>

JoinAcceptor ==
    /\ ServerGoto("join", "reap")
    /\ io = "over"
    /\ UNCHANGED <<process, main, running, handler, serverVars, sent, asked>>

(* The futures of std::async wait for their threads when they are destroyed. *)
ReapWorkers ==
    /\ ServerGoto("reap", "over")
    /\ \A w \in Workers : worker[w] = "over"
    /\ UNCHANGED <<process, main, running, handler, serverVars, sent, asked>>

Server == /\ \/ BindStep \/ SignalAdd \/ GrowPool \/ StartThreads \/ AsyncWait
             \/ StartAccepting \/ JoinAcceptor \/ ReapWorkers
          /\ UNCHANGED timely
-----------------------------------------------------------------------------
(* A worker: init_count++, then io_context::run until it is stopped.  A    *)
(* handler that has begun goes on, stopped or not.  It may write answers   *)
(* by do_write_sync, and is in there until the kernel has taken the last   *)
(* byte, for which the client must read, or until the client has gone.     *)
WorkerGoto(w, from, to) ==
    /\ process = "alive"
    /\ worker[w] = from
    /\ worker' = [worker EXCEPT ![w] = to]
    /\ UNCHANGED <<timely, process, main, running, server, assigned, handler, pipe, waiting,
                   pool, stopped, io, ioStopped, shutting, conns, sent, asked>>

WorkerInit(w) == WorkerGoto(w, "init", "run")
BeginHandler(w) == w \in conns /\ w \notin stopped /\ WorkerGoto(w, "run", "handle")
BeginWrite(w) == WorkerGoto(w, "handle", "write")
EndWrite(w) == WorkerGoto(w, "write", "run")
EndHandler(w) == WorkerGoto(w, "handle", "run")
WorkerEnds(w) == w \in stopped /\ WorkerGoto(w, "run", "over")

Worker(w) == WorkerInit(w) \/ BeginWrite(w) \/ EndHandler(w) \/ WorkerEnds(w)
-----------------------------------------------------------------------------
(* The thread that runs the accepting io_context. *)
IoStep(from) == process = "alive" /\ io = from /\ ~ioStopped

(* do_accept re-arms itself unless shutting_down_ is set. *)
Accept(w) ==
    /\ IoStep("run")
    /\ ~shutting
    /\ conns' = conns \cup {w}
    /\ UNCHANGED <<timely, process, main, running, server, assigned, handler, pipe, waiting, pool,
                   worker, stopped, io, ioStopped, shutting, sent, asked>>

(* The handler given to async_wait: one signal only. *)
IoTakesSignal ==
    /\ IoStep("run")
    /\ pipe /\ waiting
    /\ pipe' = FALSE
    /\ waiting' = FALSE
    /\ io' = "stop"
    /\ UNCHANGED <<process, main, running, server, assigned, handler, pool, worker,
                   stopped, ioStopped, shutting, conns, sent, asked>>

IoStops ==
    /\ process = "alive"
    /\ \/ /\ io = "stop" /\ io' = "stop2" /\ StopPool
       \/ /\ io = "stop2" /\ io' = "run" /\ StopAcceptor
    /\ UNCHANGED main

IoEnds ==
    /\ process = "alive" /\ io = "run" /\ ioStopped
    /\ io' = "over"
    /\ UNCHANGED <<process, main, running, server, assigned, handler, pipe, waiting, pool,
                   worker, stopped, ioStopped, shutting, conns, sent, asked>>

Io == (IoTakesSignal \/ IoStops \/ IoEnds) /\ UNCHANGED timely
-----------------------------------------------------------------------------
(* A signal arrives: the default action of SIGINT and SIGTERM ends the     *)
(* process (that of SIGTSTP only suspends it and is left out); asio's      *)
(* handler writes to its pipe; int_signal_handler clears running.          *)
Deliver(s) ==
    /\ process = "alive"
    /\ sent < MaxSignals
    /\ sent' = sent + 1
    /\ asked' = (asked \/ main \in {"wait", "stop", "stop2", "join"})
    /\ \/ /\ handler[s] = "default" /\ s # "TSTP"
          /\ process' = "killed"
          /\ UNCHANGED <<running, pipe>>
       \/ /\ handler[s] = "crow"
          /\ pipe' = TRUE
          /\ UNCHANGED <<process, running>>
       \/ /\ handler[s] = "main"
          /\ running' = FALSE
          /\ UNCHANGED <<process, pipe>>
    /\ UNCHANGED <<timely, main, server, assigned, handler, waiting, pool, worker, stopped,
                   io, ioStopped, shutting, conns>>

Next ==
    \/ Main \/ Server \/ Io
    \/ \E w \in Workers : Worker(w) \/ BeginHandler(w) \/ EndWrite(w) \/ Accept(w)
    \/ \E s \in Signals : Deliver(s)

(* The operating system runs every thread that can go on; nobody promises  *)
(* connections, requests, signals, or that a client reads its answer.      *)
Fairness == /\ WF_vars(Main) /\ WF_vars(Server) /\ WF_vars(Io)
            /\ \A w \in Workers : WF_vars(Worker(w))

Spec     == Init /\ [][Next]_vars
FairSpec == Spec /\ Fairness
-----------------------------------------------------------------------------
(* Types. *)
TypeOK ==
    /\ timely \in BOOLEAN
    /\ process \in {"alive", "exited", "killed"}
    /\ main \in {"sleep", "tstp", "int", "term", "wait", "stop", "stop2", "join", "done"}
    /\ running \in BOOLEAN
    /\ server \in {"bind", "sigint", "sigterm", "pool", "threads", "async", "spin",
                   "join", "reap", "over"}
    /\ assigned \in BOOLEAN
    /\ handler \in [Signals -> {"default", "crow", "main"}]
    /\ pipe \in BOOLEAN /\ waiting \in BOOLEAN
    /\ pool \subseteq Workers
    /\ worker \in [Workers -> {"none", "init", "run", "handle", "write", "over"}]
    /\ stopped \subseteq pool
    /\ io \in {"none", "run", "stop", "stop2", "over"}
    /\ ioStopped \in BOOLEAN /\ shutting \in BOOLEAN
    /\ conns \subseteq Workers
    /\ sent \in 0..MaxSignals
    /\ asked \in BOOLEAN

(* When main returns, no thread of Crow is left: no handler is cut short   *)
(* in the middle of a block file, whoever stopped the server and whenever  *)
(* (main.cpp:176-183, http_server.h:181-198).                              *)
ExitIsClean ==
    process = "exited" =>
        /\ server = "over" /\ io \in {"none", "over"}
        /\ \A w \in Workers : worker[w] \in {"none", "over"}

(* Once main says that Ctrl+Z or Ctrl+C shut the server down, all three    *)
(* signals are main's: Crow's own handlers were registered before          *)
(* (main.cpp:166 "overwrite Crow's default signal handler"), if the server *)
(* was up by then.                                                         *)
MainOwnsSignals ==
    timely /\ main \notin {"sleep", "tstp", "int", "term"} =>
        \A s \in Signals : handler[s] = "main"

(* No worker is held for ever by a client that neither reads nor goes      *)
(* (http_connection.h:549): a stop of its io_context does not interrupt    *)
(* the write, and Server::run waits for the worker.                        *)
NoneHeld == \A w \in Workers : []<>(worker[w] # "write")

(* A signal sent after main's message (main.cpp:170) ends the program,     *)
(* whatever is on its way through the acceptor and the workers, if no      *)
(* worker is held for ever.                                                *)
SignalHeeded == NoneHeld => (asked ~> process # "alive")

(* It does, at least, when the server was up within the 500 ms.            *)
SignalShutsDown == timely /\ NoneHeld => (asked ~> process # "alive")

(* A stop of a server whose pool is complete is carried through by all of  *)
(* its threads, unless one is held: whether main or Crow's own handler     *)
(* calls it, also between the start of the workers and that of the         *)
(* acceptor (http_server.h:89-181), and with handlers in the middle.       *)
StopBegins == \/ main = "stop" /\ server \in {"threads", "async", "spin", "join", "reap"}
              \/ io = "stop"
StopIsCarriedThrough == NoneHeld => (StopBegins ~> server = "over")
=============================================================================
