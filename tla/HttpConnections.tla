-------------------------- MODULE HttpConnections ---------------------------
(***************************************************************************)
(* The HTTP connections one worker thread of Crow serves, and the timer    *)
(* they share (crow/http_connection.h, crow/parser.h, crow/task_timer.h):  *)
(* from the accepted socket to its end, or to the websocket that takes it. *)
(*                                                                         *)
(* A connection is accepted by another thread and started here.  One read  *)
(* is in flight at a time; what it brings is fed to the parser, which      *)
(* calls back with URLs and with whole requests; each answer is written    *)
(* before the parser goes on.  A read has a deadline, a task of the timer. *)
(***************************************************************************)
EXTENDS Naturals, SequencesExt

CONSTANTS NConns,       \* how many connections a run has
          Requests,     \* what clients may ask
          MaxRequests,  \* how many requests a run has
          Timeout,      \* ticks a read may take
          Room          \* answers that fit between the server and a client that does not read

\* Requests: for /version, to keep the connection or to close it after; without a host; for
\* /stream as a page; for no route at all; to turn into a websocket, at /stream or at /version.
Kinds == {"version", "last", "noHost", "page", "missing", "socket", "odd"}

\* The connections, in the order they are accepted.
Conns == 1 .. NConns

ASSUME HttpConnectionsAssumption ==
    /\ NConns \in Nat
    /\ Requests \subseteq Kinds
    /\ MaxRequests \in Nat
    /\ Timeout \in Nat
    /\ Room \in Nat \ {0}

VARIABLES
    client,   \* "away", "here", "fin" (sends no more) or "reset"
    asked,    \* the requests each client began to send
    unsent,   \* what it has not sent of the last one
    inbox,    \* what has arrived and was not read
    conn,     \* the Connection objects
    tasks,    \* tasks_: what each identifier stands for
    highest,  \* highest_id_
    ready,    \* what is ready to run in the io_context, in order
    work,     \* the buffer the worker feeds to a parser
    answers,  \* the codes of the answers the kernel took for each client
    unread,   \* how many of them the client has not read
    cut,      \* history: was a URL refused for its first piece, where a read ended?
    robbed    \* history: has another connection cancelled the current deadline?

clientVars == <<client, asked, unsent>>
outVars == <<answers, unread>>
httpVars == <<client, asked, unsent, inbox, conn, tasks, highest, ready, work, answers, unread,
              cut, robbed>>

\* A request arrives in three parts: up to somewhere in its URL, to the URL's end, to its end.
Units(k) == <<[part |-> "path", kind |-> k], [part |-> "rest", kind |-> k], [part |-> "end", kind |-> k]>>

NoConn == [state |-> "none", read |-> "none", data |-> <<>>, task |-> 0, close |-> FALSE]
Idle == [conn |-> 0, buf |-> <<>>, code |-> 0, bad |-> FALSE]

HttpInit ==
    /\ client = [c \in Conns |-> "away"]
    /\ asked = [c \in Conns |-> <<>>]
    /\ unsent = [c \in Conns |-> <<>>]
    /\ inbox = [c \in Conns |-> <<>>]
    /\ conn = [c \in Conns |-> NoConn]
    /\ tasks = <<>> /\ highest = 0
    /\ ready = <<>> /\ work = Idle
    /\ answers = [c \in Conns |-> <<>>]
    /\ unread = [c \in Conns |-> 0]
    /\ cut = [c \in Conns |-> FALSE]
    /\ robbed = [c \in Conns |-> FALSE]
-----------------------------------------------------------------------------
(* The clients and the kernel.                                             *)

Connect(c) ==
    /\ client[c] = "away" /\ \A d \in Conns : d < c => client[d] # "away"
    /\ client' = [client EXCEPT ![c] = "here"]
    /\ conn' = [conn EXCEPT ![c].state = "posted"]
    /\ ready' = Append(ready, <<"start", c>>)
    /\ UNCHANGED <<asked, unsent, inbox, tasks, highest, work, answers, unread, cut, robbed>>

\* The server has the connection: what a client does after is of no effect here.
Has(c) == conn[c].state \in {"posted", "open", "closed"}
Asks(c) == client[c] = "here" /\ conn[c].state \in {"posted", "open"}

Begin(c, k) ==
    /\ Asks(c) /\ unsent[c] = <<>>
    /\ FoldFunction(LAMBDA s, n : Len(s) + n, 0, asked) < MaxRequests
    /\ asked' = [asked EXCEPT ![c] = Append(@, k)]
    /\ inbox' = [inbox EXCEPT ![c] = Append(@, Head(Units(k)))]
    /\ unsent' = [unsent EXCEPT ![c] = Tail(Units(k))]
    /\ UNCHANGED <<client, conn, tasks, highest, ready, work, outVars, cut, robbed>>

SendMore(c) ==
    /\ Asks(c) /\ unsent[c] # <<>>
    /\ inbox' = [inbox EXCEPT ![c] = Append(@, Head(unsent[c]))]
    /\ unsent' = [unsent EXCEPT ![c] = Tail(@)]
    /\ UNCHANGED <<client, asked, conn, tasks, highest, ready, work, outVars, cut, robbed>>

\* The client ends what it sends, or the connection, whose data is then lost.
Leaves(c) ==
    /\ Has(c)
    /\ \/ client[c] = "here" /\ client' = [client EXCEPT ![c] = "fin"] /\ UNCHANGED inbox
       \/ /\ client[c] \in {"here", "fin"}
          /\ client' = [client EXCEPT ![c] = "reset"]
          /\ inbox' = [inbox EXCEPT ![c] = <<>>]
    /\ UNCHANGED <<asked, unsent, conn, tasks, highest, ready, work, outVars, cut, robbed>>

ReadsAnswer(c) ==
    /\ Has(c) /\ unread[c] > 0 /\ client[c] # "reset"
    /\ unread' = [unread EXCEPT ![c] = @ - 1]
    /\ UNCHANGED <<clientVars, inbox, conn, tasks, highest, ready, work, answers, cut, robbed>>

\* The read in flight is done, with what has arrived, or with nothing: at the end or an error.
\* The thread itself looks for what the kernel has, between two handlers.
ReadCompletes(c) ==
    /\ work = Idle /\ conn[c].read = "waiting"
    /\ inbox[c] # <<>> \/ client[c] \in {"fin", "reset"}
    /\ conn' = [conn EXCEPT ![c] = [@ EXCEPT !.read = "done", !.data = inbox[c]]]
    /\ inbox' = [inbox EXCEPT ![c] = <<>>]
    /\ ready' = Append(ready, <<"read", c>>)
    /\ UNCHANGED <<clientVars, tasks, highest, work, outVars, cut, robbed>>

TimerExpires ==
    /\ work = Idle /\ ~Contains(ready, <<"tick">>)
    /\ ready' = Append(ready, <<"tick">>)
    /\ UNCHANGED <<clientVars, inbox, conn, tasks, highest, work, outVars, cut, robbed>>
-----------------------------------------------------------------------------
(* The timer: cancel and schedule.                                         *)

Erase(ts, id) == [i \in DOMAIN ts \ {id} |-> ts[i]]

\* cancel_deadline_timer, with the identifier the connection had last.
Cancels(c) ==
    /\ tasks' = Erase(tasks, conn[c].task)
    /\ robbed' = [d \in Conns |->
          robbed[d] \/ /\ d # c /\ conn[c].task \in DOMAIN tasks
                       /\ tasks[conn[c].task].conn = d]

\* Mutant: the deadline of the read before is not cancelled.
RestartsKeeping(c) ==
    /\ tasks' = [i \in DOMAIN tasks \cup {highest + 1} |->
                    IF i = highest + 1 THEN [conn |-> c, left |-> Timeout] ELSE tasks[i]]
    /\ highest' = highest + 1
    /\ robbed' = [robbed EXCEPT ![c] = FALSE]

\* start_deadline; tasks_.insert does not replace.
Restarts(c) ==
    LET ts == Erase(tasks, conn[c].task)
        id == highest + 1
    IN  /\ tasks' = IF id \in DOMAIN ts THEN ts
                    ELSE [i \in DOMAIN ts \cup {id} |->
                            IF i = id THEN [conn |-> c, left |-> Timeout] ELSE ts[i]]
        /\ highest' = id
        /\ robbed' = [d \in Conns |->
              d # c /\ (robbed[d] \/ /\ conn[c].task \in DOMAIN tasks
                                     /\ tasks[conn[c].task].conn = d)]

\* The object is freed and its socket, if it still has it, closed.
Freed(c) == conn' = [conn EXCEPT ![c] = [NoConn EXCEPT !.state = "gone"]]

\* An error while reading: the deadline is cancelled, the socket closed, the object freed.
Fails(c) == Cancels(c) /\ Freed(c) /\ UNCHANGED highest

\* The next read, with its deadline.
Reads(c) ==
    /\ Restarts(c)
    /\ conn' = [conn EXCEPT ![c] = [@ EXCEPT !.state = "open", !.read = "waiting", !.data = <<>>,
                                             !.task = highest + 1]]
-----------------------------------------------------------------------------
(* The worker thread.                                                      *)

Runs(x) == work = Idle /\ ready # <<>> /\ Head(ready) = x /\ ready' = Tail(ready)

StartConnection(c) ==
    /\ Runs(<<"start", c>>)
    /\ Reads(c)
    /\ UNCHANGED <<clientVars, inbox, work, outVars, cut>>

ReadDone(c) ==
    /\ Runs(<<"read", c>>)
    /\ \/ /\ conn[c].data = <<>> /\ Fails(c)
          /\ UNCHANGED work
       \/ /\ conn[c].data # <<>>
          /\ work' = [Idle EXCEPT !.conn = c, !.buf = conn[c].data]
          /\ conn' = [conn EXCEPT ![c] = [@ EXCEPT !.read = "none", !.data = <<>>]]
          /\ UNCHANGED <<tasks, highest, robbed>>
    /\ UNCHANGED <<clientVars, inbox, outVars, cut>>

\* The identifiers in S in their order, as tasks_ is a map.
InOrder(S) == {s \in [1 .. Cardinality(S) -> S] : \A m, n \in DOMAIN s : m < n => s[m] < s[n]}

\* The tasks whose time has come, and the identifiers that process_tasks leaves off at.  A task
\* closes its connection's socket, which aborts a read in flight.
ProcessTasks(due, id) ==
    LET closed == {tasks[i].conn : i \in due}
    IN  /\ \A i \in DOMAIN tasks \ due : tasks[i].left > 0
        /\ tasks' = [i \in DOMAIN tasks \ due |-> [tasks[i] EXCEPT !.left = @ - 1]]
        /\ highest' = id
        /\ conn' = [c \in Conns |-> IF c \notin closed THEN conn[c]
                                    ELSE [conn[c] EXCEPT !.state = "closed", !.read = "done"]]
        /\ \E order \in InOrder({i \in due : conn[tasks[i].conn].read = "waiting"}) :
              ready' = Tail(ready) \o [n \in DOMAIN order |-> <<"read", tasks[order[n]].conn>>]
        /\ UNCHANGED <<clientVars, inbox, work, outVars, cut, robbed>>

\* Mutant: the identifiers start again although tasks are left.
TickResets ==
    /\ work = Idle /\ ready # <<>> /\ Head(ready) = <<"tick">>
    /\ \E due \in SUBSET DOMAIN tasks : ProcessTasks(due, 0)

\* process_tasks.  A worker that was held up may find a task's time come at any tick.
Tick ==
    /\ work = Idle /\ ready # <<>> /\ Head(ready) = <<"tick">>
    /\ \E due \in SUBSET DOMAIN tasks :
          ProcessTasks(due, IF DOMAIN tasks = due THEN 0 ELSE highest)

Feeds(part) == work.code = 0 /\ ~work.bad /\ work.buf # <<>> /\ Head(work.buf).part = part

\* Mutant: the parse goes on after a URL without a route.
RouteUrlGoesOn ==
    /\ Feeds("path") \/ Feeds("rest")
    /\ LET whole == Feeds("rest") \/ Len(work.buf) > 1
           left == SubSeq(work.buf, IF Feeds("rest") THEN 2 ELSE 3, Len(work.buf))
       IN  \E found \in BOOLEAN :
              /\ whole => (found <=> Head(work.buf).kind # "missing")
              /\ work' = [work EXCEPT !.buf = left, !.code = IF found THEN 0 ELSE 404]
              /\ cut' = [cut EXCEPT ![work.conn] = @ \/ (~whole /\ ~found)]
    /\ UNCHANGED <<clientVars, inbox, conn, tasks, highest, ready, outVars, robbed>>

\* on_url, for what has come of the URL so far: on, to the rest of it or to the headers, or no
\* route.  A first piece may be the path of a route itself (/version, cut before its query or
\* before a longer name); the URL is then routed again when it is whole.  done, called inside the
\* callback, leaves the parser in error.
RouteUrl ==
    /\ Feeds("path") \/ Feeds("rest")
    /\ LET whole == Feeds("rest") \/ Len(work.buf) > 1
           left == SubSeq(work.buf, IF Feeds("rest") THEN 2 ELSE 3, Len(work.buf))
       IN  \E found \in BOOLEAN :
              /\ whole => (found <=> Head(work.buf).kind # "missing")
              /\ work' = IF found THEN [work EXCEPT !.buf = left]
                                  ELSE [work EXCEPT !.buf = <<>>, !.code = 404, !.bad = TRUE]
              /\ cut' = [cut EXCEPT ![work.conn] = @ \/ (~whole /\ ~found)]
    /\ UNCHANGED <<clientVars, inbox, conn, tasks, highest, ready, outVars, robbed>>

\* The answers: of the routes, 200, and of the websocket's route to a page, 404 (routing.h 434);
\* of handle without a host, 400; of handle_url, 404 (Crow's 405 for a method a route does not have,
\* answered at the same place, is one of them).  0 is none.
Code(k) ==
    CASE k \in {"version", "last"} -> 200
      [] k = "noHost" -> 400
      [] k \in {"page", "missing"} -> 404
      [] OTHER -> 0

\* handle: an exception, for a socket that has no peer any more, ends the connection; so does
\* an upgrade, which hands the socket to the websocket or, at a route without one, to nobody.
HandleRequest ==
    /\ Feeds("end")
    /\ LET c == work.conn
           k == Head(work.buf).kind
           lost == client[c] = "reset" \/ conn[c].state = "closed"
       IN  /\ Cancels(c) /\ UNCHANGED highest
           /\ \/ /\ lost \/ k = "odd"
                 /\ Freed(c) /\ work' = Idle
              \/ /\ ~lost /\ k = "socket"
                 /\ conn' = [conn EXCEPT ![c] = [NoConn EXCEPT !.state = "upgraded"]]
                 /\ work' = Idle
              \/ /\ ~lost /\ k \notin {"odd", "socket"}
                 /\ conn' = [conn EXCEPT ![c].close = (k = "last")]
                 /\ work' = [work EXCEPT !.buf = Tail(@), !.code = Code(k)]
    /\ UNCHANGED <<clientVars, inbox, ready, outVars, cut>>

\* do_write_sync: the thread waits for room; an error is ignored.
Blocked == work.code # 0 /\ unread[work.conn] = Room
           /\ client[work.conn] # "reset" /\ conn[work.conn].state # "closed"
WriteAnswer ==
    /\ work.code # 0 /\ ~Blocked
    /\ LET c == work.conn
           lost == client[c] = "reset" \/ conn[c].state = "closed"
       IN  /\ answers' = [answers EXCEPT ![c] = IF lost THEN @ ELSE Append(@, work.code)]
           /\ unread' = [unread EXCEPT ![c] = IF lost THEN @ ELSE @ + 1]
    /\ work' = [work EXCEPT !.code = 0]
    /\ UNCHANGED <<clientVars, inbox, conn, tasks, highest, ready, cut, robbed>>

\* Mutant: the object of a connection that is to be closed is kept.
AfterFeedKeeps ==
    /\ work.conn # 0 /\ work.code = 0 /\ work.buf = <<>>
    /\ LET c == work.conn
       IN  \/ /\ work.bad \/ conn[c].state = "closed"
              /\ Fails(c)
           \/ /\ ~work.bad /\ conn[c].state # "closed" /\ conn[c].close
              /\ Cancels(c) /\ UNCHANGED <<conn, highest>>
           \/ /\ ~work.bad /\ conn[c].state # "closed" /\ ~conn[c].close
              /\ Reads(c)
    /\ work' = Idle
    /\ UNCHANGED <<clientVars, inbox, ready, outVars, cut>>

\* The rest of the completion handler of do_read.
AfterFeed ==
    /\ work.conn # 0 /\ work.code = 0 /\ work.buf = <<>>
    /\ LET c == work.conn
       IN  \/ /\ work.bad \/ conn[c].state = "closed" \/ conn[c].close
              /\ Fails(c)
           \/ /\ ~work.bad /\ conn[c].state # "closed" /\ ~conn[c].close
              /\ Reads(c)
    /\ work' = Idle
    /\ UNCHANGED <<clientVars, inbox, ready, outVars, cut>>
-----------------------------------------------------------------------------
Worker == \/ \E c \in Conns : StartConnection(c) \/ ReadDone(c)
          \/ Tick \/ RouteUrl \/ HandleRequest \/ WriteAnswer \/ AfterFeed

Kernel == \E c \in Conns : ReadCompletes(c)

HttpNext == \/ Worker \/ Kernel \/ TimerExpires
            \/ \E c \in Conns : \/ Connect(c) \/ SendMore(c) \/ Leaves(c) \/ ReadsAnswer(c)
                                \/ \E k \in Requests : Begin(c, k)

HttpSpec == HttpInit /\ [][HttpNext]_httpVars

\* The thread runs what is ready, the kernel completes reads, the clock ticks; clients need do nothing.
HttpFairness == /\ WF_httpVars(Worker) /\ WF_httpVars(TimerExpires)
                /\ \A c \in Conns : WF_httpVars(ReadCompletes(c))
-----------------------------------------------------------------------------
Unit == [part: {"path", "rest", "end"}, kind: Requests]
ConnSet == [state: {"none", "posted", "open", "closed", "upgraded", "gone"},
            read: {"none", "waiting", "done"}, data: Seq(Unit), task: Nat, close: BOOLEAN]

\* The type invariant; no identifier is above highest_id_, so a new one is never in use.
HttpTypeOK ==
    /\ client \in [Conns -> {"away", "here", "fin", "reset"}]
    /\ asked \in [Conns -> Seq(Requests)]
    /\ unsent \in [Conns -> Seq(Unit)] /\ inbox \in [Conns -> Seq(Unit)]
    /\ conn \in [Conns -> ConnSet]
    /\ highest \in Nat
    /\ \A i \in DOMAIN tasks : i \in 1 .. highest /\ tasks[i] \in [conn: Conns, left: 0 .. Timeout]
    /\ ready \in Seq(({"start", "read"} \X Conns) \cup {<<"tick">>})
    /\ work \in [conn: {0} \cup Conns, buf: Seq(Unit), code: {0, 200, 400, 404}, bad: BOOLEAN]
    /\ answers \in [Conns -> Seq({200, 400, 404})] /\ unread \in [Conns -> 0 .. Room]
    /\ cut \in [Conns -> BOOLEAN] /\ robbed \in [Conns -> BOOLEAN]

\* Requests that come together, in pieces, or while the client leaves are answered in their order,
\* each once and with its own code; but a URL whose first piece, cut by a read, has no route is
\* answered 404, and nothing after it.
AnswersRight ==
    \A c \in Conns : \A n \in DOMAIN answers[c] :
        /\ n <= Len(asked[c])
        /\ \/ answers[c][n] = Code(asked[c][n])
           \/ cut[c] /\ n = Len(answers[c]) /\ answers[c][n] = 404

\* A read in flight has a deadline, unless another connection cancelled it; no connection has a
\* second one, and none has one while its request is answered.  An answer 404 is the exception:
\* handle_url writes that of a missing route before handle cancels anything (http_connection.h
\* 110-119), so it is the read's deadline that may close the socket under it.
GuardedOrRobbed ==
    \A c \in Conns :
        /\ conn[c].read = "waiting" /\ ~robbed[c] =>
              conn[c].task \in DOMAIN tasks /\ tasks[conn[c].task].conn = c
        /\ \A i \in DOMAIN tasks : tasks[i].conn = c =>
              /\ i = conn[c].task /\ conn[c].state = "open"
              /\ work.conn = c => work.code \in {0, 404}

\* Every connection whose client asks no more than MaxRequests ends, or becomes a websocket, unless
\* its deadline is cancelled by another connection or a client that does not read holds the thread
\* for ever.  (A client that goes on sending restarts the deadline with each read, for ever.)
IdleEnds ==
    []<>~Blocked => \A c \in Conns :
        conn[c].state = "posted" ~> conn[c].state \in {"gone", "upgraded"} \/ robbed[c]

\* app.h 325, "connection timeout in seconds (default is 5)": every read in flight has a deadline.
Deadlined ==
    \A c \in Conns : conn[c].read = "waiting" => \E i \in DOMAIN tasks : tasks[i].conn = c
=============================================================================
