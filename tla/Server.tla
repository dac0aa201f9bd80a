------------------------------- MODULE Server -------------------------------
(***************************************************************************)
(* ServerBase (common/net/serverbase.cc) with the TCPServer, TCPConn and    *)
(* thread pool of evpp under it, from Start to the return of Stop: the      *)
(* listening loop's thread accepts, removes and stops, the threads of the   *)
(* pool attach, read and close connections, workers of the application      *)
(* answer through ServerConnection::PostPacket, and one thread of the       *)
(* process, or a signal handler in one of these, calls Stop.                *)
(*                                                                         *)
(* A loop's functors are kept in the concurrentqueue that net is linked     *)
(* with: only those of one thread are run in the order they were queued in. *)
(* What a message says is in Framing.  An assertion that fails ends the     *)
(* process.                                                                 *)
(***************************************************************************)
EXTENDS Naturals, Sequences

CONSTANTS Conns,      \* connections the peers may make
          Loops,      \* threads of the pool, thread_num of them
          Main,       \* the thread of loop_
          Workers,    \* threads that keep a ServerConnection and post to it
          Other,      \* a thread that is none of these
          Nobody,
          MaxMessages \* bound: messages that are given to workers

ASSUME ServerThreads == MaxMessages \in Nat /\ Loops # {} /\ Main \notin Loops /\ Nobody \notin Conns
                        /\ Other \notin Loops \cup {Main} /\ Nobody \notin Loops \cup {Main, Other}

VARIABLES
    status, substatus,   \* TCPServer
    listener,            \* listener_: none, set or listening
    connections,         \* connections_
    stoppedCb,           \* a callback for the end of Stop is kept
    pool,                \* tpool_: new, running, stopping or gone
    thread,              \* of the pool: new, run, quitting or stopped
    conn, chan,          \* per TCPConn: status_, and its FdChannel
    home,                \* its loop_
    context,             \* its context_ holds a ServerConnection
    peer,                \* its other end
    tasks,               \* functors queued in each loop, by each thread
    attaching,           \* per pool thread: inside OnAttachedToLoop of
    at,                  \* the listening thread: where,
    cur,                 \* on which new connection,
    todo, closing,       \* and in StopInLoop's loop
    stop, caller,        \* ServerBase::Stop: where, and in which thread
    resume,              \* where it interrupted the listening thread
    stopped,             \* stopped_
    worker,              \* per worker: where in PostPacket, on what connection
    messages,            \* messages given to workers so far
    failed               \* the assertion that failed, or dangling

serverVars == <<status, substatus, listener, connections, stoppedCb>>
poolVars == <<pool, thread>>
connVars == <<conn, chan, home, context>>
mainVars == <<at, cur, todo, closing>>
stopVars == <<stop, caller, resume, stopped>>
vars == <<status, substatus, listener, connections, stoppedCb, pool, thread,
          conn, chan, home, context, peer, tasks, attaching, at, cur, todo,
          closing, stop, caller, resume, stopped, worker, messages, failed>>

workers == <<worker, messages>>

Task(op, c) == [op |-> op, conn |-> c]
Tasks == [op : {"listen", "stop", "quit", "attach", "close", "remove", "send"},
          conn : Conns \cup {Nobody}]

\* Who runs functors, and who queues them there.
Boxes == (Loops \cup {Main}) \X (Loops \cup Workers \cup {Main, Other})

TypeOK ==
    /\ status \in {"null", "running", "stopping", "stopped"}
    /\ substatus \in {"null", "listener", "pool"}
    /\ listener \in {"none", "set", "listening"}
    /\ connections \subseteq Conns /\ stoppedCb \in BOOLEAN
    /\ pool \in {"new", "running", "stopping", "gone"}
    /\ thread \in [Loops -> {"new", "run", "quitting", "stopped"}]
    /\ conn \in [Conns -> {"none", "disconnected", "connected", "disconnecting", "refused"}]
    /\ chan \in [Conns -> {"idle", "reading", "closed"}]
    /\ home \in [Conns -> Loops \cup {Nobody}]
    /\ context \in [Conns -> BOOLEAN]
    /\ peer \in [Conns -> {"away", "open", "closed"}]
    /\ tasks \in [Boxes -> Seq(Tasks)]
    /\ attaching \in [Loops -> Conns \cup {Nobody}]
    /\ at \in {"init", "start", "started", "poll", "accept", "insert", "stopInLoop", "close",
               "closeStore", "join", "callback", "notify", "finish", "wait"}
    /\ cur \in Conns \cup {Nobody} /\ todo \subseteq Conns
    /\ closing \in Conns \cup {Nobody}
    /\ stop \in {"none", "stored", "posted", "tested", "blocked", "done"}
    /\ caller \in Loops \cup {Main, Other, Nobody} /\ stopped \in BOOLEAN
    /\ resume \in {"start", "started", "poll", "accept", "insert"}
    /\ worker \in [Workers -> [at : {"idle", "test", "send", "queue"},
                               conn : Conns \cup {Nobody}]]
    /\ messages \in 0 .. MaxMessages
    /\ failed \in {"none", "IsRunning", "IsStopping", "substatus", "channel",
                  "attached", "closing", "dangling"}

Init ==
    /\ status = "null" /\ substatus = "null" /\ listener = "none"
    /\ connections = {} /\ stoppedCb = FALSE
    /\ pool = "new" /\ thread = [l \in Loops |-> "new"]
    /\ conn = [c \in Conns |-> "none"] /\ chan = [c \in Conns |-> "idle"]
    /\ home = [c \in Conns |-> Nobody] /\ context = [c \in Conns |-> FALSE]
    /\ peer = [c \in Conns |-> "away"]
    /\ tasks = [b \in Boxes |-> <<>>]
    /\ attaching = [l \in Loops |-> Nobody]
    /\ at = "init" /\ cur = Nobody /\ todo = {} /\ closing = Nobody
    /\ stop = "none" /\ caller = Nobody /\ resume = "poll" /\ stopped = FALSE
    /\ worker = [w \in Workers |-> [at |-> "idle", conn |-> Nobody]]
    /\ messages = 0
    /\ failed = "none"

\* p queues the functor t in l; the next one from p does op; without that one.
Queue(l, p, t) == tasks' = [tasks EXCEPT ![<<l, p>>] = Append(@, t)]
IsNext(l, p, op) == tasks[<<l, p>>] # <<>> /\ Head(tasks[<<l, p>>]).op = op
Taken(l, p) == [tasks EXCEPT ![<<l, p>>] = Tail(@)]

\* No shared_ptr to the TCPConn is left: it is in no functor, not in
\* connections_, and no thread of the pool or the listening one works on it.
Freed(c) ==
    /\ conn[c] # "none" /\ c \notin connections /\ c # cur
    /\ \A l \in Loops : attaching[l] # c
    /\ \A b \in Boxes : \A i \in DOMAIN tasks[b] : tasks[b][i].conn # c

-----------------------------------------------------------------------------
(* The peers *)

Connect(c) ==
    /\ peer[c] = "away"
    /\ peer' = [peer EXCEPT ![c] = "open"]
    /\ UNCHANGED <<serverVars, poolVars, connVars, tasks, attaching, mainVars,
                   stopVars, workers, failed>>

Disconnect(c) ==
    /\ peer[c] = "open"
    /\ peer' = [peer EXCEPT ![c] = "closed"]
    /\ UNCHANGED <<serverVars, poolVars, connVars, tasks, attaching, mainVars,
                   stopVars, workers, failed>>

-----------------------------------------------------------------------------
(* The listening loop's thread *)

\* TCPServer::Init and Start up to status_: the pool's threads have started.
Start ==
    /\ at = "init"
    /\ status' = "running" /\ listener' = "set"
    /\ pool' = "running" /\ thread' = [l \in Loops |-> "run"]
    /\ at' = "start"
    /\ UNCHANGED <<substatus, connections, stoppedCb, connVars, peer, tasks, attaching,
                   cur, todo, closing, stopVars, workers, failed>>

\* Listener::Accept: a functor attaches the channel, since the loop does not
\* run yet.
Accept ==
    /\ at = "start" /\ at' = "started"
    /\ Queue(Main, Main, Task("listen", Nobody))
    /\ UNCHANGED <<serverVars, poolVars, connVars, peer, attaching, cur, todo,
                   closing, stopVars, workers, failed>>

Run ==
    /\ at = "started" /\ at' = "poll"
    /\ UNCHANGED <<serverVars, poolVars, connVars, peer, tasks, attaching, cur,
                   todo, closing, stopVars, workers, failed>>

Listen ==
    /\ at = "poll" /\ IsNext(Main, Main, "listen")
    /\ listener' = "listening" /\ tasks' = Taken(Main, Main)
    /\ UNCHANGED <<status, substatus, connections, stoppedCb, poolVars, connVars,
                   peer, attaching, mainVars, stopVars, workers, failed>>

\* HandleNewConn up to IsStopping: a connection that comes late is closed.
HandleNewConn(c) ==
    /\ at = "poll" /\ listener = "listening" /\ peer[c] # "away" /\ conn[c] = "none"
    /\ IF status = "stopping"
       THEN /\ conn' = [conn EXCEPT ![c] = "refused"] /\ UNCHANGED mainVars
       ELSE at' = "accept" /\ cur' = c /\ UNCHANGED <<todo, closing, conn>>
    /\ UNCHANGED <<serverVars, poolVars, chan, home, context, peer, tasks,
                   attaching, stopVars, workers, failed>>

\* It reads status_ again, in an assertion; GetNextLoop takes a loop of the pool,
\* unless StopThreadPool has reset tpool_.
NewConn(l) ==
    /\ at = "accept"
    /\ IF status # "running"
       THEN /\ failed' = "IsRunning"
            /\ UNCHANGED <<conn, home, tasks, at>>
       ELSE /\ conn' = [conn EXCEPT ![cur] = "disconnected"]
            /\ home' = [home EXCEPT ![cur] = l]
            /\ Queue(l, Main, Task("attach", cur))
            /\ at' = "insert"
            /\ UNCHANGED failed
    /\ UNCHANGED <<serverVars, poolVars, chan, context, peer, attaching, cur, todo,
                   closing, stopVars, workers>>

\* The end of it: until here only the functor and the local variable keep the
\* connection.
Insert ==
    /\ at = "insert"
    /\ connections' = connections \cup {cur}
    /\ at' = "poll" /\ cur' = Nobody
    /\ UNCHANGED <<status, substatus, listener, stoppedCb, poolVars, connVars, peer,
                   tasks, attaching, todo, closing, stopVars, workers, failed>>

\* After StopInLoop the thread is back in its loop, or in Stop.
Back == IF caller = Main THEN "wait" ELSE "poll"

\* StopThreadPool up to the wait for the threads.  tpool_ has been reset if
\* status_ is not kStopping.
StopThreadPool(q) ==
    IF status # "stopping"
    THEN failed' = "IsStopping" /\ UNCHANGED <<substatus, pool, tasks, at>>
    ELSE /\ substatus' = "pool" /\ pool' = "stopping"
         /\ tasks' = [b \in Boxes |-> IF b[1] # Main /\ b[2] = Main
                                      THEN Append(q[b], Task("quit", Nobody)) ELSE q[b]]
         /\ at' = "join"
         /\ UNCHANGED failed

\* StopInLoop, as a functor or called by Stop in the loop's own thread.  The
\* functor that attaches the listener may still be queued: detaching it fails.
StopInLoop ==
    /\ caller # Nobody
    /\ at = "stopInLoop" \/ (at = "poll" /\ IsNext(Main, caller, "stop"))
    /\ LET q == IF at = "poll" THEN Taken(Main, caller) ELSE tasks
       IN  IF listener # "listening" THEN
                /\ failed' = "attached"
                /\ UNCHANGED <<substatus, listener, stoppedCb, pool, tasks, at, todo>>
           ELSE IF connections = {} THEN
                /\ StopThreadPool(q)
                /\ listener' = "none" /\ stoppedCb' = TRUE /\ UNCHANGED todo
           ELSE /\ todo' = connections /\ at' = "close" /\ tasks' = q
                /\ listener' = "none"
                /\ UNCHANGED <<substatus, stoppedCb, pool, failed>>
    /\ UNCHANGED <<status, connections, thread, connVars, peer, attaching, cur,
                   closing, stopVars, workers>>

\* Faulty variant: every connection is closed, attached or not.
CloseNextUnchecked(c) ==
    /\ at = "close" /\ c \in todo
    /\ todo' = todo \ {c}
    /\ at' = "closeStore" /\ closing' = c
    /\ UNCHANGED <<serverVars, poolVars, connVars, peer, tasks, attaching, cur,
                   stopVars, workers, failed>>

\* One round of the loop over connections_: only a connection that IsConnected
\* is closed.
CloseNext(c) ==
    /\ at = "close" /\ c \in todo
    /\ todo' = todo \ {c}
    /\ IF conn[c] = "connected" THEN at' = "closeStore" /\ closing' = c
                                ELSE UNCHANGED <<at, closing>>
    /\ UNCHANGED <<serverVars, poolVars, connVars, peer, tasks, attaching, cur,
                   stopVars, workers, failed>>

\* TCPConn::Close, whatever status_ is by now.
Close ==
    /\ at = "closeStore"
    /\ conn' = [conn EXCEPT ![closing] = "disconnecting"]
    /\ Queue(home[closing], Main, Task("close", closing))
    /\ at' = "close" /\ closing' = Nobody
    /\ UNCHANGED <<serverVars, poolVars, chan, home, context, peer, attaching,
                   cur, todo, stopVars, workers, failed>>

\* Faulty variant: the callback is called as soon as all are being closed.
CloseDoneCallsBack ==
    /\ at = "close" /\ todo = {}
    /\ at' = "callback"
    /\ UNCHANGED <<serverVars, poolVars, connVars, peer, tasks, attaching, cur, todo,
                   closing, stopVars, workers, failed>>

CloseDone ==
    /\ at = "close" /\ todo = {}
    /\ stoppedCb' = TRUE /\ at' = Back
    /\ UNCHANGED <<status, substatus, listener, connections, poolVars, connVars,
                   peer, tasks, attaching, cur, todo, closing, stopVars, workers,
                   failed>>

\* Faulty variant: nobody looks whether the last connection is gone.
RemoveOnly(l) ==
    /\ at = "poll" /\ IsNext(Main, l, "remove")
    /\ connections' = connections \ {Head(tasks[<<Main, l>>]).conn}
    /\ tasks' = Taken(Main, l)
    /\ UNCHANGED <<status, substatus, listener, stoppedCb, poolVars, connVars, peer,
                   attaching, mainVars, stopVars, workers, failed>>

\* The functor of RemoveConnection, from a thread of the pool.
RemoveConnection(l) ==
    /\ at = "poll" /\ IsNext(Main, l, "remove")
    /\ connections' = connections \ {Head(tasks[<<Main, l>>]).conn}
    /\ IF status = "stopping" /\ connections' = {}
       THEN IF substatus = "listener" THEN StopThreadPool(Taken(Main, l))
            ELSE failed' = "substatus" /\ UNCHANGED <<substatus, pool, tasks, at>>
       ELSE tasks' = Taken(Main, l) /\ UNCHANGED <<substatus, pool, at, failed>>
    /\ UNCHANGED <<status, listener, stoppedCb, thread, connVars, peer, attaching,
                   cur, todo, closing, stopVars, workers>>

\* The rest of StopThreadPool; the loops of the pool end with their functors.
Join ==
    /\ at = "join" /\ \A l \in Loops : thread[l] = "stopped"
    /\ pool' = "gone" /\ substatus' = "null"
    /\ tasks' = [b \in Boxes |-> IF b[1] = Main THEN tasks[b] ELSE <<>>]
    /\ at' = IF stoppedCb THEN "callback" ELSE "finish"
    /\ UNCHANGED <<status, listener, connections, stoppedCb, thread, connVars,
                   peer, attaching, cur, todo, closing, stopVars, workers, failed>>

\* ServerBase's callback, without stopMutex_.
Callback ==
    /\ at = "callback"
    /\ stopped' = TRUE /\ stoppedCb' = FALSE /\ at' = "notify"
    /\ UNCHANGED <<status, substatus, listener, connections, poolVars, connVars,
                   peer, tasks, attaching, cur, todo, closing, stop, caller, resume,
                   workers, failed>>

NotifyOne ==
    /\ at = "notify" /\ at' = "finish"
    /\ stop' = IF stop = "blocked" THEN "posted" ELSE stop
    /\ UNCHANGED <<serverVars, poolVars, connVars, peer, tasks, attaching, cur,
                   todo, closing, caller, resume, stopped, workers, failed>>

Finish ==
    /\ at = "finish"
    /\ status' = "stopped" /\ at' = Back
    /\ UNCHANGED <<substatus, listener, connections, stoppedCb, poolVars, connVars,
                   peer, tasks, attaching, cur, todo, closing, stopVars, workers,
                   failed>>

-----------------------------------------------------------------------------
(* The threads of the pool *)

\* A thread that is in Stop does nothing else until it is out of it.
Works(l) == thread[l] \in {"run", "quitting"} /\ (caller = l => stop = "done")
Free(l) == Works(l) /\ attaching[l] = Nobody

\* Faulty variant: conn_fn_ is not called.
HandleCloseSilently(c, q) ==
    /\ chan' = [chan EXCEPT ![c] = "closed"]
    /\ tasks' = [q EXCEPT ![<<Main, home[c]>>] = Append(@, Task("remove", c))]
    /\ conn' = [conn EXCEPT ![c] = "disconnected"]
    /\ UNCHANGED <<context, failed>>

\* Faulty variant: close_fn_ is not called.
HandleCloseKeepsConn(c, q) ==
    /\ chan' = [chan EXCEPT ![c] = "closed"]
    /\ context' = [context EXCEPT ![c] = FALSE]
    /\ conn' = [conn EXCEPT ![c] = "disconnected"]
    /\ tasks' = q /\ UNCHANGED failed

\* HandleClose once status_ is kDisconnecting: the channel is closed, the
\* context dropped by ServerBase::OnConnection, the removal queued.  q: the
\* functors without the one that is run.
HandleClose(c, q) ==
    IF chan[c] = "closed"
    THEN failed' = "channel" /\ UNCHANGED <<conn, chan, context, tasks>>
    ELSE /\ chan' = [chan EXCEPT ![c] = "closed"]
         /\ context' = [context EXCEPT ![c] = FALSE]
         /\ tasks' = [q EXCEPT ![<<Main, home[c]>>] = Append(@, Task("remove", c))]
         /\ conn' = [conn EXCEPT ![c] = "disconnected"]
         /\ UNCHANGED failed

\* Faulty variant: the connection can be read and is not reported.
OnAttachedUnreported(l) ==
    /\ Free(l) /\ IsNext(l, Main, "attach")
    /\ LET c == Head(tasks[<<l, Main>>]).conn
       IN  /\ conn' = [conn EXCEPT ![c] = "connected"]
           /\ chan' = [chan EXCEPT ![c] = "reading"]
    /\ tasks' = Taken(l, Main)
    /\ UNCHANGED <<serverVars, poolVars, home, context, peer, attaching, mainVars,
                   stopVars, workers, failed>>

\* OnAttachedToLoop up to the connection callback.
OnAttachedToLoop(l) ==
    /\ Free(l) /\ IsNext(l, Main, "attach")
    /\ LET c == Head(tasks[<<l, Main>>]).conn
       IN  /\ conn' = [conn EXCEPT ![c] = "connected"]
           /\ chan' = [chan EXCEPT ![c] = "reading"]
           /\ attaching' = [attaching EXCEPT ![l] = c]
    /\ tasks' = Taken(l, Main)
    /\ UNCHANGED <<serverVars, poolVars, home, context, peer, mainVars, stopVars,
                   workers, failed>>

\* ServerBase::OnConnection: IsConnected tells a new connection from a lost one.
OnConnection(l) ==
    /\ attaching[l] # Nobody /\ Works(l)
    /\ context' = [context EXCEPT ![attaching[l]] = (conn[attaching[l]] = "connected")]
    /\ attaching' = [attaching EXCEPT ![l] = Nobody]
    /\ UNCHANGED <<serverVars, poolVars, conn, chan, home, peer, tasks, mainVars,
                   stopVars, workers, failed>>

\* The functor that Close queued.  HandleClose returns if the connection is
\* closed already and asserts that it is being closed.
CloseFunctor(l) ==
    /\ Free(l) /\ IsNext(l, Main, "close")
    /\ LET c == Head(tasks[<<l, Main>>]).conn
       IN  IF conn[c] = "disconnected"
           THEN tasks' = Taken(l, Main) /\ UNCHANGED <<conn, chan, context, failed>>
           ELSE IF conn[c] = "connected"
           THEN failed' = "closing" /\ UNCHANGED <<conn, chan, context, tasks>>
           ELSE HandleClose(c, Taken(l, Main))
    /\ UNCHANGED <<serverVars, poolVars, home, peer, attaching, mainVars, stopVars, workers>>

\* SendStringInLoop; the write may fail when the peer is gone, and the
\* connection is closed then.
SendInLoop(l, w) ==
    /\ Free(l) /\ IsNext(l, w, "send")
    /\ LET c == Head(tasks[<<l, w>>]).conn
       IN  \/ tasks' = Taken(l, w) /\ UNCHANGED <<conn, chan, context, failed>>
           \/ conn[c] # "disconnected" /\ peer[c] = "closed" /\ HandleClose(c, Taken(l, w))
    /\ UNCHANGED <<serverVars, poolVars, home, peer, attaching, mainVars, stopVars, workers>>

\* HandleRead at the end of the stream or with an error.  There is no closing
\* delay: the connection is closed at once.
HandleEnd(l, c) ==
    /\ Free(l) /\ home[c] = l /\ chan[c] = "reading" /\ peer[c] = "closed"
    /\ HandleClose(c, tasks)
    /\ UNCHANGED <<serverVars, poolVars, home, peer, attaching, mainVars, stopVars, workers>>

\* HandleRead with data, and ServerBase::OnMessage: the adapter's HandlePacket
\* leaves the answer to a worker that keeps the ServerConnection.
OnMessage(l, c, w) ==
    /\ Free(l) /\ home[c] = l /\ chan[c] = "reading" /\ peer[c] = "open"
    /\ context[c] /\ worker[w].at = "idle" /\ messages < MaxMessages
    /\ messages' = messages + 1
    /\ worker' = [worker EXCEPT ![w] = [at |-> "test", conn |-> c]]
    /\ UNCHANGED <<serverVars, poolVars, connVars, peer, tasks, attaching, mainVars,
                   stopVars, failed>>

\* EventLoop::StopInLoop: what is queued is run first.
Quit(l) ==
    /\ Free(l)
    /\ \/ /\ IsNext(l, Main, "quit") /\ tasks' = Taken(l, Main)
          /\ thread' = [thread EXCEPT ![l] = "quitting"]
       \/ /\ thread[l] = "quitting" /\ \A b \in Boxes : b[1] = l => tasks[b] = <<>>
          /\ UNCHANGED tasks
          /\ thread' = [thread EXCEPT ![l] = "stopped"]
    /\ UNCHANGED <<serverVars, pool, connVars, peer, attaching, mainVars, stopVars,
                   workers, failed>>

-----------------------------------------------------------------------------
(* ServerBase::Stop *)

\* TCPServer::Stop in the thread t, not the listening one: status_ first.
Stop(t) ==
    /\ stop = "none" /\ status = "running"
    /\ status' = "stopping" /\ stop' = "stored" /\ caller' = t
    /\ UNCHANGED <<substatus, listener, connections, stoppedCb, poolVars, connVars,
                   peer, tasks, attaching, mainVars, resume, stopped, workers, failed>>

\* Faulty variant: the value of the other status is stored.
StopQueuesMixedUp ==
    /\ stop = "stored"
    /\ substatus' = "stopping" /\ Queue(Main, caller, Task("stop", Nobody))
    /\ stop' = "posted"
    /\ UNCHANGED <<status, listener, connections, stoppedCb, poolVars, connVars,
                   peer, attaching, mainVars, caller, resume, stopped, workers, failed>>

StopQueues ==
    /\ stop = "stored"
    /\ substatus' = "listener" /\ Queue(Main, caller, Task("stop", Nobody))
    /\ stop' = "posted"
    /\ UNCHANGED <<status, listener, connections, stoppedCb, poolVars, connVars,
                   peer, attaching, mainVars, caller, resume, stopped, workers, failed>>

\* From a signal handler that interrupts the listening thread: RunInLoop calls
\* StopInLoop, or queues it if the loop does not run yet.
StopHere ==
    /\ stop = "none" /\ status = "running"
    /\ at \in {"start", "started", "poll", "accept", "insert"}
    /\ status' = "stopping" /\ substatus' = "listener"
    /\ stop' = "posted" /\ caller' = Main /\ resume' = at
    /\ IF at \in {"start", "started"}
       THEN Queue(Main, Main, Task("stop", Nobody)) /\ at' = "wait"
       ELSE UNCHANGED tasks /\ at' = "stopInLoop"
    /\ UNCHANGED <<listener, connections, stoppedCb, poolVars, connVars, peer,
                   attaching, cur, todo, closing, stopped, workers, failed>>

\* stopCond_.wait: stopped_ is tested with stopMutex_ held.
WaitTest ==
    /\ stop = "posted" /\ (caller = Main => at = "wait")
    /\ stop' = IF stopped THEN "done" ELSE "tested"
    /\ at' = IF caller = Main /\ stopped THEN resume ELSE at
    /\ UNCHANGED <<serverVars, poolVars, connVars, peer, tasks, attaching, cur,
                   todo, closing, caller, resume, stopped, workers, failed>>

WaitBlock ==
    /\ stop = "tested" /\ stop' = "blocked"
    /\ UNCHANGED <<serverVars, poolVars, connVars, peer, tasks, attaching, mainVars,
                   caller, resume, stopped, workers, failed>>

\* A condition variable may wake up by itself.
WakeUp ==
    /\ stop = "blocked" /\ stop' = "posted"
    /\ UNCHANGED <<serverVars, poolVars, connVars, peer, tasks, attaching, mainVars,
                   caller, resume, stopped, workers, failed>>

-----------------------------------------------------------------------------
(* ServerConnection::PostPacket in a worker; conn_ is a plain pointer *)

Does(w, where) == worker' = [worker EXCEPT ![w] =
                      IF where = "idle" THEN [at |-> "idle", conn |-> Nobody]
                                        ELSE [@ EXCEPT !.at = where]]

\* IsConnected in PostPacket, and status_ once more in TCPConn::Send.
PostTest(w) ==
    /\ worker[w].at \in {"test", "send"}
    /\ IF Freed(worker[w].conn) THEN failed' = "dangling" /\ UNCHANGED worker
       ELSE /\ Does(w, IF conn[worker[w].conn] # "connected" THEN "idle"
                       ELSE IF worker[w].at = "test" THEN "send" ELSE "queue")
            /\ UNCHANGED failed
    /\ UNCHANGED <<serverVars, poolVars, connVars, peer, tasks, attaching, mainVars,
                   stopVars, messages>>

\* Send's RunInLoop, on a loop of the pool.
PostQueue(w) ==
    /\ worker[w].at = "queue"
    /\ IF Freed(worker[w].conn) \/ pool = "gone"
       THEN failed' = "dangling" /\ UNCHANGED <<worker, tasks>>
       ELSE /\ Queue(home[worker[w].conn], w, Task("send", worker[w].conn))
            /\ Does(w, "idle") /\ UNCHANGED failed
    /\ UNCHANGED <<serverVars, poolVars, connVars, peer, attaching, mainVars, stopVars,
                   messages>>

-----------------------------------------------------------------------------

MainStep ==
    \/ Start \/ Accept \/ Run \/ Listen \/ Insert \/ StopInLoop \/ Close \/ CloseDone
    \/ Join \/ Callback \/ NotifyOne \/ Finish
    \/ \E c \in Conns : HandleNewConn(c) \/ CloseNext(c)
    \/ \E l \in Loops : NewConn(l) \/ RemoveConnection(l)

PoolStep(l) ==
    \/ OnAttachedToLoop(l) \/ OnConnection(l) \/ CloseFunctor(l) \/ Quit(l)
    \/ \E w \in Workers : SendInLoop(l, w)

StopStep == StopQueues \/ WaitTest \/ WaitBlock

WorkerStep(w) == PostTest(w) \/ PostQueue(w)

Next ==
    /\ failed = "none"
    /\ \/ MainStep \/ StopStep
       \/ StopHere \/ WakeUp
       \/ Stop(Other) \/ \E l \in Loops : Stop(l)
       \/ \E l \in Loops : PoolStep(l)
       \/ \E l \in Loops, c \in Conns : HandleEnd(l, c) \/ \E w \in Workers : OnMessage(l, c, w)
       \/ \E w \in Workers : WorkerStep(w)
       \/ \E c \in Conns : Connect(c) \/ Disconnect(c)

Spec == Init /\ [][Next]_vars

\* Threads are scheduled, and libevent serves each ready socket and the
\* functors in every iteration.  Peers need not do anything, nobody has to
\* call Stop, and condition variables need not wake up by themselves.
Alive == failed = "none"
FairSpec ==
    /\ Spec
    /\ WF_vars(Alive /\ MainStep) /\ WF_vars(Alive /\ StopStep)
    /\ \A l \in Loops : WF_vars(Alive /\ PoolStep(l))
    /\ \A l \in Loops, c \in Conns : WF_vars(Alive /\ HandleEnd(l, c))
    /\ \A w \in Workers : WF_vars(Alive /\ WorkerStep(w))

-----------------------------------------------------------------------------

\* A signal handler calls Stop in the middle of HandleNewConn, when the pool has
\* the connection and connections_ does not.
Interrupted == caller = Main /\ resume = "insert"

\* When Stop has returned, what ~TCPServer asserts is true and no thread of the
\* pool is left; HandleNewConn, if it was Interrupted, inserts its connection after
\* that.
StopLeavesNothing ==
    stop = "done" =>
        /\ listener = "none" /\ pool = "gone" /\ \A l \in Loops : thread[l] = "stopped"
        /\ connections # {} => Interrupted

\* A connection that can be read has its ServerConnection, so that OnMessage
\* drops no data, unless Stop is closing it.
ReadersAreServed ==
    \A c \in Conns : chan[c] = "reading" /\ attaching[home[c]] # c /\ ~ context[c] =>
        status \in {"stopping", "stopped"}

\* A worker meets a TCPConn or a loop that is gone only on a connection whose
\* loss the application was told of, unless HandleNewConn was Interrupted.
DanglesWhenLost ==
    failed = "dangling" =>
        Interrupted \/ \E w \in Workers : worker[w].at # "idle" /\ ~ context[worker[w].conn]

\* The ServerConnection in a context never outlives the TCPConn it points to,
\* though the context may be set before connections_ has the connection; with
\* DanglesWhenLost, a worker that does not keep it longer is safe.
ContextIsAlive == DanglesWhenLost /\ \A c \in Conns : context[c] => ~ Freed(c)

\* Assertions fail only while Stop is under way, and each on one race: on a
\* connection that is just being accepted, on a listener that no functor has
\* attached yet, on a peer that closes its end meanwhile.
FailsOnlyOnRaces ==
    /\ failed \notin {"none", "dangling"} => stop # "none"
    /\ failed = "IsRunning" => at = "accept"
    /\ failed = "attached" => listener = "set"
    /\ failed \in {"IsStopping", "substatus", "channel"} => \E c \in Conns : peer[c] = "closed"
    /\ failed # "closing"

\* Stop is called in one of the server's own threads.
Inside == caller \in Loops \cup {Main}

\* A peer that closes its end is forgotten, unless one of the server's threads
\* is in Stop.
LostPeerIsForgotten ==
    \A c \in Conns : c \in connections /\ peer[c] = "closed" ~>
        c \notin connections \/ failed # "none" \/ Inside

\* Stop returns, or it waits for one of these: a notification that came before
\* it blocked, the loop whose thread it is in, the end of the pool's thread it is
\* in, or a connection that was not attached yet when StopInLoop looked at it and
\* that its peer keeps open.
StopReturnsOrHangs ==
    stop # "none" ~>
        \/ stop = "done" \/ failed # "none"
        \/ stop = "blocked" /\ stopped
        \/ stop = "blocked" /\ Inside
        \/ stop = "blocked" /\ \E c \in connections : conn[c] = "connected"
=============================================================================
