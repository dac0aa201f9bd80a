--------------------------- MODULE ClientSession ---------------------------
(***************************************************************************)
(* ClientSession of common/net/clientsession.cc: application threads post   *)
(* requests, the event loop's thread connects, drains the output queue,     *)
(* reads replies and loses the connection, and timeout threads call         *)
(* CheckTimeout or Disconnect.  They share the session's mutex_, its output *)
(* queue and buffer, and the channel pool, which appears as the table of    *)
(* requests that ChannelPoolSpec promises.                                  *)
(*                                                                         *)
(* A packet, its frame and its channel are all named by the request number. *)
(* TCPConn and TCPClient (thirdpartlibs/evpp) appear as far as the session  *)
(* can see them: status_, Send, the pending functors and the reconnection.  *)
(***************************************************************************)
EXTENDS Naturals, FiniteSets, Sequences

CONSTANTS AppThreads,    \* threads of the application that call PostPacket
          Loop,          \* the thread that runs loop_
          Timers,        \* threads that call CheckTimeout(now)
          Closers,       \* calls of Disconnect
          LoopClosers,   \* those made by a handler or callback in the loop's thread
          MaxCloses,     \* bound: calls of Disconnect
          LoopPosts,     \* callbacks in which the application posts as well
          Blocking,      \* the values of !noblocking in use
          KeepLimit,     \* 10: packets kept while there is no connection
          QueueLimit,    \* queueLimit_
          QueueTimeout,  \* queueTimeout_
          MaxConns,      \* bound: connections established
          MaxFetch,      \* bound: requests
          MaxTime        \* QYNET_MAX_TIME, later than any clock reading

ASSUME SessionBounds ==
    /\ LoopClosers \subseteq Closers /\ MaxCloses \in Nat
    /\ MaxConns \in Nat /\ MaxFetch \in Nat /\ MaxTime \in Nat /\ MaxTime > 0
    /\ KeepLimit \in Nat /\ QueueLimit \in Nat
    /\ QueueTimeout \in Nat /\ QueueTimeout > 0
    /\ Blocking \subseteq BOOLEAN
    /\ LoopPosts \subseteq {"callback", "refused", "handle", "down"}

Posters == AppThreads \cup {Loop}
Checkers == Timers \cup Closers
Sessions == 1 .. MaxFetch
MaxClock == MaxTime - 1
NoThread == "none"

ASSUME ThreadNames == NoThread \notin Posters

\* A thread that calls CheckTimeout again and again is no call of Disconnect.
ASSUME ThreadSets == /\ IsFiniteSet(AppThreads) /\ IsFiniteSet(Closers)
                     /\ Timers \cap Closers = {}

VARIABLES
    fetched, table,      \* channelPool_
    queue,               \* outputQueue_
    output,              \* frames left in output_
    mutex,               \* the thread that holds mutex_
    link,                \* connPtr_->status_: down, up or closing
    autoReconnect,       \* tcp_client_.auto_reconnect_
    dialing,             \* tcp_client_'s connector: no, trying or backoff
    conns,               \* connections established so far
    posted,              \* frames in SendStringInLoop functors of the loop
    wire,                \* frames the peer got on this connection
    asked,               \* DisconnectInLoop functors in the loop
    shutting,            \* TCPConn::Close was called, HandleClose is queued
    loop, handled,       \* what the loop's thread does; the reply it handles
    clock,
    deadline,            \* Packet::expireTime_
    pc, stamp, req, blocking,    \* PostPacket, per poster
    cpc, now, claimed, packets,  \* CheckTimeout and Disconnect, per checker
    owed,                        \* history: requests a Disconnect has to end
    calls                        \* history: handler calls per request

pool == <<fetched, table>>
shared == <<queue, output, mutex>>
client == <<link, autoReconnect, dialing, conns, posted, wire, asked, shutting>>
thread == <<loop, handled>>
times == <<clock, deadline>>
post == <<pc, stamp, req, blocking>>
check == <<cpc, now, claimed, packets, owed>>
vars == <<pool, shared, client, thread, times, post, check, calls>>

Pool == INSTANCE ChannelPoolSpec

PostSteps == {"idle", "check", "limit", "stamp", "alloc", "args", "lock",
              "encode", "wait"}
CheckSteps == {"idle", "poll", "flush", "channels", "queue", "packets", "done"}
LoopSteps == {"idle", "drain", "draining", "callback", "refused", "handle", "down",
              "stuck", "stopped", "crashed"}

TypeOK ==
    /\ Pool!TypeOK
    /\ queue \in Seq(Sessions)
    /\ output \in SUBSET Sessions
    /\ mutex \in Posters \cup {NoThread}
    /\ link \in {"down", "up", "closing"}
    /\ autoReconnect \in BOOLEAN /\ dialing \in {"no", "trying", "backoff"}
    /\ conns \in 0 .. MaxConns
    /\ posted \in SUBSET Sessions /\ wire \in SUBSET Sessions
    /\ asked \in Nat /\ shutting \in BOOLEAN
    /\ loop \in LoopSteps /\ handled \in 0 .. MaxFetch
    /\ clock \in 0 .. MaxClock
    /\ deadline \in [Sessions -> 0 .. MaxClock]
    /\ pc \in [Posters -> PostSteps]
    /\ stamp \in [Posters -> 0 .. MaxClock]
    /\ req \in [Posters -> 0 .. MaxFetch]
    /\ blocking \in [Posters -> BOOLEAN]
    /\ cpc \in [Checkers -> CheckSteps]
    /\ now \in [Checkers -> 0 .. MaxTime]
    /\ claimed \in [Checkers -> SUBSET Sessions]
    /\ packets \in [Checkers -> Seq(Sessions)]
    /\ owed \in [Checkers -> SUBSET Sessions]
    /\ calls \in [Sessions -> Nat]

IsConnected == link = "up"

\* outputQueue_.Size() + channelPool_.GetUseListCount()
TotalSize == Len(queue) + Cardinality(Pool!Pending)

Elems(s) == {s[i] : i \in DOMAIN s}

Init ==
    /\ Pool!Init
    /\ queue = <<>> /\ output = {} /\ mutex = NoThread
    /\ link = "down" /\ autoReconnect = TRUE /\ dialing = "trying" /\ conns = 0
    /\ posted = {} /\ wire = {} /\ asked = 0 /\ shutting = FALSE
    /\ loop = "idle" /\ handled = 0
    /\ clock = 0
    /\ deadline = [s \in Sessions |-> 0]
    /\ pc = [p \in Posters |-> "idle"]
    /\ stamp = [p \in Posters |-> 0]
    /\ req = [p \in Posters |-> 0]
    /\ blocking = [p \in Posters |-> FALSE]
    /\ cpc = [k \in Checkers |-> "idle"]
    /\ now = [k \in Checkers |-> 0]
    /\ claimed = [k \in Checkers |-> {}]
    /\ packets = [k \in Checkers |-> <<>>]
    /\ owed = [k \in Checkers |-> {}]
    /\ calls = [s \in Sessions |-> 0]

-----------------------------------------------------------------------------
(* PostPacket *)

Goto(p, step) == pc' = [pc EXCEPT ![p] = step]

\* The callback that the loop's thread is in is not inside a call of the session.
LoopFree == pc[Loop] = "idle" /\ \A k \in LoopClosers : cpc[k] \in {"idle", "done"}

\* Posts that will still draw a request number.
Undrawn == {p \in Posters : pc[p] \in {"check", "limit", "stamp", "alloc"}}

\* An application thread calls PostPacket at any time, the loop's thread from
\* a callback.
PostBegin(p) ==
    /\ pc[p] = "idle"
    /\ p = Loop => loop \in LoopPosts /\ LoopFree
    /\ fetched + Cardinality(Undrawn) < MaxFetch
    /\ clock + QueueTimeout < MaxClock
    /\ \E b \in Blocking : blocking' = [blocking EXCEPT ![p] = b]
    /\ Goto(p, "check")
    /\ UNCHANGED <<pool, shared, client, thread, times, stamp, req, check, calls>>

\* The first test takes no lock: without a connection a packet is refused when
\* there will be none again, or when the queue is longer than KeepLimit.
Refused == ~ IsConnected /\ (~ autoReconnect \/ Len(queue) > KeepLimit)

PostCheck(p) ==
    /\ pc[p] = "check"
    /\ Goto(p, IF Refused THEN "idle" ELSE "limit")
    /\ UNCHANGED <<pool, shared, client, thread, times, stamp, req, blocking,
                   check, calls>>

\* Faulty variant: a full queue passes the test.
PostLimitLate(p) ==
    /\ pc[p] = "limit" /\ mutex = NoThread
    /\ Goto(p, IF QueueLimit > 0 /\ ~ blocking[p] /\ TotalSize > QueueLimit
               THEN "idle" ELSE "stamp")
    /\ UNCHANGED <<pool, shared, client, thread, times, stamp, req, blocking,
                   check, calls>>

PostLimit(p) ==
    /\ pc[p] = "limit" /\ mutex = NoThread
    /\ Goto(p, IF QueueLimit > 0 /\ ~ blocking[p] /\ TotalSize >= QueueLimit
               THEN "idle" ELSE "stamp")
    /\ UNCHANGED <<pool, shared, client, thread, times, stamp, req, blocking,
                   check, calls>>

\* Faulty variant: a timeout in the wrong unit.
PostStampWrongUnit(p) ==
    /\ pc[p] = "stamp"
    /\ stamp' = [stamp EXCEPT ![p] = clock + 1000 * QueueTimeout]
    /\ Goto(p, "alloc")
    /\ UNCHANGED <<pool, shared, client, thread, times, req, blocking, check,
                   calls>>

\* packet->SetExpireTime(queueTimeout_)
PostStamp(p) ==
    /\ pc[p] = "stamp"
    /\ stamp' = [stamp EXCEPT ![p] = clock + QueueTimeout]
    /\ Goto(p, "alloc")
    /\ UNCHANGED <<pool, shared, client, thread, times, req, blocking, check,
                   calls>>

PostAlloc(p) ==
    /\ pc[p] = "alloc"
    /\ Pool!AllocChannel
    /\ req' = [req EXCEPT ![p] = fetched']
    /\ deadline' = [deadline EXCEPT ![fetched'] = stamp[p]]
    /\ Goto(p, "args")
    /\ UNCHANGED <<shared, client, thread, clock, stamp, blocking, check, calls>>

\* Faulty variant: the args are not stored.
PostArgsForgotten(p) ==
    /\ pc[p] = "args"
    /\ Goto(p, "lock")
    /\ UNCHANGED <<pool, shared, client, thread, times, stamp, req, blocking,
                   check, calls>>

\* channel->SetHandler, channel->SetArgs, packet->SetChannel
PostArgs(p) ==
    /\ pc[p] = "args"
    /\ Pool!SetArgs(req[p], req[p])
    /\ Goto(p, "lock")
    /\ UNCHANGED <<shared, client, thread, times, stamp, req, blocking, check,
                   calls>>

AfterSend(p) == IF QueueLimit > 0 /\ blocking[p] THEN "wait" ELSE "idle"

\* Under mutex_: without a connection the packet is queued, else it goes on to
\* be encoded with the lock held.
PostLock(p) ==
    /\ pc[p] = "lock" /\ mutex = NoThread
    /\ IF IsConnected
       THEN mutex' = p /\ Goto(p, "encode") /\ UNCHANGED queue
       ELSE queue' = Append(queue, req[p]) /\ Goto(p, AfterSend(p)) /\ UNCHANGED mutex
    /\ UNCHANGED <<pool, output, client, thread, times, stamp, req, blocking,
                   check, calls>>

\* What Encode may leave in output_ for request s: its frame, or nothing.
Encoded(s) == {output \cup {s}, output}

\* Faulty variant: the channel is left without a deadline.
PostEncodeUntimed(p) ==
    /\ pc[p] = "encode" /\ p # Loop
    /\ \E out \in Encoded(req[p]) :
          IF IsConnected THEN posted' = posted \cup out /\ output' = {}
          ELSE output' = out /\ UNCHANGED posted
    /\ mutex' = NoThread
    /\ Goto(p, AfterSend(p))
    /\ UNCHANGED <<pool, queue, link, autoReconnect, dialing, conns, wire, asked,
                   shutting, thread, times, stamp, req, blocking, check, calls>>

\* An application thread: SetExpireTime, Send, unlock.  Send hands the whole
\* buffer to the loop, or leaves it in output_ when the connection went away.
PostEncode(p) ==
    /\ pc[p] = "encode" /\ p # Loop
    /\ Pool!SetExpireTime(req[p], deadline[req[p]])
    /\ \E out \in Encoded(req[p]) :
          IF IsConnected THEN posted' = posted \cup out /\ output' = {}
          ELSE output' = out /\ UNCHANGED posted
    /\ mutex' = NoThread
    /\ Goto(p, AfterSend(p))
    /\ UNCHANGED <<queue, link, autoReconnect, dialing, conns, wire, asked,
                   shutting, thread, times, stamp, req, blocking, check,
                   calls>>

\* Faulty variant: the test for room is inverted.
PostWaitInverted(p) ==
    /\ pc[p] = "wait" /\ mutex = NoThread
    /\ TotalSize >= QueueLimit
    /\ Goto(p, "idle")
    /\ UNCHANGED <<pool, shared, client, thread, times, stamp, req, blocking,
                   check, calls>>

\* wait_until polls every second: it ends once a poll finds room, a stopped loop
\* or no connection.  Notifications of outputCond_ only make a poll come earlier.
PostWait(p) ==
    /\ pc[p] = "wait" /\ mutex = NoThread
    /\ TotalSize <= QueueLimit \/ loop = "stopped" \/ ~ IsConnected
    /\ Goto(p, "idle")
    /\ UNCHANGED <<pool, shared, client, thread, times, stamp, req, blocking,
                   check, calls>>

-----------------------------------------------------------------------------
(* The loop's thread *)

\* OnRemoveConnection and the end of HandleClose: functors and frames of this
\* connection come to nothing, and the client dials again if it is meant to.
ConnGone ==
    /\ link' = "down"
    /\ dialing' = IF autoReconnect THEN "trying" ELSE dialing
    /\ posted' = {} /\ wire' = {} /\ shutting' = FALSE
    /\ UNCHANGED <<autoReconnect, conns, asked>>

\* A call of Disconnect that was not made yet.
MayClose(k) == cpc[k] = "idle" /\ Cardinality({j \in Closers : cpc[j] # "idle"}) < MaxCloses

\* A write in Send fails, HandleError closes the connection, and the connection
\* callback runs under mutex_, with q in outputQueue_.  A callback that posts
\* and passes the first test of PostPacket, or that calls Disconnect, gets to
\* lock mutex_ and waits for its own thread; any other returns, and then is
\* what the thread does next.
LostInSend(out, q, then) ==
    \/ ConnGone /\ output' = {} /\ loop' = then /\ UNCHANGED cpc
    \/ /\ \/ "down" \in LoopPosts /\ autoReconnect /\ Len(q) <= KeepLimit /\ UNCHANGED cpc
          \/ \E k \in LoopClosers : MayClose(k) /\ cpc' = [cpc EXCEPT ![k] = "flush"]
       /\ link' = "closing" /\ output' = out /\ loop' = "stuck"
       /\ UNCHANGED <<autoReconnect, dialing, conns, posted, wire, asked, shutting>>

\* Send in the loop's thread, under mutex_: out is written, or the write fails,
\* or there was no connection any more.
SendInLoop(out, q, then) ==
    \/ /\ IsConnected
       /\ wire' = wire \cup out /\ output' = {} /\ loop' = then
       /\ UNCHANGED <<link, autoReconnect, dialing, conns, posted, asked, shutting, cpc>>
    \/ /\ IsConnected /\ out # {}
       /\ LostInSend(out, q, then)
    \/ /\ ~ IsConnected
       /\ output' = out /\ loop' = then
       /\ UNCHANGED <<client, cpc>>

\* The same step of PostPacket as PostEncode, in the loop's thread.
PostEncodeInLoop ==
    /\ pc[Loop] = "encode" /\ loop # "stuck"
    /\ Pool!SetExpireTime(req[Loop], deadline[req[Loop]])
    /\ \E out \in Encoded(req[Loop]) : SendInLoop(out, queue, loop)
    /\ mutex' = IF loop' = "stuck" THEN mutex ELSE NoThread
    /\ Goto(Loop, AfterSend(Loop))
    /\ UNCHANGED <<queue, handled, times, stamp, req, blocking, now, claimed, packets,
                   owed, calls>>

\* Faulty variant: PostOutputQueue runs before connPtr_ is stored, finds no
\* connection and returns.
ConnectedTooLate ==
    /\ loop = "idle" /\ link = "down" /\ dialing # "no" /\ conns < MaxConns
    /\ link' = "up" /\ dialing' = "no" /\ conns' = conns + 1
    /\ loop' = "callback"
    /\ UNCHANGED <<pool, shared, autoReconnect, posted, wire, asked, shutting,
                   handled, times, post, check, calls>>

\* The connector succeeds: OnConnection stores connPtr_ and goes on to drain.
\* The reconnect interval (3 s) outlasts a poll of Disconnect (100 ms).
Connected ==
    /\ loop = "idle" /\ link = "down" /\ dialing # "no" /\ conns < MaxConns
    /\ dialing = "backoff" => \A k \in Closers : cpc[k] # "poll"
    /\ link' = "up" /\ dialing' = "no" /\ conns' = conns + 1
    /\ loop' = "drain"
    /\ UNCHANGED <<pool, shared, autoReconnect, posted, wire, asked, shutting,
                   handled, times, post, check, calls>>

\* The connector fails and, with auto_reconnect_, tries again later; the
\* callback is told of a refused connection, and of the last failure.
ConnectFailed ==
    /\ loop = "idle" /\ dialing # "no"
    /\ dialing' = IF autoReconnect THEN "backoff" ELSE "no"
    /\ loop' = "refused" \/ (autoReconnect /\ loop' = "idle")
    /\ UNCHANGED <<pool, shared, link, autoReconnect, conns, posted, wire,
                   asked, shutting, handled, times, post, check, calls>>

\* PostOutputQueue: with nothing queued the lock is given back at once.
DrainBegin ==
    /\ loop = "drain" /\ mutex = NoThread
    /\ IF queue = <<>> THEN loop' = "callback" /\ UNCHANGED mutex
       ELSE loop' = "draining" /\ mutex' = Loop
    /\ UNCHANGED <<pool, queue, output, client, handled, times, post, check,
                   calls>>

\* One round of its loop: pop, encode, set the channel's deadline, send.
DrainOne ==
    /\ loop = "draining"
    /\ Pool!SetExpireTime(Head(queue), deadline[Head(queue)])
    /\ queue' = Tail(queue)
    /\ \E out \in Encoded(Head(queue)) :
          SendInLoop(out, queue', IF queue' = <<>> THEN "callback" ELSE "draining")
    /\ mutex' = IF loop' = "callback" THEN NoThread ELSE mutex
    /\ UNCHANGED <<handled, times, post, now, claimed, packets, owed, calls>>

\* A SendStringInLoop functor writes a frame to the socket.
RunSend(s) ==
    /\ loop = "idle" /\ link # "down" /\ s \in posted
    /\ posted' = posted \ {s} /\ wire' = wire \cup {s}
    /\ UNCHANGED <<pool, shared, link, autoReconnect, dialing, conns, asked,
                   shutting, thread, times, post, check, calls>>

\* Faulty variant: the channel is looked up and stays in the map.
HandlePacketPeeks(s) ==
    /\ loop = "idle" /\ link # "down" /\ s \in wire /\ s \in Pool!Pending
    /\ calls' = [calls EXCEPT ![s] = @ + 1]
    /\ UNCHANGED <<pool, shared, client, thread, times, post, check>>

\* HandlePacket on a reply to request s: the channel is taken and its handler
\* called.  A reply whose channel is gone is skipped.
HandlePacket(s) ==
    /\ loop = "idle" /\ link # "down" /\ s \in wire
    /\ Pool!OfferChannel(s)
    /\ handled' = s /\ loop' = "handle"
    /\ calls' = [calls EXCEPT ![s] = @ + 1]
    /\ UNCHANGED <<shared, client, times, post, check>>

\* The handler returned: SetArgs(NULL) and AppendChannel.
HandlePacketEnd ==
    /\ loop = "handle" /\ LoopFree
    /\ Pool!Recycle({handled})
    /\ handled' = 0 /\ loop' = "idle"
    /\ UNCHANGED <<shared, client, times, post, check, calls>>

\* The callback returned, to Connector::HandleWrite when it was that of a new
\* connection.  HandleWrite goes on with its Connector, which is freed unless it
\* still is connector_: DisconnectInLoop resets that, and so does the Reconnect
\* of a connection that was lost in a Send.  Using it may end the process.
ConnectorFreed == ~ IsConnected \/ ~ autoReconnect

CallbackEnd ==
    /\ loop \in {"callback", "refused"} /\ LoopFree
    /\ \/ loop' = "idle"
       \/ loop = "callback" /\ ConnectorFreed /\ loop' = "crashed"
    /\ UNCHANGED <<pool, shared, client, handled, times, post, check, calls>>

\* The peer closes, a read or write fails, or the queued HandleClose runs: the
\* connection callback is called at status kDisconnecting.
HandleClose ==
    /\ loop = "idle" /\ (link = "up" \/ (link = "closing" /\ shutting))
    /\ link' = "closing" /\ loop' = "down"
    /\ UNCHANGED <<pool, shared, autoReconnect, dialing, conns, posted, wire,
                   asked, shutting, handled, times, post, check, calls>>

HandleCloseEnd ==
    /\ loop = "down" /\ LoopFree
    /\ ConnGone
    /\ loop' = "idle"
    /\ UNCHANGED <<pool, shared, handled, times, post, check, calls>>

\* TCPClient::DisconnectInLoop's assertions: there is a connection that is up,
\* or else a connector; connector_ is NULL from the first call on.
DisconnectAllowed == autoReconnect /\ link # "closing"

\* Faulty variant: only the reconnection is switched off.
CloseInLoopKeepsConn ==
    /\ autoReconnect' = FALSE
    /\ UNCHANGED <<link, shutting, dialing>>

\* What it does in the loop's thread: Close queues HandleClose, and a Connector
\* that waits for its connection is cancelled.
CloseInLoop ==
    /\ autoReconnect' = FALSE
    /\ link' = IF link = "up" THEN "closing" ELSE link
    /\ shutting' = (link = "up")
    /\ dialing' = IF dialing = "trying" THEN "no" ELSE dialing

\* Past a failed assertion connector_ is used: a second call ends the process.
DisconnectInLoop ==
    /\ loop = "idle" /\ asked > 0
    /\ asked' = asked - 1
    /\ \/ DisconnectAllowed /\ CloseInLoop /\ UNCHANGED loop
       \/ /\ ~ DisconnectAllowed /\ loop' = "crashed"
          /\ UNCHANGED <<autoReconnect, link, shutting, dialing>>
    /\ UNCHANGED <<pool, shared, conns, posted, wire, handled, times, post, check,
                   calls>>

\* Stop: the loop's StopInLoop runs the functors that are queued, and nothing
\* runs in the loop from then on.
Stop ==
    /\ loop = "idle" /\ asked = 0 /\ ~ shutting /\ posted = {}
    /\ loop' = "stopped"
    /\ UNCHANGED <<pool, shared, client, handled, times, post, check, calls>>

-----------------------------------------------------------------------------
(* CheckTimeout and Disconnect *)

Step(k, step) == cpc' = [cpc EXCEPT ![k] = step]

\* The session is closed for good and nobody is sending.
Unsent == {req[p] : p \in {q \in Posters : pc[q] \in {"args", "lock", "encode"}}}
Final == /\ ~ autoReconnect /\ dialing = "no" /\ link # "up"
         /\ Unsent = {} /\ loop # "draining"

\* The requests a flush gets to: one that was not sent stops the pool's
\* GetTimeoutList before the younger ones.
WithinReach == {s \in 1 .. fetched :
                  \/ s \in Elems(queue)
                  \/ \A r \in Pool!Pending : r <= s => table[r].expire < MaxTime}

\* CheckTimeout(t) up to the end of GetTimeoutList.
CheckBegin(k, t) ==
    /\ now' = [now EXCEPT ![k] = t]
    /\ Pool!GetTimeoutList(t)
    /\ claimed' = [claimed EXCEPT ![k] = Pool!Overdue(t)]
    /\ owed' = [owed EXCEPT ![k] = IF t = MaxTime /\ Final THEN WithinReach ELSE {}]
    /\ Step(k, "channels")
    /\ UNCHANGED <<shared, client, thread, times, post, packets, calls>>

CheckTimeout(k) == k \in Timers /\ cpc[k] = "idle" /\ CheckBegin(k, clock)

\* The handler of the next channel in the list, then SetArgs(NULL).
CallChannel(k, s) ==
    /\ cpc[k] = "channels"
    /\ s \in claimed[k] /\ table[s].args # Pool!NoArgs
    /\ \A r \in claimed[k] : r < s => table[r].args = Pool!NoArgs
    /\ calls' = [calls EXCEPT ![s] = @ + 1]
    /\ Pool!SetArgs(s, Pool!NoArgs)
    /\ UNCHANGED <<shared, client, thread, times, post, check>>

\* AppendFreeList
CheckAppend(k) ==
    /\ cpc[k] = "channels"
    /\ \A s \in claimed[k] : table[s].args = Pool!NoArgs
    /\ Pool!Recycle(claimed[k])
    /\ claimed' = [claimed EXCEPT ![k] = {}]
    /\ Step(k, "queue")
    /\ UNCHANGED <<shared, client, thread, times, post, now, packets, calls, owed>>

\* Faulty variant: the packets in the queue are forgotten.
CheckQueueSkipped(k) ==
    /\ cpc[k] = "queue" /\ mutex = NoThread
    /\ Step(k, "packets")
    /\ UNCHANGED <<pool, shared, client, thread, times, post, now, claimed,
                   packets, calls, owed>>

\* outputQueue_.GetTimeoutList takes the first n packets, up to the first one
\* whose deadline has not passed.
CheckQueue(k) ==
    /\ cpc[k] = "queue" /\ mutex = NoThread
    /\ \E n \in 0 .. Len(queue) :
          /\ \A i \in 1 .. n : deadline[queue[i]] < now[k]
          /\ n < Len(queue) => deadline[queue[n + 1]] >= now[k]
          /\ packets' = [packets EXCEPT ![k] = SubSeq(queue, 1, n)]
          /\ queue' = SubSeq(queue, n + 1, Len(queue))
    /\ Step(k, "packets")
    /\ UNCHANGED <<pool, output, mutex, client, thread, times, post, now,
                   claimed, calls, owed>>

\* The handler of the next packet's request, then FreeChannel.
CallPacket(k) ==
    /\ cpc[k] = "packets" /\ packets[k] # <<>>
    /\ calls' = [calls EXCEPT ![Head(packets[k])] = @ + 1]
    /\ Pool!FreeChannel(Head(packets[k]))
    /\ packets' = [packets EXCEPT ![k] = Tail(@)]
    /\ UNCHANGED <<shared, client, thread, times, post, cpc, now, claimed, owed>>

CheckEnd(k) ==
    /\ cpc[k] = "packets" /\ packets[k] = <<>>
    /\ Step(k, IF k \in Timers THEN "idle" ELSE "done")
    /\ now' = [now EXCEPT ![k] = 0]
    /\ UNCHANGED <<pool, shared, client, thread, times, post, claimed, packets,
                   calls, owed>>

\* Disconnect: ask the loop to close a connection that is up.
Disconnect(k) ==
    /\ k \in Closers \ LoopClosers /\ MayClose(k)
    /\ IF IsConnected THEN asked' = asked + 1 /\ Step(k, "poll")
       ELSE Step(k, "flush") /\ UNCHANGED asked
    /\ UNCHANGED <<pool, shared, link, autoReconnect, dialing, conns, posted,
                   wire, shutting, thread, times, post, now, claimed,
                   packets, calls, owed>>

\* Disconnect in a handler or callback, outside Send: a connection that is up is
\* closed on the spot, and the first look finds it gone.
DisconnectHere(k) ==
    /\ k \in LoopClosers /\ MayClose(k) /\ LoopFree
    /\ loop \in {"handle", "callback", "refused", "down"}
    /\ \/ /\ ~ IsConnected /\ Step(k, "flush")
          /\ UNCHANGED <<autoReconnect, link, shutting, dialing, loop>>
       \/ /\ IsConnected /\ DisconnectAllowed
          /\ CloseInLoop /\ Step(k, "flush") /\ UNCHANGED loop
       \/ /\ IsConnected /\ ~ DisconnectAllowed /\ loop' = "crashed"
          /\ UNCHANGED <<autoReconnect, link, shutting, dialing, cpc>>
    /\ UNCHANGED <<pool, shared, conns, posted, wire, asked, handled, times, post,
                   now, claimed, packets, calls, owed>>

\* It looks every 100 ms whether the connection is gone.
DisconnectPoll(k) ==
    /\ cpc[k] = "poll" /\ ~ IsConnected
    /\ Step(k, "flush")
    /\ UNCHANGED <<pool, shared, client, thread, times, post, now, claimed,
                   packets, calls, owed>>

\* CheckTimeout(QYNET_MAX_TIME)
DisconnectFlush(k) == cpc[k] = "flush" /\ CheckBegin(k, MaxTime)

\* Time passes; deadlines stay below MaxClock so that each can be overrun.
Tick ==
    /\ clock < MaxClock
    /\ (\E p \in Posters : pc[p] \in {"check", "limit", "stamp"})
          => clock + 1 + QueueTimeout < MaxClock
    /\ clock' = clock + 1
    /\ UNCHANGED <<pool, shared, client, thread, deadline, post, check, calls>>

PostPacket(p) ==
    \/ PostBegin(p) \/ PostCheck(p) \/ PostLimit(p) \/ PostStamp(p) \/ PostAlloc(p)
    \/ PostArgs(p) \/ PostLock(p) \/ PostEncode(p) \/ PostWait(p)

LoopStep ==
    \/ PostEncodeInLoop \/ Connected \/ ConnectFailed \/ DrainBegin \/ DrainOne
    \/ HandlePacketEnd \/ CallbackEnd \/ HandleClose \/ HandleCloseEnd
    \/ DisconnectInLoop \/ Stop
    \/ \E s \in Sessions : RunSend(s) \/ HandlePacket(s)

CheckStep(k) ==
    \/ CheckTimeout(k) \/ CheckAppend(k) \/ CheckQueue(k) \/ CallPacket(k)
    \/ CheckEnd(k) \/ Disconnect(k) \/ DisconnectHere(k)
    \/ DisconnectPoll(k) \/ DisconnectFlush(k)
    \/ \E s \in Sessions : CallChannel(k, s)

Next ==
    \/ \E p \in Posters : PostPacket(p)
    \/ LoopStep
    \/ \E k \in Checkers : CheckStep(k)
    \/ Tick

Spec == Init /\ [][Next]_vars

\* Threads that are scheduled go on with the call they are in; the loop runs
\* its functors and callbacks; CheckTimeout is called again and again; time
\* passes.  Posts, Disconnect, Stop, connections, replies and failures need
\* never happen.
PostGoesOn(p) ==
    \/ PostCheck(p) \/ PostLimit(p) \/ PostStamp(p) \/ PostAlloc(p)
    \/ PostArgs(p) \/ PostLock(p) \/ PostEncode(p) \/ PostWait(p)

LoopGoesOn ==
    \/ PostEncodeInLoop \/ DrainBegin \/ DrainOne \/ HandlePacketEnd
    \/ CallbackEnd \/ HandleCloseEnd

CheckGoesOn(k) ==
    \/ CheckTimeout(k) \/ CheckAppend(k) \/ CheckQueue(k) \/ CallPacket(k)
    \/ CheckEnd(k) \/ DisconnectPoll(k) \/ DisconnectFlush(k)
    \/ \E s \in Sessions : CallChannel(k, s)

\* The threads that call PostPacket at all.
Callers == IF LoopPosts = {} THEN AppThreads ELSE Posters

Fairness ==
    /\ \A p \in Callers : WF_vars(PostGoesOn(p))
    /\ WF_vars(LoopGoesOn \/ \E k \in LoopClosers : CheckGoesOn(k))
    /\ SF_vars(DisconnectInLoop)     \* functors run on every round of the loop
    /\ \A k \in Checkers \ LoopClosers : WF_vars(CheckGoesOn(k))
    /\ SF_vars(Tick)     \* its guard is a bound, time itself never stops

FairSpec == Spec /\ Fairness

-----------------------------------------------------------------------------

\* The handler of a request is called at most once, whichever of reply, timeout,
\* queue timeout and Disconnect come together (a handler frees its args).
CalledAtMostOnce == \A s \in Sessions : calls[s] <= 1

\* When CheckTimeout or HandlePacket reads a channel's args they are those the
\* poster stored for this request, and have not been handed out before.
HandlerGetsItsArgs ==
    /\ loop = "handle" => table[handled].args = handled
    /\ \A k \in Checkers :
          /\ \A s \in claimed[k] : table[s].args = IF calls[s] = 0 THEN s ELSE 0
          /\ \A s \in Elems(packets[k]) : table[s].args = s /\ calls[s] = 0

\* A channel whose packet was not sent yet, still with its poster, in the queue
\* or among the queue's timed-out packets, is nobody else's: SetExpireTime and
\* FreeChannel never reach a channel that was recycled meanwhile.
UnsentChannelIsOwned ==
    \A s \in Unsent \cup Elems(queue) \cup UNION {Elems(packets[k]) : k \in Checkers} :
        s \in Pool!Pending /\ table[s].expire = Pool!Never

\* A packet is never left in outputQueue_ on a live connection: whatever was
\* queued while the connection came up is sent by OnConnection.
QueueNotStranded ==
    link = "up" /\ loop \notin {"drain", "draining"} => queue = <<>>

\* Non-blocking posters check the limit before they add to what it counts: they
\* overrun it by less than one request per thread.
InFlightBounded ==
    Blocking = {FALSE} /\ QueueLimit > 0 =>
        Cardinality(Pool!Pending) <= QueueLimit - 1 + Cardinality(Callers)

\* Disconnect on a session that is closed for good leaves nobody waiting: every
\* request posted before has had its handler called, or another CheckTimeout is
\* about to call it.  Only requests younger than an unsent one are not promised.
DisconnectEndsRequests ==
    \A k \in Closers : cpc[k] = "done" => \A s \in owed[k] :
        calls[s] = 1 \/ \E j \in Checkers : s \in claimed[j] \cup Elems(packets[j])

\* The assertions of TCPClient::DisconnectInLoop hold whenever it may run, as a
\* functor or from a handler or callback.
DisconnectAssertion ==
    \/ loop = "idle" /\ asked > 0
    \/ /\ loop \in {"handle", "callback"} /\ LoopFree /\ IsConnected
       /\ \E k \in LoopClosers : MayClose(k)
    => DisconnectAllowed

\* A connection callback may post: the loop's thread does not wait for a mutex_
\* that it holds itself.
CallbackMayPost == loop # "stuck"

\* Every request that PostPacket accepted gets its handler called in the end, be
\* it answered, lost with its connection or never sent, unless the loop's thread
\* waits for its own mutex_.  (A request is never taken back, so that "again and
\* again" says "in the end" of each.)
EveryRequestEnds ==
    \A s \in Sessions : []<>(s <= fetched => calls[s] = 1 \/ loop = "stuck")

\* PostPacket returns, also when it waits for room in the queue until a reply or
\* a timeout makes some: every thread is outside it again and again.  Only the
\* loop's thread may keep it from mutex_ for ever.
PostReturns ==
    \A p \in AppThreads :
        []<>(pc[p] = "idle" \/ (pc[p] \in {"limit", "lock", "wait"} /\ loop = "stuck"))

\* Every Disconnect returns, also in a handler or a callback, where the loop's
\* thread itself waits for its end.  It only waits for ever for a connection that
\* is up in a loop that runs no more, or for the mutex_ of a loop's thread that
\* waits for itself.
DisconnectReturns ==
    \A k \in Closers :
        []<>(\/ cpc[k] \in {"idle", "done"}
             \/ cpc[k] = "poll" /\ IsConnected /\ loop \in {"stopped", "crashed"}
             \/ cpc[k] = "queue" /\ loop = "stuck")
=============================================================================
