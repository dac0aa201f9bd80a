---------------------------- MODULE ServerProofs ----------------------------
(***************************************************************************)
(* What Server.tla says of any number of connections, pool threads and      *)
(* workers: types, connections whose context outlives nothing, what is left *)
(* when Stop has returned, and the races that assertions fail on.           *)
(***************************************************************************)
EXTENDS Server, TLAPS

\* The functor t is in the box b, in the queues q.
Queued(q, b, t) == \E i \in DOMAIN q[b] : q[b][i] = t

\* The server has a shared_ptr to c: connections_ or HandleNewConn.
Held(c) == c \in connections \/ c = cur

\* A functor in the box it was meant for, about a connection in the state that
\* the functor was queued in.
TaskOK(b, t) ==
    /\ t.op \in (IF b[1] = Main THEN {"listen", "stop", "remove"}
                                ELSE {"attach", "close", "send", "quit"})
    /\ IF t.op \in {"attach", "close", "send", "remove"} THEN t.conn \in Conns
                                                         ELSE t.conn = Nobody
    /\ t.op \in {"attach", "close", "send"} => home[t.conn] = b[1]
    /\ t.op \in {"attach", "close", "listen"} => b[2] = Main
    /\ t.op = "stop" => b[2] = caller
    /\ t.op = "attach" => /\ chan[t.conn] = "idle" /\ conn[t.conn] = "disconnected"
                          /\ Held(t.conn)
    /\ t.op \in {"close", "send"} => chan[t.conn] # "idle"
    /\ t.op = "close" => conn[t.conn] \in {"disconnecting", "disconnected"}
    /\ t.op = "remove" => chan[t.conn] = "closed"

TaskInv == \A b \in Boxes, t \in Tasks : Queued(tasks, b, t) => TaskOK(b, t)

\* These functors are never queued twice: the listener is attached once, a
\* connection is attached once, and closed once by StopInLoop, which itself runs
\* once.
Single == {"listen", "stop", "attach", "close"}
Once(q) ==
    \A b \in Boxes : \A i, j \in DOMAIN q[b] :
        q[b][i] = q[b][j] /\ q[b][i].op \in Single => i = j

OnceInv == Once(tasks)

\* status_ of a TCPConn, its channel and its context go together.
ConnInv ==
    \A c \in Conns :
        /\ conn[c] = "none" => chan[c] = "idle"
        /\ conn[c] = "connected" => chan[c] = "reading"
        /\ conn[c] = "disconnecting" =>
              chan[c] # "idle" /\ status \in {"stopping", "stopped"}
        /\ chan[c] = "reading" => conn[c] \in {"connected", "disconnecting"} /\ Held(c)
        /\ chan[c] = "closed" => conn[c] \in {"disconnected", "disconnecting"}
        /\ chan[c] # "idle" => home[c] \in Loops
        /\ context[c] => chan[c] = "reading"

\* Where the listening thread is, or where it goes on after StopInLoop and Stop.
Outside == {"init", "start", "started", "poll", "accept", "insert"}
Place == IF at \in Outside THEN at ELSE IF caller = Main THEN resume ELSE "poll"

\* What the threads are working on.
UserInv ==
    /\ \A l \in Loops : attaching[l] # Nobody =>
          chan[attaching[l]] = "reading" /\ home[attaching[l]] = l
    /\ \A w \in Workers : worker[w].at # "idle" =>
          worker[w].conn \in Conns /\ chan[worker[w].conn] # "idle"
    /\ at = "closeStore" => closing \in Conns /\ chan[closing] # "idle"
    /\ at \in {"close", "closeStore"} => status \in {"stopping", "stopped"}
    /\ at = "init" => status = "null"

PlaceInv ==
    /\ Place = "accept" => cur \in Conns /\ conn[cur] = "none"
    /\ Place = "insert" => cur \in Conns
    /\ Place \notin {"accept", "insert"} => cur = Nobody

LinkInv == TaskInv /\ OnceInv /\ ConnInv /\ UserInv /\ ReadersAreServed

\* Before Start nothing is there; Stop is called later, and once.
BootInv ==
    /\ at = "init" =>
          /\ listener = "none" /\ pool = "new" /\ ~ stoppedCb
          /\ \A l \in Loops : thread[l] = "new"
    /\ status = "null" <=> at = "init"
    /\ stop = "none" <=> status \in {"null", "running"}
    /\ stop = "none" <=> caller = Nobody
    /\ caller = Main \/ substatus # "null" => stop \notin {"none", "stored"}

\* A Stop in the listening thread runs to its end before that thread goes on,
\* or never returns if the loop was not running.
HereInv ==
    /\ at \in {"stopInLoop", "wait"} => caller = Main
    /\ at = "stopInLoop" => listener # "none" /\ status = "stopping"
                            /\ resume \notin {"start", "started"}
    /\ caller = Main /\ at \in Outside => stop = "done"
    /\ caller = Main /\ resume \in {"start", "started"} => at = "wait" /\ ~ stopped

\* The listener is attached by one functor and released by StopInLoop, which
\* runs once.
ListenInv ==
    /\ \A b \in Boxes, t \in Tasks : Queued(tasks, b, t) /\ t.op = "listen" =>
          listener = "set" /\ at \notin {"init", "start"}
                           /\ (at = "wait" => resume # "start")
    /\ at = "start" => listener = "set"
    /\ listener = "none" => at = "init" \/ stop \notin {"none", "stored"}
    /\ \A b \in Boxes, t \in Tasks : Queued(tasks, b, t) /\ t.op = "stop" /\ failed = "none" =>
          /\ stop \notin {"none", "stored"} /\ listener # "none"
          /\ caller = Main => at = "wait" /\ resume \in {"start", "started"}

\* The pool is stopped when the last connection is gone, and the callback is
\* called after that.
PoolInv ==
    /\ pool \in {"stopping", "gone"} =>
          /\ connections = {} \/ (Interrupted /\ stop = "done")
          /\ at = "insert" => Interrupted /\ stop = "done"
          /\ stop \notin {"none", "stored"}
    /\ pool = "gone" => \A l \in Loops : thread[l] = "stopped"
    /\ at \in {"callback", "notify", "finish"} \/ status = "stopped" => pool = "gone"
    /\ at = "join" => pool = "stopping"
    /\ at = "callback" => stoppedCb
    /\ at \in {"close", "closeStore"} \/ stoppedCb \/ stopped => listener = "none"
    /\ stopped => pool = "gone" /\ (status = "stopped" \/ at \in {"notify", "finish"})
    /\ stop = "done" => stopped
    /\ status = "stopping" /\ stop # "stored" =>
          substatus = "listener" \/ at \in {"join", "callback", "notify", "finish"}

StopInv == BootInv /\ HereInv /\ ListenInv /\ PoolInv

\* A connection that is closed by StopInLoop is closed by nobody else, unless
\* its peer closes it, too.
RaceInv ==
    /\ at = "init" => \A c \in Conns : chan[c] = "idle"
    /\ pool \in {"stopping", "gone"} /\ listener # "none" =>
          \E c \in Conns : peer[c] = "closed"
    /\ at = "closeStore" => closing \notin todo
    /\ \A b \in Boxes, c \in Conns : Queued(tasks, b, Task("remove", c)) =>
          listener = "none" \/ peer[c] = "closed"
    /\ \A b \in Boxes, c \in Conns : Queued(tasks, b, Task("close", c)) =>
          listener = "none" /\ c \notin todo /\ (at = "closeStore" => c # closing)
    /\ \A c \in Conns : chan[c] = "closed" /\ peer[c] # "closed" =>
          /\ listener = "none" /\ conn[c] = "disconnected" /\ c \notin todo
          /\ at = "closeStore" => c # closing
          /\ \A b \in Boxes : ~ Queued(tasks, b, Task("close", c))

-----------------------------------------------------------------------------
(* Queues of functors. *)

Mailboxes == [Boxes -> Seq(Tasks)]

\* r is q with the functor t put at the end of the queue of loop l.
Grown(q, r, l, t) ==
    /\ \A m \in Boxes : m # l => r[m] = q[m]
    /\ \A i \in DOMAIN q[l] : i \in DOMAIN r[l] /\ r[l][i] = q[l][i]
    /\ \A i \in DOMAIN r[l] : i \notin DOMAIN q[l] => i = Len(q[l]) + 1 /\ r[l][i] = t

\* r is q without the first functor of loop l.
Shrunk(q, r, l) ==
    /\ \A m \in Boxes : m # l => r[m] = q[m]
    /\ \A i \in DOMAIN r[l] : i + 1 \in DOMAIN q[l] /\ i + 1 # 1 /\ r[l][i] = q[l][i + 1]

LEMMA Appended ==
    ASSUME NEW q \in Mailboxes, NEW l \in Boxes, NEW t \in Tasks,
           NEW r, r = [q EXCEPT ![l] = Append(@, t)]
    PROVE  r \in Mailboxes /\ Grown(q, r, l, t)
<1>1. q[l] \in Seq(Tasks) /\ r[l] = Append(q[l], t)
    BY DEF Mailboxes
<1>2. r[l] \in Seq(Tasks)
    BY <1>1
<1>3. r \in Mailboxes
    BY <1>1, <1>2 DEF Mailboxes
<1>4. /\ \A i \in DOMAIN q[l] : i \in DOMAIN r[l] /\ r[l][i] = q[l][i]
      /\ \A i \in DOMAIN r[l] : i \notin DOMAIN q[l] => i = Len(q[l]) + 1 /\ r[l][i] = t
    BY <1>1
<1>5. \A m \in Boxes : m # l => r[m] = q[m]
    BY DEF Mailboxes
<1> QED
    BY <1>3, <1>4, <1>5 DEF Grown

LEMMA TailOf ==
    ASSUME NEW T, NEW s \in Seq(T), s # <<>>
    PROVE  /\ Head(s) \in T /\ Head(s) = s[1] /\ 1 \in DOMAIN s /\ Tail(s) \in Seq(T)
           /\ \A i \in DOMAIN Tail(s) : i + 1 \in DOMAIN s /\ i + 1 # 1
                                         /\ Tail(s)[i] = s[i + 1]
OBVIOUS

LEMMA Popped ==
    ASSUME NEW q \in Mailboxes, NEW l \in Boxes, q[l] # <<>>,
           NEW r, r = [q EXCEPT ![l] = Tail(@)]
    PROVE  /\ r \in Mailboxes /\ Shrunk(q, r, l)
           /\ Head(q[l]) \in Tasks /\ 1 \in DOMAIN q[l] /\ Head(q[l]) = q[l][1]
<1>1. q[l] \in Seq(Tasks) /\ r[l] = Tail(q[l])
    BY DEF Mailboxes
<1>2. r[l] \in Seq(Tasks)
    BY <1>1, TailOf
<1>3. r \in Mailboxes
    BY <1>1, <1>2 DEF Mailboxes
<1>4. \A i \in DOMAIN r[l] : i + 1 \in DOMAIN q[l] /\ i + 1 # 1 /\ r[l][i] = q[l][i + 1]
  <2>1. \A i \in DOMAIN Tail(q[l]) : i + 1 \in DOMAIN q[l] /\ i + 1 # 1 /\ Tail(q[l])[i] = q[l][i + 1]
      BY <1>1, TailOf
  <2> QED
      BY <1>1, <2>1
<1>5. \A m \in Boxes : m # l => r[m] = q[m]
    BY DEF Mailboxes
<1>6. Head(q[l]) \in Tasks /\ 1 \in DOMAIN q[l] /\ Head(q[l]) = q[l][1]
    BY <1>1, TailOf
<1> QED
    BY <1>3, <1>4, <1>5, <1>6 DEF Shrunk

LEMMA TaskType ==
    ASSUME NEW op \in {"listen", "stop", "quit", "attach", "close", "remove", "send"},
           NEW c \in Conns \cup {Nobody}
    PROVE  Task(op, c) \in Tasks /\ Task(op, c).op = op /\ Task(op, c).conn = c
BY DEF Task, Tasks

LEMMA TaskIs == \A t, u \in Tasks : t.op = u.op /\ t.conn = u.conn => t = u
BY DEF Tasks

LEMMA TaskFields == \A t \in Tasks : t.conn \in Conns \cup {Nobody}
BY DEF Tasks

\* The boxes of the pool that the listening thread fills.
FromMain == {b \in Boxes : b[1] # Main /\ b[2] = Main}

\* StopThreadPool's functors: one more for each thread of the pool.
LEMMA QuitQueued ==
    ASSUME NEW q \in Mailboxes, NEW r,
           r = [b \in Boxes |-> IF b[1] # Main /\ b[2] = Main
                               THEN Append(q[b], Task("quit", Nobody)) ELSE q[b]]
    PROVE  /\ r \in Mailboxes /\ \A b \in Boxes \ FromMain : r[b] = q[b]
           /\ \A b \in FromMain : Grown(q, [q EXCEPT ![b] = r[b]], b, Task("quit", Nobody))
<1>2. Task("quit", Nobody) \in Tasks
    BY TaskType
<1>3. \A b \in Boxes : r[b] = IF b \in FromMain THEN Append(q[b], Task("quit", Nobody)) ELSE q[b]
    BY DEF FromMain
<1>4. r \in Mailboxes
  <2>1. ASSUME NEW b \in Boxes PROVE r[b] \in Seq(Tasks)
    <3>1. q[b] \in Seq(Tasks)
        BY DEF Mailboxes
    <3> QED
        BY <1>2, <1>3, <3>1
  <2>2. r = [b \in Boxes |-> r[b]]
      OBVIOUS
  <2> QED
      BY <2>1, <2>2 DEF Mailboxes
<1>5. ASSUME NEW b \in FromMain PROVE Grown(q, [q EXCEPT ![b] = r[b]], b, Task("quit", Nobody))
  <2>0. b \in Boxes
      BY DEF FromMain
  <2>1. [q EXCEPT ![b] = r[b]] = [q EXCEPT ![b] = Append(@, Task("quit", Nobody))]
      BY <1>3, <2>0 DEF Mailboxes
  <2> QED
      BY <1>2, <2>0, <2>1, Appended
<1> QED
    BY <1>3, <1>4, <1>5

LEMMA GrownQueue ==
    ASSUME NEW q \in Mailboxes, NEW r \in Mailboxes, NEW l \in Boxes, NEW t \in Tasks,
           Grown(q, r, l, t)
    PROVE  /\ \A m \in Boxes, u \in Tasks :
                 Queued(r, m, u) => Queued(q, m, u) \/ (m = l /\ u = t)
           /\ Once(q) /\ (t.op \in Single => ~ Queued(q, l, t)) => Once(r)
<1>1. \A m \in Boxes, u \in Tasks :
          Queued(r, m, u) => Queued(q, m, u) \/ (m = l /\ u = t)
    BY DEF Grown, Queued
<1>2. ASSUME Once(q), t.op \in Single => ~ Queued(q, l, t),
             NEW m \in Boxes, NEW i \in DOMAIN r[m], NEW j \in DOMAIN r[m],
             r[m][i] = r[m][j], r[m][i].op \in Single
      PROVE  i = j
    BY <1>2 DEF Grown, Queued, Once
<1> QED
    BY <1>1, <1>2 DEF Once

LEMMA ShrunkQueue ==
    ASSUME NEW q \in Mailboxes, NEW r \in Mailboxes, NEW l \in Boxes,
           1 \in DOMAIN q[l], Shrunk(q, r, l)
    PROVE  /\ \A m \in Boxes, u \in Tasks : Queued(r, m, u) => Queued(q, m, u)
           /\ Queued(q, l, q[l][1])
           /\ Once(q) => Once(r)
           /\ Once(q) /\ q[l][1].op \in Single => ~ Queued(r, l, q[l][1])
<1>1. /\ \A m \in Boxes, u \in Tasks : Queued(r, m, u) => Queued(q, m, u)
      /\ Queued(q, l, q[l][1])
    BY DEF Shrunk, Queued
<1>2. DOMAIN r[l] \subseteq Nat
    BY DEF Mailboxes
<1>3. ASSUME Once(q), NEW m \in Boxes, NEW i \in DOMAIN r[m], NEW j \in DOMAIN r[m],
             r[m][i] = r[m][j], r[m][i].op \in Single
      PROVE  i = j
  <2>1. CASE m = l
      BY <1>2, <1>3, <2>1 DEF Shrunk, Once
  <2>2. CASE m # l
      BY <1>3, <2>2 DEF Shrunk, Once
  <2> QED
      BY <2>1, <2>2
<1>4. ASSUME Once(q), q[l][1].op \in Single, Queued(r, l, q[l][1])
      PROVE  FALSE
    BY <1>4 DEF Shrunk, Once, Queued
<1> QED
    BY <1>1, <1>3, <1>4 DEF Once

LEMMA OnceFrom ==
    ASSUME NEW r, \A m \in Boxes : \E p : Once(p) /\ p[m] = r[m]
    PROVE  Once(r)
<1> SUFFICES ASSUME NEW m \in Boxes, NEW i \in DOMAIN r[m], NEW j \in DOMAIN r[m],
                    r[m][i] = r[m][j], r[m][i].op \in Single
             PROVE  i = j
    BY DEF Once
<1>1. PICK p : Once(p) /\ p[m] = r[m]
    OBVIOUS
<1> QED
    BY <1>1 DEF Once

LEMMA QuitQueue ==
    ASSUME NEW q \in Mailboxes, NEW r,
           r = [b \in Boxes |-> IF b[1] # Main /\ b[2] = Main
                               THEN Append(q[b], Task("quit", Nobody)) ELSE q[b]]
    PROVE  /\ r \in Mailboxes
           /\ \A b \in Boxes, u \in Tasks :
                 Queued(r, b, u) => Queued(q, b, u) \/ (b \in FromMain /\ u = Task("quit", Nobody))
           /\ Once(q) => Once(r)
<1>2. r \in Mailboxes /\ \A b \in Boxes \ FromMain : r[b] = q[b]
    BY QuitQueued
<1>3. Task("quit", Nobody) \in Tasks /\ Task("quit", Nobody).op = "quit"
    BY TaskType
<1>4. ASSUME NEW m \in Boxes
      PROVE  /\ \A u \in Tasks : Queued(r, m, u) =>
                    Queued(q, m, u) \/ (m \in FromMain /\ u = Task("quit", Nobody))
             /\ Once(q) => \E p : Once(p) /\ p[m] = r[m]
  <2>1. CASE m \notin FromMain
      BY <1>2, <2>1 DEF Queued
  <2>2. CASE m \in FromMain
    <3> DEFINE p == [q EXCEPT ![m] = r[m]]
    <3>1. Grown(q, p, m, Task("quit", Nobody)) /\ p \in Mailboxes /\ p[m] = r[m]
        BY <1>2, <2>2, QuitQueued DEF Mailboxes
    <3> HIDE DEF p
    <3>2. /\ \A u \in Tasks : Queued(p, m, u) => Queued(q, m, u) \/ u = Task("quit", Nobody)
          /\ Once(q) => Once(p)
        BY <1>3, <3>1, GrownQueue DEF Single
    <3>3. \A u \in Tasks : Queued(r, m, u) <=> Queued(p, m, u)
        BY <3>1 DEF Queued
    <3> QED
        BY <2>2, <3>1, <3>2, <3>3
  <2> QED
      BY <2>1, <2>2
<1>5. Once(q) => Once(r)
    BY <1>4, OnceFrom
<1> QED
    BY <1>2, <1>4, <1>5

\* The boxes of the model are there.
LEMMA BoxesAre ==
    /\ \A l \in Loops : /\ l # Main
                        /\ <<l, Main>> \in Boxes /\ <<l, Main>> \in FromMain
                        /\ <<Main, l>> \in Boxes /\ <<Main, l>> \notin FromMain
                        /\ \A w \in Workers : <<l, w>> \in Boxes
    /\ <<Main, Main>> \in Boxes /\ <<Main, Other>> \in Boxes
    /\ \A b \in Boxes : b[1] # Main => b[1] \in Loops
BY ServerThreads DEF Boxes, FromMain

-----------------------------------------------------------------------------
(* Types. *)

\* Queue puts a functor at the end of its box.
LEMMA OneMore ==
    ASSUME tasks \in Mailboxes, NEW l, NEW m, <<l, m>> \in Boxes, NEW t \in Tasks, Queue(l, m, t)
    PROVE  tasks' \in Mailboxes /\ Grown(tasks, tasks', <<l, m>>, t)
BY Appended DEF Queue

\* The first functor of a box, and the queues without it.
LEMMA FirstFunctor ==
    ASSUME TypeOK, LinkInv, NEW l, NEW m, <<l, m>> \in Boxes, tasks[<<l, m>>] # <<>>
    PROVE  /\ Taken(l, m) \in Mailboxes /\ Once(Taken(l, m)) /\ Head(tasks[<<l, m>>]) \in Tasks
           /\ 1 \in DOMAIN tasks[<<l, m>>] /\ Head(tasks[<<l, m>>]) = tasks[<<l, m>>][1]
           /\ \A b \in Boxes, u \in Tasks : Queued(Taken(l, m), b, u) => Queued(tasks, b, u)
           /\ Queued(tasks, <<l, m>>, Head(tasks[<<l, m>>]))
           /\ TaskOK(<<l, m>>, Head(tasks[<<l, m>>]))
           /\ Head(tasks[<<l, m>>]).op \in Single =>
                 ~ Queued(Taken(l, m), <<l, m>>, Head(tasks[<<l, m>>]))
<1>0. tasks \in Mailboxes /\ Once(tasks)
    BY DEF TypeOK, Mailboxes, LinkInv, OnceInv
<1> DEFINE k == <<l, m>>
           q == Taken(l, m)
<1>a. k \in Boxes /\ tasks[k] # <<>> /\ q = [tasks EXCEPT ![k] = Tail(@)]
    BY DEF Taken
<1> HIDE DEF k, q
<1>1. /\ q \in Mailboxes /\ Shrunk(tasks, q, k)
      /\ Head(tasks[k]) \in Tasks /\ 1 \in DOMAIN tasks[k] /\ Head(tasks[k]) = tasks[k][1]
    BY <1>0, <1>a, Popped
<1>2. Queued(tasks, k, Head(tasks[k])) /\ Once(q)
    BY <1>0, <1>1, <1>a, ShrunkQueue
<1>3. TaskOK(k, Head(tasks[k]))
    BY <1>1, <1>2, <1>a DEF LinkInv, TaskInv
<1>4. \A b \in Boxes, u \in Tasks : Queued(q, b, u) => Queued(tasks, b, u)
    BY <1>0, <1>1, <1>a, ShrunkQueue
<1>5. Head(tasks[k]).op \in Single => ~ Queued(q, k, Head(tasks[k]))
    BY <1>0, <1>1, <1>a, ShrunkQueue
<1> QED
    BY <1>1, <1>2, <1>3, <1>4, <1>5 DEF k, q

LEMMA TypeStep == TypeOK /\ LinkInv /\ PlaceInv /\ StopInv /\ [Next]_vars => TypeOK'
<1> SUFFICES ASSUME TypeOK, LinkInv, PlaceInv, StopInv, [Next]_vars PROVE TypeOK'
    OBVIOUS
<1>a. tasks \in Mailboxes
    BY DEF TypeOK, Mailboxes
<1>b. ASSUME tasks' \in Mailboxes PROVE tasks' \in [Boxes -> Seq(Tasks)]
    BY <1>b DEF Mailboxes
<1>c. ASSUME NEW l, NEW m, <<l, m>> \in Boxes, tasks[<<l, m>>] # <<>>
      PROVE  Taken(l, m) \in Mailboxes /\ Head(tasks[<<l, m>>]) \in Tasks
    BY <1>a, <1>c, Popped DEF Taken
<1>d. ASSUME NEW q \in Mailboxes, StopThreadPool(q)
      PROVE  /\ tasks' \in Mailboxes \cup {tasks} /\ substatus' \in {"null", "listener", "pool"}
             /\ pool' \in {"new", "running", "stopping", "gone"} /\ at' \in {at, "join"}
             /\ failed' \in {failed, "IsStopping"}
    BY <1>d, QuitQueued DEF StopThreadPool, TypeOK
<1>e. ASSUME NEW c \in Conns, home[c] \in Loops, NEW q \in Mailboxes, HandleClose(c, q)
      PROVE  /\ tasks' \in Mailboxes \cup {tasks} /\ failed' \in {failed, "channel"}
             /\ conn' \in [Conns -> {"none", "disconnected", "connected", "disconnecting", "refused"}]
             /\ chan' \in [Conns -> {"idle", "reading", "closed"}]
             /\ context' \in [Conns -> BOOLEAN]
  <2>1. tasks' \in Mailboxes \cup {tasks}
    <3>1. <<Main, home[c]>> \in Boxes /\ Task("remove", c) \in Tasks
        BY <1>e, BoxesAre, TaskType
    <3> QED
        BY <1>e, <3>1, Appended DEF HandleClose
  <2> QED
      BY <1>e, <2>1 DEF HandleClose, TypeOK
<1> USE DEF serverVars, poolVars, connVars, mainVars, stopVars, workers
<1>1. ASSUME NEW c \in Conns, Connect(c) \/ Disconnect(c) PROVE TypeOK'
    BY <1>1 DEF Connect, Disconnect, TypeOK
<1>2. ASSUME Start PROVE TypeOK'
    BY <1>2 DEF Start, TypeOK
<1>2a. ASSUME Accept PROVE TypeOK'
  <2>1. tasks' \in Mailboxes
      BY <1>2a, <1>a, BoxesAre, Appended, TaskType DEF Accept, Queue
  <2> QED
      BY <1>2a, <1>b, <2>1 DEF Accept, TypeOK
<1>2b. ASSUME Insert PROVE TypeOK'
  <2>1. cur \in Conns
      BY <1>2b DEF Insert, PlaceInv, Place, Outside
  <2> QED
      BY <1>2b, <2>1 DEF Insert, TypeOK
<1>3. ASSUME Run \/ CloseDone \/ Callback \/ NotifyOne \/ Finish PROVE TypeOK'
  <2>1. CASE Run
      BY <2>1 DEF Run, TypeOK
  <2>2. CASE CloseDone
      BY <2>2 DEF CloseDone, Back, TypeOK
  <2>3. CASE Callback
    <3>1. stopped' \in BOOLEAN /\ stoppedCb' \in BOOLEAN
        BY <2>3, Zenon DEF Callback
    <3> QED
        BY <2>3, <3>1 DEF Callback, TypeOK
  <2>4. CASE NotifyOne
      BY <2>4 DEF NotifyOne, TypeOK
  <2>5. CASE Finish
      BY <2>5 DEF Finish, Back, TypeOK
  <2> QED
      BY <1>3, <2>1, <2>2, <2>3, <2>4, <2>5
<1>4. ASSUME Listen PROVE TypeOK'
  <2>1. tasks' \in Mailboxes
      BY <1>4, <1>c, BoxesAre DEF Listen, IsNext
  <2> QED
      BY <1>4, <1>b, <2>1 DEF Listen, TypeOK
<1>5. ASSUME NEW c \in Conns, HandleNewConn(c) \/ CloseNext(c) PROVE TypeOK'
    BY <1>5 DEF HandleNewConn, CloseNext, TypeOK
<1>6. ASSUME NEW l \in Loops, NewConn(l) PROVE TypeOK'
  <2>1. cur \in Conns
      BY <1>6 DEF NewConn, PlaceInv, Place, Outside
  <2>2. tasks' \in Mailboxes \cup {tasks}
    <3>1. <<l, Main>> \in Boxes /\ Task("attach", cur) \in Tasks
        BY <2>1, BoxesAre, TaskType
    <3>2. tasks' = tasks \/ Queue(l, Main, Task("attach", cur))
        BY <1>6 DEF NewConn
    <3> QED
        BY <1>a, <3>1, <3>2, OneMore
  <2>3. /\ conn' \in [Conns -> {"none", "disconnected", "connected", "disconnecting", "refused"}]
        /\ home' \in [Conns -> Loops \cup {Nobody}]
      BY <1>6 DEF NewConn, TypeOK
  <2>4. at' \in {at, "insert"} /\ failed' \in {failed, "IsRunning"}
      BY <1>6, <2>1 DEF NewConn, TypeOK
  <2> QED
      BY <1>6, <1>a, <1>b, <2>2, <2>3, <2>4 DEF NewConn, TypeOK
<1>7. ASSUME StopInLoop PROVE TypeOK'
  <2> DEFINE q == IF at = "poll" THEN Taken(Main, caller) ELSE tasks
  <2>1. q \in Mailboxes
    <3>1. at = "poll" => caller # Nobody /\ tasks[<<Main, caller>>] # <<>>
        BY <1>7 DEF StopInLoop, IsNext
    <3>2. caller # Nobody => <<Main, caller>> \in Boxes
        BY BoxesAre DEF TypeOK
    <3> QED
        BY <1>a, <1>c, <3>1, <3>2
  <2>2. CASE listener # "listening"
      BY <1>7, <2>2 DEF StopInLoop, TypeOK
  <2>3. CASE listener = "listening" /\ connections = {}
    <3>1. /\ StopThreadPool(q) /\ listener' = "none" /\ stoppedCb' = TRUE
          /\ UNCHANGED <<todo, status, connections, thread, connVars, peer, attaching, cur, closing,
                         stopVars, workers>>
        BY <1>7, <2>3 DEF StopInLoop
    <3> HIDE DEF q
    <3> QED
        BY <1>a, <1>b, <1>d, <2>1, <3>1 DEF TypeOK
  <2>4. CASE listener = "listening" /\ connections # {}
    <3>1. /\ todo' = connections /\ at' = "close" /\ tasks' = q /\ listener' = "none"
          /\ UNCHANGED <<substatus, stoppedCb, pool, failed, status, connections, thread,
                         connVars, peer, attaching, cur, closing, stopVars, workers>>
        BY <1>7, <2>4 DEF StopInLoop
    <3> HIDE DEF q
    <3> QED
        BY <1>b, <2>1, <3>1 DEF TypeOK
  <2> QED
      BY <2>2, <2>3, <2>4
<1>8. ASSUME Close PROVE TypeOK'
  <2>1. closing \in Conns /\ <<home[closing], Main>> \in Boxes
      BY <1>8, BoxesAre DEF Close, LinkInv, UserInv, ConnInv
  <2>2. tasks' \in Mailboxes
      BY <1>8, <1>a, <2>1, Appended, TaskType DEF Close, Queue
  <2>3. conn' \in [Conns -> {"none", "disconnected", "connected", "disconnecting", "refused"}]
      BY <1>8 DEF Close, TypeOK
  <2> QED
      BY <1>8, <1>b, <2>2, <2>3 DEF Close, TypeOK
<1>9. ASSUME NEW l \in Loops, RemoveConnection(l) PROVE TypeOK'
  <2>1. Taken(Main, l) \in Mailboxes /\ connections' \subseteq Conns
      BY <1>9, <1>c, BoxesAre DEF RemoveConnection, IsNext, TypeOK
  <2>2. /\ tasks' \in Mailboxes /\ substatus' \in {"null", "listener", "pool"}
        /\ pool' \in {"new", "running", "stopping", "gone"} /\ at' \in {at, "join"}
        /\ failed' \in {failed, "IsStopping", "substatus"}
      BY <1>9, <1>a, <1>d, <2>1 DEF RemoveConnection, TypeOK
  <2> QED
      BY <1>9, <1>b, <2>1, <2>2 DEF RemoveConnection, TypeOK
<1>10. ASSUME Join PROVE TypeOK'
  <2>1. tasks' \in Mailboxes
      BY <1>10, <1>a DEF Join, Mailboxes
  <2> QED
      BY <1>10, <1>b, <2>1 DEF Join, TypeOK
<1>11. ASSUME NEW l \in Loops, OnAttachedToLoop(l) PROVE TypeOK'
  <2>1. tasks' \in Mailboxes /\ Head(tasks[<<l, Main>>]).conn \in Conns \cup {Nobody}
      BY <1>11, <1>c, BoxesAre, TaskFields DEF OnAttachedToLoop, IsNext
  <2>2. /\ conn' \in [Conns -> {"none", "disconnected", "connected", "disconnecting", "refused"}]
        /\ chan' \in [Conns -> {"idle", "reading", "closed"}]
        /\ attaching' \in [Loops -> Conns \cup {Nobody}]
      BY <1>11, <2>1 DEF OnAttachedToLoop, TypeOK
  <2> QED
      BY <1>11, <1>b, <2>1, <2>2 DEF OnAttachedToLoop, TypeOK
<1>12. ASSUME NEW l \in Loops, OnConnection(l) PROVE TypeOK'
    BY <1>12 DEF OnConnection, TypeOK
<1>13. ASSUME NEW l \in Loops, NEW m, NEW c \in Conns, <<l, m>> \in Boxes, home[c] = l,
              tasks[<<l, m>>] # <<>>, c = Head(tasks[<<l, m>>]).conn,
              HandleClose(c, Taken(l, m))
                  \/ (tasks' \in {tasks, Taken(l, m)} /\ UNCHANGED <<conn, chan, context>>
                      /\ failed' \in {failed, "closing"}),
              UNCHANGED <<serverVars, poolVars, home, peer, attaching, mainVars, stopVars, workers>>
       PROVE  TypeOK'
  <2>1. Taken(l, m) \in Mailboxes
      BY <1>13, <1>c
  <2>2. /\ tasks' \in Mailboxes /\ failed' \in {failed, "channel", "closing"}
        /\ conn' \in [Conns -> {"none", "disconnected", "connected", "disconnecting", "refused"}]
        /\ chan' \in [Conns -> {"idle", "reading", "closed"}]
        /\ context' \in [Conns -> BOOLEAN]
    <3>1. CASE HandleClose(c, Taken(l, m))
        BY <1>13, <1>a, <1>e, <2>1, <3>1
    <3>2. CASE ~ HandleClose(c, Taken(l, m))
        BY <1>13, <1>a, <2>1, <3>2 DEF TypeOK
    <3> QED
        BY <3>1, <3>2
  <2> QED
      BY <1>13, <1>b, <2>2 DEF TypeOK
<1>13a. ASSUME NEW l \in Loops, CloseFunctor(l) PROVE TypeOK'
  <2>1. PICK c : c = Head(tasks[<<l, Main>>]).conn
      OBVIOUS
  <2>2. tasks[<<l, Main>>] # <<>> /\ c \in Conns /\ home[c] = l
    <3>1. tasks[<<l, Main>>] # <<>> /\ Head(tasks[<<l, Main>>]).op = "close"
        BY <1>13a DEF CloseFunctor, IsNext
    <3>2. TaskOK(<<l, Main>>, Head(tasks[<<l, Main>>]))
        BY <3>1, BoxesAre, FirstFunctor
    <3> QED
        BY <2>1, <3>1, <3>2 DEF TaskOK
  <2> QED
    <3>1. /\ HandleClose(c, Taken(l, Main))
             \/ (tasks' \in {tasks, Taken(l, Main)} /\ UNCHANGED <<conn, chan, context>>
                 /\ failed' \in {failed, "closing"})
          /\ UNCHANGED <<serverVars, poolVars, home, peer, attaching, mainVars, stopVars, workers>>
        BY <1>13a, <2>1 DEF CloseFunctor
    <3>2. <<l, Main>> \in Boxes
        BY BoxesAre
    <3> QED
        BY <1>13, <2>1, <2>2, <3>1, <3>2
<1>13b. ASSUME NEW l \in Loops, NEW w \in Workers, SendInLoop(l, w) PROVE TypeOK'
  <2>1. PICK c : c = Head(tasks[<<l, w>>]).conn
      OBVIOUS
  <2>2. tasks[<<l, w>>] # <<>> /\ c \in Conns /\ home[c] = l
    <3>1. tasks[<<l, w>>] # <<>> /\ Head(tasks[<<l, w>>]).op = "send"
        BY <1>13b DEF SendInLoop, IsNext
    <3>2. TaskOK(<<l, w>>, Head(tasks[<<l, w>>]))
        BY <3>1, BoxesAre, FirstFunctor
    <3> QED
        BY <2>1, <3>1, <3>2 DEF TaskOK
  <2> QED
    <3>1. /\ HandleClose(c, Taken(l, w))
             \/ (tasks' \in {tasks, Taken(l, w)} /\ UNCHANGED <<conn, chan, context>>
                 /\ failed' \in {failed, "closing"})
          /\ UNCHANGED <<serverVars, poolVars, home, peer, attaching, mainVars, stopVars, workers>>
        BY <1>13b, <2>1 DEF SendInLoop
    <3>2. <<l, w>> \in Boxes
        BY BoxesAre
    <3> QED
        BY <1>13, <2>1, <2>2, <3>1, <3>2
<1>14. ASSUME NEW l \in Loops, NEW c \in Conns, HandleEnd(l, c) PROVE TypeOK'
    BY <1>14, <1>a, <1>b, <1>e DEF HandleEnd, TypeOK
<1>15. ASSUME NEW l \in Loops, NEW c \in Conns, NEW w \in Workers, OnMessage(l, c, w)
       PROVE  TypeOK'
    BY <1>15, ServerThreads DEF OnMessage, TypeOK
<1>16. ASSUME NEW l \in Loops, Quit(l) PROVE TypeOK'
  <2>1. tasks' \in Mailboxes
    <3>1. tasks' = tasks \/ (tasks[<<l, Main>>] # <<>> /\ tasks' = Taken(l, Main))
        BY <1>16 DEF Quit, IsNext
    <3>2. <<l, Main>> \in Boxes
        BY BoxesAre
    <3> QED
        BY <1>a, <1>c, <3>1, <3>2
  <2>2. thread' \in [Loops -> {"new", "run", "quitting", "stopped"}]
    <3>1. thread' \in {[thread EXCEPT ![l] = "quitting"], [thread EXCEPT ![l] = "stopped"]}
        BY <1>16 DEF Quit
    <3> QED
        BY <3>1 DEF TypeOK
  <2> QED
      BY <1>16, <1>b, <2>1, <2>2 DEF Quit, TypeOK
<1>17. ASSUME Stop(Other) \/ (\E l \in Loops : Stop(l)) \/ StopHere \/ WaitTest \/ WaitBlock \/ WakeUp PROVE TypeOK'
  <2>1. CASE Stop(Other) \/ \E l \in Loops : Stop(l)
      BY <2>1 DEF Stop, TypeOK
  <2>2. CASE StopHere
    <3>1. tasks' \in Mailboxes
      <4>1. tasks' = tasks \/ Queue(Main, Main, Task("stop", Nobody))
          BY <2>2 DEF StopHere
      <4>2. <<Main, Main>> \in Boxes /\ Task("stop", Nobody) \in Tasks
          BY BoxesAre, TaskType
      <4> QED
          BY <1>a, <4>1, <4>2, OneMore
    <3> QED
        BY <1>b, <2>2, <3>1 DEF StopHere, TypeOK
  <2>3. CASE WaitTest
      BY <2>3 DEF WaitTest, TypeOK
  <2>4. CASE WaitBlock
      BY <2>4 DEF WaitBlock, TypeOK
  <2>5. CASE WakeUp
      BY <2>5 DEF WakeUp, TypeOK
  <2> QED
      BY <1>17, <2>1, <2>2, <2>3, <2>4, <2>5
<1>18. ASSUME StopQueues PROVE TypeOK'
  <2>1. tasks' \in Mailboxes
    <3>1. <<Main, caller>> \in Boxes
        BY <1>18, BoxesAre DEF StopQueues, TypeOK, StopInv, BootInv
    <3> QED
        BY <1>18, <1>a, <3>1, Appended, TaskType DEF StopQueues, Queue
  <2> QED
      BY <1>18, <1>b, <2>1 DEF StopQueues, TypeOK
<1>19. ASSUME NEW w \in Workers, WorkerStep(w) PROVE TypeOK'
  <2>1. ASSUME NEW where \in {"idle", "test", "send", "queue"}, Does(w, where)
        PROVE  worker' \in [Workers -> [at : {"idle", "test", "send", "queue"},
                                        conn : Conns \cup {Nobody}]]
      BY <2>1 DEF Does, TypeOK
  <2>2. CASE PostTest(w)
      BY <2>1, <2>2 DEF PostTest, TypeOK
  <2>3. CASE PostQueue(w)
    <3>1. worker[w].conn \in Conns /\ <<home[worker[w].conn], w>> \in Boxes
        BY <2>3, BoxesAre DEF PostQueue, LinkInv, UserInv, ConnInv
    <3>2. tasks' \in Mailboxes
      <4>1. tasks' = tasks \/ Queue(home[worker[w].conn], w, Task("send", worker[w].conn))
          BY <2>3 DEF PostQueue
      <4>2. Task("send", worker[w].conn) \in Tasks
          BY <3>1, TaskType
      <4> QED
          BY <1>a, <3>1, <4>1, <4>2, OneMore
    <3> QED
        BY <1>b, <2>1, <2>3, <3>2 DEF PostQueue, TypeOK
  <2> QED
      BY <1>19, <2>2, <2>3 DEF WorkerStep
<1>20. ASSUME UNCHANGED vars PROVE TypeOK'
    BY <1>20 DEF vars, TypeOK
<1> QED
    BY <1>1, <1>2, <1>2a, <1>2b, <1>3, <1>4, <1>5, <1>6, <1>7, <1>8, <1>9, <1>10, <1>11, <1>12, <1>13a, <1>13b,
       <1>14, <1>15, <1>16, <1>17, <1>18, <1>19, <1>20
    DEF Next, MainStep, StopStep, PoolStep

-----------------------------------------------------------------------------
(* Connections. *)

\* Steps that leave connections and functors alone.
LEMMA LinkStays ==
    ASSUME LinkInv,
           UNCHANGED <<tasks, conn, chan, home, context, connections, attaching, worker, cur>>,
           caller' = caller \/ \A b \in Boxes, u \in Tasks : Queued(tasks, b, u) => u.op # "stop",
           status' = status \/ status' \in {"stopping", "stopped"},
           at' = "closeStore" => at' = at /\ closing' = closing,
           at' \in {"close", "closeStore"} =>
               at \in {"close", "closeStore"} \/ status' \in {"stopping", "stopped"},
           at' = "init" => at = "init" /\ status' = status
    PROVE  LinkInv'
<1> USE DEF LinkInv
<1>1. TaskInv'
  <2> SUFFICES ASSUME NEW b \in Boxes, NEW u \in Tasks, Queued(tasks', b, u) PROVE TaskOK(b, u)'
      BY DEF TaskInv
  <2>1. Queued(tasks, b, u) /\ TaskOK(b, u)
      BY DEF TaskInv, Queued
  <2> QED
      BY <2>1 DEF TaskOK, Held
<1>2. OnceInv'
    BY DEF OnceInv, Once
<1>3. ConnInv'
    BY DEF ConnInv, Held
<1>4. UserInv'
    BY DEF UserInv
<1>5. ReadersAreServed'
    BY DEF ReadersAreServed
<1> QED
    BY <1>1, <1>2, <1>3, <1>4, <1>5

\* Steps that only move functors, and connections into connections_ or out of it.
LEMMA LinkMoves ==
    ASSUME LinkInv, Once(tasks'),
           \A m \in Boxes, u \in Tasks :
               Queued(tasks', m, u) => Queued(tasks, m, u) \/ TaskOK(m, u)',
           UNCHANGED <<conn, chan, home, context, attaching>>,
           caller' = caller \/ \A b \in Boxes, u \in Tasks : Queued(tasks, b, u) => u.op # "stop",
           status' = status \/ status' \in {"stopping", "stopped"},
           worker' = worker \/ \A w \in Workers : worker'[w].at # "idle" =>
               worker'[w].conn \in Conns /\ chan[worker'[w].conn] # "idle",
           \A c \in Conns : Held(c) /\ chan[c] # "closed" => Held(c)',
           at' = "closeStore" => at' = at /\ closing' = closing,
           at' \in {"close", "closeStore"} =>
               at \in {"close", "closeStore"} \/ status' \in {"stopping", "stopped"},
           at' = "init" => at = "init" /\ status' = status
    PROVE  LinkInv'
<1> USE DEF LinkInv
<1>1. TaskInv'
  <2> SUFFICES ASSUME NEW b \in Boxes, NEW u \in Tasks, Queued(tasks, b, u) PROVE TaskOK(b, u)'
      BY DEF TaskInv
  <2>1. TaskOK(b, u)
      BY DEF TaskInv
  <2> HIDE DEF LinkInv
  <2> QED
      BY <2>1 DEF TaskOK
<1>2. OnceInv'
    BY DEF OnceInv
<1>3. ConnInv'
    BY DEF ConnInv
<1>4. UserInv'
    BY DEF UserInv
<1>5. ReadersAreServed'
    BY DEF ReadersAreServed
<1> QED
    BY <1>1, <1>2, <1>3, <1>4, <1>5

\* HandleClose in the thread of the connection's loop.
LEMMA LinkCloses ==
    ASSUME TypeOK, LinkInv, NEW l \in Loops, NEW c \in Conns, NEW q \in Mailboxes,
           Free(l), home[c] = l, chan[c] # "idle", HandleClose(c, q),
           Once(q), \A m \in Boxes, u \in Tasks : Queued(q, m, u) => Queued(tasks, m, u),
           UNCHANGED <<home, connections, attaching, worker, status, at, cur, closing, caller>>
    PROVE  LinkInv'
<1> USE DEF LinkInv
<1>1. CASE chan[c] = "closed"
  <2>1. UNCHANGED <<tasks, conn, chan, context>>
      BY <1>1 DEF HandleClose
  <2> QED
      BY <2>1, LinkStays
<1>2. CASE chan[c] # "closed"
  <2>0. /\ <<Main, l>> \in Boxes /\ Task("remove", c) \in Tasks
        /\ Task("remove", c).op = "remove" /\ Task("remove", c).conn = c
      BY TaskType, BoxesAre
  <2>1. /\ tasks' = [q EXCEPT ![<<Main, l>>] = Append(@, Task("remove", c))]
        /\ chan' = [chan EXCEPT ![c] = "closed"]
        /\ context' = [context EXCEPT ![c] = FALSE]
        /\ conn' = [conn EXCEPT ![c] = "disconnected"]
      BY <1>2 DEF HandleClose
  <2>2. tasks' \in Mailboxes /\ Grown(q, tasks', <<Main, l>>, Task("remove", c))
      BY <2>0, <2>1, Appended
  <2>3. /\ Once(tasks')
        /\ \A m \in Boxes, u \in Tasks : Queued(tasks', m, u) =>
              Queued(tasks, m, u) \/ (m = <<Main, l>> /\ u = Task("remove", c))
      BY <2>0, <2>2, GrownQueue DEF Single
  <2>4. /\ chan'[c] = "closed" /\ conn'[c] = "disconnected" /\ context'[c] = FALSE
        /\ \A d \in Conns : d # c =>
              chan'[d] = chan[d] /\ conn'[d] = conn[d] /\ context'[d] = context[d]
      BY <2>1 DEF TypeOK
  <2>5. TaskInv'
    <3>1. \A m \in Boxes, u \in Tasks : TaskOK(m, u) => TaskOK(m, u)'
        BY <2>4 DEF TaskOK, Held
    <3>2. TaskOK(<<Main, l>>, Task("remove", c))'
        BY <2>0, <2>4 DEF TaskOK
    <3> QED
        BY <2>3, <3>1, <3>2 DEF TaskInv
  <2>6. OnceInv'
      BY <2>3 DEF OnceInv
  <2>7. ConnInv'
      BY <2>4 DEF ConnInv, Held
  <2>8. attaching[l] = Nobody /\ \A m \in Loops : attaching[m] # c
      BY ServerThreads DEF Free, UserInv
  <2>9. UserInv'
    <3>1. \A m \in Loops : attaching[m] # Nobody => attaching[m] \in Conns
        BY DEF TypeOK
    <3> QED
        BY <1>2, <2>4, <2>8, <3>1 DEF UserInv
  <2>10. ReadersAreServed'
      BY <2>4 DEF ReadersAreServed
  <2> QED
      BY <2>5, <2>6, <2>7, <2>9, <2>10
<1> QED
    BY <1>1, <1>2

LEMMA LinkStep ==
    TypeOK /\ LinkInv /\ PlaceInv /\ StopInv /\ RaceInv /\ [Next]_vars => LinkInv'
<1> SUFFICES ASSUME TypeOK, LinkInv, PlaceInv, StopInv, RaceInv, [Next]_vars PROVE LinkInv'
    OBVIOUS
<1>20. ASSUME UNCHANGED vars PROVE LinkInv'
    BY <1>20, LinkStays DEF vars
<1> SUFFICES ASSUME Next PROVE LinkInv'
    BY <1>20
<1>0. Main \notin Loops /\ Nobody \notin Conns
    BY ServerThreads
<1>a. tasks \in Mailboxes /\ Once(tasks)
    BY DEF TypeOK, Mailboxes, LinkInv, OnceInv
<1>b. ASSUME NEW l, NEW m, <<l, m>> \in Boxes, tasks[<<l, m>>] # <<>>
      PROVE  /\ Taken(l, m) \in Mailboxes /\ Once(Taken(l, m)) /\ Head(tasks[<<l, m>>]) \in Tasks
             /\ \A b \in Boxes, u \in Tasks : Queued(Taken(l, m), b, u) => Queued(tasks, b, u)
             /\ Queued(tasks, <<l, m>>, Head(tasks[<<l, m>>]))
             /\ TaskOK(<<l, m>>, Head(tasks[<<l, m>>]))
             /\ Head(tasks[<<l, m>>]).op = "attach" =>
                   ~ Queued(Taken(l, m), <<l, m>>, Head(tasks[<<l, m>>]))
    BY <1>b, FirstFunctor DEF Single
\* StopThreadPool adds functors that are about no connection.
<1>c. ASSUME NEW q \in Mailboxes, StopThreadPool(q), Once(q),
             \A m \in Boxes, u \in Tasks : Queued(q, m, u) => Queued(tasks, m, u)
      PROVE  /\ Once(tasks') /\ at' \in {at, "join"}
             /\ \A m \in Boxes, u \in Tasks : Queued(tasks', m, u) =>
                   Queued(tasks, m, u) \/ TaskOK(m, u)'
  <2>0. \A m \in FromMain : TaskOK(m, Task("quit", Nobody))'
      BY TaskType DEF TaskOK, FromMain
  <2>1. CASE status # "stopping"
      BY <1>a, <1>c, <2>1 DEF StopThreadPool
  <2>2. CASE status = "stopping"
    <3>1. /\ at' = "join"
          /\ tasks' = [b \in Boxes |-> IF b[1] # Main /\ b[2] = Main
                                       THEN Append(q[b], Task("quit", Nobody)) ELSE q[b]]
        BY <1>c, <2>2 DEF StopThreadPool
    <3>2. /\ Once(tasks')
          /\ \A m \in Boxes, u \in Tasks : Queued(tasks', m, u) =>
                Queued(q, m, u) \/ (m \in FromMain /\ u = Task("quit", Nobody))
        BY <1>c, <3>1, QuitQueue
    <3> QED
        BY <1>c, <2>0, <3>1, <3>2
  <2> QED
      BY <2>1, <2>2
<1> USE DEF serverVars, poolVars, connVars, mainVars, stopVars, workers
<1>1. ASSUME NEW c \in Conns, Connect(c) \/ Disconnect(c) PROVE LinkInv'
    BY <1>1, LinkStays DEF Connect, Disconnect
<1>2. ASSUME Start PROVE LinkInv'
  <2>1. /\ status = "null" /\ at' = "start"
        /\ UNCHANGED <<tasks, conn, chan, home, context, connections, attaching, worker, cur,
                       caller>>
      BY <1>2 DEF Start, LinkInv, UserInv
  <2>2. TaskInv' /\ OnceInv'
      BY <2>1 DEF LinkInv, TaskInv, TaskOK, Held, OnceInv
  <2>3. ConnInv' /\ UserInv' /\ ReadersAreServed'
      BY <2>1 DEF LinkInv, ConnInv, Held, UserInv, ReadersAreServed
  <2> QED
      BY <2>2, <2>3 DEF LinkInv
<1>2a. ASSUME Accept PROVE LinkInv'
  <2>1. PICK t \in Tasks : t = Task("listen", Nobody) /\ t.op = "listen" /\ t.conn = Nobody
      BY TaskType
  <2>2. <<Main, Main>> \in Boxes
      BY BoxesAre
  <2>3. tasks' \in Mailboxes /\ Grown(tasks, tasks', <<Main, Main>>, t)
      BY <1>2a, <1>a, <2>1, <2>2, OneMore DEF Accept
  <2>4. ~ Queued(tasks, <<Main, Main>>, t)
      BY <1>2a, <2>1, <2>2 DEF Accept, StopInv, ListenInv
  <2>5. /\ Once(tasks')
        /\ \A m \in Boxes, u \in Tasks : Queued(tasks', m, u) =>
              Queued(tasks, m, u) \/ (m = <<Main, Main>> /\ u = t)
      BY <1>a, <2>2, <2>3, <2>4, GrownQueue
  <2>6. TaskOK(<<Main, Main>>, t)'
      BY <2>1 DEF TaskOK
  <2> QED
      BY <1>2a, <2>5, <2>6, LinkMoves DEF Accept, Held
<1>2b. ASSUME Insert PROVE LinkInv'
  <2>1. tasks' = tasks /\ \A c \in Conns : Held(c) => Held(c)'
      BY <1>2b DEF Insert, Held
  <2> QED
      BY <1>2b, <1>a, <2>1, LinkMoves DEF Insert
<1>3. ASSUME Run \/ CloseDone \/ Callback \/ NotifyOne \/ Finish PROVE LinkInv'
  <2>1. CASE Run
      BY <2>1, LinkStays DEF Run
  <2>2. CASE CloseDone
      BY <2>2, LinkStays DEF CloseDone, Back
  <2>3. CASE Callback
      BY <2>3, LinkStays DEF Callback
  <2>4. CASE NotifyOne
      BY <2>4, LinkStays DEF NotifyOne
  <2>5. CASE Finish
      BY <2>5, LinkStays DEF Finish, Back
  <2> QED
      BY <1>3, <2>1, <2>2, <2>3, <2>4, <2>5
<1>4. ASSUME Listen PROVE LinkInv'
  <2>1. /\ Once(tasks')
        /\ \A m \in Boxes, u \in Tasks : Queued(tasks', m, u) => Queued(tasks, m, u)
      BY <1>4, <1>b, BoxesAre DEF Listen, IsNext
  <2> QED
      BY <1>4, <2>1, LinkMoves DEF Listen, Held
<1>5. ASSUME NEW c \in Conns, HandleNewConn(c) PROVE LinkInv'
  <2>1. CASE status = "stopping"
    <3>1. /\ conn' = [conn EXCEPT ![c] = "refused"] /\ conn[c] = "none"
          /\ at = "poll"
          /\ UNCHANGED <<status, tasks, chan, home, context, connections, attaching, worker,
                         at, cur, closing, caller>>
        BY <1>5, <2>1 DEF HandleNewConn
    <3>2. conn'[c] = "refused" /\ \A d \in Conns : d # c => conn'[d] = conn[d]
        BY <3>1 DEF TypeOK
    <3>3. \A m \in Boxes, u \in Tasks : TaskOK(m, u) => TaskOK(m, u)'
        BY <3>1, <3>2 DEF TaskOK, Held, LinkInv, ConnInv
    <3>4. TaskInv' /\ OnceInv'
        BY <3>1, <3>3 DEF LinkInv, TaskInv, OnceInv
    <3>5. ConnInv' /\ UserInv' /\ ReadersAreServed'
        BY <3>1, <3>2 DEF LinkInv, ConnInv, Held, UserInv, ReadersAreServed
    <3> QED
        BY <3>4, <3>5 DEF LinkInv
  <2>2. CASE status # "stopping"
    <3>1. /\ at' = "accept" /\ tasks' = tasks
          /\ UNCHANGED <<status, conn, chan, home, context, connections, attaching, worker,
                         caller>>
        BY <1>5, <2>2 DEF HandleNewConn
    <3>2. cur = Nobody
        BY <1>5 DEF HandleNewConn, PlaceInv, Place, Outside
    <3>3. \A d \in Conns : Held(d) => Held(d)'
        BY <1>0, <3>1, <3>2 DEF Held
    <3> QED
        BY <1>a, <3>1, <3>3, LinkMoves
  <2> QED
      BY <2>1, <2>2
<1>6. ASSUME NEW l \in Loops, NewConn(l) PROVE LinkInv'
  <2>1. cur \in Conns /\ conn[cur] = "none" /\ chan[cur] = "idle" /\ at = "accept"
      BY <1>6 DEF NewConn, PlaceInv, Place, Outside, LinkInv, ConnInv
  <2>2. CASE status # "running"
      BY <1>6, <2>2, LinkStays DEF NewConn
  <2>3. CASE status = "running"
    <3>1. /\ conn' = [conn EXCEPT ![cur] = "disconnected"]
          /\ home' = [home EXCEPT ![cur] = l]
          /\ Queue(l, Main, Task("attach", cur)) /\ at' = "insert"
          /\ UNCHANGED <<status, chan, context, attaching, worker, connections, cur, caller>>
        BY <1>6, <2>3 DEF NewConn
    <3>2. PICK t \in Tasks : t = Task("attach", cur) /\ t.op = "attach" /\ t.conn = cur
        BY <2>1, TaskType
    <3>k. <<l, Main>> \in Boxes /\ l # Main
        BY BoxesAre
    <3>3. tasks' \in Mailboxes /\ Grown(tasks, tasks', <<l, Main>>, t)
        BY <1>a, <3>1, <3>2, <3>k, OneMore
    <3>4. /\ conn'[cur] = "disconnected" /\ home'[cur] = l
          /\ \A d \in Conns : d # cur => conn'[d] = conn[d] /\ home'[d] = home[d]
        BY <2>1, <3>1 DEF TypeOK
    <3>5. ~ Queued(tasks, <<l, Main>>, t)
        BY <2>1, <3>2, <3>k DEF LinkInv, TaskInv, TaskOK
    <3>6. /\ Once(tasks')
          /\ \A m \in Boxes, u \in Tasks : Queued(tasks', m, u) =>
                Queued(tasks, m, u) \/ (m = <<l, Main>> /\ u = t)
        BY <1>a, <3>3, <3>5, <3>k, GrownQueue
    <3>7. TaskInv'
      <4>1. \A m \in Boxes, u \in Tasks : TaskOK(m, u) => TaskOK(m, u)'
        <5> SUFFICES ASSUME NEW m \in Boxes, NEW u \in Tasks, TaskOK(m, u)
                     PROVE  TaskOK(m, u)'
            OBVIOUS
        <5>1. CASE u.op \in {"attach", "close", "send", "remove"}
          <6>1. u.conn \in Conns /\ u.conn # cur
              BY <2>1, <5>1 DEF TaskOK
          <6> QED
              BY <3>1, <3>4, <5>1, <6>1 DEF TaskOK, Held
        <5>2. CASE u.op \notin {"attach", "close", "send", "remove"}
            BY <3>1, <5>2 DEF TaskOK
        <5> QED
            BY <5>1, <5>2
      <4>2. TaskOK(<<l, Main>>, t)'
          BY <2>1, <3>1, <3>2, <3>4, <3>k DEF TaskOK, Held
      <4> QED
          BY <3>6, <4>1, <4>2 DEF LinkInv, TaskInv
    <3>8. ConnInv'
        BY <2>1, <3>1, <3>4 DEF LinkInv, ConnInv, Held
    <3>9. UserInv'
      <4>1. \A m \in Loops : attaching[m] # Nobody => attaching[m] \in Conns
          BY DEF TypeOK
      <4> QED
          BY <2>1, <3>1, <3>4, <4>1 DEF LinkInv, UserInv
    <3>10. ReadersAreServed'
        BY <2>1, <3>1, <3>4 DEF LinkInv, ReadersAreServed
    <3> QED
        BY <3>6, <3>7, <3>8, <3>9, <3>10 DEF LinkInv, OnceInv
  <2> QED
      BY <2>2, <2>3
<1>7. ASSUME StopInLoop PROVE LinkInv'
  <2> DEFINE q == IF at = "poll" THEN Taken(Main, caller) ELSE tasks
  <2>1. /\ q \in Mailboxes /\ Once(q)
        /\ \A m \in Boxes, u \in Tasks : Queued(q, m, u) => Queued(tasks, m, u)
    <3>1. at = "poll" => caller # Nobody /\ tasks[<<Main, caller>>] # <<>>
        BY <1>7 DEF StopInLoop, IsNext
    <3>2. caller # Nobody => <<Main, caller>> \in Boxes
        BY BoxesAre DEF TypeOK
    <3> QED
        BY <1>a, <1>b, <3>1, <3>2
  <2>2. CASE listener # "listening"
      BY <1>7, <2>2, LinkStays DEF StopInLoop
  <2>3. CASE listener = "listening" /\ connections = {}
    <3>1. /\ StopThreadPool(q) /\ at \in {"stopInLoop", "poll"}
          /\ UNCHANGED <<status, connections, conn, chan, home, context, attaching, cur,
                         caller, worker>>
        BY <1>7, <2>3 DEF StopInLoop
    <3> HIDE DEF q
    <3> QED
        BY <1>c, <2>1, <3>1, LinkMoves DEF Held
  <2>4. CASE listener = "listening" /\ connections # {}
    <3>1. /\ at' = "close" /\ tasks' = q
          /\ UNCHANGED <<status, connections, conn, chan, home, context, attaching, cur,
                         caller, worker>>
        BY <1>7, <2>4 DEF StopInLoop
    <3>2. status \in {"stopping", "stopped"}
      <4>1. CASE at = "stopInLoop"
          BY <4>1 DEF StopInv, HereInv
      <4>2. CASE at = "poll"
          BY <1>7, <4>2 DEF StopInLoop, StopInv, BootInv, TypeOK
      <4> QED
          BY <1>7, <4>1, <4>2 DEF StopInLoop
    <3> HIDE DEF q
    <3> QED
        BY <2>1, <3>1, <3>2, LinkMoves DEF Held
  <2> QED
      BY <2>2, <2>3, <2>4
<1>8. ASSUME NEW c \in Conns, CloseNext(c) PROVE LinkInv'
  <2>1. CASE conn[c] = "connected"
    <3>1. /\ at' = "closeStore" /\ closing' = c /\ at = "close"
          /\ UNCHANGED <<status, conn, tasks, chan, home, context, connections, attaching,
                         worker, cur, caller>>
        BY <1>8, <2>1 DEF CloseNext
    <3>2. TaskInv' /\ OnceInv'
        BY <3>1 DEF LinkInv, TaskInv, TaskOK, Held, OnceInv
    <3>3. ConnInv' /\ UserInv' /\ ReadersAreServed'
        BY <2>1, <3>1 DEF LinkInv, ConnInv, Held, UserInv, ReadersAreServed
    <3> QED
        BY <3>2, <3>3 DEF LinkInv
  <2>2. CASE conn[c] # "connected"
      BY <1>8, <2>2, LinkStays DEF CloseNext
  <2> QED
      BY <2>1, <2>2
<1>9. ASSUME Close PROVE LinkInv'
  <2>1. /\ closing \in Conns /\ chan[closing] # "idle" /\ home[closing] \in Loops
        /\ status \in {"stopping", "stopped"} /\ at = "closeStore"
      BY <1>9 DEF Close, LinkInv, UserInv, ConnInv
  <2>2. PICK l \in Loops : l = home[closing]
      BY <2>1
  <2>k. <<l, Main>> \in Boxes /\ l # Main
      BY BoxesAre
  <2>3. PICK t \in Tasks : t = Task("close", closing) /\ t.op = "close" /\ t.conn = closing
      BY <2>1, TaskType
  <2>4. /\ conn' = [conn EXCEPT ![closing] = "disconnecting"]
        /\ tasks' = [tasks EXCEPT ![<<l, Main>>] = Append(@, t)] /\ at' = "close"
        /\ UNCHANGED <<status, chan, home, context, connections, attaching, worker, cur, caller>>
      BY <1>9, <2>2, <2>3 DEF Close, Queue
  <2>5. conn'[closing] = "disconnecting" /\ \A d \in Conns : d # closing => conn'[d] = conn[d]
      BY <2>1, <2>4 DEF TypeOK
  <2>6. ~ Queued(tasks, <<l, Main>>, t)
      BY <2>1, <2>3, <2>k DEF RaceInv
  <2>7. tasks' \in Mailboxes /\ Grown(tasks, tasks', <<l, Main>>, t)
      BY <1>a, <2>4, <2>k, Appended
  <2>8. /\ Once(tasks')
        /\ \A m \in Boxes, u \in Tasks : Queued(tasks', m, u) =>
              Queued(tasks, m, u) \/ (m = <<l, Main>> /\ u = t)
      BY <2>k, <1>a, <2>6, <2>7, GrownQueue
  <2>9. TaskInv'
    <3>1. \A m \in Boxes, u \in Tasks : TaskOK(m, u) => TaskOK(m, u)'
        BY <2>1, <2>4, <2>5 DEF TaskOK, Held
    <3>2. TaskOK(<<l, Main>>, t)'
        BY <2>k, <2>1, <2>2, <2>3, <2>4, <2>5 DEF TaskOK, Held
    <3> QED
        BY <2>8, <3>1, <3>2 DEF LinkInv, TaskInv
  <2>10. ConnInv'
      BY <2>1, <2>4, <2>5 DEF LinkInv, ConnInv, Held
  <2>11. UserInv' /\ ReadersAreServed'
      BY <2>1, <2>4 DEF LinkInv, UserInv, ReadersAreServed
  <2> QED
      BY <2>8, <2>9, <2>10, <2>11 DEF LinkInv, OnceInv
<1>10. ASSUME NEW l \in Loops, RemoveConnection(l) PROVE LinkInv'
  <2>0. <<Main, l>> \in Boxes
      BY BoxesAre
  <2>1. PICK t \in Tasks : t = Head(tasks[<<Main, l>>]) /\ t.op = "remove"
      BY <1>10, <1>b, <2>0 DEF RemoveConnection, IsNext
  <2>2. /\ at = "poll" /\ tasks[<<Main, l>>] # <<>> /\ connections' = connections \ {t.conn}
        /\ UNCHANGED <<status, conn, chan, home, context, attaching, cur, caller, worker>>
      BY <1>10, <2>1 DEF RemoveConnection, IsNext
  <2>3. /\ Taken(Main, l) \in Mailboxes /\ Once(Taken(Main, l))
        /\ \A m \in Boxes, u \in Tasks : Queued(Taken(Main, l), m, u) => Queued(tasks, m, u)
        /\ TaskOK(<<Main, l>>, t)
      BY <1>b, <2>0, <2>1, <2>2
  <2>4. chan[t.conn] = "closed"
      BY <2>1, <2>3 DEF TaskOK
  <2>5. /\ Once(tasks') /\ at' \in {at, "join"}
        /\ \A m \in Boxes, u \in Tasks : Queued(tasks', m, u) =>
              Queued(tasks, m, u) \/ TaskOK(m, u)'
    <3>1. CASE StopThreadPool(Taken(Main, l))
        BY <1>c, <2>3, <3>1
    <3>2. CASE ~ StopThreadPool(Taken(Main, l))
        BY <1>10, <1>a, <2>3, <3>2 DEF RemoveConnection
    <3> QED
        BY <3>1, <3>2
  <2>6. \A c \in Conns : Held(c) /\ chan[c] # "closed" => Held(c)'
      BY <2>2, <2>4 DEF Held
  <2> QED
      BY <2>2, <2>5, <2>6, LinkMoves
<1>11. ASSUME Join PROVE LinkInv'
  <2>2. \A b \in Boxes : tasks'[b] = tasks[b] \/ tasks'[b] = <<>>
      BY <1>11 DEF Join
  <2>3. Once(tasks')
      BY <1>a, <2>2 DEF Once
  <2>4. \A m \in Boxes, u \in Tasks : Queued(tasks', m, u) => Queued(tasks, m, u)
      BY <2>2 DEF Queued
  <2> QED
      BY <1>11, <2>3, <2>4, LinkMoves DEF Join, Held
<1>12. ASSUME NEW l \in Loops, OnAttachedToLoop(l) PROVE LinkInv'
  <2>0. <<l, Main>> \in Boxes /\ l # Main
      BY BoxesAre
  <2>1. PICK t \in Tasks : t = Head(tasks[<<l, Main>>]) /\ t.op = "attach"
      BY <2>0, <1>12, <1>b DEF OnAttachedToLoop, IsNext
  <2>2. PICK c \in Conns : /\ c = t.conn /\ chan[c] = "idle" /\ conn[c] = "disconnected"
                           /\ home[c] = l /\ Held(c)
      BY <2>0, <1>12, <1>b, <2>1 DEF OnAttachedToLoop, IsNext, TaskOK
  <2>3. /\ conn' = [conn EXCEPT ![c] = "connected"] /\ chan' = [chan EXCEPT ![c] = "reading"]
        /\ attaching' = [attaching EXCEPT ![l] = c] /\ tasks' = Taken(l, Main)
        /\ attaching[l] = Nobody
        /\ UNCHANGED <<status, home, context, connections, worker, at, cur, closing, caller>>
      BY <1>12, <2>1, <2>2 DEF OnAttachedToLoop, Free
  <2>4. /\ conn'[c] = "connected" /\ chan'[c] = "reading" /\ attaching'[l] = c
        /\ \A d \in Conns : d # c => conn'[d] = conn[d] /\ chan'[d] = chan[d]
        /\ \A m \in Loops : m # l => attaching'[m] = attaching[m]
      BY <2>3 DEF TypeOK
  <2>5. /\ Once(tasks') /\ ~ Queued(tasks', <<l, Main>>, t)
        /\ \A m \in Boxes, u \in Tasks : Queued(tasks', m, u) => Queued(tasks, m, u)
      BY <2>0, <1>12, <1>b, <2>1, <2>3 DEF OnAttachedToLoop, IsNext
  <2>6. TaskInv'
    <3> SUFFICES ASSUME NEW m \in Boxes, NEW u \in Tasks, Queued(tasks', m, u)
                 PROVE  TaskOK(m, u)'
        BY DEF TaskInv
    <3>1. TaskOK(m, u)
        BY <2>5 DEF LinkInv, TaskInv
    <3>4. u.op = "attach" /\ u.conn = c => m = <<l, Main>>
        BY <2>2, <3>1 DEF TaskOK, Boxes
    <3>2. CASE u.op \in {"attach", "close", "send", "remove"}
      <4>1. u.conn \in Conns /\ u.conn # c
          BY <2>0, <2>1, <2>2, <2>5, <3>1, <3>2, <3>4, TaskIs DEF TaskOK
      <4> QED
          BY <2>3, <2>4, <3>1, <3>2, <4>1 DEF TaskOK, Held
    <3>3. CASE u.op \notin {"attach", "close", "send", "remove"}
        BY <2>3, <3>1, <3>3 DEF TaskOK
    <3> QED
        BY <3>2, <3>3
  <2>7. ConnInv'
      BY <2>2, <2>3, <2>4 DEF LinkInv, ConnInv, Held
  <2>8. UserInv'
    <3>1. \A m \in Loops : attaching[m] # Nobody => attaching[m] \in Conns
        BY DEF TypeOK
    <3> QED
        BY <1>0, <2>2, <2>3, <2>4, <3>1 DEF LinkInv, UserInv
  <2>9. ReadersAreServed'
      BY <1>0, <2>2, <2>3, <2>4 DEF LinkInv, ReadersAreServed, ConnInv
  <2> QED
      BY <2>5, <2>6, <2>7, <2>8, <2>9 DEF LinkInv, OnceInv
<1>13. ASSUME NEW l \in Loops, OnConnection(l) PROVE LinkInv'
  <2>1. PICK c \in Conns : c = attaching[l] /\ chan[c] = "reading" /\ home[c] = l
      BY <1>13 DEF OnConnection, LinkInv, UserInv, TypeOK
  <2>2. /\ context' = [context EXCEPT ![c] = (conn[c] = "connected")]
        /\ attaching' = [attaching EXCEPT ![l] = Nobody]
        /\ UNCHANGED <<tasks, status, conn, chan, home, connections, worker, at, cur, closing, caller>>
      BY <1>13, <2>1 DEF OnConnection
  <2>3. context'[c] <=> conn[c] = "connected"
      BY <2>2, Zenon DEF TypeOK
  <2>4. /\ attaching'[l] = Nobody
        /\ \A d \in Conns : d # c => context'[d] = context[d]
        /\ \A m \in Loops : m # l => attaching'[m] = attaching[m]
      BY <2>2 DEF TypeOK
  <2>5. TaskInv' /\ OnceInv'
      BY <2>2 DEF LinkInv, TaskInv, TaskOK, Held, OnceInv
  <2>6. ConnInv' /\ UserInv'
      BY <2>1, <2>2, <2>3, <2>4 DEF LinkInv, ConnInv, Held, UserInv
  <2>7. ReadersAreServed'
      BY <1>0, <2>1, <2>2, <2>3, <2>4 DEF LinkInv, ReadersAreServed, ConnInv
  <2> QED
      BY <2>5, <2>6, <2>7 DEF LinkInv
<1>14. ASSUME NEW l \in Loops, NEW p, <<l, p>> \in Boxes, IsNext(l, p, "close") \/ IsNext(l, p, "send"),
              Free(l),
              HandleClose(Head(tasks[<<l, p>>]).conn, Taken(l, p))
                  \/ (tasks' \in {tasks, Taken(l, p)} /\ UNCHANGED <<conn, chan, context>>),
              UNCHANGED <<serverVars, poolVars, home, peer, attaching, mainVars, stopVars, workers>>
       PROVE  LinkInv'
  <2>1. PICK t \in Tasks : t = Head(tasks[<<l, p>>]) /\ t.op \in {"close", "send"}
                           /\ tasks[<<l, p>>] # <<>>
      BY <1>14, <1>b DEF IsNext
  <2>k. l # Main
      BY BoxesAre
  <2>3. /\ Taken(l, p) \in Mailboxes /\ Once(Taken(l, p)) /\ TaskOK(<<l, p>>, t)
        /\ \A m \in Boxes, u \in Tasks : Queued(Taken(l, p), m, u) => Queued(tasks, m, u)
      BY <1>14, <1>b, <2>1
  <2>2. PICK c \in Conns : c = t.conn /\ chan[c] # "idle" /\ home[c] = l
      BY <2>1, <2>3 DEF TaskOK
  <2>5. CASE HandleClose(c, Taken(l, p))
      BY <1>14, <2>2, <2>3, <2>5, LinkCloses
  <2>6. CASE ~ HandleClose(c, Taken(l, p))
    <3>1. tasks' \in {tasks, Taken(l, p)} /\ UNCHANGED <<conn, chan, context>>
        BY <1>14, <2>1, <2>2, <2>6
    <3>2. /\ Once(tasks')
          /\ \A m \in Boxes, u \in Tasks : Queued(tasks', m, u) => Queued(tasks, m, u)
        BY <1>a, <2>3, <3>1
    <3> QED
        BY <1>14, <3>1, <3>2, LinkMoves DEF Held
  <2> QED
      BY <2>5, <2>6
<1>14a. ASSUME NEW l \in Loops, CloseFunctor(l) PROVE LinkInv'
    BY <1>14, <1>14a, BoxesAre DEF CloseFunctor
<1>14b. ASSUME NEW l \in Loops, NEW w \in Workers, SendInLoop(l, w) PROVE LinkInv'
    BY <1>14, <1>14b, BoxesAre DEF SendInLoop
<1>15. ASSUME NEW l \in Loops, NEW c \in Conns, HandleEnd(l, c) PROVE LinkInv'
    BY <1>15, <1>a, LinkCloses DEF HandleEnd
<1>16. ASSUME NEW l \in Loops, NEW c \in Conns, NEW w \in Workers, OnMessage(l, c, w)
       PROVE  LinkInv'
  <2>1. /\ worker' = [worker EXCEPT ![w] = [at |-> "test", conn |-> c]] /\ chan[c] = "reading"
        /\ UNCHANGED <<tasks, conn, chan, home, context, attaching, status, connections, at,
                       cur, closing, caller>>
      BY <1>16 DEF OnMessage
  <2>2. \A v \in Workers : worker'[v].at # "idle" =>
            worker'[v].conn \in Conns /\ chan[worker'[v].conn] # "idle"
      BY <2>1 DEF TypeOK, LinkInv, UserInv
  <2> QED
      BY <1>a, <2>1, <2>2, LinkMoves DEF Held
\* Nothing has queued StopInLoop before Stop.
<1>d. stop = "none" \/ stop = "stored" =>
          \A b \in Boxes, u \in Tasks : Queued(tasks, b, u) => u.op # "stop"
    BY DEF StopInv, ListenInv, Next
<1>17. ASSUME Stop(Other) \/ (\E l \in Loops : Stop(l)) \/ StopHere \/ WaitTest \/ WaitBlock
              \/ WakeUp
       PROVE  LinkInv'
  <2>1. CASE Stop(Other) \/ \E l \in Loops : Stop(l)
      BY <1>d, <2>1, LinkStays DEF Stop, LinkInv, UserInv
  <2>2. CASE StopHere
    <3>0. at' # "init" /\ at' \notin {"close", "closeStore"}
        BY <2>2 DEF StopHere
    <3>1. CASE at \in {"start", "started"}
      <4>1. PICK t \in Tasks : t = Task("stop", Nobody) /\ t.op = "stop" /\ t.conn = Nobody
          BY TaskType
      <4>2. <<Main, Main>> \in Boxes
          BY BoxesAre
      <4>3. tasks' \in Mailboxes /\ Grown(tasks, tasks', <<Main, Main>>, t)
          BY <1>a, <2>2, <3>1, <4>1, <4>2, OneMore DEF StopHere
      <4>4. ~ Queued(tasks, <<Main, Main>>, t)
          BY <1>d, <2>2, <4>1, <4>2 DEF StopHere
      <4>5. /\ Once(tasks')
            /\ \A m \in Boxes, u \in Tasks : Queued(tasks', m, u) =>
                  Queued(tasks, m, u) \/ (m = <<Main, Main>> /\ u = t)
          BY <1>a, <4>2, <4>3, <4>4, GrownQueue
      <4>6. TaskOK(<<Main, Main>>, t)'
          BY <2>2, <4>1 DEF StopHere, TaskOK
      <4> QED
          BY <1>d, <2>2, <3>0, <4>5, <4>6, LinkMoves DEF StopHere, Held
    <3>2. CASE at \notin {"start", "started"}
        BY <1>d, <2>2, <3>0, <3>2, LinkStays DEF StopHere
    <3> QED
        BY <3>1, <3>2
  <2>3. CASE WaitTest
    <3>1. at' \in {at, "start", "started", "poll", "accept", "insert"}
        BY <2>3 DEF WaitTest, TypeOK
    <3> QED
        BY <2>3, <3>1, LinkStays DEF WaitTest
  <2>4. CASE WaitBlock
      BY <2>4, LinkStays DEF WaitBlock
  <2>5. CASE WakeUp
      BY <2>5, LinkStays DEF WakeUp
  <2> QED
      BY <1>17, <2>1, <2>2, <2>3, <2>4, <2>5
<1>18. ASSUME NEW l \in Loops, Quit(l) PROVE LinkInv'
  <2>1. /\ Once(tasks')
        /\ \A m \in Boxes, u \in Tasks : Queued(tasks', m, u) => Queued(tasks, m, u)
    <3>1. tasks' = tasks \/ (tasks[<<l, Main>>] # <<>> /\ tasks' = Taken(l, Main))
        BY <1>18 DEF Quit, IsNext
    <3>2. <<l, Main>> \in Boxes
        BY BoxesAre
    <3> QED
        BY <1>a, <1>b, <3>1, <3>2
  <2> QED
      BY <1>18, <2>1, LinkMoves DEF Quit, Held
<1>19. ASSUME StopQueues PROVE LinkInv'
  <2>1. PICK t \in Tasks : t = Task("stop", Nobody) /\ t.op = "stop" /\ t.conn = Nobody
      BY TaskType
  <2>2. <<Main, caller>> \in Boxes
      BY <1>19, BoxesAre DEF StopQueues, TypeOK, StopInv, BootInv
  <2>3. tasks' \in Mailboxes /\ Grown(tasks, tasks', <<Main, caller>>, t)
      BY <1>19, <1>a, <2>1, <2>2, OneMore DEF StopQueues
  <2>4. ~ Queued(tasks, <<Main, caller>>, t)
      BY <1>19, <1>d, <2>1, <2>2 DEF StopQueues
  <2>5. /\ Once(tasks')
        /\ \A m \in Boxes, u \in Tasks : Queued(tasks', m, u) =>
              Queued(tasks, m, u) \/ (m = <<Main, caller>> /\ u = t)
      BY <1>a, <2>2, <2>3, <2>4, GrownQueue
  <2>6. TaskOK(<<Main, caller>>, t)'
      BY <1>19, <2>1 DEF StopQueues, TaskOK
  <2> QED
      BY <1>19, <2>5, <2>6, LinkMoves DEF StopQueues, Held
<1>21. ASSUME NEW w \in Workers, WorkerStep(w) PROVE LinkInv'
  <2>1. ASSUME NEW where \in {"idle", "test", "send", "queue"}, Does(w, where),
               worker[w].at # "idle"
        PROVE  \A v \in Workers : worker'[v].at # "idle" =>
                   worker'[v].conn \in Conns /\ chan[worker'[v].conn] # "idle"
    <3>1. \A v \in Workers : worker'[v].at = "idle"
              \/ (worker[v].at # "idle" /\ worker'[v].conn = worker[v].conn)
        BY <2>1 DEF Does, TypeOK
    <3> QED
        BY <3>1 DEF LinkInv, UserInv
  <2>2. CASE PostTest(w)
    <3>1. /\ worker[w].at # "idle"
          /\ worker' = worker \/ \E where \in {"idle", "test", "send", "queue"} : Does(w, where)
          /\ UNCHANGED <<tasks, conn, chan, home, context, attaching, status, connections, at,
                         cur, closing, caller>>
        BY <2>2 DEF PostTest
    <3> QED
        BY <1>a, <2>1, <3>1, LinkMoves DEF Held
  <2>3. CASE PostQueue(w)
    <3>1. PICK c \in Conns : c = worker[w].conn /\ chan[c] # "idle" /\ home[c] \in Loops
        BY <2>3 DEF PostQueue, LinkInv, UserInv, ConnInv
    <3>2. PICK l \in Loops : l = home[c]
        BY <3>1
    <3>3. PICK t \in Tasks : t = Task("send", c) /\ t.op = "send" /\ t.conn = c
        BY TaskType
    <3>4. CASE failed' # "none"
        BY <2>3, <3>4, LinkStays DEF PostQueue, Next
    <3>5. CASE failed' = "none"
      <4>0. <<l, w>> \in Boxes /\ l # Main
          BY BoxesAre
      <4>1. Does(w, "idle") /\ Queue(l, w, t)
          BY <2>3, <3>1, <3>2, <3>3, <3>5 DEF PostQueue
      <4>2. tasks' \in Mailboxes /\ Grown(tasks, tasks', <<l, w>>, t)
          BY <1>a, <4>0, <4>1, OneMore
      <4>3. /\ Once(tasks')
            /\ \A m \in Boxes, u \in Tasks : Queued(tasks', m, u) =>
                  Queued(tasks, m, u) \/ (m = <<l, w>> /\ u = t)
          BY <1>a, <3>3, <4>0, <4>2, GrownQueue DEF Single
      <4>5. /\ worker[w].at # "idle"
            /\ UNCHANGED <<conn, chan, home, context, attaching, status, connections, at, cur,
                           closing, caller>>
          BY <2>3 DEF PostQueue
      <4>4. TaskOK(<<l, w>>, t)'
          BY <3>1, <3>2, <3>3, <4>0, <4>5 DEF TaskOK
      <4> QED
          BY <2>1, <4>1, <4>3, <4>4, <4>5, LinkMoves DEF Held
    <3> QED
        BY <3>4, <3>5
  <2> QED
      BY <1>21, <2>2, <2>3 DEF WorkerStep
<1> QED
    BY <1>1, <1>2, <1>2a, <1>2b, <1>3, <1>4, <1>5, <1>6, <1>7, <1>8, <1>9, <1>10, <1>11, <1>12, <1>13,
       <1>14a, <1>14b, <1>15, <1>16, <1>17, <1>18, <1>19, <1>21
    DEF Next, MainStep, StopStep, PoolStep
-----------------------------------------------------------------------------
(* HandleNewConn, interrupted or not. *)

LEMMA PlaceStays ==
    ASSUME PlaceInv, Place' = Place, cur' = cur,
           Place = "accept" => conn'[cur] = "none"
    PROVE  PlaceInv'
BY DEF PlaceInv

LEMMA PlaceStep == TypeOK /\ LinkInv /\ PlaceInv /\ StopInv /\ [Next]_vars => PlaceInv'
<1> SUFFICES ASSUME TypeOK, LinkInv, PlaceInv, StopInv, [Next]_vars PROVE PlaceInv'
    OBVIOUS
<1>20. ASSUME UNCHANGED vars PROVE PlaceInv'
    BY <1>20 DEF vars, PlaceInv, Place
<1> SUFFICES ASSUME Next PROVE PlaceInv'
    BY <1>20
<1>0. Main \notin Loops /\ Nobody \notin Conns /\ failed = "none"
      /\ Other # Main /\ Nobody # Main
    BY ServerThreads DEF Next
<1>a. ASSUME UNCHANGED <<at, caller, resume>> PROVE Place' = Place
    BY <1>a DEF Place
\* A connection that is being accepted is not attached.
<1>b. Place = "accept" => cur \in Conns /\ conn[cur] = "none" /\ chan[cur] = "idle"
    BY DEF PlaceInv, LinkInv, ConnInv
<1>c. ASSUME NEW c \in Conns, chan[c] # "idle" \/ conn[c] # "none", NEW v,
             conn' \in {conn, [conn EXCEPT ![c] = v]}
      PROVE  Place = "accept" => conn'[cur] = "none"
    BY <1>b, <1>c DEF TypeOK
<1>d. ASSUME NEW l, NEW m, <<l, m>> \in Boxes, tasks[<<l, m>>] # <<>>
      PROVE  /\ Head(tasks[<<l, m>>]) \in Tasks
             /\ Queued(tasks, <<l, m>>, Head(tasks[<<l, m>>]))
             /\ TaskOK(<<l, m>>, Head(tasks[<<l, m>>]))
    BY <1>d, FirstFunctor
<1> USE DEF serverVars, poolVars, connVars, mainVars, stopVars, workers
<1>1. ASSUME UNCHANGED <<at, caller, resume, cur, conn>> PROVE PlaceInv'
    BY <1>1, <1>a, <1>b, PlaceStays
<1>2. ASSUME NEW c \in Conns, Connect(c) \/ Disconnect(c) PROVE PlaceInv'
    BY <1>2, <1>1 DEF Connect, Disconnect
<1>3. ASSUME Listen \/ StopQueues \/ WaitBlock \/ WakeUp PROVE PlaceInv'
    BY <1>3, <1>1 DEF Listen, StopQueues, WaitBlock, WakeUp
<1>4. ASSUME NEW l \in Loops, OnConnection(l) \/ Quit(l) PROVE PlaceInv'
    BY <1>4, <1>1 DEF OnConnection, Quit
<1>5. ASSUME NEW l \in Loops, NEW c \in Conns, NEW w \in Workers, OnMessage(l, c, w)
      PROVE  PlaceInv'
    BY <1>5, <1>1 DEF OnMessage
<1>6. ASSUME NEW w \in Workers, WorkerStep(w) PROVE PlaceInv'
    BY <1>6, <1>1 DEF WorkerStep, PostTest, PostQueue
<1>7. ASSUME Start \/ Accept \/ Run \/ Insert PROVE PlaceInv'
    BY <1>7 DEF Start, Accept, Run, Insert, PlaceInv, Place, Outside
<1>8. ASSUME NEW c \in Conns, HandleNewConn(c) PROVE PlaceInv'
    BY <1>8 DEF HandleNewConn, PlaceInv, Place, Outside
<1>9. ASSUME NEW l \in Loops, NewConn(l) PROVE PlaceInv'
    BY <1>9 DEF NewConn, PlaceInv, Place, Outside
<1>10. ASSUME StopInLoop PROVE PlaceInv'
  <2>1. at' \in {at, "join", "close"} /\ UNCHANGED <<cur, conn, caller, resume>>
      BY <1>10 DEF StopInLoop, StopThreadPool
  <2>2. CASE at = "stopInLoop"
    <3>1. Place' = Place
        BY <2>1, <2>2 DEF Place, Outside
    <3> QED
        BY <1>b, <2>1, <3>1, PlaceStays
  <2>3. CASE at = "poll" /\ IsNext(Main, caller, "stop")
    <3>1. <<Main, caller>> \in Boxes
        BY <1>10, BoxesAre DEF StopInLoop, TypeOK
    <3>2. caller # Main
        BY <1>0, <1>d, <2>3, <3>1 DEF IsNext, StopInv, ListenInv
    <3>3. Place' = Place
        BY <2>1, <2>3, <3>2 DEF Place, Outside
    <3> QED
        BY <1>b, <2>1, <3>3, PlaceStays
  <2> QED
      BY <1>10, <2>2, <2>3 DEF StopInLoop
<1>11. ASSUME NEW c \in Conns, CloseNext(c) PROVE PlaceInv'
  <2>1. Place' = Place /\ UNCHANGED <<cur, conn>>
      BY <1>11 DEF CloseNext, Place, Outside
  <2> QED
      BY <1>b, <2>1, PlaceStays
<1>12. ASSUME Close PROVE PlaceInv'
  <2>1. Place' = Place /\ cur' = cur /\ conn' = [conn EXCEPT ![closing] = "disconnecting"]
      BY <1>12 DEF Close, Place, Outside
  <2>2. closing \in Conns /\ chan[closing] # "idle"
      BY <1>12 DEF Close, LinkInv, UserInv
  <2>3. conn' \in {conn, [conn EXCEPT ![closing] = "disconnecting"]}
      BY <2>1
  <2>4. Place = "accept" => conn'[cur] = "none"
      BY <1>c, <2>2, <2>3
  <2> QED
      BY <2>1, <2>4, PlaceStays
<1>13. ASSUME CloseDone \/ Join \/ Callback \/ NotifyOne \/ Finish PROVE PlaceInv'
  <2>1. Place' = Place
    <3>1. CASE CloseDone \/ Finish
        BY <3>1 DEF CloseDone, Finish, Back, Place, Outside
    <3>2. CASE Join \/ Callback \/ NotifyOne
        BY <3>2 DEF Join, Callback, NotifyOne, Place, Outside
    <3> QED
        BY <1>13, <3>1, <3>2
  <2>2. UNCHANGED <<cur, conn>>
      BY <1>13 DEF CloseDone, Join, Callback, NotifyOne, Finish
  <2> QED
      BY <1>b, <2>1, <2>2, PlaceStays
<1>14. ASSUME NEW l \in Loops, RemoveConnection(l) PROVE PlaceInv'
  <2>1. /\ at = "poll" /\ UNCHANGED <<cur, conn, caller, resume>>
        /\ at' = at \/ (at' = "join" /\ status = "stopping")
      BY <1>14 DEF RemoveConnection, StopThreadPool
  <2>2. status = "stopping" => caller # Main
      BY <2>1 DEF StopInv, HereInv, PoolInv, Outside
  <2>3. Place' = Place
      BY <2>1, <2>2 DEF Place, Outside
  <2> QED
      BY <1>b, <2>1, <2>3, PlaceStays
<1>15. ASSUME NEW l \in Loops, OnAttachedToLoop(l) PROVE PlaceInv'
  <2>0. <<l, Main>> \in Boxes
      BY BoxesAre
  <2>1. PICK c \in Conns : c = Head(tasks[<<l, Main>>]).conn /\ conn[c] = "disconnected"
      BY <1>15, <1>d, <2>0 DEF OnAttachedToLoop, IsNext, TaskOK
  <2>2. conn' \in {conn, [conn EXCEPT ![c] = "connected"]}
      BY <1>15, <2>1 DEF OnAttachedToLoop
  <2>3. Place = "accept" => conn'[cur] = "none"
      BY <1>c, <2>1, <2>2, SMTT(30)
  <2> QED
      BY <1>15, <1>a, <2>3, PlaceStays DEF OnAttachedToLoop
<1>16. ASSUME NEW l \in Loops, NEW p, <<l, p>> \in Boxes,
              IsNext(l, p, "close") \/ IsNext(l, p, "send"),
              HandleClose(Head(tasks[<<l, p>>]).conn, Taken(l, p)) \/ conn' = conn,
              UNCHANGED <<mainVars, stopVars>>
       PROVE  PlaceInv'
  <2>1. PICK c \in Conns : c = Head(tasks[<<l, p>>]).conn /\ chan[c] # "idle"
      BY <1>16, <1>d DEF IsNext, TaskOK
  <2>2. conn' \in {conn, [conn EXCEPT ![c] = "disconnected"]}
      BY <1>16, <2>1 DEF HandleClose
  <2> QED
      BY <1>16, <1>a, <1>c, <2>1, <2>2, PlaceStays
<1>17. ASSUME NEW l \in Loops, CloseFunctor(l) PROVE PlaceInv'
    BY <1>16, <1>17, BoxesAre DEF CloseFunctor
<1>18. ASSUME NEW l \in Loops, NEW w \in Workers, SendInLoop(l, w) PROVE PlaceInv'
    BY <1>16, <1>18, BoxesAre DEF SendInLoop
<1>19. ASSUME NEW l \in Loops, NEW c \in Conns, HandleEnd(l, c) PROVE PlaceInv'
  <2>1. chan[c] # "idle" /\ conn' \in {conn, [conn EXCEPT ![c] = "disconnected"]}
      BY <1>19 DEF HandleEnd, HandleClose
  <2> QED
      BY <1>19, <1>a, <1>c, <2>1, PlaceStays DEF HandleEnd
<1>21. ASSUME NEW t \in Loops \cup {Other}, Stop(t) PROVE PlaceInv'
  <2>1. caller # Main /\ caller' # Main /\ UNCHANGED <<at, cur, conn>>
      BY <1>0, <1>21 DEF Stop, StopInv, BootInv
  <2>2. Place' = Place
      BY <2>1 DEF Place
  <2> QED
      BY <1>b, <2>1, <2>2, PlaceStays
<1>22. ASSUME StopHere PROVE PlaceInv'
  <2>1. Place' = Place /\ UNCHANGED <<cur, conn>>
      BY <1>22 DEF StopHere, Place, Outside
  <2> QED
      BY <1>b, <2>1, PlaceStays
<1>23. ASSUME WaitTest PROVE PlaceInv'
  <2>1. Place' = Place /\ UNCHANGED <<cur, conn>>
      BY <1>23 DEF WaitTest, Place, Outside, TypeOK
  <2> QED
      BY <1>b, <2>1, PlaceStays
<1> QED
    BY <1>2, <1>3, <1>4, <1>5, <1>6, <1>7, <1>8, <1>9, <1>10, <1>11, <1>12, <1>13, <1>14, <1>15,
       <1>17, <1>18, <1>19, <1>21, <1>22, <1>23
    DEF Next, MainStep, StopStep, PoolStep

-----------------------------------------------------------------------------
(* Stop. *)

\* Steps that leave Stop alone: they may move the listening thread among the
\* places where it handles connections, and they queue other functors.
LEMMA StopStays ==
    ASSUME TypeOK, StopInv, failed = "none",
           UNCHANGED <<status, substatus, listener, stoppedCb, pool, stop, caller, resume, stopped>>,
           connections' \subseteq connections \/ at = "insert",
           thread' = thread \/ (at # "init" /\ pool # "gone"),
           \A b \in Boxes, u \in Tasks : u.op \in {"listen", "stop"} =>
               (Queued(tasks', b, u) => Queued(tasks, b, u)),
           at' = at \/ ({at, at'} \cap {"init", "start", "join", "callback", "notify", "finish",
                                        "stopInLoop", "wait"} = {}
                        /\ (at' \in {"close", "closeStore"} <=> at \in {"close", "closeStore"})
                        /\ (at' = "insert" => status = "running"))
    PROVE  StopInv'
<1>1. BootInv'
    BY DEF StopInv, BootInv
<1>2. HereInv'
    BY DEF StopInv, HereInv, Outside, TypeOK
<1>3. ListenInv'
  <2>1. \A b \in Boxes, t \in Tasks : Queued(tasks', b, t) /\ t.op = "listen" =>
            listener' = "set" /\ at' \notin {"init", "start"} /\ (at' = "wait" => resume' # "start")
      BY DEF StopInv, ListenInv
  <2>2. \A b \in Boxes, t \in Tasks : Queued(tasks', b, t) /\ t.op = "stop" =>
            /\ stop' \notin {"none", "stored"} /\ listener' # "none"
            /\ caller' = Main => at' = "wait" /\ resume' \in {"start", "started"}
      BY DEF StopInv, ListenInv
  <2>3. (at' = "start" => listener' = "set")
        /\ (listener' = "none" => at' = "init" \/ stop' \notin {"none", "stored"})
      BY DEF StopInv, ListenInv, BootInv
  <2> QED
      BY <2>1, <2>2, <2>3 DEF ListenInv
<1>4. PoolInv'
    BY DEF StopInv, PoolInv, BootInv, Interrupted
<1> QED
    BY <1>1, <1>2, <1>3, <1>4 DEF StopInv

LEMMA StopProgress == TypeOK /\ LinkInv /\ PlaceInv /\ StopInv /\ [Next]_vars => StopInv'
<1> SUFFICES ASSUME TypeOK, LinkInv, PlaceInv, StopInv, [Next]_vars PROVE StopInv'
    OBVIOUS
<1>20. ASSUME UNCHANGED vars PROVE StopInv'
    BY <1>20 DEF vars, StopInv, BootInv, HereInv, ListenInv, PoolInv, Interrupted
<1> SUFFICES ASSUME Next PROVE StopInv'
    BY <1>20
<1>0. /\ Main \notin Loops /\ Nobody \notin Conns /\ failed = "none"
      /\ Other # Main /\ Nobody \notin Loops \cup {Main, Other}
    BY ServerThreads DEF Next
<1>a. tasks \in Mailboxes /\ Once(tasks)
    BY DEF TypeOK, Mailboxes, LinkInv, OnceInv
<1>b. ASSUME NEW l, NEW m, <<l, m>> \in Boxes, tasks[<<l, m>>] # <<>>
      PROVE  /\ Taken(l, m) \in Mailboxes /\ Head(tasks[<<l, m>>]) \in Tasks
             /\ \A b \in Boxes, u \in Tasks : Queued(Taken(l, m), b, u) => Queued(tasks, b, u)
             /\ Queued(tasks, <<l, m>>, Head(tasks[<<l, m>>]))
             /\ TaskOK(<<l, m>>, Head(tasks[<<l, m>>]))
             /\ Head(tasks[<<l, m>>]).op \in Single =>
                   ~ Queued(Taken(l, m), <<l, m>>, Head(tasks[<<l, m>>]))
    BY <1>b, FirstFunctor
\* There is one functor of each kind.
<1>c. ASSUME NEW b \in Boxes, NEW u \in Tasks, Queued(tasks, b, u), u.op \in {"listen", "stop"}
      PROVE  /\ u.conn = Nobody /\ u.op = "listen" => b = <<Main, Main>>
             /\ u.conn = Nobody /\ u.op = "stop" => b = <<Main, caller>>
             /\ u.conn = Nobody
  <2>1. TaskOK(b, u)
      BY <1>c DEF LinkInv, TaskInv
  <2> QED
      BY <1>c, <2>1 DEF TaskOK, Boxes
<1>d. ASSUME NEW op \in {"listen", "stop"}, NEW p, <<Main, p>> \in Boxes, IsNext(Main, p, op),
             op = "stop" => p = caller, op = "listen" => p = Main
      PROVE  \A b \in Boxes, u \in Tasks : u.op = op => ~ Queued(Taken(Main, p), b, u)
  <2> SUFFICES ASSUME NEW b \in Boxes, NEW u \in Tasks, u.op = op, Queued(Taken(Main, p), b, u)
               PROVE  FALSE
      OBVIOUS
  <2>1. PICK t \in Tasks : t = Head(tasks[<<Main, p>>]) /\ t.op = op
      BY <1>b, <1>d DEF IsNext
  <2>2. /\ Queued(tasks, b, u) /\ Queued(tasks, <<Main, p>>, t)
        /\ ~ Queued(Taken(Main, p), <<Main, p>>, t)
      BY <1>b, <1>d, <2>1 DEF IsNext, Single
  <2>3. b = <<Main, p>> /\ u.conn = Nobody
      BY <1>c, <1>d, <2>2
  <2>4. t.conn = Nobody
      BY <1>c, <1>d, <2>1, <2>2
  <2> QED
      BY <2>1, <2>2, <2>3, <2>4, TaskIs
<1>e. ASSUME NEW l \in Loops, Works(l) PROVE at # "init" /\ pool # "gone"
    BY <1>e DEF Works, StopInv, BootInv, PoolInv
\* Functors of another kind make no difference.
<1>f. ASSUME NEW q \in Mailboxes, NEW b \in Boxes, NEW t \in Tasks, t.op \notin {"listen", "stop"},
             \A m \in Boxes, u \in Tasks : Queued(q, m, u) => Queued(tasks, m, u),
             tasks' = [q EXCEPT ![b] = Append(@, t)]
      PROVE  \A m \in Boxes, u \in Tasks : u.op \in {"listen", "stop"} =>
                 (Queued(tasks', m, u) => Queued(tasks, m, u))
  <2>1. tasks' \in Mailboxes /\ Grown(q, tasks', b, t)
      BY <1>f, Appended
  <2> QED
      BY <1>f, <2>1, GrownQueue
<1>g. ASSUME NEW q \in Mailboxes, NEW c \in Conns, home[c] \in Loops, HandleClose(c, q),
             \A m \in Boxes, u \in Tasks : Queued(q, m, u) => Queued(tasks, m, u)
      PROVE  \A m \in Boxes, u \in Tasks : u.op \in {"listen", "stop"} =>
                 (Queued(tasks', m, u) => Queued(tasks, m, u))
  <2>1. CASE tasks' = tasks
      BY <2>1
  <2>2. CASE tasks' # tasks
    <3>1. PICK t \in Tasks : t = Task("remove", c) /\ t.op = "remove"
        BY TaskType
    <3>2. <<Main, home[c]>> \in Boxes
        BY <1>g, BoxesAre
    <3>3. tasks' = [q EXCEPT ![<<Main, home[c]>>] = Append(@, t)]
        BY <1>g, <2>2, <3>1 DEF HandleClose
    <3> QED
        BY <1>f, <1>g, <3>1, <3>2, <3>3
  <2> QED
      BY <2>1, <2>2
<1>h. ASSUME NEW q \in Mailboxes, StopThreadPool(q), status = "stopping"
      PROVE  /\ substatus' = "pool" /\ pool' = "stopping" /\ at' = "join" /\ failed' = failed
             /\ \A b \in Boxes, u \in Tasks : u.op \in {"listen", "stop"} =>
                   (Queued(tasks', b, u) => Queued(q, b, u))
  <2>1. /\ substatus' = "pool" /\ pool' = "stopping" /\ at' = "join" /\ failed' = failed
        /\ tasks' = [b \in Boxes |-> IF b[1] # Main /\ b[2] = Main
                                     THEN Append(q[b], Task("quit", Nobody)) ELSE q[b]]
      BY <1>h DEF StopThreadPool
  <2>2. \A b \in Boxes, u \in Tasks : Queued(tasks', b, u) =>
            Queued(q, b, u) \/ (b \in FromMain /\ u = Task("quit", Nobody))
      BY <2>1, QuitQueue
  <2>3. Task("quit", Nobody).op = "quit"
      BY TaskType
  <2> QED
      BY <2>1, <2>2, <2>3
<1> USE DEF serverVars, poolVars, connVars, mainVars, stopVars, workers
<1>1. ASSUME NEW c \in Conns, Connect(c) \/ Disconnect(c) PROVE StopInv'
    BY <1>0, <1>1, StopStays DEF Connect, Disconnect
<1>2. ASSUME Start PROVE StopInv'
  <2>1. /\ status = "null" /\ stop = "none" /\ caller = Nobody /\ substatus = "null"
        /\ at = "init" /\ at' = "start" /\ status' = "running" /\ listener' = "set"
        /\ pool' = "running" /\ pool = "new" /\ ~ stopped /\ ~ stoppedCb
        /\ UNCHANGED <<substatus, stoppedCb, stop, caller, resume, stopped, tasks, failed>>
      BY <1>2 DEF Start, StopInv, BootInv, PoolInv, TypeOK
  <2>2. BootInv' /\ HereInv'
      BY <1>0, <2>1 DEF BootInv, HereInv, Outside
  <2>3. ListenInv'
      BY <1>0, <2>1 DEF StopInv, ListenInv
  <2>4. PoolInv'
      BY <2>1 DEF PoolInv
  <2> QED
      BY <2>2, <2>3, <2>4 DEF StopInv
<1>2a. ASSUME Accept PROVE StopInv'
  <2>1. /\ at = "start" /\ at' = "started" /\ listener = "set" /\ stop = stop' /\ failed' = "none"
        /\ caller = Main => stop = "done"
        /\ UNCHANGED <<status, substatus, listener, connections, stoppedCb, pool, thread, caller,
                       resume, stopped>>
      BY <1>0, <1>2a DEF Accept, StopInv, ListenInv, HereInv, Outside
  <2>2. PICK t \in Tasks : t = Task("listen", Nobody) /\ t.op = "listen"
      BY TaskType
  <2>3. tasks' \in Mailboxes /\ Grown(tasks, tasks', <<Main, Main>>, t)
      BY <1>2a, <1>a, <2>2, BoxesAre, OneMore DEF Accept
  <2>4. \A b \in Boxes, u \in Tasks : u.op = "stop" =>
            (Queued(tasks', b, u) => Queued(tasks, b, u))
      BY <1>a, <2>2, <2>3, BoxesAre, GrownQueue
  <2>5. BootInv' /\ HereInv'
      BY <2>1 DEF StopInv, BootInv, HereInv, Outside
  <2>6. ListenInv'
      BY <1>0, <2>1, <2>4 DEF StopInv, ListenInv
  <2>7. PoolInv'
      BY <2>1 DEF StopInv, PoolInv, Interrupted
  <2> QED
      BY <2>5, <2>6, <2>7 DEF StopInv
<1>3. ASSUME Run PROVE StopInv'
    BY <1>0, <1>3, StopStays DEF Run
<1>3a. ASSUME Insert PROVE StopInv'
    BY <1>0, <1>3a, StopStays DEF Insert
<1>4. ASSUME Listen PROVE StopInv'
  <2>1. /\ at = "poll" /\ tasks[<<Main, Main>>] # <<>> /\ Head(tasks[<<Main, Main>>]).op = "listen"
        /\ listener' = "listening" /\ tasks' = Taken(Main, Main) /\ IsNext(Main, Main, "listen")
        /\ UNCHANGED <<status, substatus, connections, stoppedCb, pool, thread, at, stop, caller,
                       resume, stopped, failed>>
      BY <1>4 DEF Listen, IsNext
  <2>2. listener = "set"
      BY <1>b, <2>1, BoxesAre DEF StopInv, ListenInv
  <2>3. /\ \A b \in Boxes, u \in Tasks : u.op = "listen" => ~ Queued(tasks', b, u)
        /\ \A b \in Boxes, u \in Tasks : Queued(tasks', b, u) => Queued(tasks, b, u)
      BY <1>b, <1>d, <2>1, BoxesAre
  <2>4. BootInv' /\ HereInv'
      BY <2>1 DEF StopInv, BootInv, HereInv, Outside
  <2>5. ListenInv'
      BY <2>1, <2>2, <2>3 DEF StopInv, ListenInv
  <2>6. PoolInv'
      BY <2>1, <2>2 DEF StopInv, PoolInv, Interrupted
  <2> QED
      BY <2>4, <2>5, <2>6 DEF StopInv
<1>5. ASSUME NEW c \in Conns, HandleNewConn(c) \/ CloseNext(c) PROVE StopInv'
  <2>1. CASE HandleNewConn(c)
      BY <1>0, <2>1, StopStays DEF HandleNewConn
  <2>2. CASE CloseNext(c)
      BY <1>0, <2>2, StopStays DEF CloseNext
  <2> QED
      BY <1>5, <2>1, <2>2
<1>6. ASSUME NEW l \in Loops, NewConn(l) PROVE StopInv'
  <2>1. cur \in Conns /\ at = "accept"
      BY <1>6 DEF NewConn, PlaceInv, Place, Outside
  <2>2. \A b \in Boxes, u \in Tasks : u.op \in {"listen", "stop"} =>
            (Queued(tasks', b, u) => Queued(tasks, b, u))
    <3>1. CASE tasks' = tasks
        BY <3>1
    <3>2. CASE tasks' # tasks
      <4>1. PICK t \in Tasks : t = Task("attach", cur) /\ t.op = "attach"
          BY TaskType, <2>1
      <4>2. tasks' = [tasks EXCEPT ![<<l, Main>>] = Append(@, t)]
          BY <1>6, <3>2, <4>1 DEF NewConn, Queue
      <4> QED
          BY <1>a, <1>f, <4>1, <4>2, BoxesAre
    <3> QED
        BY <3>1, <3>2
  <2> QED
      BY <1>0, <1>6, <2>2, StopStays DEF NewConn
<1>7. ASSUME StopInLoop PROVE StopInv'
  <2> DEFINE q == IF at = "poll" THEN Taken(Main, caller) ELSE tasks
  <2>0. /\ caller # Nobody /\ <<Main, caller>> \in Boxes
        /\ at = "stopInLoop" \/ (at = "poll" /\ IsNext(Main, caller, "stop"))
        /\ UNCHANGED <<status, connections, thread, stop, caller, resume, stopped>>
      BY <1>7, BoxesAre DEF StopInLoop, TypeOK
  <2>1. CASE listener # "listening"
    <3>1. UNCHANGED <<substatus, listener, stoppedCb, pool, tasks, at>>
        BY <1>7, <2>1 DEF StopInLoop
    <3> QED
        BY <1>0, <2>0, <3>1, StopStays
  <2>2. CASE listener = "listening"
    <3>1. /\ stop \notin {"none", "stored"} /\ ~ stopped
          /\ at = "stopInLoop" => status = "stopping"
          /\ caller = Main => resume \notin {"start", "started"} /\ at = "stopInLoop"
      <4>1. CASE at = "stopInLoop"
          BY <2>2, <4>1 DEF StopInv, BootInv, HereInv, PoolInv
      <4>2. CASE at = "poll" /\ IsNext(Main, caller, "stop")
          BY <1>0, <1>b, <2>0, <2>2, <4>2 DEF IsNext, StopInv, ListenInv, PoolInv
      <4> QED
          BY <2>0, <4>1, <4>2
    <3>2. /\ q \in Mailboxes
          /\ \A b \in Boxes, u \in Tasks : u.op \in {"listen", "stop"} => ~ Queued(q, b, u)
      <4>0. \A b \in Boxes, u \in Tasks : u.op = "listen" => ~ Queued(tasks, b, u)
          BY <2>2 DEF StopInv, ListenInv
      <4>1. CASE at = "stopInLoop"
        <5>1. caller = Main
            BY <4>1 DEF StopInv, HereInv
        <5> QED
            BY <1>0, <1>a, <4>0, <4>1, <5>1 DEF StopInv, ListenInv
      <4>2. CASE at = "poll" /\ IsNext(Main, caller, "stop")
        <5>1. \A b \in Boxes, u \in Tasks : u.op = "stop" => ~ Queued(q, b, u)
            BY <1>d, <2>0, <4>2
        <5>2. q \in Mailboxes /\ \A b \in Boxes, u \in Tasks : Queued(q, b, u) => Queued(tasks, b, u)
            BY <1>b, <2>0, <4>2 DEF IsNext
        <5> HIDE DEF q
        <5> QED
            BY <4>0, <5>1, <5>2
      <4> QED
          BY <2>0, <4>1, <4>2
    <3>3. CASE connections = {} /\ status # "stopping"
      <4>1. /\ listener' = "none" /\ stoppedCb' = TRUE /\ failed' = "IsStopping" /\ at = "poll"
            /\ UNCHANGED <<substatus, pool, tasks, at>>
          BY <1>7, <2>0, <2>2, <3>1, <3>3 DEF StopInLoop, StopThreadPool
      <4>2. BootInv' /\ HereInv'
          BY <2>0, <4>1 DEF StopInv, BootInv, HereInv, Outside
      <4>3. ListenInv'
          BY <2>0, <2>2, <3>1, <4>1 DEF StopInv, ListenInv
      <4>4. PoolInv'
          BY <2>0, <4>1 DEF StopInv, PoolInv, Interrupted
      <4> QED
          BY <4>2, <4>3, <4>4 DEF StopInv
    <3>4. CASE connections = {} /\ status = "stopping"
      <4>1. StopThreadPool(q) /\ listener' = "none" /\ stoppedCb' = TRUE
          BY <1>7, <2>2, <3>4 DEF StopInLoop
      <4> HIDE DEF q
      <4>2. /\ substatus' = "pool" /\ pool' = "stopping" /\ at' = "join"
            /\ \A b \in Boxes, u \in Tasks : u.op \in {"listen", "stop"} => ~ Queued(tasks', b, u)
          BY <1>h, <3>2, <3>4, <4>1
      <4>3. BootInv' /\ HereInv'
          BY <2>0, <3>1, <4>1, <4>2 DEF StopInv, BootInv, HereInv, Outside
      <4>4. ListenInv'
          BY <2>0, <3>1, <4>1, <4>2 DEF ListenInv
      <4>5. PoolInv'
          BY <2>0, <3>1, <3>4, <4>1, <4>2 DEF StopInv, PoolInv
      <4> QED
          BY <4>3, <4>4, <4>5 DEF StopInv
    <3>5. CASE connections # {}
      <4>1. /\ listener' = "none" /\ at' = "close" /\ tasks' = q
            /\ UNCHANGED <<substatus, stoppedCb, pool>>
          BY <1>7, <2>2, <3>5 DEF StopInLoop
      <4> HIDE DEF q
      <4>3. BootInv' /\ HereInv'
          BY <2>0, <3>1, <4>1 DEF StopInv, BootInv, HereInv, Outside
      <4>4. ListenInv'
          BY <2>0, <3>1, <3>2, <4>1 DEF ListenInv
      <4>5. PoolInv'
          BY <2>0, <3>1, <4>1 DEF StopInv, PoolInv, Interrupted
      <4> QED
          BY <4>3, <4>4, <4>5 DEF StopInv
    <3> QED
        BY <3>3, <3>4, <3>5
  <2> QED
      BY <2>1, <2>2
<1>8. ASSUME Close PROVE StopInv'
  <2>1. closing \in Conns /\ home[closing] \in Loops
      BY <1>8 DEF Close, LinkInv, UserInv, ConnInv
  <2>2. PICK t \in Tasks : t = Task("close", closing) /\ t.op = "close"
      BY TaskType, <2>1
  <2>3. tasks' = [tasks EXCEPT ![<<home[closing], Main>>] = Append(@, t)]
      BY <1>8, <2>2 DEF Close, Queue
  <2>4. \A b \in Boxes, u \in Tasks : u.op \in {"listen", "stop"} =>
            (Queued(tasks', b, u) => Queued(tasks, b, u))
      BY <1>a, <1>f, <2>1, <2>2, <2>3, BoxesAre
  <2> QED
      BY <1>0, <1>8, <2>4, StopStays DEF Close
<1>9. ASSUME CloseDone PROVE StopInv'
  <2>1. /\ at = "close" /\ stoppedCb' = TRUE /\ at' = IF caller = Main THEN "wait" ELSE "poll"
        /\ listener = "none"
        /\ UNCHANGED <<status, substatus, listener, connections, pool, thread, tasks,
                       stop, caller, resume, stopped, failed>>
      BY <1>9 DEF CloseDone, Back, StopInv, PoolInv
  <2>2. BootInv' /\ HereInv'
      BY <2>1 DEF StopInv, BootInv, HereInv, Outside
  <2>3. ListenInv'
      BY <2>1, <1>0 DEF StopInv, ListenInv
  <2>4. PoolInv'
      BY <2>1 DEF StopInv, PoolInv, Interrupted
  <2> QED
      BY <2>2, <2>3, <2>4 DEF StopInv
<1>10. ASSUME NEW l \in Loops, RemoveConnection(l) PROVE StopInv'
  <2>0. <<Main, l>> \in Boxes
      BY BoxesAre
  <2>1. /\ at = "poll" /\ tasks[<<Main, l>>] # <<>>
        /\ connections' \subseteq connections
        /\ UNCHANGED <<status, listener, stoppedCb, thread, stop, caller, resume, stopped>>
      BY <1>10 DEF RemoveConnection, IsNext
  <2>2. /\ Taken(Main, l) \in Mailboxes
        /\ \A b \in Boxes, u \in Tasks : Queued(Taken(Main, l), b, u) => Queued(tasks, b, u)
      BY <1>b, <2>0, <2>1
  <2>4. CASE status = "stopping" /\ connections' = {} /\ substatus = "listener"
    <3>1. StopThreadPool(Taken(Main, l))
        BY <1>10, <2>4 DEF RemoveConnection
    <3>2. /\ substatus' = "pool" /\ pool' = "stopping" /\ at' = "join" /\ failed' = "none"
          /\ \A b \in Boxes, u \in Tasks : u.op \in {"listen", "stop"} =>
                (Queued(tasks', b, u) => Queued(tasks, b, u))
        BY <1>0, <1>h, <2>2, <2>4, <3>1
    <3>3. stop \notin {"none", "stored"} /\ ~ stopped /\ caller # Main
        BY <2>1, <2>4 DEF StopInv, BootInv, HereInv, PoolInv, Outside
    <3>4. BootInv' /\ HereInv'
        BY <2>1, <2>4, <3>2, <3>3 DEF StopInv, BootInv, HereInv, Outside
    <3>5. ListenInv'
        BY <1>0, <2>1, <3>2, <3>3 DEF StopInv, ListenInv
    <3>6. PoolInv'
        BY <2>1, <2>4, <3>2, <3>3 DEF StopInv, PoolInv
    <3> QED
        BY <3>4, <3>5, <3>6 DEF StopInv
  <2>5. CASE ~ (status = "stopping" /\ connections' = {} /\ substatus = "listener")
    <3>1. UNCHANGED <<substatus, pool, at>> /\ tasks' \in {tasks, Taken(Main, l)}
        BY <1>10, <2>5 DEF RemoveConnection
    <3> QED
        BY <1>0, <2>1, <2>2, <3>1, StopStays
  <2> QED
      BY <2>4, <2>5
<1>11. ASSUME Join PROVE StopInv'
  <2>1. /\ at = "join" /\ pool' = "gone" /\ pool = "stopping" /\ substatus' = "null"
        /\ at' \in {"callback", "finish"} /\ (at' = "callback" => stoppedCb)
        /\ \A l \in Loops : thread[l] = "stopped"
        /\ UNCHANGED <<status, listener, connections, stoppedCb, thread, stop, caller, resume,
                       stopped, failed>>
      BY <1>11 DEF Join, StopInv, PoolInv
  <2>2. \A b \in Boxes : tasks'[b] = tasks[b] \/ tasks'[b] = <<>>
      BY <1>11 DEF Join
  <2>3. \A b \in Boxes, u \in Tasks : Queued(tasks', b, u) => Queued(tasks, b, u)
      BY <2>2 DEF Queued
  <2>4. BootInv' /\ HereInv'
      BY <2>1 DEF StopInv, BootInv, HereInv, Outside
  <2>5. ListenInv'
      BY <1>0, <2>1, <2>3 DEF StopInv, ListenInv
  <2>6. PoolInv'
      BY <2>1 DEF StopInv, PoolInv, Interrupted
  <2> QED
      BY <2>4, <2>5, <2>6 DEF StopInv
<1>12. ASSUME Callback PROVE StopInv'
  <2>0. stopped' /\ ~ stoppedCb'
      BY <1>12, Zenon DEF Callback
  <2>1. /\ at = "callback" /\ at' = "notify"
        /\ UNCHANGED <<status, substatus, listener, connections, pool, thread, tasks, stop,
                       caller, resume, failed>>
      BY <1>12 DEF Callback
  <2>3. BootInv' /\ HereInv'
      BY <2>1 DEF StopInv, BootInv, HereInv, Outside
  <2>4. ListenInv'
      BY <1>0, <2>1 DEF StopInv, ListenInv
  <2>5. PoolInv'
      BY <2>0, <2>1 DEF StopInv, PoolInv, Interrupted
  <2> QED
      BY <2>3, <2>4, <2>5 DEF StopInv
<1>13. ASSUME NotifyOne \/ Finish PROVE StopInv'
  <2>1. CASE NotifyOne
    <3>0. /\ at = "notify" /\ at' = "finish" /\ stop' = IF stop = "blocked" THEN "posted" ELSE stop
          /\ UNCHANGED <<status, substatus, listener, connections, stoppedCb, pool, thread, tasks,
                         caller, resume, stopped, failed>>
        BY <2>1 DEF NotifyOne
    <3>1. BootInv' /\ HereInv'
        BY <3>0 DEF StopInv, BootInv, HereInv, Outside
    <3>2. ListenInv'
        BY <1>0, <3>0 DEF StopInv, ListenInv
    <3>3. PoolInv'
        BY <3>0 DEF StopInv, PoolInv, Interrupted
    <3> QED
        BY <3>1, <3>2, <3>3 DEF StopInv
  <2>2. CASE Finish
    <3>0. /\ stop \notin {"none", "stored"} /\ pool = "gone" /\ status' = "stopped"
          /\ at = "finish" /\ at' = IF caller = Main THEN "wait" ELSE "poll"
          /\ UNCHANGED <<substatus, listener, connections, stoppedCb, pool, thread, tasks,
                         stop, caller, resume, stopped, failed>>
        BY <2>2 DEF Finish, Back, StopInv, PoolInv
    <3>1. BootInv' /\ HereInv'
        BY <3>0 DEF StopInv, BootInv, HereInv, Outside
    <3>2. ListenInv'
        BY <1>0, <3>0 DEF StopInv, ListenInv, HereInv
    <3>3. PoolInv'
        BY <3>0 DEF StopInv, PoolInv, Interrupted
    <3> QED
        BY <3>1, <3>2, <3>3 DEF StopInv
  <2> QED
      BY <1>13, <2>1, <2>2
<1>14. ASSUME NEW l \in Loops, OnAttachedToLoop(l) \/ OnConnection(l) \/ Quit(l) PROVE StopInv'
  <2>1. /\ Works(l)
        /\ UNCHANGED <<status, substatus, listener, connections, stoppedCb, pool, at,
                       stop, caller, resume, stopped>>
        /\ tasks' = tasks \/ (tasks[<<l, Main>>] # <<>> /\ tasks' = Taken(l, Main))
      BY <1>14 DEF OnAttachedToLoop, OnConnection, Quit, Free, IsNext
  <2>2. <<l, Main>> \in Boxes
      BY BoxesAre
  <2>3. \A b \in Boxes, u \in Tasks : Queued(tasks', b, u) => Queued(tasks, b, u)
      BY <1>b, <2>1, <2>2
  <2> QED
      BY <1>0, <1>e, <2>1, <2>3, StopStays
<1>15. ASSUME NEW l \in Loops, NEW p, <<l, p>> \in Boxes,
              IsNext(l, p, "close") \/ IsNext(l, p, "send"),
              HandleClose(Head(tasks[<<l, p>>]).conn, Taken(l, p))
                  \/ tasks' \in {tasks, Taken(l, p)},
              UNCHANGED <<serverVars, poolVars, mainVars, stopVars>>
       PROVE  StopInv'
  <2>1. PICK t \in Tasks : t = Head(tasks[<<l, p>>]) /\ t.op \in {"close", "send"}
                           /\ tasks[<<l, p>>] # <<>>
      BY <1>15, <1>b DEF IsNext
  <2>2. PICK c \in Conns : c = t.conn /\ home[c] = l
      BY <1>15, <1>b, <2>1 DEF TaskOK
  <2>3. /\ Taken(l, p) \in Mailboxes
        /\ \A b \in Boxes, u \in Tasks : Queued(Taken(l, p), b, u) => Queued(tasks, b, u)
      BY <1>15, <1>b, <2>1
  <2>4. \A b \in Boxes, u \in Tasks : u.op \in {"listen", "stop"} =>
            (Queued(tasks', b, u) => Queued(tasks, b, u))
    <3>1. CASE HandleClose(c, Taken(l, p))
        BY <1>g, <2>2, <2>3, <3>1
    <3>2. CASE tasks' \in {tasks, Taken(l, p)}
        BY <2>3, <3>2
    <3> QED
        BY <1>15, <2>1, <2>2, <3>1, <3>2
  <2> QED
      BY <1>0, <1>15, <2>4, StopStays
<1>15a. ASSUME NEW l \in Loops, CloseFunctor(l) PROVE StopInv'
    BY <1>15, <1>15a, BoxesAre DEF CloseFunctor
<1>15b. ASSUME NEW l \in Loops, NEW w \in Workers, SendInLoop(l, w) PROVE StopInv'
    BY <1>15, <1>15b, BoxesAre DEF SendInLoop
<1>16. ASSUME NEW l \in Loops, NEW c \in Conns, HandleEnd(l, c) PROVE StopInv'
  <2>1. /\ HandleClose(c, tasks) /\ home[c] \in Loops
        /\ UNCHANGED <<status, substatus, listener, connections, stoppedCb, pool, thread, at,
                       stop, caller, resume, stopped>>
      BY <1>16 DEF HandleEnd
  <2>2. \A b \in Boxes, u \in Tasks : u.op \in {"listen", "stop"} =>
            (Queued(tasks', b, u) => Queued(tasks, b, u))
      BY <1>a, <1>g, <2>1
  <2> QED
      BY <1>0, <2>1, <2>2, StopStays
<1>16a. ASSUME NEW l \in Loops, NEW c \in Conns, NEW w \in Workers, OnMessage(l, c, w)
        PROVE  StopInv'
    BY <1>0, <1>16a, StopStays DEF OnMessage
<1>i. ASSUME stop = "none", status = "running"
      PROVE  /\ pool \notin {"stopping", "gone"} /\ caller = Nobody /\ substatus = "null"
             /\ ~ stopped /\ at # "init" /\ listener # "none"
             /\ at \notin {"stopInLoop", "wait", "join", "callback", "notify", "finish"}
             /\ \A b \in Boxes, u \in Tasks : u.op = "stop" => ~ Queued(tasks, b, u)
  <2>1. caller = Nobody /\ substatus = "null" /\ at # "init"
      BY <1>i DEF StopInv, BootInv, TypeOK
  <2>2. pool \notin {"stopping", "gone"}
      BY <1>i DEF StopInv, PoolInv
  <2> QED
      BY <1>0, <1>i, <2>1, <2>2 DEF StopInv, HereInv, ListenInv, PoolInv
<1>17. ASSUME NEW t \in Loops \cup {Other}, Stop(t) PROVE StopInv'
  <2>1. /\ stop = "none" /\ status = "running" /\ status' = "stopping" /\ stop' = "stored"
        /\ caller' = t /\ t # Main /\ t # Nobody
        /\ UNCHANGED <<substatus, listener, connections, stoppedCb, pool, thread, tasks, at,
                       resume, stopped, failed>>
      BY <1>0, <1>17 DEF Stop
  <2>2. BootInv' /\ HereInv'
      BY <1>i, <2>1 DEF StopInv, BootInv, HereInv, Outside
  <2>3. ListenInv'
      BY <1>i, <2>1 DEF StopInv, ListenInv
  <2>4. PoolInv'
      BY <1>i, <2>1 DEF StopInv, PoolInv
  <2> QED
      BY <2>2, <2>3, <2>4 DEF StopInv
<1>18. ASSUME StopHere PROVE StopInv'
  <2>1. /\ stop = "none" /\ status = "running" /\ status' = "stopping" /\ stop' = "posted"
        /\ substatus' = "listener" /\ caller' = Main /\ resume' = at
        /\ UNCHANGED <<listener, connections, stoppedCb, pool, thread, stopped, failed>>
      BY <1>18 DEF StopHere
  <2>2. CASE at \in {"start", "started"}
    <3>1. at' = "wait" /\ Queue(Main, Main, Task("stop", Nobody))
        BY <1>18, <2>2 DEF StopHere
    <3>2. PICK t \in Tasks : t = Task("stop", Nobody) /\ t.op = "stop"
        BY TaskType
    <3>3. tasks' \in Mailboxes /\ Grown(tasks, tasks', <<Main, Main>>, t)
        BY <1>a, <3>1, <3>2, BoxesAre, OneMore
    <3>4. \A b \in Boxes, u \in Tasks : u.op = "listen" =>
              (Queued(tasks', b, u) => Queued(tasks, b, u))
        BY <1>a, <3>2, <3>3, BoxesAre, GrownQueue
    <3>5. BootInv' /\ HereInv'
        BY <1>0, <1>i, <2>1, <2>2, <3>1 DEF StopInv, BootInv, HereInv, Outside
    <3>6. ListenInv'
        BY <1>i, <2>1, <2>2, <3>1, <3>4 DEF StopInv, ListenInv
    <3>7. PoolInv'
        BY <1>i, <2>1, <3>1 DEF StopInv, PoolInv
    <3> QED
        BY <3>5, <3>6, <3>7 DEF StopInv
  <2>3. CASE at \notin {"start", "started"}
    <3>1. at' = "stopInLoop" /\ tasks' = tasks
        BY <1>18, <2>3 DEF StopHere
    <3>2. BootInv' /\ HereInv'
        BY <1>0, <1>i, <2>1, <2>3, <3>1 DEF StopInv, BootInv, HereInv, Outside
    <3>3. ListenInv'
        BY <1>i, <2>1, <3>1 DEF StopInv, ListenInv
    <3>4. PoolInv'
        BY <1>i, <2>1, <3>1 DEF StopInv, PoolInv
    <3> QED
        BY <3>2, <3>3, <3>4 DEF StopInv
  <2> QED
      BY <2>2, <2>3
<1>19. ASSUME WaitTest \/ WaitBlock \/ WakeUp PROVE StopInv'
  <2>0. /\ UNCHANGED <<status, substatus, listener, connections, stoppedCb, pool, thread, tasks,
                       caller, resume, stopped, failed>>
        /\ stop \in {"posted", "tested", "blocked"}
        /\ stop' \in {"posted", "tested", "blocked"} \/ (stop' = "done" /\ stopped)
        /\ \/ at' = at /\ ((caller = Main /\ at = "wait") \/ caller # Main \/ at \notin Outside)
           \/ caller = Main /\ at = "wait" /\ at' = resume /\ stop' = "done"
      BY <1>19 DEF WaitTest, WaitBlock, WakeUp, StopInv, HereInv
  <2>1. BootInv'
      BY <1>0, <2>0 DEF StopInv, BootInv, TypeOK
  <2>2. HereInv'
      BY <2>0 DEF StopInv, HereInv, Outside, TypeOK
  <2>3. ListenInv'
      BY <1>0, <2>0 DEF StopInv, ListenInv, HereInv, TypeOK
  <2>4. PoolInv'
      BY <2>0 DEF StopInv, PoolInv, Interrupted, TypeOK
  <2> QED
      BY <2>1, <2>2, <2>3, <2>4 DEF StopInv
<1>21. ASSUME StopQueues PROVE StopInv'
  <2>1. /\ stop = "stored" /\ substatus' = "listener" /\ stop' = "posted"
        /\ UNCHANGED <<status, listener, connections, stoppedCb, pool, thread, at, caller, resume,
                       stopped, failed>>
      BY <1>21 DEF StopQueues
  <2>2. at # "init" /\ listener # "none" /\ caller # Main /\ caller # Nobody
      BY <2>1 DEF StopInv, BootInv, ListenInv
  <2>3. PICK t \in Tasks : t = Task("stop", Nobody) /\ t.op = "stop"
      BY TaskType
  <2>4. <<Main, caller>> \in Boxes
      BY <2>2, BoxesAre DEF TypeOK
  <2>5. tasks' \in Mailboxes /\ Grown(tasks, tasks', <<Main, caller>>, t)
      BY <1>21, <1>a, <2>3, <2>4, OneMore DEF StopQueues
  <2>6. \A b \in Boxes, u \in Tasks : u.op = "listen" =>
            (Queued(tasks', b, u) => Queued(tasks, b, u))
      BY <1>a, <2>3, <2>4, <2>5, GrownQueue
  <2>7. BootInv' /\ HereInv'
      BY <2>1, <2>2 DEF StopInv, BootInv, HereInv, Outside
  <2>8. ListenInv'
      BY <2>1, <2>2, <2>6 DEF StopInv, ListenInv
  <2>9. PoolInv'
      BY <2>1 DEF StopInv, PoolInv, Interrupted
  <2> QED
      BY <2>7, <2>8, <2>9 DEF StopInv
<1>22. ASSUME NEW w \in Workers, WorkerStep(w) PROVE StopInv'
  <2>1. CASE PostTest(w)
      BY <1>0, <2>1, StopStays DEF PostTest
  <2>2. CASE PostQueue(w)
    <3>1. PICK c \in Conns : c = worker[w].conn /\ home[c] \in Loops
        BY <2>2 DEF PostQueue, LinkInv, UserInv, ConnInv
    <3>2. \A b \in Boxes, u \in Tasks : u.op \in {"listen", "stop"} =>
              (Queued(tasks', b, u) => Queued(tasks, b, u))
      <4>1. CASE tasks' = tasks
          BY <4>1
      <4>2. CASE tasks' # tasks
        <5>1. PICK t \in Tasks : t = Task("send", c) /\ t.op = "send"
            BY TaskType
        <5>2. tasks' = [tasks EXCEPT ![<<home[c], w>>] = Append(@, t)]
            BY <2>2, <3>1, <4>2, <5>1 DEF PostQueue, Queue
        <5> QED
            BY <1>a, <1>f, <3>1, <5>1, <5>2, BoxesAre
      <4> QED
          BY <4>1, <4>2
    <3> QED
        BY <1>0, <2>2, <3>2, StopStays DEF PostQueue
  <2> QED
      BY <1>22, <2>1, <2>2 DEF WorkerStep
<1> QED
    BY <1>1, <1>2, <1>2a, <1>3, <1>3a, <1>4, <1>5, <1>6, <1>7, <1>8, <1>9, <1>10, <1>11, <1>12,
       <1>13, <1>14, <1>15a, <1>15b, <1>16, <1>16a, <1>17, <1>18, <1>19, <1>21, <1>22
    DEF Next, MainStep, StopStep, PoolStep

-----------------------------------------------------------------------------
(* Races. *)

\* Steps that close no connection.
LEMMA RaceStays ==
    ASSUME RaceInv, PoolInv,
           \A m \in Boxes, u \in Tasks : u.op \in {"close", "remove"} =>
               (Queued(tasks', m, u) => Queued(tasks, m, u)),
           \A c \in Conns : chan'[c] = "closed" => chan[c] = "closed" /\ conn'[c] = conn[c],
           \A c \in Conns : peer[c] = "closed" => peer'[c] = "closed",
           listener' = "none" \/ listener # "none",
           todo' \subseteq todo \/ listener # "none",
           at' = "closeStore" =>
               \/ at = "closeStore" /\ closing' = closing /\ todo' = todo
               \/ closing' \in todo \ todo' /\ at = "close",
           at' = "init" => at = "init" /\ chan' = chan,
           pool' \in {"stopping", "gone"} => pool \in {"stopping", "gone"}
               \/ listener' = "none" \/ \E c \in Conns : peer[c] = "closed"
    PROVE  RaceInv'
<1>0. \A c \in Conns : /\ Task("close", c) \in Tasks /\ Task("close", c).op = "close"
                       /\ Task("remove", c) \in Tasks /\ Task("remove", c).op = "remove"
    BY TaskType
<1>1. \A b \in Boxes, c \in Conns :
          /\ Queued(tasks', b, Task("remove", c)) => Queued(tasks, b, Task("remove", c))
          /\ Queued(tasks', b, Task("close", c)) => Queued(tasks, b, Task("close", c))
    BY <1>0
<1>2. /\ at' = "init" => \A c \in Conns : chan'[c] = "idle"
      /\ pool' \in {"stopping", "gone"} /\ listener' # "none" =>
            \E c \in Conns : peer'[c] = "closed"
      /\ at' = "closeStore" => closing' \notin todo'
    BY DEF RaceInv
<1>3. \A b \in Boxes, c \in Conns : Queued(tasks', b, Task("remove", c)) =>
          listener' = "none" \/ peer'[c] = "closed"
    BY <1>1 DEF RaceInv
<1>4. \A b \in Boxes, c \in Conns : Queued(tasks', b, Task("close", c)) =>
          listener' = "none" /\ c \notin todo' /\ (at' = "closeStore" => c # closing')
    BY <1>1 DEF RaceInv
<1>5. \A c \in Conns : chan'[c] = "closed" /\ peer'[c] # "closed" =>
          /\ listener' = "none" /\ conn'[c] = "disconnected" /\ c \notin todo'
          /\ at' = "closeStore" => c # closing'
          /\ \A b \in Boxes : ~ Queued(tasks', b, Task("close", c))
    BY <1>1 DEF RaceInv
<1> QED
    BY <1>2, <1>3, <1>4, <1>5, Zenon DEF RaceInv, Task

\* HandleClose, for a connection that its peer has closed or that only
\* StopInLoop closes.
LEMMA RaceCloses ==
    ASSUME TypeOK, RaceInv, NEW c \in Conns, home[c] \in Loops, NEW q \in Mailboxes,
           HandleClose(c, q),
           \A m \in Boxes, u \in Tasks : Queued(q, m, u) => Queued(tasks, m, u),
           \/ peer[c] = "closed"
           \/ /\ listener = "none" /\ c \notin todo /\ (at = "closeStore" => c # closing)
              /\ \A b \in Boxes : ~ Queued(q, b, Task("close", c)),
           at # "init", UNCHANGED <<peer, listener, pool, at, closing, todo>>
    PROVE  RaceInv'
<1>1. CASE chan[c] = "closed"
  <2>1. UNCHANGED <<tasks, conn, chan>>
      BY <1>1 DEF HandleClose
  <2> QED
      BY <2>1 DEF RaceInv, Queued
<1>2. CASE chan[c] # "closed"
  <2> DEFINE k == <<Main, home[c]>>
  <2>0. /\ k \in Boxes
        /\ \A d \in Conns : /\ Task("close", d) \in Tasks /\ Task("remove", d) \in Tasks
                            /\ Task("remove", d).conn = d
                            /\ Task("close", d).op = "close" /\ Task("remove", d).op = "remove"
      BY TaskType, BoxesAre
  <2>1. /\ tasks' = [q EXCEPT ![k] = Append(@, Task("remove", c))]
        /\ chan' = [chan EXCEPT ![c] = "closed"]
        /\ conn' = [conn EXCEPT ![c] = "disconnected"]
      BY <1>2 DEF HandleClose
  <2> HIDE DEF k
  <2>2. tasks' \in Mailboxes /\ Grown(q, tasks', k, Task("remove", c))
      BY <2>0, <2>1, Appended
  <2>3. \A m \in Boxes, u \in Tasks : Queued(tasks', m, u) =>
            Queued(q, m, u) \/ (m = k /\ u = Task("remove", c))
      BY <2>0, <2>2, GrownQueue
  <2>4. /\ conn'[c] = "disconnected"
        /\ \A d \in Conns : d # c => chan'[d] = chan[d] /\ conn'[d] = conn[d]
      BY <2>1 DEF TypeOK
  <2>5. \A b \in Boxes, d \in Conns : Queued(tasks', b, Task("remove", d)) =>
            Queued(tasks, b, Task("remove", d)) \/ d = c
      BY <2>0, <2>3
  <2>6. \A b \in Boxes, d \in Conns : Queued(tasks', b, Task("close", d)) =>
            Queued(q, b, Task("close", d)) /\ Queued(tasks, b, Task("close", d))
      BY <2>0, <2>3
  <2>7. /\ pool \in {"stopping", "gone"} /\ listener # "none" =>
              \E d \in Conns : peer[d] = "closed"
        /\ at = "closeStore" => closing \notin todo
      BY DEF RaceInv
  <2>8. \A b \in Boxes, d \in Conns : Queued(tasks', b, Task("remove", d)) =>
            listener = "none" \/ peer[d] = "closed"
      BY <2>5 DEF RaceInv
  <2>9. \A b \in Boxes, d \in Conns : Queued(tasks', b, Task("close", d)) =>
            listener = "none" /\ d \notin todo /\ (at = "closeStore" => d # closing)
      BY <2>6 DEF RaceInv
  <2>10. \A d \in Conns : chan'[d] = "closed" /\ peer[d] # "closed" =>
            /\ listener = "none" /\ conn'[d] = "disconnected" /\ d \notin todo
            /\ at = "closeStore" => d # closing
            /\ \A b \in Boxes : ~ Queued(tasks', b, Task("close", d))
      BY <2>4, <2>6 DEF RaceInv
  <2> QED
      BY <2>7, <2>8, <2>9, <2>10, Zenon DEF RaceInv, Task
<1> QED
    BY <1>1, <1>2

LEMMA RaceStep ==
    TypeOK /\ LinkInv /\ PlaceInv /\ StopInv /\ RaceInv /\ [Next]_vars => RaceInv'
<1> SUFFICES ASSUME TypeOK, LinkInv, PlaceInv, StopInv, RaceInv, [Next]_vars PROVE RaceInv'
    OBVIOUS
<1>p. PoolInv
    BY DEF StopInv
<1>20. ASSUME UNCHANGED vars PROVE RaceInv'
    BY <1>20 DEF vars, RaceInv, Queued
<1> SUFFICES ASSUME Next PROVE RaceInv'
    BY <1>20
<1>0. Main \notin Loops /\ Nobody \notin Conns /\ failed = "none"
    BY ServerThreads DEF Next
<1>a. tasks \in Mailboxes /\ Once(tasks)
    BY DEF TypeOK, Mailboxes, LinkInv, OnceInv
<1>b. ASSUME NEW l, NEW m, <<l, m>> \in Boxes, tasks[<<l, m>>] # <<>>
      PROVE  /\ Taken(l, m) \in Mailboxes /\ Head(tasks[<<l, m>>]) \in Tasks
             /\ \A b \in Boxes, u \in Tasks : Queued(Taken(l, m), b, u) => Queued(tasks, b, u)
             /\ Queued(tasks, <<l, m>>, Head(tasks[<<l, m>>]))
             /\ TaskOK(<<l, m>>, Head(tasks[<<l, m>>]))
             /\ Head(tasks[<<l, m>>]).op = "close" =>
                   ~ Queued(Taken(l, m), <<l, m>>, Head(tasks[<<l, m>>]))
    BY <1>b, FirstFunctor DEF Single
<1>c. ASSUME NEW q \in Mailboxes, StopThreadPool(q),
             \A m \in Boxes, u \in Tasks : Queued(q, m, u) => Queued(tasks, m, u)
      PROVE  /\ at' \in {at, "join"}
             /\ \A m \in Boxes, u \in Tasks : u.op \in {"close", "remove"} =>
                   (Queued(tasks', m, u) => Queued(tasks, m, u))
  <2>1. CASE status # "stopping"
      BY <1>c, <2>1 DEF StopThreadPool
  <2>2. CASE status = "stopping"
    <3>1. /\ at' = "join"
          /\ tasks' = [b \in Boxes |-> IF b[1] # Main /\ b[2] = Main
                                       THEN Append(q[b], Task("quit", Nobody)) ELSE q[b]]
        BY <1>c, <2>2 DEF StopThreadPool
    <3>2. \A m \in Boxes, u \in Tasks : Queued(tasks', m, u) =>
                Queued(q, m, u) \/ (m \in FromMain /\ u = Task("quit", Nobody))
        BY <3>1, QuitQueue
    <3>3. Task("quit", Nobody).op = "quit"
        BY TaskType
    <3> QED
        BY <1>c, <3>1, <3>2, <3>3
  <2> QED
      BY <2>1, <2>2
<1>e. ASSUME NEW l \in Loops, Free(l) PROVE at # "init"
    BY <1>e DEF Free, Works, StopInv, BootInv
<1>f. ASSUME NEW l, NEW m, <<l, m>> \in Boxes, NEW t \in Tasks, t.op \notin {"close", "remove"},
             Queue(l, m, t)
      PROVE  \A b \in Boxes, u \in Tasks : u.op \in {"close", "remove"} =>
                 (Queued(tasks', b, u) => Queued(tasks, b, u))
  <2>1. tasks' \in Mailboxes /\ Grown(tasks, tasks', <<l, m>>, t)
      BY <1>a, <1>f, OneMore
  <2> QED
      BY <1>a, <1>f, <2>1, GrownQueue
<1>g. ASSUME tasks' = tasks
      PROVE  \A m \in Boxes, u \in Tasks : u.op \in {"close", "remove"} =>
                 (Queued(tasks', m, u) => Queued(tasks, m, u))
    BY <1>g
<1> USE DEF serverVars, poolVars, connVars, mainVars, stopVars, workers
<1>1. ASSUME NEW c \in Conns, Connect(c) \/ Disconnect(c) PROVE RaceInv'
  <2>1. \A d \in Conns : peer[d] = "closed" => peer'[d] = "closed"
      BY <1>1 DEF Connect, Disconnect, TypeOK
  <2>2. UNCHANGED <<listener, pool, conn, chan, tasks, at, closing, todo>>
      BY <1>1 DEF Connect, Disconnect
  <2> QED
      BY <1>p, <2>1, <2>2, RaceStays
<1>2. ASSUME Start PROVE RaceInv'
  <2>1. \A c \in Conns : chan[c] = "idle"
      BY <1>2 DEF Start, RaceInv
  <2>2. pool' = "running" /\ at' = "start" /\ UNCHANGED <<tasks, conn, chan, peer, closing, todo>>
      BY <1>2 DEF Start
  <2>3. \A m \in Boxes, u \in Tasks : u.op \in {"close", "remove"} => ~ Queued(tasks, m, u)
      BY <2>1 DEF LinkInv, TaskInv, TaskOK
  <2>4. \A c \in Conns, m \in Boxes :
            ~ Queued(tasks, m, Task("close", c)) /\ ~ Queued(tasks, m, Task("remove", c))
      BY <2>3, TaskType
  <2> QED
      BY <2>1, <2>2, <2>4 DEF RaceInv
<1>2a. ASSUME Accept PROVE RaceInv'
  <2>1. PICK t \in Tasks : t = Task("listen", Nobody) /\ t.op = "listen"
      BY TaskType
  <2>2. \A m \in Boxes, u \in Tasks : u.op \in {"close", "remove"} =>
            (Queued(tasks', m, u) => Queued(tasks, m, u))
      BY <1>2a, <1>f, <2>1, BoxesAre DEF Accept
  <2> QED
      BY <1>2a, <1>p, <2>2, RaceStays DEF Accept
<1>3. ASSUME Run \/ Insert \/ CloseDone \/ Callback \/ NotifyOne \/ Finish PROVE RaceInv'
  <2>1. /\ UNCHANGED <<listener, pool, conn, chan, peer, tasks, todo>>
        /\ at' \notin {"init", "closeStore"}
      BY <1>3 DEF Run, Insert, CloseDone, Callback, NotifyOne, Finish, Back
  <2> QED
      BY <1>p, <2>1, RaceStays
<1>4. ASSUME Listen PROVE RaceInv'
  <2>1. /\ tasks' = Taken(Main, Main) /\ tasks[<<Main, Main>>] # <<>> /\ at = "poll"
        /\ Head(tasks[<<Main, Main>>]).op = "listen"
        /\ UNCHANGED <<pool, conn, chan, peer, at, closing, todo>>
      BY <1>4 DEF Listen, IsNext
  <2>2. listener # "none"
      BY <1>b, <2>1, BoxesAre DEF StopInv, ListenInv
  <2> QED
      BY <1>b, <1>p, <2>1, <2>2, BoxesAre, RaceStays
<1>5. ASSUME NEW c \in Conns, HandleNewConn(c) PROVE RaceInv'
  <2>1. /\ chan[c] = "idle" /\ at' \in {"poll", "accept"}
        /\ UNCHANGED <<listener, pool, chan, peer, tasks, todo>>
        /\ conn' \in {conn, [conn EXCEPT ![c] = "refused"]}
      BY <1>5 DEF HandleNewConn, LinkInv, ConnInv
  <2>2. \A d \in Conns : d # c => conn'[d] = conn[d]
      BY <2>1 DEF TypeOK
  <2> QED
      BY <1>p, <2>1, <2>2, RaceStays
<1>6. ASSUME NEW l \in Loops, NewConn(l) PROVE RaceInv'
  <2>1. cur \in Conns /\ chan[cur] = "idle" /\ at = "accept"
      BY <1>6 DEF NewConn, PlaceInv, Place, Outside, LinkInv, ConnInv
  <2>2. PICK t \in Tasks : t = Task("attach", cur) /\ t.op = "attach"
      BY TaskType, <2>1
  <2>3. /\ tasks' = tasks \/ Queue(l, Main, t)
        /\ conn' \in {conn, [conn EXCEPT ![cur] = "disconnected"]}
        /\ UNCHANGED <<listener, pool, chan, peer, todo>> /\ at' \in {"accept", "insert"}
      BY <1>6, <2>1, <2>2 DEF NewConn
  <2>4. \A d \in Conns : d # cur => conn'[d] = conn[d]
      BY <2>1, <2>3 DEF TypeOK
  <2>5. \A m \in Boxes, u \in Tasks : u.op \in {"close", "remove"} =>
            (Queued(tasks', m, u) => Queued(tasks, m, u))
      BY <1>f, <1>g, <2>2, <2>3, BoxesAre
  <2> QED
      BY <1>p, <2>1, <2>3, <2>4, <2>5, RaceStays
<1>7. ASSUME StopInLoop PROVE RaceInv'
  <2> DEFINE q == IF at = "poll" THEN Taken(Main, caller) ELSE tasks
  <2>0. at = "poll" => caller # Nobody /\ tasks[<<Main, caller>>] # <<>>
      BY <1>7 DEF StopInLoop, IsNext
  <2>k. caller # Nobody => <<Main, caller>> \in Boxes
      BY BoxesAre DEF TypeOK
  <2>1. /\ q \in Mailboxes
        /\ \A m \in Boxes, u \in Tasks : Queued(q, m, u) => Queued(tasks, m, u)
      BY <1>a, <1>b, <2>0, <2>k
  <2>2. CASE listener # "listening"
    <3>1. UNCHANGED <<listener, pool, conn, chan, peer, tasks, at, closing, todo>>
        BY <1>7, <2>2 DEF StopInLoop
    <3> QED
        BY <3>1 DEF RaceInv, Queued
  <2>3. CASE listener = "listening" /\ connections = {}
    <3>1. /\ StopThreadPool(q) /\ listener' = "none" /\ at \in {"stopInLoop", "poll"}
          /\ UNCHANGED <<conn, chan, peer, closing, todo>>
        BY <1>7, <2>3 DEF StopInLoop
    <3> HIDE DEF q
    <3> QED
        BY <1>c, <1>p, <2>1, <3>1, RaceStays
  <2>4. CASE listener = "listening" /\ connections # {}
    <3>1. /\ at' = "close" /\ tasks' = q /\ listener' = "none"
          /\ UNCHANGED <<pool, conn, chan, peer, closing>>
        BY <1>7, <2>4 DEF StopInLoop
    <3> HIDE DEF q
    <3> QED
        BY <1>p, <2>1, <2>4, <3>1, RaceStays
  <2> QED
      BY <2>2, <2>3, <2>4
<1>8. ASSUME NEW c \in Conns, CloseNext(c) PROVE RaceInv'
  <2>1. /\ at = "close" /\ c \in todo /\ todo' = todo \ {c}
        /\ at' = "closeStore" => closing' = c
        /\ at' \in {"close", "closeStore"}
        /\ UNCHANGED <<listener, pool, conn, chan, peer, tasks>>
      BY <1>8 DEF CloseNext
  <2> QED
      BY <1>p, <2>1, RaceStays
<1>9. ASSUME Close PROVE RaceInv'
  <2>1. /\ closing \in Conns /\ home[closing] \in Loops /\ at = "closeStore" /\ listener = "none"
        /\ closing \notin todo
      BY <1>9 DEF Close, LinkInv, UserInv, ConnInv, RaceInv, StopInv, PoolInv
  <2>2. PICK l \in Loops : l = home[closing]
      BY <2>1
  <2>3. PICK t \in Tasks : t = Task("close", closing) /\ t.op = "close" /\ t.conn = closing
      BY <2>1, TaskType
  <2>4. /\ conn' = [conn EXCEPT ![closing] = "disconnecting"]
        /\ Queue(l, Main, t) /\ at' = "close"
        /\ UNCHANGED <<chan, peer, listener, pool, todo>>
      BY <1>9, <2>2, <2>3 DEF Close
  <2>5. \A d \in Conns : d # closing => conn'[d] = conn[d]
      BY <2>1, <2>4 DEF TypeOK
  <2>6. <<l, Main>> \in Boxes /\ tasks' \in Mailboxes /\ Grown(tasks, tasks', <<l, Main>>, t)
      BY <1>a, <2>4, BoxesAre, OneMore
  <2>7. \A m \in Boxes, u \in Tasks : Queued(tasks', m, u) =>
            Queued(tasks, m, u) \/ (m = <<l, Main>> /\ u = t)
      BY <1>a, <2>6, GrownQueue
  <2>8. \A m \in Boxes, d \in Conns :
            /\ Queued(tasks', m, Task("remove", d)) => Queued(tasks, m, Task("remove", d))
            /\ Queued(tasks', m, Task("close", d)) =>
                  Queued(tasks, m, Task("close", d)) \/ d = closing
    <3> SUFFICES ASSUME NEW m \in Boxes, NEW d \in Conns
                 PROVE  /\ Queued(tasks', m, Task("remove", d)) =>
                              Queued(tasks, m, Task("remove", d))
                        /\ Queued(tasks', m, Task("close", d)) =>
                              Queued(tasks, m, Task("close", d)) \/ d = closing
        OBVIOUS
    <3>1. /\ Task("close", d) \in Tasks /\ Task("close", d).conn = d
          /\ Task("remove", d) \in Tasks /\ Task("remove", d).op = "remove"
        BY TaskType
    <3> QED
        BY <2>3, <2>7, <3>1
  <2>9. \A d \in Conns : chan[d] = "closed" /\ peer[d] # "closed" =>
            /\ conn'[d] = "disconnected" /\ d \notin todo
            /\ \A m \in Boxes : ~ Queued(tasks', m, Task("close", d))
      BY <2>1, <2>5, <2>8 DEF RaceInv
  <2> QED
      BY <2>1, <2>4, <2>8, <2>9 DEF RaceInv
<1>10. ASSUME NEW l \in Loops, RemoveConnection(l) PROVE RaceInv'
  <2>0. <<Main, l>> \in Boxes
      BY BoxesAre
  <2>1. /\ at = "poll" /\ tasks[<<Main, l>>] # <<>> /\ Head(tasks[<<Main, l>>]).op = "remove"
        /\ UNCHANGED <<listener, conn, chan, peer, closing, todo>>
      BY <1>10 DEF RemoveConnection, IsNext
  <2>2. PICK t \in Tasks : /\ t = Head(tasks[<<Main, l>>]) /\ Queued(tasks, <<Main, l>>, t)
                           /\ t.conn \in Conns
      BY <1>b, <2>0, <2>1 DEF TaskOK
  <2>3. t = Task("remove", t.conn)
      BY <2>1, <2>2 DEF Tasks, Task
  <2>4. listener = "none" \/ \E c \in Conns : peer[c] = "closed"
      BY <2>0, <2>2, <2>3 DEF RaceInv
  <2>5. /\ Taken(Main, l) \in Mailboxes
        /\ \A m \in Boxes, u \in Tasks : Queued(Taken(Main, l), m, u) => Queued(tasks, m, u)
      BY <1>b, <2>0, <2>1
  <2>6. /\ at' \in {at, "join"}
        /\ \A m \in Boxes, u \in Tasks : u.op \in {"close", "remove"} =>
              (Queued(tasks', m, u) => Queued(tasks, m, u))
    <3>1. CASE StopThreadPool(Taken(Main, l))
        BY <1>c, <2>5, <3>1
    <3>2. CASE ~ StopThreadPool(Taken(Main, l))
        BY <1>10, <2>5, <3>2 DEF RemoveConnection
    <3> QED
        BY <3>1, <3>2
  <2> QED
      BY <1>p, <2>1, <2>4, <2>6, RaceStays
<1>11. ASSUME Join PROVE RaceInv'
  <2>2. \A b \in Boxes : tasks'[b] = tasks[b] \/ tasks'[b] = <<>>
      BY <1>11 DEF Join
  <2>3. \A m \in Boxes, u \in Tasks : Queued(tasks', m, u) => Queued(tasks, m, u)
      BY <2>2 DEF Queued
  <2>4. /\ pool = "stopping" /\ at' \in {"callback", "finish"}
        /\ UNCHANGED <<listener, conn, chan, peer, closing, todo>>
      BY <1>11, <1>p DEF Join, PoolInv
  <2> QED
      BY <1>p, <2>3, <2>4, RaceStays
<1>12. ASSUME NEW l \in Loops, OnAttachedToLoop(l) PROVE RaceInv'
  <2>0. <<l, Main>> \in Boxes
      BY BoxesAre
  <2>1. /\ tasks[<<l, Main>>] # <<>> /\ tasks' = Taken(l, Main) /\ at # "init"
        /\ UNCHANGED <<listener, pool, peer, at, closing, todo>>
      BY <1>12, <1>e DEF OnAttachedToLoop, IsNext
  <2>2. Head(tasks[<<l, Main>>]).conn \in Conns
      BY <1>12, <1>b, <2>0, <2>1 DEF OnAttachedToLoop, IsNext, TaskOK
  <2>3. \A d \in Conns : chan'[d] = "closed" => chan[d] = "closed" /\ conn'[d] = conn[d]
      BY <1>12, <2>2 DEF OnAttachedToLoop, TypeOK
  <2> QED
      BY <1>b, <1>p, <2>0, <2>1, <2>3, RaceStays
\* A functor that closes a connection or sends on it, and then closes it only
\* if its peer has.
<1>13. ASSUME NEW l \in Loops, NEW p, <<l, p>> \in Boxes, Free(l),
              IsNext(l, p, "close") \/ IsNext(l, p, "send"),
              \/ /\ HandleClose(Head(tasks[<<l, p>>]).conn, Taken(l, p))
                 /\ IsNext(l, p, "close") \/ peer[Head(tasks[<<l, p>>]).conn] = "closed"
              \/ tasks' \in {tasks, Taken(l, p)} /\ UNCHANGED <<conn, chan>>,
              UNCHANGED <<serverVars, poolVars, peer, mainVars>>
       PROVE  RaceInv'
  <2>1. PICK t \in Tasks : /\ t = Head(tasks[<<l, p>>]) /\ t.op \in {"close", "send"}
                           /\ tasks[<<l, p>>] # <<>> /\ (IsNext(l, p, "close") <=> t.op = "close")
      BY <1>13, <1>b DEF IsNext
  <2>2. PICK c \in Conns : c = t.conn /\ home[c] = l
      BY <1>13, <1>b, <2>1 DEF TaskOK
  <2>3. /\ Taken(l, p) \in Mailboxes
        /\ \A m \in Boxes, u \in Tasks : Queued(Taken(l, p), m, u) => Queued(tasks, m, u)
      BY <1>13, <1>b, <2>1
  <2>4. at # "init" /\ UNCHANGED <<peer, listener, pool, at, closing, todo>>
      BY <1>13, <1>e
  <2>5. CASE HandleClose(c, Taken(l, p)) /\ peer[c] = "closed"
      BY <2>2, <2>3, <2>4, <2>5, RaceCloses
  <2>6. CASE HandleClose(c, Taken(l, p)) /\ t.op = "close"
    <3>1. t = Task("close", c) /\ Queued(tasks, <<l, p>>, t) /\ ~ Queued(Taken(l, p), <<l, p>>, t)
      <4>1. t = Task("close", c)
          BY <2>2, <2>6 DEF Tasks, Task
      <4> QED
          BY <1>13, <1>b, <2>1, <2>6, <4>1
    <3>2. listener = "none" /\ c \notin todo /\ (at = "closeStore" => c # closing)
        BY <1>13, <3>1 DEF RaceInv
    <3>3. \A m \in Boxes : ~ Queued(Taken(l, p), m, Task("close", c))
      <4> SUFFICES ASSUME NEW m \in Boxes, Queued(Taken(l, p), m, t) PROVE FALSE
          BY <3>1
      <4>1. TaskOK(m, t) /\ TaskOK(<<l, p>>, t)
          BY <1>13, <2>3, <3>1 DEF LinkInv, TaskInv
      <4>2. m = <<l, p>>
          BY <2>2, <2>6, <4>1 DEF TaskOK, Boxes
      <4> QED
          BY <3>1, <4>2
    <3> QED
        BY <2>2, <2>3, <2>4, <2>6, <3>2, <3>3, RaceCloses
  <2>7. CASE tasks' \in {tasks, Taken(l, p)} /\ UNCHANGED <<conn, chan>>
      BY <1>p, <2>3, <2>4, <2>7, RaceStays
  <2> QED
      BY <1>13, <2>1, <2>2, <2>5, <2>6, <2>7
<1>13a. ASSUME NEW l \in Loops, CloseFunctor(l) PROVE RaceInv'
    BY <1>13, <1>13a, BoxesAre DEF CloseFunctor
<1>13b. ASSUME NEW l \in Loops, NEW w \in Workers, SendInLoop(l, w) PROVE RaceInv'
    BY <1>13, <1>13b, BoxesAre DEF SendInLoop
<1>14. ASSUME NEW l \in Loops, NEW c \in Conns, HandleEnd(l, c) PROVE RaceInv'
  <2>1. /\ peer[c] = "closed" /\ HandleClose(c, tasks) /\ at # "init" /\ home[c] \in Loops
        /\ UNCHANGED <<peer, listener, pool, at, closing, todo>>
      BY <1>14, <1>e DEF HandleEnd
  <2> QED
      BY <1>a, <2>1, RaceCloses
<1>15. ASSUME NEW l \in Loops,
              \/ OnConnection(l) \/ Quit(l)
              \/ \E c \in Conns, w \in Workers : OnMessage(l, c, w)
       PROVE  RaceInv'
  <2>1. UNCHANGED <<listener, pool, conn, chan, peer, at, closing, todo>>
      BY <1>15 DEF OnConnection, Quit, OnMessage
  <2>2. \A m \in Boxes, u \in Tasks : Queued(tasks', m, u) => Queued(tasks, m, u)
    <3>1. tasks' = tasks \/ (tasks[<<l, Main>>] # <<>> /\ tasks' = Taken(l, Main))
        BY <1>15 DEF OnConnection, Quit, OnMessage, IsNext
    <3> QED
        BY <1>b, <3>1, BoxesAre
  <2> QED
      BY <1>p, <2>1, <2>2, RaceStays
<1>17. ASSUME (\E t \in Loops \cup {Other} : Stop(t)) \/ WaitTest \/ WaitBlock \/ WakeUp
       PROVE  RaceInv'
  <2>1. /\ UNCHANGED <<listener, pool, conn, chan, peer, tasks, closing, todo>>
        /\ at' \in {at, "start", "started", "poll", "accept", "insert"}
      BY <1>17 DEF Stop, WaitTest, WaitBlock, WakeUp, TypeOK
  <2> QED
      BY <1>p, <2>1, RaceStays
<1>18. ASSUME StopQueues \/ StopHere PROVE RaceInv'
  <2>1. PICK t \in Tasks : t = Task("stop", Nobody) /\ t.op = "stop"
      BY TaskType
  <2>2. StopQueues => <<Main, caller>> \in Boxes
      BY BoxesAre DEF StopQueues, StopInv, BootInv, TypeOK
  <2>3. \A m \in Boxes, u \in Tasks : u.op \in {"close", "remove"} =>
            (Queued(tasks', m, u) => Queued(tasks, m, u))
    <3>1. CASE StopQueues
        BY <1>f, <2>1, <2>2, <3>1 DEF StopQueues
    <3>2. CASE StopHere
        BY <1>f, <1>g, <2>1, <3>2, BoxesAre DEF StopHere
    <3> QED
        BY <1>18, <3>1, <3>2
  <2>4. /\ UNCHANGED <<listener, pool, conn, chan, peer, closing, todo>>
        /\ at' \in {at, "wait", "stopInLoop"}
      BY <1>18 DEF StopQueues, StopHere
  <2> QED
      BY <1>p, <2>3, <2>4, RaceStays
<1>19. ASSUME NEW w \in Workers, WorkerStep(w) PROVE RaceInv'
  <2>1. UNCHANGED <<listener, pool, conn, chan, peer, at, closing, todo>>
      BY <1>19 DEF WorkerStep, PostTest, PostQueue
  <2>2. \A m \in Boxes, u \in Tasks : u.op \in {"close", "remove"} =>
            (Queued(tasks', m, u) => Queued(tasks, m, u))
    <3>1. CASE tasks' = tasks
        BY <1>g, <3>1
    <3>2. CASE tasks' # tasks
      <4>1. PICK c \in Conns : c = worker[w].conn /\ home[c] \in Loops
          BY <1>19, <3>2 DEF WorkerStep, PostTest, PostQueue, LinkInv, UserInv, ConnInv
      <4>2. PICK t \in Tasks : t = Task("send", c) /\ t.op = "send"
          BY TaskType
      <4>3. Queue(home[c], w, t)
          BY <1>19, <3>2, <4>1, <4>2 DEF WorkerStep, PostTest, PostQueue
      <4> QED
          BY <1>f, <4>1, <4>2, <4>3, BoxesAre
    <3> QED
        BY <3>1, <3>2
  <2> QED
      BY <1>p, <2>1, <2>2, RaceStays
<1> QED
    BY <1>1, <1>2, <1>2a, <1>3, <1>4, <1>5, <1>6, <1>7, <1>8, <1>9, <1>10, <1>11, <1>12, <1>13a,
       <1>13b, <1>14, <1>15, <1>17, <1>18, <1>19
    DEF Next, MainStep, StopStep, PoolStep

-----------------------------------------------------------------------------
(* What fails. *)

LEMMA FailStep ==
    TypeOK /\ LinkInv /\ PlaceInv /\ StopInv /\ RaceInv /\ FailsOnlyOnRaces /\ DanglesWhenLost
        /\ [Next]_vars => FailsOnlyOnRaces' /\ DanglesWhenLost'
<1> SUFFICES ASSUME TypeOK, LinkInv, PlaceInv, StopInv, RaceInv, Next, failed' # "none"
             PROVE  FailsOnlyOnRaces' /\ DanglesWhenLost'
    BY DEF FailsOnlyOnRaces, DanglesWhenLost, Interrupted, vars
<1>0. failed = "none" /\ Nobody \notin Conns
    BY ServerThreads DEF Next
<1>b. ASSUME NEW l, NEW m, <<l, m>> \in Boxes, tasks[<<l, m>>] # <<>>
      PROVE  /\ Head(tasks[<<l, m>>]) \in Tasks
             /\ Queued(tasks, <<l, m>>, Head(tasks[<<l, m>>]))
             /\ TaskOK(<<l, m>>, Head(tasks[<<l, m>>]))
    BY <1>b, FirstFunctor
<1> USE DEF serverVars, poolVars, connVars, mainVars, stopVars, workers
\* HandleNewConn accepts, and reads status_ again.
<1>1. ASSUME NEW l \in Loops, NewConn(l) PROVE FailsOnlyOnRaces' /\ DanglesWhenLost'
  <2>1. failed' = "IsRunning" /\ at' = "accept" /\ at = "accept" /\ status # "running" /\ stop' = stop
      BY <1>0, <1>1 DEF NewConn
  <2>2. stop # "none"
      BY <2>1 DEF StopInv, BootInv, TypeOK
  <2> QED
      BY <2>1, <2>2 DEF FailsOnlyOnRaces, DanglesWhenLost
<1>2. ASSUME StopInLoop PROVE FailsOnlyOnRaces' /\ DanglesWhenLost'
  <2>0. /\ caller # Nobody /\ <<Main, caller>> \in Boxes /\ UNCHANGED <<peer, stop, status>>
        /\ at = "stopInLoop" \/ (at = "poll" /\ IsNext(Main, caller, "stop"))
      BY <1>2, BoxesAre DEF StopInLoop, TypeOK
  <2>1. /\ stop # "none" /\ listener # "none" /\ (at = "stopInLoop" => status = "stopping")
        /\ status \in {"stopping", "stopped"}
    <3>1. CASE at = "stopInLoop"
        BY <2>0, <3>1 DEF StopInv, HereInv, BootInv
    <3>2. CASE at = "poll" /\ IsNext(Main, caller, "stop")
        BY <1>0, <1>b, <2>0, <3>2 DEF IsNext, StopInv, ListenInv, BootInv, TypeOK
    <3> QED
        BY <2>0, <3>1, <3>2
  <2>2. CASE listener # "listening"
    <3>1. failed' = "attached" /\ listener' = "set"
        BY <1>2, <2>1, <2>2 DEF StopInLoop, TypeOK
    <3> QED
        BY <2>0, <2>1, <3>1 DEF FailsOnlyOnRaces, DanglesWhenLost
  <2>3. CASE listener = "listening"
    <3>1. failed' = "IsStopping" /\ status # "stopping"
        BY <1>0, <1>2, <2>3 DEF StopInLoop, StopThreadPool
    <3>2. \E c \in Conns : peer[c] = "closed"
        BY <2>1, <2>3, <3>1 DEF StopInv, PoolInv, RaceInv
    <3> QED
        BY <2>0, <2>1, <3>1, <3>2 DEF FailsOnlyOnRaces, DanglesWhenLost
  <2> QED
      BY <2>2, <2>3
\* The last connection goes between the two stores of Stop.
<1>3. ASSUME NEW l \in Loops, RemoveConnection(l) PROVE FailsOnlyOnRaces' /\ DanglesWhenLost'
  <2>0. <<Main, l>> \in Boxes
      BY BoxesAre
  <2>1. /\ at = "poll" /\ tasks[<<Main, l>>] # <<>> /\ Head(tasks[<<Main, l>>]).op = "remove"
        /\ status = "stopping" /\ substatus # "listener" /\ UNCHANGED <<peer, stop>>
        /\ failed' = "substatus"
      BY <1>0, <1>3 DEF RemoveConnection, IsNext, StopThreadPool
  <2>2. PICK t \in Tasks : /\ t = Head(tasks[<<Main, l>>]) /\ Queued(tasks, <<Main, l>>, t)
                           /\ t.conn \in Conns
      BY <1>b, <2>0, <2>1 DEF TaskOK
  <2>3. t = Task("remove", t.conn)
      BY <2>1, <2>2 DEF Tasks, Task
  <2>4. stop = "stored" /\ listener # "none"
      BY <2>1 DEF StopInv, BootInv, ListenInv, PoolInv
  <2>5. peer[t.conn] = "closed"
      BY <2>0, <2>2, <2>3, <2>4 DEF RaceInv
  <2> QED
      BY <2>1, <2>2, <2>4, <2>5 DEF FailsOnlyOnRaces, DanglesWhenLost
\* Two of StopInLoop, a failed write and the end of the stream close the same
\* connection.
<1>4. ASSUME NEW l \in Loops, NEW p, <<l, p>> \in Boxes,
             IsNext(l, p, "close") \/ IsNext(l, p, "send"),
             conn[Head(tasks[<<l, p>>]).conn] # "disconnected",
             chan[Head(tasks[<<l, p>>]).conn] = "closed", failed' = "channel",
             UNCHANGED <<stopVars, peer>>
      PROVE  FailsOnlyOnRaces' /\ DanglesWhenLost'
  <2>1. PICK c \in Conns : c = Head(tasks[<<l, p>>]).conn
      BY <1>4, <1>b DEF IsNext, TaskOK
  <2>2. conn[c] = "disconnecting" /\ status \in {"stopping", "stopped"}
      BY <1>4, <2>1 DEF LinkInv, ConnInv
  <2>3. peer[c] = "closed" /\ stop # "none"
      BY <1>4, <2>1, <2>2 DEF RaceInv, StopInv, BootInv
  <2> QED
      BY <1>4, <2>1, <2>3 DEF FailsOnlyOnRaces, DanglesWhenLost
<1>5. ASSUME NEW l \in Loops, CloseFunctor(l) PROVE FailsOnlyOnRaces' /\ DanglesWhenLost'
  <2>1. <<l, Main>> \in Boxes /\ IsNext(l, Main, "close") /\ UNCHANGED <<stopVars, peer>>
      BY <1>5, BoxesAre DEF CloseFunctor
  <2>2. conn[Head(tasks[<<l, Main>>]).conn] \in {"disconnecting", "disconnected"}
      BY <1>b, <2>1 DEF IsNext, TaskOK
  <2>3. /\ conn[Head(tasks[<<l, Main>>]).conn] # "disconnected"
        /\ chan[Head(tasks[<<l, Main>>]).conn] = "closed" /\ failed' = "channel"
      BY <1>0, <1>5, <2>2 DEF CloseFunctor, HandleClose
  <2> QED
      BY <1>4, <2>1, <2>3
<1>6. ASSUME NEW l \in Loops, NEW w \in Workers, SendInLoop(l, w)
      PROVE  FailsOnlyOnRaces' /\ DanglesWhenLost'
  <2>1. <<l, w>> \in Boxes /\ IsNext(l, w, "send") /\ UNCHANGED <<stopVars, peer>>
      BY <1>6, BoxesAre DEF SendInLoop
  <2>2. /\ conn[Head(tasks[<<l, w>>]).conn] # "disconnected"
        /\ chan[Head(tasks[<<l, w>>]).conn] = "closed" /\ failed' = "channel"
      BY <1>0, <1>6 DEF SendInLoop, HandleClose
  <2> QED
      BY <1>4, <2>1, <2>2
\* A worker meets what is gone.
<1>7. ASSUME NEW w \in Workers, WorkerStep(w) PROVE FailsOnlyOnRaces' /\ DanglesWhenLost'
  <2>1. PICK c \in Conns : c = worker[w].conn /\ worker[w].at # "idle" /\ chan[c] # "idle"
      BY <1>7 DEF WorkerStep, PostTest, PostQueue, LinkInv, UserInv
  <2>2. /\ failed' = "dangling" /\ worker' = worker /\ UNCHANGED <<context, caller, resume>>
        /\ Freed(c) \/ pool = "gone"
      BY <1>0, <1>7, <2>1 DEF WorkerStep, PostTest, PostQueue
  <2>3. ASSUME context[c] PROVE Interrupted
    <3>1. chan[c] = "reading" /\ Held(c) /\ conn[c] # "none"
        BY <2>3 DEF LinkInv, ConnInv
    <3>2. pool = "gone"
        BY <2>2, <3>1 DEF Freed, Held
    <3>3. CASE c \in connections
        BY <3>2, <3>3 DEF StopInv, PoolInv
    <3>4. CASE c = cur
      <4>1. Place = "insert"
          BY <1>0, <3>1, <3>4 DEF PlaceInv
      <4> QED
          BY <3>2, <4>1 DEF Place, StopInv, PoolInv, Interrupted, Outside
    <3> QED
        BY <3>1, <3>3, <3>4 DEF Held
  <2>4. FailsOnlyOnRaces'
      BY <2>2 DEF FailsOnlyOnRaces
  <2>5. Interrupted' \/ \E v \in Workers : worker'[v].at # "idle" /\ ~ context'[worker'[v].conn]
      BY <2>1, <2>2, <2>3 DEF Interrupted
  <2> QED
      BY <2>4, <2>5 DEF DanglesWhenLost
\* No other step fails an assertion.
<1>8. ASSUME NEW l \in Loops, NEW c \in Conns, HandleEnd(l, c) PROVE FALSE
    BY <1>0, <1>8 DEF HandleEnd, HandleClose
<1>9. ASSUME NEW l \in Loops, OnAttachedToLoop(l) \/ OnConnection(l) \/ Quit(l) PROVE FALSE
    BY <1>0, <1>9 DEF OnAttachedToLoop, OnConnection, Quit
<1>10. ASSUME NEW l \in Loops, NEW c \in Conns, NEW w \in Workers, OnMessage(l, c, w) PROVE FALSE
    BY <1>0, <1>10 DEF OnMessage
<1>11. ASSUME NEW c \in Conns, Connect(c) \/ Disconnect(c) \/ HandleNewConn(c) \/ CloseNext(c)
       PROVE  FALSE
    BY <1>0, <1>11 DEF Connect, Disconnect, HandleNewConn, CloseNext
<1>12. ASSUME (\E t \in Loops \cup {Other} : Stop(t)) \/ StopHere \/ StopStep \/ WakeUp PROVE FALSE
    BY <1>0, <1>12 DEF StopStep, StopQueues, WaitTest, WaitBlock, Stop, StopHere, WakeUp
<1>13. ASSUME Start \/ Accept \/ Run \/ Listen \/ Insert \/ Close \/ CloseDone \/ Join \/ Callback
              \/ NotifyOne \/ Finish
       PROVE  FALSE
    BY <1>0, <1>13 DEF Start, Accept, Run, Listen, Insert, Close, CloseDone, Join, Callback,
                       NotifyOne, Finish
<1> QED
    BY <1>1, <1>2, <1>3, <1>5, <1>6, <1>7, <1>8, <1>9, <1>10, <1>11, <1>12, <1>13
    DEF Next, MainStep, PoolStep

-----------------------------------------------------------------------------

\* The inductive invariant.
ServerInv ==
    TypeOK /\ LinkInv /\ PlaceInv /\ StopInv /\ RaceInv /\ FailsOnlyOnRaces /\ DanglesWhenLost

LEMMA ServerInit == Init => ServerInv
<1> SUFFICES ASSUME Init PROVE ServerInv
    OBVIOUS
<1> USE ServerThreads DEF Init
<1>1. TypeOK
  <2>1. stoppedCb \in BOOLEAN /\ stopped \in BOOLEAN /\ context \in [Conns -> BOOLEAN]
      BY Zenon
  <2>2. tasks \in [Boxes -> Seq(Tasks)] /\ messages \in 0 .. MaxMessages
      OBVIOUS
  <2>3. worker \in [Workers -> [at : {"idle", "test", "send", "queue"},
                                conn : Conns \cup {Nobody}]]
      OBVIOUS
  <2> QED
      BY <2>1, <2>2, <2>3 DEF TypeOK
<1>2. \A b \in Boxes : tasks[b] = <<>> /\ DOMAIN tasks[b] = {}
    OBVIOUS
<1>3. \A b \in Boxes : \A t : ~ Queued(tasks, b, t)
    BY <1>2 DEF Queued
<1>4. TaskInv /\ OnceInv
    BY <1>2, <1>3 DEF TaskInv, OnceInv, Once
<1>5. ConnInv /\ UserInv /\ ReadersAreServed /\ PlaceInv
    BY DEF ConnInv, UserInv, ReadersAreServed, PlaceInv, Place, Outside
<1>6. BootInv /\ HereInv
    BY DEF BootInv, HereInv
<1>7. ListenInv /\ PoolInv
    BY <1>3 DEF ListenInv, PoolInv
<1>8. RaceInv
    BY <1>3 DEF RaceInv
<1>9. FailsOnlyOnRaces /\ DanglesWhenLost
    BY DEF FailsOnlyOnRaces, DanglesWhenLost
<1> QED
    BY <1>1, <1>4, <1>5, <1>6, <1>7, <1>8, <1>9 DEF ServerInv, LinkInv, StopInv

LEMMA ServerStep == ServerInv /\ [Next]_vars => ServerInv'
BY TypeStep, LinkStep, PlaceStep, StopProgress, RaceStep, FailStep DEF ServerInv

LEMMA ServerHolds == Spec => []ServerInv
BY ServerInit, ServerStep, PTL DEF Spec

\* Every status, queue, connection and thread of the server has its type in
\* every reachable state, for any number of connections, threads and workers.
THEOREM TypesHold == Spec => []TypeOK
<1>1. ServerInv => TypeOK
    BY DEF ServerInv
<1> QED
    BY <1>1, ServerHolds, PTL

\* When ServerBase::Stop has returned, the listener and the pool are released
\* and every thread of the pool has ended, and connections_ is empty unless the
\* Stop came in the middle of HandleNewConn: the assertions of ~TCPServer hold.
THEOREM StopCleansUp == Spec => []StopLeavesNothing
<1>1. ServerInv => StopLeavesNothing
  <2> SUFFICES ASSUME ServerInv, stop = "done"
               PROVE  /\ listener = "none" /\ pool = "gone"
                      /\ \A l \in Loops : thread[l] = "stopped"
                      /\ connections # {} => Interrupted
      BY DEF StopLeavesNothing
  <2>1. stopped /\ pool = "gone" /\ listener = "none"
      BY DEF ServerInv, StopInv, PoolInv
  <2> QED
      BY <2>1 DEF ServerInv, StopInv, PoolInv
<1> QED
    BY <1>1, ServerHolds, PTL

\* A connection that is read, outside OnAttachedToLoop, has its ServerConnection
\* in its context unless Stop is under way: ServerBase::OnMessage drops no data.
THEOREM ReadersServed == Spec => []ReadersAreServed
<1>1. ServerInv => ReadersAreServed
    BY DEF ServerInv, LinkInv
<1> QED
    BY <1>1, ServerHolds, PTL

\* The context of a TCPConn holds a ServerConnection only as long as something
\* holds the TCPConn, in connections_ or, before that, in HandleNewConn; so a
\* worker follows a dangling pointer only for a connection whose loss the
\* application was told of, or after an interrupted HandleNewConn.
THEOREM ContextsAlive == Spec => []ContextIsAlive
<1>1. ServerInv => ContextIsAlive
    BY DEF ServerInv, LinkInv, ConnInv, ContextIsAlive, Freed, Held
<1> QED
    BY <1>1, ServerHolds, PTL

\* An assertion of TCPServer, TCPConn or FdChannel fails only after Stop was
\* called, and then on its own race: a connection that is just being accepted, a
\* listener that is not attached yet, or a peer that closes its end.
THEOREM FailuresAreRaces == Spec => []FailsOnlyOnRaces
<1>1. ServerInv => FailsOnlyOnRaces
    BY DEF ServerInv
<1> QED
    BY <1>1, ServerHolds, PTL
=============================================================================
