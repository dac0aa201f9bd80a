--------------------------- MODULE EventLoopProofs ---------------------------
(***************************************************************************)
(* What EventLoop.tla says of any number of threads and functors: types, no *)
(* lost wake-up, a running loop that is safe to use, and the order in which *)
(* functors are run.                                                        *)
(***************************************************************************)
EXTENDS EventLoop, TLAPS, SequenceTheorems

\* As long as nobody called Stop, StopInLoop is in no queue and the loop lives.
BeforeStop ==
    status \in {"initialized", "running"} =>
        /\ pc[Stopper] = "idle" /\ posts[Stopper] = 0
        /\ quit = "no" /\ watcher
        /\ at \in {"init", "poll", "take", "run"}
        /\ \A i \in DOMAIN pending : pending[i] # StopFunctor
        /\ \A i \in DOMAIN batch : batch[i] # StopFunctor

\* Stop is called once and queues one functor.
StopOnce == pc[Stopper] = "push" => posts[Stopper] = 0

NotYetRun == at = "init" => status = "initialized"

\* The part of the invariant that types need.
TypeInv == TypeOK /\ BeforeStop /\ StopOnce /\ NotYetRun

\* Run releases the watcher last of all.
WatcherInv == ~ watcher => at \in {"closed", "end"}

\* notified_ is a promise: the pipe is readable, or about to be, or the functors
\* are just being taken.
SignalInv ==
    notified /\ watcher =>
        pipe \/ at = "take" \/ \E t \in Threads : pc[t] \in {"test", "notify"}

\* A pending functor has a wake-up on its way.
QueueInv ==
    pending # <<>> /\ watcher =>
        \/ pipe \/ at = "take"
        \/ \E t \in Threads : pc[t] \in {"load", "store", "test", "notify"}

WakeInv == WatcherInv /\ SignalInv /\ QueueInv

-----------------------------------------------------------------------------
(* Types, and what holds before Stop. *)

\* What Push queues is a functor, and is not StopInLoop before Stop.
LEMMA PushFacts ==
    ASSUME TypeInv, NEW t \in Threads, Push(t),
           (t \in Posters /\ posts[t] < MaxPosts) \/ (t = Stopper /\ pc[t] = "push")
    PROVE  /\ pending' \in Seq(Functors) /\ posts' \in [Threads -> Nat]
           /\ pc' \in [Threads -> {"idle", "push", "load", "store", "test", "notify"}]
           /\ t # Stopper /\ (\A i \in DOMAIN pending : pending[i] # StopFunctor)
                  => \A i \in DOMAIN pending' : pending'[i] # StopFunctor
<1> DEFINE f == <<t, posts[t] + 1>>
<1>1. posts[t] \in Nat /\ pending \in Seq(Functors)
    BY DEF TypeInv, TypeOK
<1>2. f \in Functors
    BY <1>1, LoopThreads DEF TypeInv, StopOnce, Functors, StopFunctor
<1>3. t # Stopper => f # StopFunctor
    BY DEF StopFunctor
<1>4. pending' = Append(pending, f)
    BY DEF Push
<1> HIDE DEF f
<1>5. pending' \in Seq(Functors)
    BY <1>1, <1>2, <1>4
<1>6. posts' \in [Threads -> Nat]
    BY <1>1 DEF Push, TypeInv, TypeOK
<1>7. pc' \in [Threads -> {"idle", "push", "load", "store", "test", "notify"}]
    BY DEF Push, Goto, TypeInv, TypeOK
<1>8. ASSUME t # Stopper, \A i \in DOMAIN pending : pending[i] # StopFunctor,
             NEW i \in DOMAIN pending'
      PROVE  pending'[i] # StopFunctor
    BY <1>1, <1>2, <1>3, <1>4, <1>8
<1> QED
    BY <1>5, <1>6, <1>7, <1>8

\* A queue with nothing in it.
LEMMA NothingQueued ==
    <<>> \in Seq(Functors) /\ \A i \in DOMAIN <<>> : <<>>[i] # StopFunctor
OBVIOUS

LEMMA TypeInvInit == Init => TypeInv
<1> SUFFICES ASSUME Init PROVE TypeInv
    OBVIOUS
<1>1. Stopper \in Threads
    BY DEF Threads
<1> QED
    BY <1>1, NothingQueued DEF Init, TypeInv, TypeOK, BeforeStop, StopOnce, NotYetRun

LEMMA TypeInvStep == TypeInv /\ [Next]_vars => TypeInv'
<1> SUFFICES ASSUME TypeInv, [Next]_vars PROVE TypeInv'
    OBVIOUS
<1>0. Stopper \in Threads /\ Stopper \notin Posters /\ Posters \subseteq Threads
    BY LoopThreads DEF Threads
<1> USE DEF TypeInv, TypeOK, BeforeStop, StopOnce, NotYetRun, loopVars, posterVars
<1>1. ASSUME NEW t \in Posters, QueueInLoop(t) PROVE TypeInv'
  <2>1. t \in Threads /\ t # Stopper /\ Push(t) /\ posts[t] < MaxPosts
      BY <1>0, <1>1 DEF QueueInLoop
  <2>2. /\ pending' \in Seq(Functors) /\ posts' \in [Threads -> Nat]
        /\ pc' \in [Threads -> {"idle", "push", "load", "store", "test", "notify"}]
        /\ (\A i \in DOMAIN pending : pending[i] # StopFunctor)
              => \A i \in DOMAIN pending' : pending'[i] # StopFunctor
      BY <1>1, <2>1, PushFacts
  <2>3. pc'[Stopper] = pc[Stopper] /\ posts'[Stopper] = posts[Stopper]
      BY <1>0, <2>1 DEF Push, Goto
  <2> QED
      BY <2>1, <2>2, <2>3 DEF Push
<1>2. ASSUME StopQueues PROVE TypeInv'
  <2>1. Push(Stopper) /\ pc[Stopper] = "push"
      BY <1>2 DEF StopQueues
  <2>2. /\ pending' \in Seq(Functors) /\ posts' \in [Threads -> Nat]
        /\ pc' \in [Threads -> {"idle", "push", "load", "store", "test", "notify"}]
      BY <1>0, <2>1, PushFacts
  <2>3. pc'[Stopper] = "load" /\ status \notin {"initialized", "running"}
      BY <1>0, <2>1 DEF Push, Goto
  <2> QED
      BY <2>1, <2>2, <2>3 DEF Push
<1>3. ASSUME NEW t \in Threads, Posting(t) PROVE TypeInv'
  <2>1. /\ pc[t] \notin {"idle", "push"} /\ pc'[t] # "push"
        /\ pc' \in [Threads -> {"idle", "push", "load", "store", "test", "notify"}]
        /\ \A u \in Threads : u # t => pc'[u] = pc[u]
      BY <1>3 DEF Posting, LoadNotified, StoreNotified, TestWatcher, Notify, Goto
  <2>2. notified' \in BOOLEAN /\ pipe' \in BOOLEAN
      BY <1>3 DEF Posting, LoadNotified, StoreNotified, TestWatcher, Notify
  <2>3. failed' \in {"none", "Stop", "StopInLoop", "QueueInLoop", "Notify"}
      BY <1>3 DEF Posting, LoadNotified, StoreNotified, TestWatcher, Notify
  <2>4. UNCHANGED <<status, pending, watcher, at, batch, inner, quit, ran, posts>>
      BY <1>3 DEF Posting, LoadNotified, StoreNotified, TestWatcher, Notify
  <2> QED
      BY <1>0, <2>1, <2>2, <2>3, <2>4
<1>4. ASSUME Stop PROVE TypeInv'
    BY <1>0, <1>4 DEF Stop, Goto
<1>5. ASSUME Run PROVE TypeInv'
    BY <1>5 DEF Run
<1>6. ASSUME HandlerFn PROVE TypeInv'
    BY <1>6 DEF HandlerFn
<1>7. ASSUME DoPendingFunctors PROVE TypeInv'
    BY <1>7, NothingQueued DEF DoPendingFunctors, Take
<1>8. ASSUME RunFunctor PROVE TypeInv'
  <2>1. /\ Head(batch) \in Functors /\ Tail(batch) \in Seq(Functors)
        /\ \A i \in DOMAIN Tail(batch) : i + 1 \in DOMAIN batch /\ Tail(batch)[i] = batch[i + 1]
        /\ Head(batch) = batch[1] /\ 1 \in DOMAIN batch
      BY <1>8 DEF RunFunctor
  <2>2. batch' = Tail(batch) /\ ran' \in Seq(Functors)
      BY <1>8, <2>1 DEF RunFunctor
  <2>3. CASE status \in {"initialized", "running"}
    <3>1. Head(batch) # StopFunctor
        BY <2>1, <2>3
    <3> QED
        BY <1>8, <2>1, <2>2, <2>3, <3>1 DEF RunFunctor
  <2>4. CASE status \notin {"initialized", "running"}
      BY <1>8, <2>1, <2>2, <2>4 DEF RunFunctor
  <2> QED
      BY <2>3, <2>4
<1>9. ASSUME BatchDone PROVE TypeInv'
    BY <1>9 DEF BatchDone
<1>10. ASSUME Drain PROVE TypeInv'
    BY <1>10, NothingQueued DEF Drain, Take
<1>11. ASSUME DrainRun PROVE TypeInv'
  <2>1. Head(inner) \in Functors /\ inner' \in Seq(Functors)
      BY <1>11 DEF DrainRun
  <2> QED
      BY <1>11, <2>1 DEF DrainRun
<1>12. ASSUME DrainTest PROVE TypeInv'
    BY <1>12 DEF DrainTest
<1>13. ASSUME LoopExit \/ ResetWatcher \/ RunReturns PROVE TypeInv'
    BY <1>13, ZenonT(30) DEF LoopExit, ResetWatcher, RunReturns
<1>14. ASSUME AppStop PROVE TypeInv'
    BY <1>14 DEF AppStop
<1>15. ASSUME UNCHANGED vars PROVE TypeInv'
    BY <1>15 DEF vars
<1> QED
    BY <1>1, <1>2, <1>3, <1>4, <1>5, <1>6, <1>7, <1>8, <1>9, <1>10, <1>11, <1>12,
       <1>13, <1>14, <1>15 DEF Next, LoopStep

LEMMA TypeInvHolds == Spec => []TypeInv
BY TypeInvInit, TypeInvStep, PTL DEF Spec

\* The variables have the types the code gives them, and nothing but functors
\* of the posters and one StopInLoop is ever queued or run.
THEOREM TypesHold == Spec => []TypeOK
<1>1. TypeInv => TypeOK
    BY DEF TypeInv
<1> QED
    BY <1>1, TypeInvHolds, PTL

-----------------------------------------------------------------------------
(* Wake-ups. *)

\* A thread that goes on in QueueInLoop leaves the others where they are.
LEMMA Moved ==
    ASSUME TypeInv, NEW t \in Threads, NEW where, Goto(t, where)
    PROVE  pc'[t] = where /\ \A u \in Threads : u # t => pc'[u] = pc[u]
BY DEF TypeInv, TypeOK, Goto

LEMMA WakeInvStep == TypeInv /\ WakeInv /\ [Next]_vars => WakeInv'
<1> SUFFICES ASSUME TypeInv, WakeInv, [Next]_vars PROVE WakeInv'
    OBVIOUS
<1> USE DEF WakeInv, WatcherInv, SignalInv, QueueInv, loopVars, posterVars
<1>0. Stopper \in Threads /\ Posters \subseteq Threads
    BY DEF Threads
<1>1. ASSUME NEW t \in Threads, Push(t), pc[t] \in {"idle", "push"} PROVE WakeInv'
  <2>1. pc'[t] = "load" /\ \A u \in Threads : u # t => pc'[u] = pc[u]
      BY <1>1, Moved DEF Push
  <2> QED
      BY <1>1, <2>1 DEF Push
<1>2. ASSUME NEW t \in Threads, LoadNotified(t) PROVE WakeInv'
  <2>1. /\ pc'[t] = IF notified THEN "idle" ELSE "store"
        /\ \A u \in Threads : u # t => pc'[u] = pc[u]
      BY <1>2, Moved DEF LoadNotified
  <2> QED
      BY <1>2, <2>1 DEF LoadNotified
<1>3. ASSUME NEW t \in Threads, StoreNotified(t) PROVE WakeInv'
  <2>1. pc'[t] = "test" /\ \A u \in Threads : u # t => pc'[u] = pc[u]
      BY <1>3, Moved DEF StoreNotified
  <2> QED
      BY <1>3, <2>1 DEF StoreNotified
<1>4. ASSUME NEW t \in Threads, TestWatcher(t) PROVE WakeInv'
  <2>1. /\ pc'[t] = IF watcher THEN "notify" ELSE "idle"
        /\ \A u \in Threads : u # t => pc'[u] = pc[u]
      BY <1>4, Moved DEF TestWatcher
  <2> QED
      BY <1>4, <2>1 DEF TestWatcher
<1>5. ASSUME NEW t \in Threads, Notify(t) PROVE WakeInv'
    BY <1>5 DEF Notify
<1>6. ASSUME Stop PROVE WakeInv'
  <2>1. pc'[Stopper] = "push" /\ \A u \in Threads : u # Stopper => pc'[u] = pc[u]
      BY <1>0, <1>6, Moved DEF Stop
  <2> QED
      BY <1>6, <2>1 DEF Stop
<1>7. ASSUME Run \/ RunFunctor \/ BatchDone \/ LoopExit \/ RunReturns PROVE WakeInv'
    BY <1>7 DEF Run, RunFunctor, BatchDone, LoopExit, RunReturns
<1>8. ASSUME HandlerFn \/ ResetWatcher PROVE WakeInv'
    BY <1>8 DEF HandlerFn, ResetWatcher
<1>9. ASSUME DoPendingFunctors \/ Drain PROVE WakeInv'
    BY <1>9 DEF DoPendingFunctors, Drain, Take
<1>10. ASSUME DrainRun \/ DrainTest \/ AppStop PROVE WakeInv'
    BY <1>10 DEF DrainRun, DrainTest, AppStop
<1>11. ASSUME UNCHANGED vars PROVE WakeInv'
    BY <1>11 DEF vars
<1>12. ASSUME NEW t \in Posters, QueueInLoop(t) PROVE WakeInv'
    BY <1>0, <1>1, <1>12 DEF QueueInLoop
<1>13. ASSUME StopQueues PROVE WakeInv'
    BY <1>0, <1>1, <1>13 DEF StopQueues
<1> QED
    BY <1>2, <1>3, <1>4, <1>5, <1>6, <1>7, <1>8, <1>9, <1>10, <1>11, <1>12, <1>13
    DEF Next, LoopStep, Posting

\* No wake-up is lost, whatever the number of threads and functors: a loop that
\* sleeps with functors pending has a readable pipe or a thread inside
\* QueueInLoop that goes on to write to it.
THEOREM WakeUpsArrive == Spec => []NoLostWakeup
<1>1. Init => WakeInv
    BY DEF Init, WakeInv, WatcherInv, SignalInv, QueueInv
<1>2. WakeInv /\ TypeInv => NoLostWakeup
    BY DEF WakeInv, WatcherInv, QueueInv, NoLostWakeup
<1> QED
    BY <1>1, <1>2, WakeInvStep, TypeInvHolds, PTL DEF Spec

-----------------------------------------------------------------------------
(* A running loop. *)

LEMMA SafeStep ==
    TypeInv /\ FailsOnlyAfterStop /\ [Next]_vars => FailsOnlyAfterStop'
<1> SUFFICES ASSUME TypeInv, FailsOnlyAfterStop, [Next]_vars
             PROVE  FailsOnlyAfterStop'
    OBVIOUS
<1>1. /\ status \in {"initialized", "running", "stopping", "stopped"}
      /\ batch \in Seq(Functors)
    BY DEF TypeInv, TypeOK
<1>2. status = "running" =>
          watcher /\ at # "end" /\ \A i \in DOMAIN batch : batch[i] # StopFunctor
    BY DEF TypeInv, BeforeStop
<1> USE DEF FailsOnlyAfterStop
<1>3. CASE UNCHANGED vars
    BY <1>3 DEF vars
<1>4. ASSUME Next, failed' = failed PROVE FailsOnlyAfterStop'
    BY <1>4 DEF Next
<1>5. ASSUME NEW t \in Threads, TestWatcher(t) \/ Notify(t) PROVE FailsOnlyAfterStop'
    BY <1>2, <1>5 DEF TestWatcher, Notify
<1>6. ASSUME RunFunctor PROVE FailsOnlyAfterStop'
  <2>1. Head(batch) = batch[1] /\ 1 \in DOMAIN batch
      BY <1>1, <1>6 DEF RunFunctor
  <2> QED
      BY <1>2, <1>6, <2>1 DEF RunFunctor
<1>7. ASSUME AppStop PROVE FailsOnlyAfterStop'
    BY <1>2, <1>7 DEF AppStop
<1>8. ASSUME Next PROVE \/ failed' = failed \/ RunFunctor \/ AppStop
                        \/ \E t \in Threads : TestWatcher(t) \/ Notify(t)
    BY <1>8 DEF Next, LoopStep, Posting, QueueInLoop, StopQueues, Push, LoadNotified,
       StoreNotified, Stop, Run, HandlerFn, DoPendingFunctors, BatchDone, Drain,
       DrainRun, DrainTest, LoopExit, ResetWatcher, RunReturns
<1> QED
    BY <1>3, <1>4, <1>5, <1>6, <1>7, <1>8

\* A loop nobody has stopped is safe to use from any number of threads: no
\* assertion of QueueInLoop or StopInLoop fails and the watcher it tests and
\* then uses without the lock is still there.
THEOREM RunningLoopIsSafe == Spec => []FailsOnlyAfterStop
<1>1. Init => FailsOnlyAfterStop
    BY DEF Init, FailsOnlyAfterStop
<1> QED
    BY <1>1, SafeStep, TypeInvHolds, PTL DEF Spec

-----------------------------------------------------------------------------
(* The mailbox. *)

In(s) == {s[i] : i \in DOMAIN s}

Mail == batch \o inner \o pending
Known == In(batch) \cup In(inner) \cup In(pending) \cup In(ran)
Stopped == StopFunctor \in In(ran)

\* The functors a thread has queued bear the numbers it has counted.
CountInv == \A f \in Known : f[2] <= posts[f[1]]

\* DoPendingFunctors swaps the vector out only when what it swapped out before
\* was run, and StopInLoop is what ends the order.
OrderInv ==
    /\ at \notin {"run", "drain", "drainRun"} => batch = <<>>
    /\ at # "drainRun" => inner = <<>>
    /\ at \in {"drain", "drainRun", "exit", "closed", "end"} \/ quit # "no" => Stopped

MailInv == CountInv /\ OrderInv

\* A concatenation, by index.
LEMMA JoinFacts ==
    ASSUME NEW T, NEW s \in Seq(T), NEW t \in Seq(T)
    PROVE  /\ s \o t \in Seq(T) /\ Len(s \o t) = Len(s) + Len(t)
           /\ \A i \in 1 .. Len(s) : (s \o t)[i] = s[i]
           /\ \A i \in 1 .. Len(t) : (s \o t)[Len(s) + i] = t[i]
OBVIOUS

\* Appending to the last part appends to the whole.
LEMMA JoinAppend ==
    ASSUME NEW T, NEW s \in Seq(T), NEW t \in Seq(T), NEW f \in T
    PROVE  s \o Append(t, f) = Append(s \o t, f)
<1>1. Append(t, f) \in Seq(T) /\ Len(Append(t, f)) = Len(t) + 1
    OBVIOUS
<1>2. /\ s \o Append(t, f) \in Seq(T) /\ Len(s \o Append(t, f)) = Len(s) + Len(t) + 1
      /\ \A i \in 1 .. Len(s) : (s \o Append(t, f))[i] = s[i]
      /\ \A i \in 1 .. Len(t) + 1 : (s \o Append(t, f))[Len(s) + i] = Append(t, f)[i]
    BY <1>1, JoinFacts
<1>3. /\ s \o t \in Seq(T) /\ Len(s \o t) = Len(s) + Len(t)
      /\ \A i \in 1 .. Len(s) : (s \o t)[i] = s[i]
      /\ \A i \in 1 .. Len(t) : (s \o t)[Len(s) + i] = t[i]
    BY JoinFacts
<1>4. /\ Append(s \o t, f) \in Seq(T) /\ Len(Append(s \o t, f)) = Len(s) + Len(t) + 1
      /\ \A i \in 1 .. Len(s) + Len(t) : Append(s \o t, f)[i] = (s \o t)[i]
      /\ Append(s \o t, f)[Len(s) + Len(t) + 1] = f
    BY <1>3
<1>5. ASSUME NEW i \in 1 .. Len(s) + Len(t) + 1 PROVE (s \o Append(t, f))[i] = Append(s \o t, f)[i]
  <2>1. CASE i <= Len(s)
    <3>1. i \in 1 .. Len(s) /\ i \in 1 .. Len(s) + Len(t)
        BY <2>1
    <3> QED
        BY <1>2, <1>3, <1>4, <3>1
  <2>2. CASE i > Len(s) /\ i <= Len(s) + Len(t)
    <3> DEFINE j == i - Len(s)
    <3>1. j \in 1 .. Len(t) /\ j \in 1 .. Len(t) + 1 /\ i = Len(s) + j /\ i \in 1 .. Len(s) + Len(t)
        BY <2>2
    <3>2. Append(t, f)[j] = t[j]
        BY <3>1
    <3> HIDE DEF j
    <3> QED
        BY <1>2, <1>3, <1>4, <3>1, <3>2
  <2>3. CASE i = Len(s) + Len(t) + 1
    <3>1. Len(t) + 1 \in 1 .. Len(t) + 1 /\ i = Len(s) + (Len(t) + 1)
        BY <2>3
    <3>2. Append(t, f)[Len(t) + 1] = f
        OBVIOUS
    <3> QED
        BY <1>2, <1>4, <2>3, <3>1, <3>2
  <2> QED
      BY <2>1, <2>2, <2>3
<1> QED
    BY <1>2, <1>4, <1>5, SeqEqual

\* Taking the head of the first part takes it from the whole.
LEMMA JoinTail ==
    ASSUME NEW T, NEW s \in Seq(T), NEW t \in Seq(T), s # <<>>
    PROVE  s \o t # <<>> /\ Head(s \o t) = Head(s) /\ Tail(s \o t) = Tail(s) \o t
<1>1. Len(s) \in Nat \ {0} /\ Tail(s) \in Seq(T) /\ Len(Tail(s)) = Len(s) - 1 /\ Len(t) \in Nat
      /\ \A i \in 1 .. Len(s) - 1 : Tail(s)[i] = s[i + 1]
    OBVIOUS
<1>2. /\ s \o t \in Seq(T) /\ Len(s \o t) = Len(s) + Len(t)
      /\ \A i \in 1 .. Len(s) : (s \o t)[i] = s[i]
      /\ \A i \in 1 .. Len(t) : (s \o t)[Len(s) + i] = t[i]
    BY JoinFacts
<1>3. /\ Tail(s) \o t \in Seq(T) /\ Len(Tail(s) \o t) = Len(s) - 1 + Len(t)
      /\ \A i \in 1 .. Len(s) - 1 : (Tail(s) \o t)[i] = Tail(s)[i]
      /\ \A i \in 1 .. Len(t) : (Tail(s) \o t)[Len(s) - 1 + i] = t[i]
    BY <1>1, JoinFacts
<1>4. s \o t # <<>>
    BY <1>1, <1>2
<1>5. Head(s \o t) = Head(s)
    BY <1>1, <1>2, <1>4
<1>6. /\ Tail(s \o t) \in Seq(T) /\ Len(Tail(s \o t)) = Len(s) - 1 + Len(t)
      /\ \A i \in 1 .. Len(s) - 1 + Len(t) : Tail(s \o t)[i] = (s \o t)[i + 1]
    BY <1>1, <1>2, <1>4
<1>7. ASSUME NEW i \in 1 .. Len(s) - 1 + Len(t) PROVE (Tail(s) \o t)[i] = Tail(s \o t)[i]
  <2>1. CASE i <= Len(s) - 1
    <3>1. i \in 1 .. Len(s) - 1 /\ i + 1 \in 1 .. Len(s)
        BY <1>1, <2>1
    <3> QED
        BY <1>1, <1>2, <1>3, <1>6, <3>1
  <2>2. CASE i > Len(s) - 1
    <3> DEFINE j == i - (Len(s) - 1)
    <3>1. j \in 1 .. Len(t) /\ i = Len(s) - 1 + j /\ i + 1 = Len(s) + j
        BY <1>1, <2>2
    <3> HIDE DEF j
    <3>2. (Tail(s) \o t)[i] = t[j] /\ (s \o t)[i + 1] = t[j]
        BY <1>2, <1>3, <3>1
    <3> QED
        BY <1>6, <3>2
  <2> QED
      BY <1>1, <2>1, <2>2
<1>8. Tail(s) \o t = Tail(s \o t)
    BY <1>3, <1>6, <1>7, SeqEqual
<1> QED
    BY <1>4, <1>5, <1>8

LEMMA WithoutIs ==
    ASSUME NEW q, NEW k
    PROVE  Mailbox!Without(q, k) = SubSeq(q, 1, k - 1) \o SubSeq(q, k + 1, Len(q))
BY DEF Mailbox!Without

\* Taking the head of the second part takes one from the middle of the whole.
LEMMA JoinMiddle ==
    ASSUME NEW T, NEW s \in Seq(T), NEW t \in Seq(T), t # <<>>
    PROVE  /\ Len(s) + 1 \in DOMAIN (s \o t) /\ (s \o t)[Len(s) + 1] = Head(t)
           /\ Mailbox!Without(s \o t, Len(s) + 1) = s \o Tail(t)
<1> DEFINE q == s \o t
           a == SubSeq(q, 1, Len(s))
           b == SubSeq(q, Len(s) + 2, Len(q))
<1>1. Len(s) \in Nat /\ Len(t) \in Nat \ {0} /\ Head(t) = t[1] /\ Tail(t) \in Seq(T)
      /\ Len(Tail(t)) = Len(t) - 1 /\ \A i \in 1 .. Len(t) - 1 : Tail(t)[i] = t[i + 1]
    OBVIOUS
<1>2. /\ q \in Seq(T) /\ Len(q) = Len(s) + Len(t)
      /\ \A i \in 1 .. Len(s) : q[i] = s[i]
      /\ \A i \in 1 .. Len(t) : q[Len(s) + i] = t[i]
    BY JoinFacts
<1> HIDE DEF q
<1>3. DOMAIN q = 1 .. Len(s) + Len(t) /\ \A i \in 1 .. Len(q) : q[i] \in T
    BY <1>2
<1>4. a = s
  <2>1. a \in Seq(T) /\ Len(a) = Len(s) /\ \A i \in 1 .. Len(s) : a[i] = q[i]
      BY <1>1, <1>2
  <2> HIDE DEF a
  <2> QED
      BY <1>2, <2>1, SeqEqual
<1>5. b = Tail(t)
  <2>1. b \in Seq(T) /\ Len(b) = Len(t) - 1 /\ \A i \in 1 .. Len(t) - 1 : b[i] = q[Len(s) + 1 + i]
    <3>1. Len(s) + 2 \in Int /\ Len(q) \in Int /\ \A i \in Len(s) + 2 .. Len(q) : q[i] \in T
        BY <1>1, <1>2, <1>3
    <3>2. /\ b \in Seq(T)
          /\ Len(b) = IF Len(s) + 2 <= Len(q) THEN Len(q) - (Len(s) + 2) + 1 ELSE 0
          /\ \A i \in 1 .. Len(q) - (Len(s) + 2) + 1 : b[i] = q[Len(s) + 2 + i - 1]
        BY <3>1, SubSeqProperties
    <3> HIDE DEF b
    <3>3. Len(q) - (Len(s) + 2) + 1 = Len(t) - 1
        BY <1>1, <1>2
    <3>4. Len(b) = Len(t) - 1
      <4>1. CASE Len(t) = 1
          BY <1>1, <1>2, <3>2, <4>1
      <4>2. CASE Len(t) > 1
        <5>1. Len(s) + 2 <= Len(q)
            BY <1>1, <1>2, <4>2
        <5> QED
            BY <3>2, <3>3, <5>1
      <4>3. Len(t) = 1 \/ Len(t) > 1
          BY <1>1
      <4> QED
          BY <4>1, <4>2, <4>3
    <3>5. \A i \in 1 .. Len(t) - 1 : Len(s) + 2 + i - 1 = Len(s) + 1 + i
        BY <1>1
    <3> QED
        BY <3>2, <3>3, <3>4, <3>5
  <2> HIDE DEF b
  <2>2. ASSUME NEW i \in 1 .. Len(t) - 1 PROVE b[i] = Tail(t)[i]
    <3>1. i + 1 \in 1 .. Len(t) /\ Len(s) + 1 + i = Len(s) + (i + 1)
        BY <1>1
    <3> QED
        BY <1>1, <1>2, <2>1, <3>1
  <2> QED
      BY <1>1, <2>1, <2>2, SeqEqual
<1>6. Len(s) + 1 \in DOMAIN q /\ q[Len(s) + 1] = Head(t)
    BY <1>1, <1>2, <1>3
<1>7. Mailbox!Without(q, Len(s) + 1) = a \o b
  <2> DEFINE k == Len(s) + 1
  <2>1. k - 1 = Len(s) /\ k + 1 = Len(s) + 2
      BY <1>1
  <2> HIDE DEF k
  <2>2. Mailbox!Without(q, k) = SubSeq(q, 1, k - 1) \o SubSeq(q, k + 1, Len(q))
      BY WithoutIs
  <2>3. Mailbox!Without(q, k) = a \o b
      BY <2>1, <2>2
  <2> QED
      BY <2>3 DEF k
<1> QED
    BY <1>4, <1>5, <1>6, <1>7 DEF q

LEMMA JoinIn ==
    ASSUME NEW T, NEW s \in Seq(T), NEW t \in Seq(T)
    PROVE  In(s \o t) = In(s) \cup In(t)
<1>1. DOMAIN s = 1 .. Len(s) /\ DOMAIN t = 1 .. Len(t) /\ DOMAIN (s \o t) = 1 .. Len(s) + Len(t)
      /\ Len(s) \in Nat /\ Len(t) \in Nat
    BY JoinFacts
<1>2. /\ \A i \in 1 .. Len(s) : (s \o t)[i] = s[i]
      /\ \A i \in 1 .. Len(t) : (s \o t)[Len(s) + i] = t[i]
    BY JoinFacts
<1>3. ASSUME NEW i \in 1 .. Len(s) + Len(t) PROVE (s \o t)[i] \in In(s) \cup In(t)
  <2>1. CASE i <= Len(s)
      BY <1>1, <1>2, <2>1 DEF In
  <2>2. CASE i > Len(s)
    <3>1. i - Len(s) \in 1 .. Len(t) /\ i = Len(s) + (i - Len(s))
        BY <1>1, <2>2
    <3> QED
        BY <1>1, <1>2, <3>1 DEF In
  <2> QED
      BY <1>1, <2>1, <2>2
<1>4. ASSUME NEW i \in 1 .. Len(s) PROVE s[i] \in In(s \o t)
  <2>1. i \in 1 .. Len(s) + Len(t)
      BY <1>1
  <2> QED
      BY <1>1, <1>2, <2>1 DEF In
<1>5. ASSUME NEW i \in 1 .. Len(t) PROVE t[i] \in In(s \o t)
  <2>1. Len(s) + i \in 1 .. Len(s) + Len(t)
      BY <1>1
  <2> QED
      BY <1>1, <1>2, <2>1 DEF In
<1> QED
    BY <1>1, <1>3, <1>4, <1>5 DEF In

LEMMA InAppend ==
    ASSUME NEW T, NEW s \in Seq(T), NEW f \in T
    PROVE  In(Append(s, f)) = In(s) \cup {f}
<1>1. /\ DOMAIN s = 1 .. Len(s) /\ DOMAIN Append(s, f) = 1 .. Len(s) + 1 /\ Len(s) \in Nat
      /\ \A i \in 1 .. Len(s) : Append(s, f)[i] = s[i]
      /\ Append(s, f)[Len(s) + 1] = f
    OBVIOUS
<1> QED
    BY <1>1 DEF In

LEMMA InTail ==
    ASSUME NEW T, NEW s \in Seq(T), s # <<>>
    PROVE  In(Tail(s)) \subseteq In(s) /\ Head(s) \in In(s)
<1>1. /\ DOMAIN s = 1 .. Len(s) /\ DOMAIN Tail(s) = 1 .. Len(s) - 1 /\ Len(s) \in Nat \ {0}
      /\ \A i \in 1 .. Len(s) - 1 : Tail(s)[i] = s[i + 1]
      /\ Head(s) = s[1]
    OBVIOUS
<1> QED
    BY <1>1 DEF In

\* The state of the mailbox.
Phase == IF ~ \E i \in DOMAIN ran : ran[i] = StopFunctor THEN "open"
         ELSE IF at \in {"exit", "closed", "end"} THEN "closed"
         ELSE "stopping"

LEMMA PhaseIs ==
    /\ Phase = IF ~ Stopped THEN "open"
               ELSE IF at \in {"exit", "closed", "end"} THEN "closed" ELSE "stopping"
    /\ Phase' = IF ~ Stopped' THEN "open"
                ELSE IF at' \in {"exit", "closed", "end"} THEN "closed" ELSE "stopping"
BY DEF Phase, Stopped, In

LEMMA MailTypes ==
    ASSUME TypeInv
    PROVE  /\ batch \in Seq(Functors) /\ inner \in Seq(Functors) /\ pending \in Seq(Functors)
           /\ ran \in Seq(Functors) /\ <<>> \in Seq(Functors)
           /\ batch \o inner \in Seq(Functors) /\ Mail \in Seq(Functors)
           /\ Known \subseteq Functors /\ In(Mail) \cup In(ran) = Known
           /\ \A f \in Functors : f[1] \in Threads
<1>1. /\ batch \in Seq(Functors) /\ inner \in Seq(Functors) /\ pending \in Seq(Functors)
      /\ ran \in Seq(Functors) /\ <<>> \in Seq(Functors)
    BY DEF TypeInv, TypeOK
<1>2. batch \o inner \in Seq(Functors) /\ Mail \in Seq(Functors)
    BY <1>1, JoinFacts DEF Mail
<1>3. In(batch \o inner) = In(batch) \cup In(inner) /\ In(Mail) = In(batch \o inner) \cup In(pending)
    BY <1>1, <1>2, JoinIn, ZenonT(30) DEF Mail
<1>4. \A s \in Seq(Functors) : In(s) \subseteq Functors
    BY DEF In
<1>5. \A f \in Functors : f[1] \in Threads
    BY DEF Functors, StopFunctor, Threads
<1> QED
    BY <1>1, <1>2, <1>3, <1>4, <1>5 DEF Known

\* The functor that Push queues is a new one.
LEMMA PushMail ==
    ASSUME TypeInv, MailInv, NEW t \in Threads, Push(t),
           (t \in Posters /\ posts[t] < MaxPosts) \/ (t = Stopper /\ pc[t] = "push")
    PROVE  LET f == <<t, posts[t] + 1>>
           IN  /\ f \in Functors /\ f \notin Known /\ Known' = Known \cup {f}
               /\ Mail' = Append(Mail, f)
               /\ \A g \in Known \cup {f} : g[2] <= posts'[g[1]]
<1> DEFINE f == <<t, posts[t] + 1>>
<1>0. posts \in [Threads -> Nat]
    BY DEF TypeInv, TypeOK
<1>1. f \in Functors
    BY <1>0, LoopThreads DEF TypeInv, StopOnce, Functors, StopFunctor
<1>2. f \notin Known
  <2>1. f[1] = t /\ f[2] = posts[t] + 1
      OBVIOUS
  <2> HIDE DEF f
  <2> QED
      BY <1>0, <2>1 DEF MailInv, CountInv
<1>3. pending' = Append(pending, f) /\ UNCHANGED <<batch, inner, ran>>
    BY DEF Push, loopVars
<1>4. posts' = [posts EXCEPT ![t] = @ + 1] /\ f[1] = t /\ f[2] = posts[t] + 1
    BY DEF Push
<1> HIDE DEF f
<1>5. In(pending') = In(pending) \cup {f}
    BY <1>1, <1>3, InAppend, MailTypes
<1>6. Known' = Known \cup {f}
    BY <1>3, <1>5 DEF Known, In
<1>7. Mail' = Append(Mail, f)
  <2>1. batch \o inner \in Seq(Functors) /\ pending \in Seq(Functors)
      BY MailTypes
  <2>2. (batch \o inner) \o Append(pending, f) = Append((batch \o inner) \o pending, f)
      BY <1>1, <2>1, JoinAppend
  <2> QED
      BY <1>3, <2>2 DEF Mail
<1>8. ASSUME NEW g \in Known \cup {f} PROVE g[2] <= posts'[g[1]]
  <2>1. CASE g = f
      BY <1>0, <1>4, <2>1
  <2>2. CASE g \in Known
    <3>1. g \in Functors /\ g[1] \in Threads /\ g[2] <= posts[g[1]]
        BY <2>2, MailTypes DEF MailInv, CountInv
    <3>2. g[2] \in Nat
        BY <3>1 DEF Functors, StopFunctor
    <3>3. posts'[g[1]] = posts[g[1]] \/ posts'[g[1]] = posts[g[1]] + 1
        BY <1>0, <1>4, <3>1
    <3> QED
        BY <1>0, <3>1, <3>2, <3>3
  <2> QED
      BY <2>1, <2>2
<1> QED
    BY <1>1, <1>2, <1>6, <1>7, <1>8 DEF f

\* DoPendingFunctors, at the top or in StopInLoop, moves the functors on.
LEMMA TakeMail ==
    ASSUME TypeInv, MailInv, DoPendingFunctors \/ Drain
    PROVE  Mail' = Mail /\ Known' = Known
<1>1. /\ batch \in Seq(Functors) /\ pending \in Seq(Functors) /\ inner = <<>>
      /\ ran' = ran /\ pending' = <<>> /\ In(<<>>) = {}
    BY MailTypes DEF DoPendingFunctors, Drain, Take, MailInv, OrderInv, In
<1>2. CASE DoPendingFunctors
  <2>1. batch = <<>> /\ batch' = pending /\ inner' = <<>>
      BY <1>1, <1>2 DEF DoPendingFunctors, MailInv, OrderInv
  <2>2. Mail = pending /\ Mail' = pending
      BY <1>1, <2>1, ConcatEmptySeq DEF Mail
  <2> QED
      BY <1>1, <2>1, <2>2 DEF Known
<1>3. CASE Drain
  <2>1. batch' = batch /\ inner' = pending
      BY <1>3 DEF Drain
  <2>2. batch \o inner = batch
      BY <1>1, ConcatEmptySeq
  <2>3. batch \o pending \in Seq(Functors)
      BY <1>1, JoinFacts
  <2>4. (batch \o pending) \o <<>> = batch \o pending
      BY <2>3, ConcatEmptySeq
  <2>5. Mail' = Mail
      BY <1>1, <2>1, <2>2, <2>4 DEF Mail
  <2> QED
      BY <1>1, <2>1, <2>5 DEF Known
<1> QED
    BY <1>2, <1>3

\* RunFunctor takes the oldest functor.
LEMMA RunMail ==
    ASSUME TypeInv, MailInv, RunFunctor
    PROVE  /\ Mail # <<>> /\ Mail' = Tail(Mail) /\ ran' = Append(ran, Head(Mail))
           /\ Head(Mail) = Head(batch) /\ Head(Mail) \in Functors
           /\ Known' \subseteq Known
<1>1. /\ batch \in Seq(Functors) /\ batch # <<>> /\ inner = <<>> /\ inner' = <<>>
      /\ pending \in Seq(Functors) /\ pending' = pending /\ ran \in Seq(Functors)
      /\ batch' = Tail(batch) /\ ran' = Append(ran, Head(batch))
    BY MailTypes DEF RunFunctor, MailInv, OrderInv
<1>2. Head(batch) \in Functors /\ Tail(batch) \in Seq(Functors)
    BY <1>1
<1>3. batch \o <<>> = batch /\ Tail(batch) \o <<>> = Tail(batch)
    BY <1>1, <1>2, ConcatEmptySeq
<1>4. Mail = batch \o pending /\ Mail' = Tail(batch) \o pending
    BY <1>1, <1>3 DEF Mail
<1>5. Mail # <<>> /\ Head(Mail) = Head(batch) /\ Mail' = Tail(Mail)
    BY <1>1, <1>4, JoinTail
<1>6. In(ran') = In(ran) \cup {Head(batch)}
    BY <1>1, <1>2, InAppend
<1>7. In(batch') \subseteq In(batch) /\ Head(batch) \in In(batch)
    BY <1>1, InTail
<1> QED
    BY <1>1, <1>2, <1>5, <1>6, <1>7 DEF Known

\* A functor that StopInLoop runs overtakes the rest of the outer call's.
LEMMA DrainMail ==
    ASSUME TypeInv, MailInv, DrainRun
    PROVE  /\ Len(batch) + 1 \in DOMAIN Mail /\ Mail' = Mailbox!Without(Mail, Len(batch) + 1)
           /\ ran' = Append(ran, Mail[Len(batch) + 1])
           /\ Known' \subseteq Known
<1>1. /\ batch \in Seq(Functors) /\ inner \in Seq(Functors) /\ inner # <<>> /\ batch' = batch
      /\ pending \in Seq(Functors) /\ pending' = pending /\ ran \in Seq(Functors)
      /\ inner' = Tail(inner) /\ ran' = Append(ran, Head(inner))
    BY MailTypes DEF DrainRun
<1>2. Head(inner) \in Functors /\ Tail(inner) \in Seq(Functors)
    BY <1>1
<1>3. /\ inner \o pending \in Seq(Functors) /\ inner \o pending # <<>>
      /\ Head(inner \o pending) = Head(inner) /\ Tail(inner \o pending) = Tail(inner) \o pending
    BY <1>1, JoinTail, JoinFacts
<1>4. Mail = batch \o (inner \o pending) /\ Mail' = batch \o (Tail(inner) \o pending)
  <2>0. batch \in Seq(Functors) /\ inner \in Seq(Functors) /\ pending \in Seq(Functors)
      BY <1>1
  <2>1. (batch \o inner) \o pending = batch \o (inner \o pending)
      BY ONLY <2>0, ConcatAssociative
  <2>2. (batch \o Tail(inner)) \o pending = batch \o (Tail(inner) \o pending)
      BY ONLY <1>2, <2>0, ConcatAssociative
  <2> QED
      BY <1>1, <2>1, <2>2 DEF Mail
<1>5. /\ Len(batch) + 1 \in DOMAIN Mail /\ Mail[Len(batch) + 1] = Head(inner)
      /\ Mailbox!Without(Mail, Len(batch) + 1) = batch \o Tail(inner \o pending)
    BY <1>1, <1>3, <1>4, JoinMiddle
<1>6. In(ran') = In(ran) \cup {Head(inner)}
    BY <1>1, <1>2, InAppend
<1>7. In(inner') \subseteq In(inner) /\ Head(inner) \in In(inner)
    BY <1>1, InTail
<1>8. Known' \subseteq Known
    BY <1>1, <1>6, <1>7 DEF Known
<1> QED
    BY <1>1, <1>3, <1>4, <1>5, <1>8

\* Every other step leaves the functors where they are.
LEMMA Untouched ==
    ASSUME UNCHANGED <<batch, inner, pending, ran>>
    PROVE  Mail' = Mail /\ Known' = Known /\ (Stopped' <=> Stopped)
BY DEF Mail, Known, Stopped, In

LEMMA MailInvStep ==
    ASSUME TypeInv, MailInv, [Next]_vars
    PROVE  MailInv'
<1> USE DEF loopVars, posterVars
<1>0. Stopper \in Threads /\ Posters \subseteq Threads
    BY DEF Threads
<1>1. ASSUME UNCHANGED posts, Known' \subseteq Known PROVE CountInv'
    BY <1>1 DEF MailInv, CountInv
<1>2. ASSUME NEW t \in Threads, Push(t),
             (t \in Posters /\ posts[t] < MaxPosts) \/ (t = Stopper /\ pc[t] = "push")
      PROVE  MailInv'
  <2>1. CountInv'
      BY <1>2, PushMail DEF CountInv
  <2>2. OrderInv'
      BY <1>2 DEF Push, MailInv, OrderInv, Stopped, In
  <2> QED
      BY <2>1, <2>2 DEF MailInv
<1>3. ASSUME NEW t \in Posters, QueueInLoop(t) PROVE MailInv'
    BY <1>0, <1>2, <1>3 DEF QueueInLoop
<1>4. ASSUME StopQueues PROVE MailInv'
    BY <1>0, <1>2, <1>4 DEF StopQueues
<1>5. ASSUME UNCHANGED <<batch, inner, pending, ran, posts>>, OrderInv' PROVE MailInv'
    BY <1>1, <1>5, Untouched DEF MailInv
<1>6. ASSUME Stop \/ (\E t \in Threads : Posting(t)) \/ AppStop PROVE MailInv'
  <2>1. UNCHANGED <<batch, inner, pending, ran, posts, at, quit>>
      BY <1>6 DEF Stop, Posting, LoadNotified, StoreNotified, TestWatcher, Notify, AppStop
  <2>2. OrderInv'
      BY <2>1, Untouched DEF MailInv, OrderInv
  <2> QED
      BY <1>5, <2>1, <2>2
<1>7. ASSUME Run \/ HandlerFn \/ BatchDone \/ DrainTest \/ LoopExit \/ ResetWatcher \/ RunReturns
      PROVE  MailInv'
  <2>1. UNCHANGED <<batch, inner, pending, ran, posts>>
      BY <1>7 DEF Run, HandlerFn, BatchDone, DrainTest, LoopExit, ResetWatcher, RunReturns
  <2>2. Stopped' <=> Stopped
      BY <2>1, Untouched
  <2>3. OrderInv'
      BY <1>7, <2>1, <2>2 DEF MailInv, OrderInv, Run, HandlerFn, BatchDone, DrainTest, LoopExit,
         ResetWatcher, RunReturns
  <2> QED
      BY <1>5, <2>1, <2>3
<1>8. ASSUME DoPendingFunctors \/ Drain PROVE MailInv'
  <2>1. CountInv'
      BY <1>1, <1>8, TakeMail DEF DoPendingFunctors, Drain
  <2>2. OrderInv'
      BY <1>8 DEF DoPendingFunctors, Drain, Take, MailInv, OrderInv, Stopped, In
  <2> QED
      BY <2>1, <2>2 DEF MailInv
<1>9. ASSUME RunFunctor PROVE MailInv'
  <2>1. CountInv'
      BY <1>1, <1>9, RunMail DEF RunFunctor
  <2>2. In(ran') = In(ran) \cup {Head(batch)}
    <3>1. ran' = Append(ran, Head(batch)) /\ Head(batch) \in Functors
        BY <1>9, RunMail
    <3> QED
        BY <3>1, InAppend, MailTypes
  <2>3. Stopped' <=> Stopped \/ Head(batch) = StopFunctor
      BY <2>2 DEF Stopped, In
  <2>4. OrderInv'
      BY <1>9, <2>3 DEF RunFunctor, MailInv, OrderInv
  <2> QED
      BY <2>1, <2>4 DEF MailInv
<1>10. ASSUME DrainRun PROVE MailInv'
  <2>1. CountInv'
      BY <1>1, <1>10, DrainMail DEF DrainRun
  <2>2. Stopped'
    <3>1. Stopped /\ ran \in Seq(Functors) /\ inner \in Seq(Functors) /\ inner # <<>>
        BY <1>10, MailTypes DEF DrainRun, MailInv, OrderInv
    <3>2. Head(inner) \in Functors
        BY <3>1
    <3>3. In(Append(ran, Head(inner))) = In(ran) \cup {Head(inner)}
        BY <3>1, <3>2, InAppend
    <3> QED
        BY <1>10, <3>1, <3>3 DEF DrainRun, Stopped, In
  <2>3. OrderInv'
      BY <1>10, <2>2 DEF DrainRun, MailInv, OrderInv
  <2> QED
      BY <2>1, <2>3 DEF MailInv
<1>11. ASSUME UNCHANGED vars PROVE MailInv'
  <2>1. OrderInv'
      BY <1>11, Untouched DEF vars, MailInv, OrderInv
  <2> QED
      BY <1>5, <1>11, <2>1 DEF vars
<1> QED
    BY <1>3, <1>4, <1>6, <1>7, <1>8, <1>9, <1>10, <1>11 DEF Next, LoopStep

LEMMA MailStutters ==
    ASSUME Mail' = Mail, ran' = ran, Phase' = Phase
    PROVE  UNCHANGED Mailbox!vars
BY DEF Mailbox!vars, Mail, Phase

LEMMA MailQueues ==
    ASSUME NEW f \in Functors, f \notin In(Mail) \cup In(ran), Mail' = Append(Mail, f), ran' = ran,
           Phase' = Phase
    PROVE  Mailbox!Next
BY DEF Mailbox!Next, Mailbox!Queue, Mailbox!In, In, Mail, Phase

LEMMA MailRunsNext ==
    ASSUME Phase = "open", Mail # <<>>, Mail' = Tail(Mail), ran' = Append(ran, Head(Mail)),
           Phase' = IF Head(Mail) = StopFunctor THEN "stopping" ELSE "open"
    PROVE  Mailbox!Next
BY DEF Mailbox!Next, Mailbox!RunNext, Mail, Phase

LEMMA MailRunsAny ==
    ASSUME Phase = "stopping", Phase' = "stopping", NEW k \in DOMAIN Mail,
           Mail' = Mailbox!Without(Mail, k), ran' = Append(ran, Mail[k])
    PROVE  Mailbox!Next
BY DEF Mailbox!Next, Mailbox!RunAny, Mail, Phase

LEMMA MailCloses ==
    ASSUME Phase = "stopping", Phase' = "closed", Mail' = Mail, ran' = ran
    PROVE  Mailbox!Next
BY DEF Mailbox!Next, Mailbox!Close, Mail, Phase

LEMMA MailStep ==
    ASSUME TypeInv, MailInv, [Next]_vars
    PROVE  [Mailbox!Next]_(Mailbox!vars)
<1> USE DEF loopVars, posterVars
<1>0. Stopper \in Threads /\ Posters \subseteq Threads
    BY DEF Threads
<1>1. ASSUME UNCHANGED <<batch, inner, pending, ran>>,
             at' = at \/ (at' \in {"exit", "closed", "end"} <=> at \in {"exit", "closed", "end"})
      PROVE  UNCHANGED Mailbox!vars
  <2>1. Mail' = Mail /\ Phase' = Phase
      BY <1>1, Untouched, PhaseIs
  <2> QED
      BY <1>1, <2>1, MailStutters
<1>2. ASSUME NEW t \in Threads, Push(t),
             (t \in Posters /\ posts[t] < MaxPosts) \/ (t = Stopper /\ pc[t] = "push")
      PROVE  Mailbox!Next
  <2>1. PICK f \in Functors : f \notin Known /\ Mail' = Append(Mail, f)
      BY <1>2, PushMail
  <2>2. ran' = ran /\ at' = at
      BY <1>2 DEF Push
  <2>3. Phase' = Phase
      BY <2>2 DEF Phase
  <2> QED
      BY <2>1, <2>2, <2>3, MailTypes, MailQueues
<1>3. ASSUME NEW t \in Posters, QueueInLoop(t) PROVE Mailbox!Next
    BY <1>0, <1>2, <1>3 DEF QueueInLoop
<1>4. ASSUME StopQueues PROVE Mailbox!Next
    BY <1>0, <1>2, <1>4 DEF StopQueues
<1>5. ASSUME Stop \/ (\E t \in Threads : Posting(t)) \/ AppStop PROVE UNCHANGED Mailbox!vars
    BY <1>1, <1>5 DEF Stop, Posting, LoadNotified, StoreNotified, TestWatcher, Notify, AppStop
<1>6. ASSUME Run \/ HandlerFn \/ DrainTest \/ ResetWatcher \/ RunReturns PROVE UNCHANGED Mailbox!vars
    BY <1>1, <1>6 DEF Run, HandlerFn, DrainTest, ResetWatcher, RunReturns
<1>7. ASSUME DoPendingFunctors \/ Drain PROVE UNCHANGED Mailbox!vars
  <2>1. /\ Mail' = Mail /\ ran' = ran /\ at \notin {"exit", "closed", "end"}
        /\ at' \notin {"exit", "closed", "end"}
      BY <1>7, TakeMail DEF DoPendingFunctors, Drain
  <2>2. Phase' = Phase
      BY <2>1 DEF Phase
  <2> QED
      BY <2>1, <2>2, MailStutters
<1>8. ASSUME BatchDone \/ LoopExit PROVE [Mailbox!Next]_(Mailbox!vars)
  <2>1. UNCHANGED <<batch, inner, pending, ran>> /\ at \in {"run", "poll"}
      BY <1>8 DEF BatchDone, LoopExit
  <2>2. CASE at' = "exit"
    <3>1. Stopped
        BY <1>8, <2>2 DEF BatchDone, LoopExit, MailInv, OrderInv
    <3>2. Phase = "stopping" /\ Phase' = "closed" /\ Mail' = Mail
        BY <2>1, <2>2, <3>1, PhaseIs, Untouched
    <3> QED
        BY <2>1, <3>2, MailCloses
  <2>3. CASE at' # "exit"
      BY <1>1, <1>8, <2>1, <2>3 DEF BatchDone, LoopExit
  <2> QED
      BY <2>2, <2>3
<1>9. ASSUME RunFunctor PROVE Mailbox!Next
  <2>1. /\ Mail # <<>> /\ Mail' = Tail(Mail) /\ ran' = Append(ran, Head(Mail))
        /\ Head(Mail) = Head(batch) /\ Head(Mail) \in Functors
      BY <1>9, RunMail
  <2>2. In(ran') = In(ran) \cup {Head(Mail)}
      BY <2>1, InAppend, MailTypes
  <2>3. Stopped' <=> Stopped \/ Head(Mail) = StopFunctor
      BY <2>2 DEF Stopped, In
  <2>4. at = "run" /\ at' \notin {"exit", "closed", "end"}
      BY <1>9 DEF RunFunctor
  <2>5. CASE Stopped
    <3>1. Phase = "stopping" /\ Phase' = "stopping"
        BY <2>3, <2>4, <2>5, PhaseIs
    <3>2. 1 \in DOMAIN Mail /\ Mail[1] = Head(Mail)
        BY <2>1, MailTypes
    <3>3. Mailbox!Without(Mail, 1) = Tail(Mail)
      <4>1. SubSeq(Mail, 1, 1 - 1) = <<>>
          BY MailTypes, SubSeqEmpty
      <4>2. SubSeq(Mail, 1 + 1, Len(Mail)) = Tail(Mail)
          BY <2>1, MailTypes, TailIsSubSeq
      <4>3. Tail(Mail) \in Seq(Functors)
          BY <2>1, MailTypes
      <4>4. Mailbox!Without(Mail, 1) = SubSeq(Mail, 1, 1 - 1) \o SubSeq(Mail, 1 + 1, Len(Mail))
          BY WithoutIs
      <4> QED
          BY <4>1, <4>2, <4>3, <4>4, ConcatEmptySeq
    <3> QED
        BY <2>1, <3>1, <3>2, <3>3, MailRunsAny
  <2>6. CASE ~ Stopped
    <3>1. Phase = "open" /\ Phase' = IF Head(Mail) = StopFunctor THEN "stopping" ELSE "open"
        BY <2>3, <2>4, <2>6, PhaseIs
    <3> QED
        BY <2>1, <3>1, MailRunsNext
  <2> QED
      BY <2>5, <2>6
<1>10. ASSUME DrainRun PROVE Mailbox!Next
  <2>1. /\ Len(batch) + 1 \in DOMAIN Mail /\ Mail' = Mailbox!Without(Mail, Len(batch) + 1)
        /\ ran' = Append(ran, Mail[Len(batch) + 1])
      BY <1>10, DrainMail
  <2>2. at = "drainRun" /\ at' = "drainRun"
      BY <1>10 DEF DrainRun
  <2>3. Stopped /\ Stopped'
      BY <1>10, <2>2, MailInvStep DEF MailInv, OrderInv
  <2>4. Phase = "stopping" /\ Phase' = "stopping"
      BY <2>2, <2>3, PhaseIs
  <2> QED
      BY <2>1, <2>4, MailRunsAny
<1>11. ASSUME UNCHANGED vars PROVE UNCHANGED Mailbox!vars
    BY <1>1, <1>11 DEF vars
<1> QED
    BY <1>3, <1>4, <1>5, <1>6, <1>7, <1>8, <1>9, <1>10, <1>11 DEF Next, LoopStep

\* However threads queue, notify and stop, the loop is a mailbox: no functor is
\* lost or run twice, and until StopInLoop they are run in the order of their
\* queueing; only the functors that StopInLoop itself runs overtake others.
THEOREM LoopIsMailbox == Spec => Mailbox!Order
<1>1. Init => Mailbox!Init /\ MailInv
  <2> SUFFICES ASSUME Init PROVE Mailbox!Init /\ MailInv
      OBVIOUS
  <2>1. batch = <<>> /\ inner = <<>> /\ pending = <<>> /\ ran = <<>> /\ at = "init" /\ quit = "no"
      BY DEF Init
  <2>2. batch \o inner \o pending = <<>>
      BY <2>1, ConcatEmptySeq
  <2>3. Mailbox!Init
      BY <2>1, <2>2 DEF Mailbox!Init
  <2>4. Known = {}
      BY <2>1 DEF Known, In
  <2> QED
      BY <2>1, <2>3, <2>4 DEF MailInv, CountInv, OrderInv
<1>2. TypeInv /\ MailInv /\ [Next]_vars => MailInv' /\ [Mailbox!Next]_(Mailbox!vars)
    BY MailInvStep, MailStep
<1> QED
    BY <1>1, <1>2, TypeInvHolds, PTL DEF Spec, Mailbox!Order
=============================================================================
