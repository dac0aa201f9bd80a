----------------------------- MODULE EventLoop -----------------------------
(***************************************************************************)
(* evpp's EventLoop (thirdpartlibs/evpp/evpp/event_loop.cc, the build with  *)
(* a std::vector under a mutex) as the loop of CAppManager (app): threads   *)
(* queue functors, the loop's thread sleeps in libevent until the pipe of   *)
(* the watcher is readable and runs them, one thread calls Stop.            *)
(*                                                                         *)
(* A functor is named by the thread that queued it and a number.  Sockets   *)
(* and timers of the same libevent loop only take the thread's time; what   *)
(* a functor does is left out, except that it may queue another functor.    *)
(* pending_functor_count_ is used for logging only.                         *)
(***************************************************************************)
EXTENDS Naturals, Sequences

CONSTANTS Posters,     \* threads that call QueueInLoop, Loop may be one
          Loop,        \* the thread that calls Run, through CAppManager::Start
          Stopper,     \* the thread that calls Stop
          MaxPosts     \* bound: functors a poster queues

ASSUME LoopThreads == Stopper \notin Posters \cup {Loop} /\ MaxPosts \in Nat

Threads == Posters \cup {Loop, Stopper}
StopFunctor == <<Stopper, 1>>        \* StopInLoop
Functors == (Posters \X (1 .. MaxPosts)) \cup {StopFunctor}

VARIABLES
    status,      \* status_
    pending,     \* pending_functors_
    notified,    \* notified_
    watcher,     \* watcher_ is set
    pipe,        \* the watcher's pipe is readable
    at,          \* where the loop's thread is
    batch,       \* functors DoPendingFunctors swapped out and has not run
    inner,       \* the same for the calls inside StopInLoop
    quit,        \* event_base_loopexit: no, asked or last iteration
    pc, posts,   \* QueueInLoop, per thread; functors queued so far
    ran,         \* the functors that were run, in order
    failed       \* the first assertion that failed or object used after its end

loopVars == <<at, batch, inner, quit, ran>>
posterVars == <<pc, posts>>
vars == <<status, pending, notified, watcher, pipe, at, batch, inner, quit,
          pc, posts, ran, failed>>

TypeOK ==
    /\ status \in {"initialized", "running", "stopping", "stopped"}
    /\ pending \in Seq(Functors) /\ batch \in Seq(Functors)
    /\ inner \in Seq(Functors) /\ ran \in Seq(Functors)
    /\ notified \in BOOLEAN /\ watcher \in BOOLEAN /\ pipe \in BOOLEAN
    /\ at \in {"init", "poll", "take", "run", "drain", "drainRun",
               "exit", "closed", "end"}
    /\ quit \in {"no", "asked", "last"}
    /\ pc \in [Threads -> {"idle", "push", "load", "store", "test", "notify"}]
    /\ posts \in [Threads -> Nat]
    /\ failed \in {"none", "Stop", "StopInLoop", "QueueInLoop", "Notify"}

\* The constructor: InitNotifyPipeWatcher has made the pipe.
Init ==
    /\ status = "initialized" /\ pending = <<>> /\ notified = FALSE
    /\ watcher = TRUE /\ pipe = FALSE
    /\ at = "init" /\ batch = <<>> /\ inner = <<>> /\ quit = "no"
    /\ pc = [t \in Threads |-> "idle"] /\ posts = [t \in Threads |-> 0]
    /\ ran = <<>> /\ failed = "none"

-----------------------------------------------------------------------------
(* QueueInLoop *)

Goto(t, where) == pc' = [pc EXCEPT ![t] = where]

\* A functor queues another one while it runs.
InFunctor == at \in {"run", "drainRun"} /\ ran # <<>>

\* The first part of QueueInLoop, under mutex_.
Push(t) ==
    /\ posts' = [posts EXCEPT ![t] = @ + 1]
    /\ pending' = Append(pending, <<t, posts[t] + 1>>)
    /\ Goto(t, "load")
    /\ UNCHANGED <<status, notified, watcher, pipe, loopVars, failed>>

QueueInLoop(t) ==
    /\ pc[t] = "idle" /\ posts[t] < MaxPosts
    /\ t = Loop => InFunctor
    /\ Push(t)

LoadNotified(t) ==
    /\ pc[t] = "load"
    /\ Goto(t, IF notified THEN "idle" ELSE "store")
    /\ UNCHANGED <<status, pending, notified, watcher, pipe, loopVars, posts, failed>>

StoreNotified(t) ==
    /\ pc[t] = "store"
    /\ notified' = TRUE
    /\ Goto(t, "test")
    /\ UNCHANGED <<status, pending, watcher, pipe, loopVars, posts, failed>>

\* if (watcher_): without one the loop must not be running.
TestWatcher(t) ==
    /\ pc[t] = "test"
    /\ Goto(t, IF watcher THEN "notify" ELSE "idle")
    /\ failed' = IF ~ watcher /\ status = "running" THEN "QueueInLoop" ELSE failed
    /\ UNCHANGED <<status, pending, notified, watcher, pipe, loopVars, posts>>

\* The pointer was tested in an earlier step and is read again here.
Notify(t) ==
    /\ pc[t] = "notify"
    /\ pipe' = (pipe \/ watcher)
    /\ failed' = IF watcher THEN failed ELSE "Notify"
    /\ Goto(t, "idle")
    /\ UNCHANGED <<status, pending, notified, watcher, loopVars, posts>>

\* Faulty variant: Stop may be called again while the loop is stopping.
StopUnchecked ==
    /\ pc[Stopper] = "idle" /\ status \in {"running", "stopping"}
    /\ status' = "stopping"
    /\ Goto(Stopper, "push")
    /\ UNCHANGED <<pending, notified, watcher, pipe, loopVars, posts, failed>>

Stop ==
    /\ pc[Stopper] = "idle" /\ status = "running"
    /\ status' = "stopping"
    /\ Goto(Stopper, "push")
    /\ UNCHANGED <<pending, notified, watcher, pipe, loopVars, posts, failed>>

StopQueues == pc[Stopper] = "push" /\ Push(Stopper)

Posting(t) == LoadNotified(t) \/ StoreNotified(t) \/ TestWatcher(t) \/ Notify(t)

-----------------------------------------------------------------------------
(* The loop's thread *)

Run ==
    /\ at = "init"
    /\ status' = "running" /\ at' = "poll"
    /\ UNCHANGED <<pending, notified, watcher, pipe, batch, inner, quit, ran,
                   posterVars, failed>>

\* PipeEventWatcher::HandlerFn empties the pipe before it calls the handler.
HandlerFn ==
    /\ at = "poll" /\ pipe
    /\ pipe' = FALSE /\ at' = "take"
    /\ quit' = IF quit = "asked" THEN "last" ELSE quit
    /\ UNCHANGED <<status, pending, notified, watcher, batch, inner, ran,
                   posterVars, failed>>

\* Faulty variant: notified_ is reset only after the functors were run.
TakeLateReset ==
    pending' = <<>> /\ UNCHANGED notified

\* Under mutex_: the functors are swapped out and a new one notifies again.
Take == pending' = <<>> /\ notified' = FALSE

\* Faulty variant: the functors are taken from the back of the vector.
DoPendingBackwards ==
    /\ at = "take"
    /\ Take /\ batch' = [i \in DOMAIN pending |-> pending[Len(pending) + 1 - i]]
    /\ at' = "run"
    /\ UNCHANGED <<status, watcher, pipe, inner, quit, ran, posterVars, failed>>

DoPendingFunctors ==
    /\ at = "take"
    /\ Take /\ batch' = pending /\ at' = "run"
    /\ UNCHANGED <<status, watcher, pipe, inner, quit, ran, posterVars, failed>>

RunFunctor ==
    /\ at = "run" /\ pc[Loop] = "idle" /\ batch # <<>>
    /\ batch' = Tail(batch) /\ ran' = Append(ran, Head(batch))
    /\ IF Head(batch) # StopFunctor THEN UNCHANGED <<at, failed>>
       ELSE /\ at' = "drain"
            /\ failed' = IF status = "stopping" THEN failed ELSE "StopInLoop"
    /\ UNCHANGED <<status, pending, notified, watcher, pipe, inner, quit, posterVars>>

BatchDone ==
    /\ at = "run" /\ pc[Loop] = "idle" /\ batch = <<>>
    /\ at' = IF quit = "last" THEN "exit" ELSE "poll"
    /\ UNCHANGED <<status, pending, notified, watcher, pipe, batch, inner, quit,
                   ran, posterVars, failed>>

\* StopInLoop calls DoPendingFunctors until nothing is pending, before and
\* after event_base_loopexit, with the outer call's functors still to come.
Drain ==
    /\ at = "drain"
    /\ Take /\ inner' = pending /\ at' = "drainRun"
    /\ UNCHANGED <<status, watcher, pipe, batch, quit, ran, posterVars, failed>>

DrainRun ==
    /\ at = "drainRun" /\ pc[Loop] = "idle" /\ inner # <<>>
    /\ inner' = Tail(inner) /\ ran' = Append(ran, Head(inner))
    /\ UNCHANGED <<status, pending, notified, watcher, pipe, at, batch, quit,
                   posterVars, failed>>

DrainTest ==
    /\ at = "drainRun" /\ pc[Loop] = "idle" /\ inner = <<>>
    /\ \/ pending # <<>> /\ at' = "drain" /\ UNCHANGED quit
       \/ pending = <<>> /\ quit = "no" /\ at' = "drain" /\ quit' = "asked"
       \/ pending = <<>> /\ quit # "no" /\ at' = "run" /\ UNCHANGED quit
    /\ UNCHANGED <<status, pending, notified, watcher, pipe, batch, inner, ran,
                   posterVars, failed>>

\* Faulty variant: the loop returns when it has nothing to do.
LoopExitIdle ==
    /\ at = "poll" /\ ~ pipe
    /\ at' = "exit"
    /\ UNCHANGED <<status, pending, notified, watcher, pipe, batch, inner, quit,
                   ran, posterVars, failed>>

\* Depending on its version libevent leaves the loop at once or after one more
\* iteration, in which HandlerFn may be called.
LoopExit ==
    /\ at = "poll" /\ quit = "asked"
    /\ at' = "exit"
    /\ UNCHANGED <<status, pending, notified, watcher, pipe, batch, inner, quit,
                   ran, posterVars, failed>>

ResetWatcher ==
    /\ at = "exit"
    /\ watcher' = FALSE /\ pipe' = FALSE /\ at' = "closed"
    /\ UNCHANGED <<status, pending, notified, batch, inner, quit, ran,
                   posterVars, failed>>

RunReturns ==
    /\ at = "closed"
    /\ status' = "stopped" /\ at' = "end"
    /\ UNCHANGED <<pending, notified, watcher, pipe, batch, inner, quit, ran,
                   posterVars, failed>>

\* CAppManager::Start calls Stop after Run has returned, main calls it once
\* more: EventLoop::Stop asserts that the loop is running.
AppStop ==
    /\ at = "end"
    /\ failed' = "Stop"
    /\ UNCHANGED <<status, pending, notified, watcher, pipe, loopVars, posterVars>>

LoopStep ==
    \/ Run \/ HandlerFn \/ DoPendingFunctors \/ RunFunctor \/ BatchDone
    \/ Drain \/ DrainRun \/ DrainTest \/ LoopExit \/ ResetWatcher \/ RunReturns

Next ==
    /\ failed = "none"
    /\ \/ \E t \in Posters : QueueInLoop(t)
       \/ \E t \in Threads : Posting(t)
       \/ Stop \/ StopQueues \/ LoopStep \/ AppStop

\* The threads are scheduled by the system; nobody has to queue or to stop.
Fairness == /\ WF_vars(failed = "none" /\ LoopStep)
            /\ WF_vars(failed = "none" /\ StopQueues)
            /\ \A t \in Threads : WF_vars(failed = "none" /\ Posting(t))

Spec == Init /\ [][Next]_vars /\ Fairness

-----------------------------------------------------------------------------

\* No wake-up is lost: while the loop sleeps with functors pending, the pipe is
\* readable or a thread is about to make it so.  QueueInLoop and
\* DoPendingFunctors touch notified_, the queue and the pipe in different orders
\* and only partly under the lock.
NoLostWakeup ==
    at = "poll" /\ quit = "no" /\ pending # <<>> =>
        pipe \/ \E t \in Threads : pc[t] \in {"load", "store", "test", "notify"}

\* Assertions fail, and the released watcher is used, only when Stop has been
\* called: a loop that is running is safe to use from any thread.
FailsOnlyAfterStop == failed # "none" => status # "running"

\* The loop implements the mailbox of EventLoopSpec: nothing is lost, run twice
\* or out of order before StopInLoop, every functor queued until then is run,
\* and a stopped loop ends.
Mailbox ==
    INSTANCE EventLoopSpec
    WITH Stop <- StopFunctor,
         queue <- batch \o inner \o pending,
         state <- IF ~ \E i \in DOMAIN ran : ran[i] = StopFunctor THEN "open"
                  ELSE IF at \in {"exit", "closed", "end"} THEN "closed"
                  ELSE "stopping"

ImplementsMailbox == Mailbox!Spec
=============================================================================
