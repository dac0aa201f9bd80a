--------------------------- MODULE EventLoopSpec ---------------------------
(***************************************************************************)
(* What evpp's EventLoop promises to ClientSession, TCPServer and TCPConn:  *)
(* a mailbox of functors.  Until it is stopped every functor queued is run, *)
(* once, in the order of queueing.  From then on the order is no longer     *)
(* kept, and a functor that comes too late is left in the mailbox.          *)
(***************************************************************************)
EXTENDS Naturals, Sequences

CONSTANTS Functors, Stop    \* Stop: the functor that runs StopInLoop

VARIABLES queue, ran, state

vars == <<queue, ran, state>>

In(s) == {s[i] : i \in DOMAIN s}
Without(s, i) == SubSeq(s, 1, i - 1) \o SubSeq(s, i + 1, Len(s))

Init == queue = <<>> /\ ran = <<>> /\ state = "open"

Queue(f) == /\ f \notin In(queue) \cup In(ran)
            /\ queue' = Append(queue, f)
            /\ UNCHANGED <<ran, state>>

RunNext == /\ state = "open" /\ queue # <<>>
           /\ queue' = Tail(queue) /\ ran' = Append(ran, Head(queue))
           /\ state' = IF Head(queue) = Stop THEN "stopping" ELSE "open"

RunAny == /\ state = "stopping"
          /\ \E i \in DOMAIN queue :
                queue' = Without(queue, i) /\ ran' = Append(ran, queue[i])
          /\ UNCHANGED state

Close == /\ state = "stopping" /\ state' = "closed"
         /\ UNCHANGED <<queue, ran>>

Next == RunNext \/ RunAny \/ Close \/ \E f \in Functors : Queue(f)

Order == Init /\ [][Next]_vars

Spec == Order /\ WF_vars(RunNext) /\ WF_vars(Close)
=============================================================================
