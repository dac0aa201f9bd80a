---------------------------- MODULE PacketQueue ----------------------------
(***************************************************************************)
(* PacketQueue of common/net/packetqueue.cc: a singly linked list through   *)
(* Packet::next_ with a head, a tail and a size.  Two queues stand for the  *)
(* source and the destination of MoveTo.  A Packet* is a number, NULL is 0. *)
(* Pop leaves the packet's next_ as it was; the caller of GetTimeoutList    *)
(* walks the list it got through next_, freeing packets as it goes.         *)
(***************************************************************************)
EXTENDS Naturals, Sequences

CONSTANTS MaxPackets,   \* bound: packets in play
          Queues,
          MaxTime       \* bound: deadlines

ASSUME QueueBounds == /\ MaxPackets \in Nat /\ MaxTime \in Nat
                      /\ Queues \cap {"list", "out"} = {}

NULL == 0
Packets == 1 .. MaxPackets

VARIABLES head, tail, size,   \* head_, tail_, size_ of each queue
          next,               \* Packet::next_
          deadline,           \* Packet::expireTime_
          list,               \* the caller's pointer into a timed-out list
          owner               \* history: the queue of a packet, "list" or "out"

vars == <<head, tail, size, next, deadline, list, owner>>

TypeOK == /\ head \in [Queues -> Packets \cup {NULL}]
          /\ tail \in [Queues -> Packets \cup {NULL}]
          /\ size \in [Queues -> 0 .. MaxPackets]
          /\ next \in [Packets -> Packets \cup {NULL}]
          /\ deadline \in [Packets -> 0 .. MaxTime]
          /\ list \in Packets \cup {NULL}
          /\ owner \in [Packets -> Queues \cup {"list", "out"}]

\* The packets from p on, along next_, that lie in the set go.
Chain(p, go) ==
    LET from[q \in Packets \cup {NULL}] ==
            IF q \in go THEN <<q>> \o from[next[q]] ELSE <<>>
    IN  from[p]

Init == /\ head = [q \in Queues |-> NULL]
        /\ tail = [q \in Queues |-> NULL]
        /\ size = [q \in Queues |-> 0]
        /\ next = [p \in Packets |-> NULL]
        /\ deadline = [p \in Packets |-> 0]
        /\ list = NULL
        /\ owner = [p \in Packets |-> "out"]

\* A packet that nobody queued yet, with the deadline its sender gave it.
Push(q, p, t) ==
    /\ owner[p] = "out"
    /\ deadline' = [deadline EXCEPT ![p] = t]
    /\ next' = [r \in Packets |-> IF r = p THEN NULL
                                  ELSE IF r = tail[q] THEN p ELSE next[r]]
    /\ head' = [head EXCEPT ![q] = IF tail[q] = NULL THEN p ELSE @]
    /\ tail' = [tail EXCEPT ![q] = p]
    /\ size' = [size EXCEPT ![q] = @ + 1]
    /\ owner' = [owner EXCEPT ![p] = q]
    /\ UNCHANGED list

\* Faulty variant: size_ is not counted down.
PopKeepsSize(q) ==
    /\ head[q] # NULL
    /\ head' = [head EXCEPT ![q] = next[@]]
    /\ tail' = [tail EXCEPT ![q] = IF next[head[q]] = NULL THEN NULL ELSE @]
    /\ owner' = [owner EXCEPT ![head[q]] = "out"]
    /\ UNCHANGED <<size, next, deadline, list>>

\* Faulty variant: tail_ is not reset when the queue becomes empty.
PopKeepsTail(q) ==
    /\ head[q] # NULL
    /\ head' = [head EXCEPT ![q] = next[@]]
    /\ size' = [size EXCEPT ![q] = @ - 1]
    /\ owner' = [owner EXCEPT ![head[q]] = "out"]
    /\ UNCHANGED <<tail, next, deadline, list>>

Pop(q) ==
    /\ head[q] # NULL
    /\ head' = [head EXCEPT ![q] = next[@]]
    /\ tail' = [tail EXCEPT ![q] = IF next[head[q]] = NULL THEN NULL ELSE @]
    /\ size' = [size EXCEPT ![q] = @ - 1]
    /\ owner' = [owner EXCEPT ![head[q]] = "out"]
    /\ UNCHANGED <<next, deadline, list>>

Clear(q) ==
    LET freed == Chain(head[q], Packets)
    IN  /\ head[q] # NULL
        /\ head' = [head EXCEPT ![q] = NULL]
        /\ tail' = [tail EXCEPT ![q] = NULL]
        /\ size' = [size EXCEPT ![q] = 0]
        /\ owner' = [p \in Packets |-> IF \E i \in DOMAIN freed : freed[i] = p
                                       THEN "out" ELSE owner[p]]
        /\ UNCHANGED <<next, deadline, list>>

MoveTo(q, d) ==
    /\ head[q] # NULL /\ q # d
    /\ head' = [head EXCEPT ![q] = NULL, ![d] = IF tail[d] = NULL THEN head[q] ELSE @]
    /\ tail' = [tail EXCEPT ![q] = NULL, ![d] = tail[q]]
    /\ size' = [size EXCEPT ![q] = 0, ![d] = @ + size[q]]
    /\ next' = [p \in Packets |-> IF p = tail[d] THEN head[q] ELSE next[p]]
    /\ owner' = [p \in Packets |-> IF owner[p] = q THEN d ELSE owner[p]]
    /\ UNCHANGED <<deadline, list>>

\* Faulty variant: a packet without a deadline counts as expired.
LapsedFromBirth(now) == {p \in Packets : deadline[p] < now}

\* The loop stops at a packet that has no deadline or one that has not passed.
Lapsed(now) == {p \in Packets : deadline[p] # 0 /\ deadline[p] < now}

\* Faulty variant: the list that is taken stays linked to the queue.
StillLinked(last) == next

\* The list that is taken ends with last.
Terminated(last) == [next EXCEPT ![last] = NULL]

GetTimeoutList(q, now) ==
    LET taken == Chain(head[q], Lapsed(now))
        last == taken[Len(taken)]
    IN  /\ list = NULL /\ taken # <<>>
        /\ list' = head[q]
        /\ head' = [head EXCEPT ![q] = next[last]]
        /\ tail' = [tail EXCEPT ![q] = IF next[last] = NULL THEN NULL ELSE @]
        /\ size' = [size EXCEPT ![q] = @ - Len(taken)]
        /\ next' = Terminated(last)
        /\ owner' = [p \in Packets |-> IF \E i \in DOMAIN taken : taken[i] = p
                                       THEN "list" ELSE owner[p]]
        /\ UNCHANGED deadline

\* CheckTimeout: packetList = packetList->GetNext(), then packet->Free().
GetNext ==
    /\ list # NULL
    /\ list' = next[list]
    /\ owner' = [owner EXCEPT ![list] = "out"]
    /\ UNCHANGED <<head, tail, size, next, deadline>>

Next == \/ GetNext
        \/ \E q \in Queues :
              \/ Pop(q) \/ Clear(q)
              \/ \E p \in Packets, t \in 0 .. MaxTime : Push(q, p, t)
              \/ \E d \in Queues : MoveTo(q, d)
              \/ \E now \in 1 .. MaxTime + 1 : GetTimeoutList(q, now)

Spec == Init /\ [][Next]_vars

-----------------------------------------------------------------------------

\* Size() and Empty(), which PostPacket reads instead of the list, agree with
\* what is linked, and a push at tail_ lands behind the last packet.
SizeAndTailAgree ==
    \A q \in Queues :
        LET linked == Chain(head[q], Packets)
        IN  /\ size[q] = Len(linked)
            /\ tail[q] = IF linked = <<>> THEN NULL ELSE linked[Len(linked)]

\* No packet hangs in two places: a packet reached from a queue or from the
\* caller's list was not freed and belongs there.
NoPacketShared ==
    /\ \A q \in Queues : LET linked == Chain(head[q], Packets)
                         IN  \A i \in DOMAIN linked : owner[linked[i]] = q
    /\ LET walked == Chain(list, Packets)
       IN  \A i \in DOMAIN walked : owner[walked[i]] = "list"

Fifo == INSTANCE PacketQueueSpec WITH
            content <- [q \in Queues |-> Chain(head[q], Packets)],
            list <- Chain(list, Packets)

\* The linked lists behave as first-in first-out queues.
ImplementsFifo == Fifo!Spec
=============================================================================
